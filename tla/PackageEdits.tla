---------------------------- MODULE PackageEdits ----------------------------
(***************************************************************************)
(* What the editors of a problem package are promised.  A package has      *)
(* files, each in some version, and a score for each test case it has all  *)
(* files of.  Every change anyone ever sees is one request, granted as a   *)
(* whole and applied to the package as it was just before: no granted edit *)
(* is lost, nothing deleted comes back.  The one exception are saves of    *)
(* the problem's other settings, which may put back a package they have    *)
(* seen.                                                                   *)
(***************************************************************************)
CONSTANTS Files, Cases, Needs, Versions, Points, DefaultScore, Edits, Savers, NoOp

Contents == UNION {[F -> Versions] : F \in SUBSET Files}

Op == [kind: {"upload"}, files: Contents] \cup
      [kind: {"delete"}, gone: SUBSET Files] \cup
      [kind: {"score"}, case: Cases, points: Points]

VARIABLES
    package,    \* of each file in the package, its version; of each case, its score
    asked,      \* what each editor is asking for
    held        \* the package each saver of other settings has seen

vars == <<package, asked, held>>

Nothing == [files |-> [f \in {} |-> 0], scores |-> [c \in {} |-> DefaultScore]]

Init ==
    /\ package = Nothing
    /\ asked = [e \in Edits |-> NoOp]
    /\ held = [s \in Savers |-> Nothing]

Has(c, files) == Needs[c] \subseteq files

(* New files; cases they complete join, and the others keep their scores.  *)
Upload(files) ==
    LET all == DOMAIN package.files \cup DOMAIN files
    IN [files |-> [f \in all |-> IF f \in DOMAIN files THEN files[f] ELSE package.files[f]],
        scores |-> [c \in {c \in Cases : Has(c, all)} |->
                      IF c \in DOMAIN package.scores THEN package.scores[c] ELSE DefaultScore]]

(* A case goes with any of its files.                                      *)
Delete(gone) ==
    LET left == DOMAIN package.files \ gone
    IN [files |-> [f \in left |-> package.files[f]],
        scores |-> [c \in {c \in DOMAIN package.scores : Has(c, left)} |-> package.scores[c]]]

Score(c, points) == [package EXCEPT !.scores[c] = points]

Ask(e, op) ==
    /\ asked[e] = NoOp
    /\ asked' = [asked EXCEPT ![e] = op]
    /\ UNCHANGED <<package, held>>

Grant(e) ==
    /\ asked[e] # NoOp
    /\ package' = CASE asked[e].kind = "upload" -> Upload(asked[e].files)
                    [] asked[e].kind = "delete" -> Delete(asked[e].gone)
                    [] asked[e].kind = "score"  -> Score(asked[e].case, asked[e].points)
    /\ asked' = [asked EXCEPT ![e] = NoOp]
    /\ UNCHANGED held

Refuse(e) ==
    /\ asked' = [asked EXCEPT ![e] = NoOp]
    /\ UNCHANGED <<package, held>>

Edit == \E e \in Edits : Grant(e) \/ Refuse(e) \/ \E op \in Op : Ask(e, op)

See(s)     == held' = [held EXCEPT ![s] = package] /\ UNCHANGED <<package, asked>>
Forget(s)  == held' = [held EXCEPT ![s] = Nothing] /\ UNCHANGED asked
PutBack(s) == package' = held[s] /\ Forget(s)

(* What editors are told: saves leave the package alone.                    *)
Promised == Init /\ [][Edit \/ \E s \in Savers : See(s) \/ (Forget(s) /\ UNCHANGED package)]_vars

(* What they get.                                                           *)
Spec == Init /\ [][Edit \/ \E s \in Savers : See(s) \/ PutBack(s)]_vars

=============================================================================
