------------------------------ MODULE Contests ------------------------------
(***************************************************************************)
(* Who sees what of a contest: one contest with one problem, one           *)
(* assignment with the same problem, the submissions to it, and every page *)
(* that is computed from them.                                             *)
(*                                                                         *)
(* While an OI contest runs nobody but an administrator may learn a        *)
(* result; while an ICPC contest is frozen nobody but the contestant may.  *)
(* That rule is written three times (in Go for a single submission, in SQL *)
(* for counts, lists and filters, and in the progress table of an          *)
(* assignment), and a dozen views rely on one of the three.  Meanwhile     *)
(* administrators move the contest's times, change its kind, drop its      *)
(* problem or delete it, and submissions that were checked before are      *)
(* stored after.                                                           *)
(*                                                                         *)
(* Simplifications.  The statements of one check, and those of one view,   *)
(* read one state.  A row's index stands for the order of created_at; the  *)
(* resolution of the clock is a minute.  Source code, messages, figures    *)
(* and the sort of the standings by name are left out; the judging of a    *)
(* submission is one step here.                                            *)
(***************************************************************************)
EXTENDS Integers, Sequences, FiniteSets, SequencesExt

CONSTANTS
    Users,          \* the contestants
    Assigned,       \* those of them the assignment is for
    Guest, Admin,   \* the other kinds of viewer
    Results,        \* what judging can answer: a status and a score
    AssignmentEnd,
    MaxTime,        \* bound: the clock
    MaxRows,        \* bound: submissions
    MaxEdits,       \* bound: updates of the contest
    NoRequest       \* no submission under way

Times    == 0..MaxTime
Never    == MaxTime + 1             \* a nil freeze time compares as this does
Queued   == [status |-> "queued", score |-> 0]
Contexts == {"none", "contest", "assignment"}
Viewers  == Users \cup {Guest, Admin}
Statuses == {r.status : r \in Results \cup {Queued}}

ASSUME ConstantsAssumption ==
    /\ Assigned \subseteq Users
    /\ Guest \notin Users /\ Admin \notin Users /\ Guest # Admin
    /\ Results \subseteq [status : STRING, score : Nat]
    /\ Queued \notin Results
    /\ NoRequest \notin Contexts
    /\ MaxTime \in Nat /\ MaxRows \in Nat /\ MaxEdits \in Nat
    /\ AssignmentEnd \in Nat

VARIABLES
    now,        \* the clock
    visible,    \* whether the problem is public
    contest,    \* the contest and the link to its problem
    rows,       \* the submissions, oldest first
    checked,    \* by user, the context of a submission that was let through
    updating,   \* the updates that have found the contest and not saved it
    edits       \* bound: updates of the contest so far

vars == <<now, visible, contest, rows, checked, updating, edits>>

Row == [user : Users, context : Contexts, at : Times,
        result : Results \cup {Queued}]

(* The schedules createContest and updateContest let through.               *)
Schedules == [kind : {"OI", "ICPC"}, start : Times, end : Times, freeze : Times \cup {Never}]

(* The freeze time left over from an ICPC contest.                          *)
KeepsFreeze == {s \in Schedules : /\ s.start < s.end
                                  /\ s.freeze # Never => s.start <= s.freeze /\ s.freeze < s.end}

Schedule == {s \in Schedules : /\ s.start < s.end
                               /\ s.freeze # Never => /\ s.kind = "ICPC"
                                                      /\ s.start <= s.freeze
                                                      /\ s.freeze < s.end}

NoContest == [stage |-> "absent", linked |-> FALSE, kind |-> "OI",
              start |-> 0, end |-> 0, freeze |-> Never]

Set(stage, linked, s) == [stage |-> stage, linked |-> linked, kind |-> s.kind,
                          start |-> s.start, end |-> s.end, freeze |-> s.freeze]

Contest == [stage : {"absent", "kept", "deleted"}, linked : BOOLEAN, kind : {"OI", "ICPC"},
            start : Times, end : Times, freeze : Times \cup {Never}]

(***************************************************************************)
(* The state of the contest, and of the problem in it                      *)
(***************************************************************************)
Kept       == contest.stage = "kept"
Unfinished == Kept /\ now < contest.end
Running    == Unfinished /\ contest.start <= now
Ended      == Kept /\ ~(now < contest.end)
Frozen     == Unfinished /\ contest.kind = "ICPC" /\ contest.freeze <= now

(* problemContestState and unfinishedContestProblemSet go by the link.      *)
InUnfinished == contest.linked /\ Unfinished
InEnded      == contest.linked /\ Ended

(***************************************************************************)
(* The rule, three times                                                   *)
(***************************************************************************)
IsContests(row) == row.context = "contest"

(* submissionViews                                                          *)
ResultShown(v, row) ==
    \/ v = Admin
    \/ ~IsContests(row) \/ ~Unfinished
    \/ contest.kind # "OI" /\ (v = row.user \/ row.at < contest.freeze)

(* visibleSubmissionResultSQL                                               *)
ResultCounts(v, row) ==
    \/ v = Admin
    \/ ~ /\ IsContests(row) /\ Kept /\ contest.end > now
         /\ \/ contest.kind = "OI"
            \/ /\ contest.kind = "ICPC"
               /\ contest.freeze # Never /\ row.at >= contest.freeze
               /\ v = Guest \/ row.user # v

(* assignmentProgressResultHidden; the rows it is given are the             *)
(* assignment's, and no row is both the assignment's and a contest's.       *)
ProgressHides(v, row) ==
    /\ v # Admin /\ IsContests(row)
    /\ Kept /\ ~Ended
    /\ contest.kind = "OI" \/ (v # row.user /\ row.at >= contest.freeze)

(***************************************************************************)
(* The views.  Each is a function of the rows rs, so that a property can   *)
(* ask what it would be with other rows.                                   *)
(***************************************************************************)
Live(row)     == row.result = Queued
Accepted(row) == row.result.status = "AC"

(* The rows of a submission list, of a page of activities or of one         *)
(* submission: the result or the word pending.                              *)
Shown(rs, v) == [i \in DOMAIN rs |-> IF ResultShown(v, rs[i]) THEN {rs[i].result} ELSE {}]

(* The list of submissions with one status.                                 *)
ListWithStatus(rs, v, status) ==
    {i \in DOMAIN rs : /\ rs[i].result.status = status
                       /\ Live(rs[i]) \/ ResultCounts(v, rs[i])}

(* What the counts of accepted submissions are made from.                   *)
Counted(rs, v) == {i \in DOMAIN rs : Accepted(rs[i]) /\ ResultCounts(v, rs[i])}

(* Accepted submissions of the problem: in all, or within one context.      *)
ProblemSubmissionStats(rs, v, contexts) == Cardinality({i \in Counted(rs, v) : rs[i].context \in contexts})

(* The profile counts what the list of submissions would show as AC.        *)
UnfilteredStats(rs, v) == {rs[i].user : i \in {j \in DOMAIN rs : Accepted(rs[j])}}

(* The profile, the list of solved problems and the global rank.            *)
UserStats(rs, v) == {rs[i].user : i \in Counted(rs, v)}

(* The number of problems done, on the page of the assignment.              *)
AssignmentDone(rs, v) == \E i \in Counted(rs, v) : rs[i].user = v /\ rs[i].context = "assignment"

(* The rows a query for one user in some contexts finds.                    *)
Mine(v, contexts, row) == row.user = v /\ row.context \in contexts

(* The label of the problem, newest submission first: ac over pending over  *)
(* tried.                                                                   *)
AddToLabel(v, row, label) ==
    CASE ~ResultShown(v, row) \/ Live(row) -> IF label = "ac" THEN "ac" ELSE "pending"
      [] OTHER -> IF Accepted(row) THEN "ac" ELSE IF label = "none" THEN "tried" ELSE label

ProblemLabel(rs, v, contexts) ==
    FoldRight(LAMBDA row, label : IF Mine(v, contexts, row) THEN AddToLabel(v, row, label) ELSE label,
              rs, "none")

(* The label within the contest: in an ICPC contest the newest submission   *)
(* decides between pending and tried, in an OI contest any result does.     *)
AddToContestLabel(v, row, label) ==
    CASE ~ResultShown(v, row) \/ Live(row) -> IF label = "none" THEN "pending" ELSE label
      [] OTHER -> IF Accepted(row) \/ label = "ac" THEN "ac"
                  ELSE IF contest.kind = "OI" \/ label = "none" THEN "tried" ELSE label

ContestLabel(rs, v) ==
    FoldRight(LAMBDA row, label : IF Mine(v, {"contest"}, row) THEN AddToContestLabel(v, row, label) ELSE label,
              rs, "none")

(* Whether the list of problems with a given label has the problem.         *)
FilterFinds(rs, v, label) ==
    LET mine   == {i \in DOMAIN rs : rs[i].user = v}
        live   == \E i \in mine : Live(rs[i])
        hidden == \E i \in mine : ~Live(rs[i]) /\ ~ResultCounts(v, rs[i])
        any    == \E i \in mine : ~Live(rs[i]) /\ ResultCounts(v, rs[i])
        ac     == mine \cap Counted(rs, v) # {}
    IN CASE label = "ac"      -> ac
         [] label = "pending" -> ~ac /\ (live \/ hidden)
         [] label = "tried"   -> any /\ ~ac /\ ~live /\ ~hidden
         [] label = "none"    -> ~any /\ ~live /\ ~hidden

(* A user's cell in the progress table of the assignment.                   *)
NoScore   == -1                     \* a nil score
EmptyCell == [status |-> "none", score |-> NoScore]

Better(cell, row) == IF row.result.score > cell.score THEN row.result.score ELSE cell.score

(* The newest submission decides.                                           *)
LastDecides(v, cell, row) ==
    IF Live(row) THEN [cell EXCEPT !.status = IF @ = "ac" THEN @ ELSE "pending"]
    ELSE [status |-> IF Accepted(row) \/ cell.status = "ac" THEN "ac" ELSE "tried",
          score  |-> Better(cell, row)]

(* While a row waits the results of others are passed over, unless accepted. *)
AddToProgress(v, cell, row) ==
    CASE ProgressHides(v, row) -> IF cell.status = "ac" THEN cell ELSE [EmptyCell EXCEPT !.status = "pending"]
      [] ~ProgressHides(v, row) /\ Live(row) -> [cell EXCEPT !.status = IF @ = "ac" THEN @ ELSE "pending"]
      [] OTHER -> IF cell.status = "pending" /\ ~Accepted(row) THEN cell
                  ELSE [status |-> IF Accepted(row) \/ cell.status = "ac" THEN "ac" ELSE "tried",
                        score  |-> Better(cell, row)]

(* The query gives no order.                                                *)
Progress(rs, v, u) ==
    FoldLeft(LAMBDA cell, row : IF Mine(u, {"assignment"}, row) THEN AddToProgress(v, cell, row) ELSE cell,
             EmptyCell, rs)

(* The home page recommends problems the viewer has not solved.             *)
HomeProblems(rs, v) ==
    /\ v = Admin \/ (visible /\ ~InUnfinished)
    /\ v \in Users => ~\E i \in DOMAIN rs : rs[i].user = v /\ Accepted(rs[i])

(***************************************************************************)
(* The standings: a line for each user who submitted in the contest        *)
(***************************************************************************)
PenalizesErrors(row) == row.result.status # "AC"

Penalizable(row) == row.result.status \notin {"AC", "CE", "SE"}

Minutes(row) == IF row.at < contest.start THEN 0 ELSE row.at - contest.start

(* contestFreezeCutoff                                                      *)
Cutoff(v) == IF v # Admin /\ Frozen THEN contest.freeze ELSE Never

IcpcNone == [submit |-> 0, pending |-> 0, wrong |-> 0, solved |-> FALSE, penalty |-> 0]

AddToIcpc(cutoff, line, row) ==
    CASE row.at >= cutoff \/ Live(row) -> [line EXCEPT !.pending = @ + 1]
      [] OTHER ->
         IF line.solved THEN [line EXCEPT !.submit = @ + 1]
         ELSE IF Accepted(row)
         THEN [line EXCEPT !.submit = @ + 1, !.solved = TRUE, !.penalty = Minutes(row) + line.wrong * 20]
         ELSE [line EXCEPT !.submit = @ + 1, !.wrong = @ + IF Penalizable(row) THEN 1 ELSE 0]

IcpcState(rs, u, cutoff) ==
    FoldLeft(LAMBDA line, row : IF Mine(u, {"contest"}, row) THEN AddToIcpc(cutoff, line, row) ELSE line,
             IcpcNone, rs)

IcpcLine(rs, u, cutoff) ==
    LET line == IcpcState(rs, u, cutoff)
    IN [total |-> line.submit, points |-> IF line.solved THEN 1 ELSE 0, penalty |-> line.penalty,
        status |-> IF line.solved THEN "ac" ELSE IF line.pending > 0 THEN "pending"
                   ELSE IF line.submit > 0 THEN "tried" ELSE "none",
        submit |-> IF line.solved THEN line.wrong + 1
                   ELSE IF line.pending > 0 THEN line.pending ELSE line.submit]

OiNone == [submit |-> 0, pending |-> 0, done |-> 0, score |-> 0, accepted |-> FALSE]

AddToOi(line, row) ==
    IF Live(row) THEN [line EXCEPT !.submit = @ + 1, !.pending = @ + 1]
    ELSE [line EXCEPT !.submit = @ + 1, !.done = @ + 1, !.accepted = @ \/ Accepted(row),
                      !.score = IF line.done = 0 \/ row.result.score > @ THEN row.result.score ELSE @]

OiState(rs, u) ==
    FoldLeft(LAMBDA line, row : IF Mine(u, {"contest"}, row) THEN AddToOi(line, row) ELSE line, OiNone, rs)

OiLine(rs, u) ==
    LET line == OiState(rs, u)
    IN [total |-> line.submit, points |-> line.score, penalty |-> 0,
        status |-> IF line.accepted THEN "ac" ELSE IF line.done > 0 THEN "tried"
                   ELSE IF line.pending > 0 THEN "pending" ELSE "none",
        submit |-> line.submit]

(* contestProblems: what the standings are about.                           *)
ProblemListed(v) == contest.linked /\ (v = Admin \/ Running \/ Ended)

(* contestRank: the lines that v gets, none for a running OI contest.       *)
Standings(rs, v) ==
    LET shown == Kept /\ ProblemListed(v) /\ (contest.kind # "OI" \/ ~Running \/ v = Admin)
        there == {u \in Users : shown /\ \E i \in DOMAIN rs : Mine(u, {"contest"}, rs[i])}
    IN [u \in there |-> IF contest.kind = "ICPC" THEN IcpcLine(rs, u, Cutoff(v)) ELSE OiLine(rs, u)]

(***************************************************************************)
(* Submissions                                                             *)
(***************************************************************************)
Init == /\ now = 0
        /\ visible \in BOOLEAN
        /\ contest = NoContest
        /\ rows = <<>>
        /\ checked = [u \in Users |-> NoRequest]
        /\ updating = 0 /\ edits = 0

(* submitContext, and for a submission outside of both contexts the check   *)
(* of the problem's visibility.                                             *)
SubmitAllowed(u, context) ==
    CASE context = "contest"    -> Running /\ contest.linked
      [] context = "assignment" -> u \in Assigned /\ now < AssignmentEnd
      [] context = "none"       -> \/ (visible \/ InEnded) /\ ~InUnfinished
                                   \/ u \in Assigned /\ AssignmentEnd <= now

CheckSubmit(u, context) ==
    /\ checked[u] = NoRequest /\ Len(rows) < MaxRows
    /\ SubmitAllowed(u, context)
    /\ checked' = [checked EXCEPT ![u] = context]
    /\ UNCHANGED <<now, visible, contest, rows, updating, edits>>

(* By the time the row is stored the contest may have ended, been changed   *)
(* or been deleted.                                                         *)
CreateSubmission(u) ==
    /\ checked[u] # NoRequest /\ Len(rows) < MaxRows
    /\ rows' = Append(rows, [user |-> u, context |-> checked[u], at |-> now, result |-> Queued])
    /\ checked' = [checked EXCEPT ![u] = NoRequest]
    /\ UNCHANGED <<now, visible, contest, updating, edits>>

Judge(i) ==
    /\ i \in DOMAIN rows /\ Live(rows[i])
    /\ \E r \in Results : rows' = [rows EXCEPT ![i].result = r]
    /\ UNCHANGED <<now, visible, contest, checked, updating, edits>>

RejudgeSubmission(i) ==
    /\ i \in DOMAIN rows
    /\ rows' = [rows EXCEPT ![i].result = Queued]
    /\ UNCHANGED <<now, visible, contest, checked, updating, edits>>

RejudgeProblem ==
    /\ rows' = [i \in DOMAIN rows |-> [rows[i] EXCEPT !.result = Queued]]
    /\ UNCHANGED <<now, visible, contest, checked, updating, edits>>

(***************************************************************************)
(* Administration and time                                                 *)
(***************************************************************************)
SetVisible ==
    /\ edits < MaxEdits /\ edits' = edits + 1
    /\ visible' = ~visible
    /\ UNCHANGED <<now, contest, rows, checked, updating>>

CreateContest ==
    /\ contest = NoContest
    /\ \E s \in Schedule, linked \in BOOLEAN :
          /\ now < s.end
          /\ contest' = Set("kept", linked, s)
    /\ UNCHANGED <<now, visible, rows, checked, updating, edits>>

(* updateContest reads the whole row and saves it later: any schedule, one  *)
(* in the past too, and any set of problems.  A contest that is deleted in  *)
(* between is there again.                                                  *)
FindContest ==
    /\ Kept /\ edits < MaxEdits
    /\ updating' = updating + 1 /\ edits' = edits + 1
    /\ UNCHANGED <<now, visible, contest, rows, checked>>

UpdateContest ==
    /\ updating > 0 /\ updating' = updating - 1
    /\ \E s \in Schedule, linked \in BOOLEAN : contest' = Set("kept", linked, s)
    /\ UNCHANGED <<now, visible, rows, checked, edits>>

(* A problem that does not exist, or a failing database.                    *)
UpdateFails ==
    /\ updating > 0 /\ updating' = updating - 1
    /\ UNCHANGED <<now, visible, contest, rows, checked, edits>>

(* The row stays, marked as deleted; the links go.  Where the contest was   *)
(* found does not matter: there is nothing to delete in one that is gone.   *)
DeleteContest ==
    /\ Kept
    /\ contest' = [contest EXCEPT !.stage = "deleted", !.linked = FALSE]
    /\ UNCHANGED <<now, visible, rows, checked, updating, edits>>

Tick ==
    /\ now < MaxTime
    /\ now' = now + 1
    /\ UNCHANGED <<visible, contest, rows, checked, updating, edits>>

Next ==
    \/ \E u \in Users : \/ \E context \in Contexts : CheckSubmit(u, context)
                        \/ CreateSubmission(u)
    \/ \E i \in 1..MaxRows : Judge(i) \/ RejudgeSubmission(i)
    \/ RejudgeProblem
    \/ SetVisible \/ CreateContest \/ DeleteContest
    \/ FindContest \/ UpdateContest \/ UpdateFails
    \/ Tick

Spec == Init /\ [][Next]_vars

(***************************************************************************)
(* Properties                                                              *)
(***************************************************************************)
(* Types; the contest's times are in order and only ICPC contests freeze.   *)
TypeOK ==
    /\ now \in Times /\ visible \in BOOLEAN
    /\ edits \in 0..MaxEdits /\ updating \in Nat
    /\ contest \in Contest
    /\ contest.stage # "absent" => contest.start < contest.end
    /\ contest.freeze # Never => contest.kind = "ICPC" /\ contest.freeze \in contest.start..contest.end - 1
    /\ rows \in Seq(Row) /\ Len(rows) <= MaxRows
    /\ checked \in [Users -> Contexts \cup {NoRequest}]

(* The results nobody but an administrator, or for a frozen one the         *)
(* contestant, may learn now.                                               *)
Secret(v, row) ==
    /\ IsContests(row) /\ ~Live(row)
    /\ v # Admin /\ Unfinished
    /\ \/ contest.kind = "OI"
       \/ v # row.user /\ contest.freeze <= row.at

(* All that the pages tell v.                                               *)
Tells(rs, v) ==
    [rows      |-> Shown(rs, v),
     lists     |-> [s \in Statuses |-> ListWithStatus(rs, v, s)],
     accepted  |-> [c \in {{"contest"}, {"assignment"}, Contexts} |-> ProblemSubmissionStats(rs, v, c)],
     solved    |-> UserStats(rs, v),
     done      |-> AssignmentDone(rs, v),
     labels    |-> <<ProblemLabel(rs, v, Contexts), ContestLabel(rs, v)>>,
     filter    |-> {label \in {"ac", "pending", "tried", "none"} : FilterFinds(rs, v, label)},
     progress  |-> [u \in Users |-> Progress(rs, v, u)],
     standings |-> Standings(rs, v)]

WithResult(i, r) == [rows EXCEPT ![i].result = r]

(* No page tells anything of a secret result: with any other result in its  *)
(* place every list, count, label and line of the standings is the same.    *)
NothingLeaks ==
    \A v \in Viewers, i \in DOMAIN rows : Secret(v, rows[i]) =>
        \A r \in Results : Tells(WithResult(i, r), v) = Tells(rows, v)

(* Nor does the home page, which leaves out the problems the viewer solved. *)
(* It asks whether the viewer has an accepted submission, and not whether   *)
(* the viewer may know.                                                     *)
HomeTellsNothing ==
    \A v \in Viewers, i \in DOMAIN rows : Secret(v, rows[i]) =>
        \A r \in Results : HomeProblems(WithResult(i, r), v) = HomeProblems(rows, v)

(* The assignment's cell of u is right for the rows in the order rs: its    *)
(* status is the label of the problem in the assignment; its score is that  *)
(* of a judged row, no less than an accepted one's, and the best of all     *)
(* unless a row waits.  (While one does, whether a result of another is     *)
(* in the score depends on the order.)                                      *)
CellIsRight(rs, u) ==
    LET cell   == Progress(rs, u, u)
        mine   == {i \in DOMAIN rows : Mine(u, {"assignment"}, rows[i])}
        judged == {i \in mine : ~Live(rows[i])}
    IN /\ cell.status = ProblemLabel(rows, u, {"assignment"})
       /\ cell.score # NoScore => \E i \in judged : rows[i].result.score = cell.score
       /\ \A i \in mine : judged = mine \/ Accepted(rows[i]) => rows[i].result.score <= cell.score

(* The contestant's status in the standings goes with the contest's label:  *)
(* OI, they are the same; ICPC, they are the same unless the status is      *)
(* pending, which without a freeze it is just when a row waits and none is  *)
(* accepted (the label goes by the newest row).                             *)
StatusIsLabel(u) ==
    LET status  == Standings(rows, u)[u].status
        label   == ContestLabel(rows, u)
        waiting == \E i \in DOMAIN rows : Mine(u, {"contest"}, rows[i]) /\ Live(rows[i])
    IN /\ contest.kind = "OI" \/ status # "pending" => status = label
       /\ contest.kind = "ICPC" /\ Cutoff(u) = Never =>
             (status = "pending" <=> waiting /\ label # "ac")

(* The pages agree: the rule is the same in Go, SQL and the progress table; *)
(* a list of problems by label finds the problem under the label it shows;  *)
(* the assignment's table, label and count agree, the table whether the     *)
(* query gives the rows oldest or newest first; the contest's label goes    *)
(* with the status in the standings.                                        *)
ViewsAgree ==
    /\ \A v \in Viewers, i \in DOMAIN rows :
          /\ ResultShown(v, rows[i]) = ResultCounts(v, rows[i])
          /\ ResultShown(v, rows[i]) = ~ProgressHides(v, rows[i])
    /\ \A u \in Users :
          /\ \A label \in {"ac", "pending", "tried", "none"} :
                FilterFinds(rows, u, label) <=> ProblemLabel(rows, u, Contexts) = label
          /\ CellIsRight(rows, u) /\ CellIsRight(Reverse(rows), u)
          /\ AssignmentDone(rows, u) <=> Progress(rows, u, u).status = "ac"
          /\ u \in DOMAIN Standings(rows, u) => StatusIsLabel(u)

(* The lines of the standings are what the rules of the two kinds say.      *)
(* ICPC: of the rows judged and before the freeze, the first accepted one   *)
(* counts, at its minute plus twenty for each wrong one before it.  OI: the *)
(* best score of any judged row, accepted if one of them is.                *)
StandingsAreRight ==
    \A v \in {Guest, Admin} : \A u \in DOMAIN Standings(rows, v) :
        LET line   == Standings(rows, v)[u]
            mine   == {i \in DOMAIN rows : rows[i].user = u /\ IsContests(rows[i])}
            known  == {i \in mine : ~Live(rows[i]) /\ (contest.kind = "OI" \/ rows[i].at < Cutoff(v))}
            solved == {i \in known : Accepted(rows[i])}
            First  == CHOOSE i \in solved : \A j \in solved : i <= j
            wrong  == {j \in known : rows[j].result.status \notin {"CE", "SE"} /\ j < First}
        IN /\ (line.status = "ac") = (solved # {})
           /\ line.status = "pending" => known # mine
           /\ line.status = "none" => mine = {}
           /\ IF contest.kind = "ICPC"
              THEN /\ line.points = IF solved # {} THEN 1 ELSE 0
                   /\ solved # {} => /\ line.penalty = Minutes(rows[First]) + 20 * Cardinality(wrong)
                                     /\ line.submit = Cardinality(wrong) + 1
                   /\ line.total = Cardinality(known)
                   /\ solved = {} => line.penalty = 0
              ELSE /\ \A i \in known : rows[i].result.score <= line.points
                   /\ known # {} => \E i \in known : rows[i].result.score = line.points
                   /\ line.total = Cardinality(mine)
=============================================================================
