----------------------------- MODULE FencedQueue -----------------------------
(***************************************************************************)
(* What the judging queue promises.  Work is handed out under tickets,     *)
(* numbered per submission.  Every ticket is handed out once and comes     *)
(* back at most once, and only the latest ticket of a submission can       *)
(* decide its verdict, once; requeueing voids all earlier tickets.         *)
(***************************************************************************)
EXTENDS Naturals

CONSTANTS Submissions, Verdicts

VARIABLES
    state,      \* "absent", "waiting" or the verdict
    ticket,     \* the latest ticket number of each submission
    out         \* the tickets handed out and not yet returned or torn up

vars == <<state, ticket, out>>

Init ==
    /\ state = [s \in Submissions |-> "absent"]
    /\ ticket = [s \in Submissions |-> 0]
    /\ out = {}

Enqueue(s) ==
    /\ state[s] = "absent"
    /\ state' = [state EXCEPT ![s] = "waiting"]
    /\ UNCHANGED <<ticket, out>>

Issue(s) ==
    /\ state[s] = "waiting"
    /\ ticket' = [ticket EXCEPT ![s] = @ + 1]
    /\ out' = out \cup {[sub |-> s, attempt |-> ticket[s] + 1]}
    /\ UNCHANGED state

Decide(t, v) ==
    /\ t \in out
    /\ t.attempt = ticket[t.sub]
    /\ state[t.sub] = "waiting"
    /\ state' = [state EXCEPT ![t.sub] = v]
    /\ out' = out \ {t}
    /\ UNCHANGED ticket

TearUp(t) ==
    /\ t \in out
    /\ out' = out \ {t}
    /\ UNCHANGED <<state, ticket>>

Requeue(ids) ==
    /\ \A s \in ids : state[s] # "absent"
    /\ state' = [s \in Submissions |-> IF s \in ids THEN "waiting" ELSE state[s]]
    /\ ticket' = [s \in Submissions |-> IF s \in ids THEN ticket[s] + 1 ELSE ticket[s]]
    /\ UNCHANGED out

Next ==
    \/ \E s \in Submissions : Enqueue(s) \/ Issue(s)
    \/ \E t \in out : TearUp(t) \/ \E v \in Verdicts : Decide(t, v)
    \/ \E ids \in SUBSET Submissions : Requeue(ids)

Spec == Init /\ [][Next]_vars
=============================================================================
