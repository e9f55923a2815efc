--------------------------- MODULE SubmissionLease ---------------------------
(***************************************************************************)
(* The judging queue of the server and the judger workers that drain it.   *)
(*                                                                         *)
(* A submission row is the only authority: a worker that asks for work     *)
(* gets the oldest leasable row under a fresh attempt number, keeps the    *)
(* lease alive with heartbeats, and posts one result.  The server accepts  *)
(* a heartbeat or a result only if it names the row's current attempt.     *)
(* Requests may be lost or answered arbitrarily late, leases expire,       *)
(* workers crash, and administrators requeue rows at any moment.           *)
(*                                                                         *)
(* Simplifications.  Time is reduced to the order of events: a lease is    *)
(* live until LeaseExpires, which may happen at any moment.  A request     *)
(* handler that works inside one database transaction holding the row's    *)
(* FOR UPDATE lock takes effect at its commit; a rejudge is two steps      *)
(* because its DELETE runs before it holds that lock.  Redis is written    *)
(* after the commit, hence the separate set of effects.                    *)
(***************************************************************************)
EXTENDS Naturals, FiniteSets

CONSTANTS
    Submissions,    \* submission ids, in the order of created_at
    Workers,        \* worker loops, over all judger processes
    Judgers,        \* judger rows
    JudgerOf,       \* the judger row each worker loop authenticates as
    LocalJudgers,   \* the judgers that connect over direct loopback
    Problems,
    ProblemOf,      \* the problem each submission answers
    Rejudges,       \* rejudge requests administrators will make
    MaxAttempt,     \* bound: faults strike a row only below this attempt
    MaxInFlight,    \* bound: heartbeats in flight at once
    NoJudger,
    NoTask

ASSUME ConstantsAssumption ==
    /\ Submissions \subseteq Nat
    /\ JudgerOf \in [Workers -> Judgers]
    /\ LocalJudgers \subseteq Judgers
    /\ ProblemOf \in [Submissions -> Problems]
    /\ MaxAttempt \in Nat
    /\ MaxInFlight \in Nat
    /\ NoJudger \notin Judgers

(***************************************************************************)
(* A verdict either comes with one row per test case ("judged") or without *)
(* any ("error"): CE, and the SE a worker reports when it could not run    *)
(* the task at all.                                                        *)
(***************************************************************************)
Verdicts == {"judged", "error"}
Live     == {"queued", "judging"}
Statuses == {"absent"} \cup Live \cup Verdicts

Task      == [sub: Submissions, attempt: Nat]
Heartbeat == [sub: Submissions, attempt: Nat, judger: Judgers]
Result    == [sub: Submissions, attempt: Nat, judger: Judgers, verdict: Verdicts]
Effect    == [kind: {"save", "delete"}, sub: Submissions, attempt: Nat]
Phases    == {"idle", "leased", "prepare", "running", "posting"}

ASSUME NoTaskAssumption == NoTask \notin Task

VARIABLES
    status,     \* submissions.status
    attempt,    \* submissions.attempt
    owner,      \* submissions.judger_id
    lease,      \* submissions.lease_until, against the clock
    scoredBy,   \* the attempt that filled score, message, time and memory; 0: cleared
    cases,      \* the attempt whose result inserted the case rows; 0: no rows
    progress,   \* the attempt the cached progress entry belongs to; 0: no entry
    phase,      \* what each worker loop is doing
    task,       \* the task it works on
    beats,      \* heartbeats in flight
    results,    \* results in flight
    effects,    \* cache writes a handler still has to make after its commit
    rejudge     \* rejudge requests: how far, of which rows, and the case rows deleted

row     == <<status, attempt, owner, lease, scoredBy, cases>>
workers == <<phase, task>>
wire    == <<beats, results>>
cache   == <<progress, effects>>
vars    == <<row, workers, wire, cache, rejudge>>

TypeOK ==
    /\ status \in [Submissions -> Statuses]
    /\ attempt \in [Submissions -> Nat]
    /\ owner \in [Submissions -> Judgers \cup {NoJudger}]
    /\ lease \in [Submissions -> {"none", "live", "expired"}]
    /\ scoredBy \in [Submissions -> Nat]
    /\ cases \in [Submissions -> Nat]
    /\ progress \in [Submissions -> Nat]
    /\ phase \in [Workers -> Phases]
    /\ task \in [Workers -> Task \cup {NoTask}]
    /\ \A w \in Workers : phase[w] = "idle" <=> task[w] = NoTask
    /\ beats \subseteq Heartbeat
    /\ results \subseteq Result
    /\ effects \subseteq Effect
    /\ rejudge \in [Rejudges -> [step: {"idle", "deleted", "done"},
                                 ids: SUBSET Submissions,
                                 seen: [Submissions -> Nat]]]

Init ==
    /\ status = [s \in Submissions |-> "absent"]
    /\ attempt = [s \in Submissions |-> 0]
    /\ owner = [s \in Submissions |-> NoJudger]
    /\ lease = [s \in Submissions |-> "none"]
    /\ scoredBy = [s \in Submissions |-> 0]
    /\ cases = [s \in Submissions |-> 0]
    /\ progress = [s \in Submissions |-> 0]
    /\ phase = [w \in Workers |-> "idle"]
    /\ task = [w \in Workers |-> NoTask]
    /\ beats = {}
    /\ results = {}
    /\ effects = {}
    /\ rejudge = [r \in Rejudges |-> [step |-> "idle", ids |-> {},
                                      seen |-> [s \in Submissions |-> 0]]]

-----------------------------------------------------------------------------
(***************************************************************************)
(* The server: leasing.                                                    *)
(***************************************************************************)

(* Faults are what the environment does: each costs an attempt in the end.  *)
MayFail(s) == attempt[s] < MaxAttempt

Submit(s) ==
    /\ status[s] = "absent"
    /\ status' = [status EXCEPT ![s] = "queued"]
    /\ UNCHANGED <<attempt, owner, lease, scoredBy, cases, workers, wire, cache, rejudge>>

(* Mutation of Leasable: an expired lease is never taken over.              *)
LeasableWhenQueued(s) == status[s] = "queued"

Leasable(s) ==
    \/ status[s] = "queued"
    \/ status[s] = "judging" /\ lease[s] # "live"

(* SKIP LOCKED passes over a row another transaction may hold locked.      *)
MaybeLocked(s) ==
    \/ \E m \in beats \cup results : m.sub = s
    \/ \E r \in Rejudges : rejudge[r].step = "deleted" /\ s \in rejudge[r].ids

(* Mutation of NextAttempt: a retry runs under the number it had before.    *)
FirstAttemptOnly(s) == IF attempt[s] = 0 THEN 1 ELSE attempt[s]

(* The attempt number a lease is handed out under.                          *)
NextAttempt(s) == attempt[s] + 1

TryLease(w) ==
    /\ phase[w] = "idle"
    /\ \E s \in Submissions :
        /\ Leasable(s)
        /\ \A older \in Submissions :
             older < s /\ Leasable(older) => MaybeLocked(older)
        /\ status' = [status EXCEPT ![s] = "judging"]
        /\ attempt' = [attempt EXCEPT ![s] = NextAttempt(s)]
        /\ owner' = [owner EXCEPT ![s] = JudgerOf[w]]
        /\ lease' = [lease EXCEPT ![s] = "live"]
        /\ phase' = [phase EXCEPT ![w] = "leased"]
        /\ task' = [task EXCEPT ![w] = [sub |-> s, attempt |-> NextAttempt(s)]]
    /\ UNCHANGED <<scoredBy, cases, wire, cache, rejudge>>

(* The payload is built after the lease has committed.                     *)
BuildPayload(w) ==
    /\ phase[w] = "leased"
    /\ progress' = [progress EXCEPT ![task[w].sub] = task[w].attempt]
    /\ phase' = [phase EXCEPT ![w] = "prepare"]
    /\ UNCHANGED <<row, task, wire, effects, rejudge>>

(* Language, problem or package is missing: the lease is given back, if the *)
(* row still is as the lease left it.                                       *)
BuildPayloadFails(w) ==
    /\ phase[w] = "leased"
    /\ LET s == task[w].sub
           mine == /\ status[s] = "judging"
                   /\ attempt[s] = task[w].attempt
                   /\ owner[s] = JudgerOf[w]
       IN /\ MayFail(s)
          /\ status' = IF mine THEN [status EXCEPT ![s] = "queued"] ELSE status
          /\ owner' = IF mine THEN [owner EXCEPT ![s] = NoJudger] ELSE owner
          /\ lease' = IF mine THEN [lease EXCEPT ![s] = "none"] ELSE lease
    /\ phase' = [phase EXCEPT ![w] = "idle"]
    /\ task' = [task EXCEPT ![w] = NoTask]
    /\ UNCHANGED <<attempt, scoredBy, cases, wire, cache, rejudge>>

LeaseExpires(s) ==
    /\ lease[s] = "live"
    /\ MayFail(s)
    /\ lease' = [lease EXCEPT ![s] = "expired"]
    /\ UNCHANGED <<status, attempt, owner, scoredBy, cases, workers, wire, cache, rejudge>>

-----------------------------------------------------------------------------
(***************************************************************************)
(* A judger worker: one task at a time, heartbeats beside it, one result.  *)
(***************************************************************************)

Working == {"prepare", "running", "posting"}

Post(w, v) ==
    /\ phase' = [phase EXCEPT ![w] = "posting"]
    /\ results' = results \cup {[sub |-> task[w].sub, attempt |-> task[w].attempt,
                                 judger |-> JudgerOf[w], verdict |-> v]}
    /\ UNCHANGED <<row, task, beats, cache, rejudge>>

(* The package endpoint serves only the holder of a live lease.            *)
FetchPackage(w) ==
    /\ phase[w] = "prepare"
    /\ LET s == task[w].sub
       IN /\ status[s] = "judging"
          /\ attempt[s] = task[w].attempt
          /\ lease[s] = "live"
          /\ JudgerOf[w] \in LocalJudgers \/ owner[s] = JudgerOf[w]
    /\ phase' = [phase EXCEPT ![w] = "running"]
    /\ UNCHANGED <<row, task, wire, cache, rejudge>>

(* An invalid task and a failed download both end in a system error.       *)
FetchFails(w) == phase[w] = "prepare" /\ Post(w, "error")

FinishRun(w) == phase[w] = "running" /\ \E v \in Verdicts : Post(w, v)

Beat(w) ==
    /\ phase[w] \in Working
    /\ Cardinality(beats) < MaxInFlight
    /\ beats' = beats \cup {[sub |-> task[w].sub, attempt |-> task[w].attempt,
                             judger |-> JudgerOf[w]]}
    /\ UNCHANGED <<row, workers, results, cache, rejudge>>

(* Mutation of PostReturns: the loop forgets to let go of the task.         *)
PostReturnsHolding(w) ==
    /\ phase[w] = "posting"
    /\ phase' = [phase EXCEPT ![w] = "idle"]
    /\ UNCHANGED <<row, task, wire, cache, rejudge>>

(* The answer, an error or the client's timeout: the task is dropped.      *)
PostReturns(w) ==
    /\ phase[w] = "posting"
    /\ phase' = [phase EXCEPT ![w] = "idle"]
    /\ task' = [task EXCEPT ![w] = NoTask]
    /\ UNCHANGED <<row, wire, cache, rejudge>>

(* The process dies, or the answer to its lease request never arrives.     *)
Crash(w) ==
    /\ phase[w] # "idle"
    /\ MayFail(task[w].sub)
    /\ phase' = [phase EXCEPT ![w] = "idle"]
    /\ task' = [task EXCEPT ![w] = NoTask]
    /\ UNCHANGED <<row, wire, cache, rejudge>>

-----------------------------------------------------------------------------
(***************************************************************************)
(* The server: requests from judgers.                                      *)
(***************************************************************************)

(* A direct loopback request is not asked whose task it is.                *)
Owns(m) == m.judger \in LocalJudgers \/ owner[m.sub] = m.judger

(* Mutation of Current: the handlers trust the ownership check alone.       *)
AnyAttempt(m) == status[m.sub] # "absent"

Current(m) == m.attempt = attempt[m.sub]

HeartbeatTx(m) ==
    /\ m \in beats
    /\ Current(m) /\ Owns(m)
    /\ beats' = beats \ {m}
    /\ lease' = [lease EXCEPT ![m.sub] = "live"]
    /\ effects' = effects \cup {[kind |-> "save", sub |-> m.sub, attempt |-> m.attempt]}
    /\ UNCHANGED <<status, attempt, owner, scoredBy, cases, workers, results, progress, rejudge>>

ResultTx(m) ==
    /\ m \in results
    /\ Current(m) /\ Owns(m)
    /\ results' = results \ {m}
    /\ status' = [status EXCEPT ![m.sub] = m.verdict]
    /\ owner' = [owner EXCEPT ![m.sub] = NoJudger]
    /\ lease' = [lease EXCEPT ![m.sub] = "none"]
    /\ scoredBy' = [scoredBy EXCEPT ![m.sub] = m.attempt]
    /\ cases' = IF m.verdict = "judged" THEN [cases EXCEPT ![m.sub] = m.attempt] ELSE cases
    /\ effects' = effects \cup {[kind |-> "delete", sub |-> m.sub, attempt |-> 0]}
    /\ UNCHANGED <<attempt, workers, beats, progress, rejudge>>

(* A stale attempt is acknowledged and ignored, a foreign judger refused.  *)
Refuse(m) ==
    /\ m \in beats \cup results
    /\ ~(Current(m) /\ Owns(m))
    /\ beats' = beats \ {m}
    /\ results' = results \ {m}
    /\ UNCHANGED <<row, workers, cache, rejudge>>

(* A request that never reaches the handler, or whose transaction fails.   *)
Lose(m) ==
    /\ m \in beats \cup results
    /\ MayFail(m.sub)
    /\ beats' = beats \ {m}
    /\ results' = results \ {m}
    /\ UNCHANGED <<row, workers, cache, rejudge>>

(* The cache write that follows a commit; its error is ignored.            *)
ApplyEffect(e) ==
    /\ e \in effects
    /\ effects' = effects \ {e}
    /\ \/ progress' = [progress EXCEPT ![e.sub] = IF e.kind = "save" THEN e.attempt ELSE 0]
       \/ UNCHANGED progress
    /\ UNCHANGED <<row, workers, wire, rejudge>>

ProgressExpires(s) ==
    /\ progress[s] # 0
    /\ progress' = [progress EXCEPT ![s] = 0]
    /\ UNCHANGED <<row, workers, wire, effects, rejudge>>

-----------------------------------------------------------------------------
(***************************************************************************)
(* The server: rejudging one submission, or all submissions of a problem.  *)
(***************************************************************************)

Existing == {s \in Submissions : status[s] # "absent"}

RejudgeTargets ==
    {{s} : s \in Existing} \cup
    {{s \in Existing : ProblemOf[s] = p} : p \in Problems}

(* DELETE FROM cases: it sees the committed case rows, and no lock keeps a  *)
(* result from committing others before the UPDATE.                        *)
RejudgeDelete(r, ids) ==
    /\ rejudge[r].step = "idle"
    /\ ids # {}
    /\ rejudge' = [rejudge EXCEPT ![r] =
                     [step |-> "deleted", ids |-> ids,
                      seen |-> [s \in Submissions |-> IF s \in ids THEN cases[s] ELSE 0]]]
    /\ UNCHANGED <<row, workers, wire, cache>>

(* Mutation of RejudgedAttempt: only a lease moves the attempt number.      *)
SameAttempt(s) == attempt[s]

(* The attempt number a requeued row waits under.                           *)
RejudgedAttempt(s) == attempt[s] + 1

(* UPDATE submissions, waiting for the row locks, and COMMIT.              *)
RejudgeCommit(r) ==
    LET ids == rejudge[r].ids IN
    /\ rejudge[r].step = "deleted"
    /\ status' = [s \in Submissions |-> IF s \in ids THEN "queued" ELSE status[s]]
    /\ attempt' = [s \in Submissions |-> IF s \in ids THEN RejudgedAttempt(s) ELSE attempt[s]]
    /\ owner' = [s \in Submissions |-> IF s \in ids THEN NoJudger ELSE owner[s]]
    /\ lease' = [s \in Submissions |-> IF s \in ids THEN "none" ELSE lease[s]]
    /\ scoredBy' = [s \in Submissions |-> IF s \in ids THEN 0 ELSE scoredBy[s]]
    /\ cases' = [s \in Submissions |->
                   IF s \in ids /\ cases[s] = rejudge[r].seen[s] THEN 0 ELSE cases[s]]
    /\ effects' = effects \cup {[kind |-> "delete", sub |-> s, attempt |-> 0] : s \in ids}
    /\ rejudge' = [rejudge EXCEPT ![r] = [step |-> "done", ids |-> {},
                                          seen |-> [s \in Submissions |-> 0]]]
    /\ UNCHANGED <<workers, wire, progress>>

(* The transaction fails, for instance as the victim of a deadlock with a  *)
(* result that replaces the same case rows.                                *)
RejudgeAborts(r) ==
    /\ rejudge[r].step = "deleted"
    /\ rejudge' = [rejudge EXCEPT ![r] = [step |-> "done", ids |-> {},
                                          seen |-> [s \in Submissions |-> 0]]]
    /\ UNCHANGED <<row, workers, wire, cache>>

-----------------------------------------------------------------------------

ServerStep ==
    \/ \E s \in Submissions : Submit(s) \/ LeaseExpires(s) \/ ProgressExpires(s)
    \/ \E m \in beats : HeartbeatTx(m)
    \/ \E m \in results : ResultTx(m)
    \/ \E m \in beats \cup results : Refuse(m) \/ Lose(m)
    \/ \E e \in effects : ApplyEffect(e)

RejudgeStep ==
    \E r \in Rejudges :
        \/ RejudgeCommit(r) \/ RejudgeAborts(r)
        \/ \E ids \in RejudgeTargets : RejudgeDelete(r, ids)

WorkerStep ==
    \E w \in Workers :
        \/ TryLease(w) \/ BuildPayload(w) \/ BuildPayloadFails(w)
        \/ FetchPackage(w) \/ FetchFails(w) \/ FinishRun(w)
        \/ Beat(w) \/ PostReturns(w) \/ Crash(w)

Next == ServerStep \/ RejudgeStep \/ WorkerStep

Spec == Init /\ [][Next]_vars

-----------------------------------------------------------------------------
(***************************************************************************)
(* Properties.                                                             *)
(***************************************************************************)

Finished(s) == status[s] \in Verdicts

(* The workers that hold a task they have not answered yet.                *)
Unanswered == {"leased", "prepare", "running"}

(* A finished row shows the answer to its current attempt and belongs to   *)
(* nobody; a row that is still to be judged shows no answer at all.  An    *)
(* administrator's rejudge thus never resurfaces an earlier verdict.       *)
VerdictIsCurrent ==
    \A s \in Submissions :
        /\ Finished(s) => scoredBy[s] = attempt[s] /\ owner[s] = NoJudger
        /\ ~Finished(s) => scoredBy[s] = 0

(* No two workers ever judge under the same attempt of the same row, and   *)
(* none judges under an attempt that has already been answered: the number *)
(* tryLease hands out is a fencing token.                                  *)
AttemptIsExclusive ==
    /\ \A v, w \in Workers :
         phase[v] \in Unanswered /\ phase[w] \in Unanswered /\ task[v] = task[w] => v = w
    /\ \A w \in Workers, m \in results :
         phase[w] \in Unanswered =>
             ~(task[w].sub = m.sub /\ task[w].attempt = m.attempt)

(* A verdict that has case rows is shown with the rows of its own attempt. *)
CasesMatchVerdict ==
    \A s \in Submissions : status[s] = "judged" => cases[s] = attempt[s]

(* The progress a reader is shown for a live row.                          *)
ShowsProgress(s) ==
    status[s] \in Live /\ progress[s] # 0 /\ progress[s] = attempt[s]

(* Progress is shown only while some judger holds the row: a queued row,   *)
(* requeued by a rejudge or by a failed payload, never shows the progress  *)
(* of the task it was taken from, however late that task's heartbeats and  *)
(* their cache writes arrive.                                              *)
ShownProgressIsOwned ==
    \A s \in Submissions : ShowsProgress(s) => owner[s] # NoJudger

(* A queued row has no owner and no lease, although the heartbeat handler  *)
(* renews the lease of whatever row has the heartbeat's attempt.           *)
QueuedIsUnleased ==
    \A s \in Submissions :
        status[s] = "queued" => owner[s] = NoJudger /\ lease[s] = "none"

(* The verdict recorded for a live row was posted by the judger the row    *)
(* names as owner, although a local judger's ownership is never checked.   *)
VerdictFromOwner ==
    [][\A s \in Submissions :
          status[s] \in Live /\ status'[s] \in Verdicts =>
              \E m \in results : /\ m.sub = s /\ m.attempt = attempt[s]
                                 /\ m.judger = owner[s] /\ m.verdict = status'[s]]_vars

(* Once a row shows a verdict, nothing a judger does changes the row's     *)
(* verdict or its case rows: only a rejudge does, by requeueing it under a *)
(* later attempt.                                                          *)
VerdictIsFinal ==
    [][\A s \in Submissions :
          Finished(s) =>
              \/ status'[s] = status[s] /\ scoredBy'[s] = scoredBy[s] /\ cases'[s] = cases[s]
              \/ status'[s] = "queued" /\ attempt'[s] > attempt[s]]_vars

(* What rejudge_test.go expects of a rejudged row: it has no case rows.    *)
RejudgeClearsCases ==
    \A s \in Submissions : status[s] = "queued" => cases[s] = 0

(***************************************************************************)
(* The queue implements the abstract ticket queue: an attempt number is a  *)
(* ticket, out while a worker holds it unanswered or its result is in      *)
(* flight.                                                                 *)
(***************************************************************************)
QueueState ==
    [s \in Submissions |-> IF status[s] \in Live THEN "waiting" ELSE status[s]]

TicketsOut ==
    {task[w] : w \in {x \in Workers : phase[x] \in Unanswered}} \cup
    {[sub |-> m.sub, attempt |-> m.attempt] : m \in results}

Tickets == INSTANCE FencedQueue WITH state <- QueueState, ticket <- attempt, out <- TicketsOut

(* Leases, heartbeats, retries, results and rejudges together behave as a  *)
(* queue whose every ticket decides at most one verdict, and only while it *)
(* is the latest of its submission.                                        *)
ImplementsTickets == Tickets!Spec

(***************************************************************************)
(* The inductive invariant behind the properties above.                    *)
(***************************************************************************)

(* Attempt numbers in circulation were handed out by a lease.              *)
Bounded ==
    /\ \A w \in Workers : phase[w] # "idle" => task[w].attempt \in 1 .. attempt[task[w].sub]
    /\ \A m \in beats : m.attempt \in 1 .. attempt[m.sub]
    /\ \A m \in results : m.attempt \in 1 .. attempt[m.sub]
    /\ \A e \in effects : e.attempt <= attempt[e.sub]
    /\ \A s \in Submissions : progress[s] <= attempt[s]

(* Each was handed to one worker, which answers it at most once.           *)
HandedOutOnce ==
    /\ \A v, w \in Workers :
         phase[v] # "idle" /\ phase[w] # "idle" /\ task[v] = task[w] => v = w
    /\ \A w \in Workers, m \in results :
         phase[w] \in Unanswered =>
             ~(task[w].sub = m.sub /\ task[w].attempt = m.attempt)
    /\ \A m, n \in results : m.sub = n.sub /\ m.attempt = n.attempt => m = n

(* Whoever may still answer the current attempt owns the row.              *)
HolderOwnsRow ==
    /\ \A w \in Workers :
         phase[w] \in Unanswered /\ task[w].attempt = attempt[task[w].sub] =>
             status[task[w].sub] = "judging" /\ owner[task[w].sub] = JudgerOf[w]
    /\ \A m \in results :
         m.attempt = attempt[m.sub] => status[m.sub] = "judging" /\ owner[m.sub] = m.judger

(* A payload still being built has no heartbeat and no progress yet.       *)
LeasedIsSilent ==
    \A w \in Workers : phase[w] = "leased" =>
        /\ \A m \in beats : ~(m.sub = task[w].sub /\ m.attempt = task[w].attempt)
        /\ \A e \in effects : ~(e.sub = task[w].sub /\ e.attempt = task[w].attempt)
        /\ progress[task[w].sub] # task[w].attempt

(* Nobody works under the attempt number a queued row waits with.          *)
QueuedIsSilent ==
    \A s \in Submissions : status[s] = "queued" =>
        /\ owner[s] = NoJudger /\ lease[s] = "none"
        /\ \A w \in Workers : phase[w] # "idle" =>
               ~(task[w].sub = s /\ task[w].attempt = attempt[s])
        /\ \A m \in beats : ~(m.sub = s /\ m.attempt = attempt[s])
        /\ \A e \in effects : ~(e.sub = s /\ e.attempt = attempt[s] /\ e.attempt # 0)
        /\ progress[s] = attempt[s] => progress[s] = 0

RowShape ==
    \A s \in Submissions :
        /\ status[s] = "absent" => attempt[s] = 0 /\ owner[s] = NoJudger /\ lease[s] = "none"
        /\ status[s] = "judging" => owner[s] # NoJudger
        /\ \A r \in Rejudges : s \in rejudge[r].ids => status[s] # "absent"

(* The queue's bookkeeping: every attempt number is handed out once, by    *)
(* tryLease, to a worker of the judger the row names, and a queued row     *)
(* waits under a number no request, heartbeat or cache write carries.      *)
IInv ==
    /\ TypeOK
    /\ Bounded
    /\ HandedOutOnce
    /\ HolderOwnsRow
    /\ LeasedIsSilent
    /\ QueuedIsSilent
    /\ RowShape
    /\ VerdictIsCurrent
    /\ CasesMatchVerdict

(***************************************************************************)
(* Fairness: the server answers what reaches it and finishes what it       *)
(* started, worker loops keep going, clocks run.  Nothing is assumed of    *)
(* users and administrators, nor that heartbeats are ever sent.            *)
(***************************************************************************)
Fairness ==
    /\ \A s \in Submissions : WF_vars(LeaseExpires(s))
    /\ \A r \in Rejudges : WF_vars(RejudgeCommit(r) \/ RejudgeAborts(r))
    /\ WF_vars(\E m \in beats : HeartbeatTx(m) \/ Refuse(m))
    /\ WF_vars(\E m \in results : ResultTx(m) \/ Refuse(m))
    /\ \A w \in Workers :
         /\ WF_vars(TryLease(w))
         /\ WF_vars(BuildPayload(w) \/ BuildPayloadFails(w))
         /\ WF_vars(FetchPackage(w) \/ FetchFails(w))
         /\ WF_vars(FinishRun(w))
         /\ WF_vars(PostReturns(w))

FairSpec == Spec /\ Fairness

(* Every submission that waits for a verdict gets one, through crashes,    *)
(* lost requests, expired leases and rejudges, as long as these stop.      *)
EventuallyJudged ==
    \A s \in Submissions : status[s] \in Live ~> Finished(s)

=============================================================================
