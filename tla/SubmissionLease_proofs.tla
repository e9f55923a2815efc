------------------------ MODULE SubmissionLease_proofs ------------------------
(* Proofs about SubmissionLease, for every set of submissions, workers and  *)
(* judgers, and without the bounds of the model-checked instances.          *)
EXTENDS SubmissionLease, TLAPS

(* The constants of the specification have the types the code gives them.   *)
LEMMA Constants ==
    /\ Submissions \subseteq Nat
    /\ JudgerOf \in [Workers -> Judgers]
    /\ NoJudger \notin Judgers
    /\ NoTask \notin Task
BY ConstantsAssumption, NoTaskAssumption

-----------------------------------------------------------------------------
(* Type correctness, one lemma per group of actions.                        *)

(* No step of the server that answers users, judgers or clocks leaves the   *)
(* types of the queue's state.                                              *)
LEMMA ServerTypeOK == TypeOK /\ ServerStep => TypeOK'
<1> SUFFICES ASSUME TypeOK, ServerStep PROVE TypeOK'
  OBVIOUS
<1> USE Constants DEF TypeOK, Statuses, Live, Verdicts, row, workers, wire, cache
<1>1. ASSUME NEW s \in Submissions, Submit(s) PROVE TypeOK'
  BY <1>1 DEF Submit
<1>2. ASSUME NEW s \in Submissions, LeaseExpires(s) PROVE TypeOK'
  BY <1>2 DEF LeaseExpires
<1>3. ASSUME NEW s \in Submissions, ProgressExpires(s) PROVE TypeOK'
  BY <1>3 DEF ProgressExpires
<1>4. ASSUME NEW m \in beats, HeartbeatTx(m) PROVE TypeOK'
  BY <1>4 DEF HeartbeatTx, Heartbeat, Effect
<1>5. ASSUME NEW m \in results, ResultTx(m) PROVE TypeOK'
  BY <1>5 DEF ResultTx, Result, Effect
<1>6. ASSUME NEW m \in beats \cup results, Refuse(m) \/ Lose(m) PROVE TypeOK'
  BY <1>6 DEF Refuse, Lose
<1>7. ASSUME NEW e \in effects, ApplyEffect(e) PROVE TypeOK'
  BY <1>7 DEF ApplyEffect, Effect
<1>8. QED
  BY <1>1, <1>2, <1>3, <1>4, <1>5, <1>6, <1>7 DEF ServerStep

(* Posting a result keeps the types.                                        *)
LEMMA PostTypeOK ==
    ASSUME TypeOK, NEW w \in Workers, NEW v \in Verdicts,
           phase[w] \in {"prepare", "running"}, Post(w, v)
    PROVE  TypeOK'
<1>1. task[w] \in Task /\ JudgerOf[w] \in Judgers
  BY Constants DEF TypeOK
<1>2. [sub |-> task[w].sub, attempt |-> task[w].attempt,
       judger |-> JudgerOf[w], verdict |-> v] \in Result
  BY <1>1 DEF Task, Result
<1>3. results' \subseteq Result
  BY <1>2 DEF Post, TypeOK
<1>4. phase' \in [Workers -> Phases]
  BY DEF Post, TypeOK, Phases
<1>5. \A x \in Workers : phase'[x] = "idle" <=> task'[x] = NoTask
  BY <1>1, Constants DEF Post, TypeOK
<1>6. UNCHANGED <<row, task, beats, cache, rejudge>>
  BY DEF Post
<1>7. QED
  BY <1>3, <1>4, <1>5, <1>6 DEF TypeOK, row, cache

(* No step of a worker or of the leasing it asks for leaves the types.      *)
LEMMA WorkerTypeOK == TypeOK /\ WorkerStep => TypeOK'
<1> SUFFICES ASSUME TypeOK, NEW w \in Workers,
                    \/ TryLease(w) \/ BuildPayload(w) \/ BuildPayloadFails(w)
                    \/ FetchPackage(w) \/ FetchFails(w) \/ FinishRun(w)
                    \/ Beat(w) \/ PostReturns(w) \/ Crash(w)
             PROVE  TypeOK'
  BY DEF WorkerStep
<1> USE Constants DEF TypeOK, Statuses, Live, Verdicts, Phases, row, workers, wire, cache
<1>1. CASE TryLease(w)
  BY <1>1 DEF TryLease, NextAttempt, Task
<1>2. CASE BuildPayload(w)
  BY <1>2 DEF BuildPayload, Task
<1>3. CASE BuildPayloadFails(w)
  BY <1>3 DEF BuildPayloadFails, Task
<1>4. CASE FetchPackage(w)
  BY <1>4 DEF FetchPackage
<1>6. CASE FetchFails(w) \/ FinishRun(w)
  BY <1>6, PostTypeOK DEF FetchFails, FinishRun
<1>7. CASE Beat(w)
  BY <1>7 DEF Beat, Working, Task, Heartbeat
<1>8. CASE PostReturns(w)
  BY <1>8 DEF PostReturns
<1>9. CASE Crash(w)
  BY <1>9 DEF Crash
<1>10. QED
  BY <1>1, <1>2, <1>3, <1>4, <1>6, <1>7, <1>8, <1>9

(* No step of a rejudge leaves the types.                                   *)
LEMMA RejudgeTypeOK == TypeOK /\ RejudgeStep => TypeOK'
<1> SUFFICES ASSUME TypeOK, NEW r \in Rejudges,
                    \/ RejudgeCommit(r) \/ RejudgeAborts(r)
                    \/ \E ids \in RejudgeTargets : RejudgeDelete(r, ids)
             PROVE  TypeOK'
  BY DEF RejudgeStep
<1> USE Constants DEF TypeOK, Statuses, Live, Verdicts, row, workers, wire, cache
<1>1. CASE RejudgeCommit(r)
  BY <1>1 DEF RejudgeCommit, RejudgedAttempt, Effect
<1>2. ASSUME NEW ids \in RejudgeTargets, RejudgeDelete(r, ids) PROVE TypeOK'
  <2>1. ids \subseteq Submissions
    BY DEF RejudgeTargets, Existing
  <2>2. QED
    BY <1>2, <2>1 DEF RejudgeDelete
<1>3. CASE RejudgeAborts(r)
  BY <1>3 DEF RejudgeAborts
<1>4. QED
  BY <1>1, <1>2, <1>3

(* Type correctness: TypeOK holds in every reachable state of the queue.    *)
THEOREM TypeCorrect == Spec => []TypeOK
<1>1. Init => TypeOK
  BY Constants DEF Init, TypeOK, Statuses, Live, Verdicts, Phases
<1>2. TypeOK /\ [Next]_vars => TypeOK'
  <2>1. TypeOK /\ UNCHANGED vars => TypeOK'
    BY DEF TypeOK, vars, row, workers, wire, cache
  <2>2. QED
    BY <2>1, ServerTypeOK, WorkerTypeOK, RejudgeTypeOK DEF Next
<1>3. QED
  BY <1>1, <1>2, PTL DEF Spec

-----------------------------------------------------------------------------
(* The inductive invariant, one lemma per action.                           *)

(* A new row is queued under number 0, which nobody can hold.                *)
LEMMA SubmitInv ==
    ASSUME IInv, NEW s \in Submissions, Submit(s) PROVE IInv'
<1>0. TypeOK /\ TypeOK'
  BY ServerTypeOK DEF IInv, ServerStep
<1> USE <1>0, Constants DEF IInv, TypeOK, Submit, row, workers, wire, cache, Unanswered,
        Task, Heartbeat, Result, Effect, Verdicts, Live
<1>1. Bounded'
  BY SMTT(30) DEF Bounded
<1>2. HandedOutOnce'
  BY SMTT(30) DEF HandedOutOnce
<1>3. HolderOwnsRow'
  BY SMTT(30) DEF HolderOwnsRow, Bounded, RowShape
<1>4. LeasedIsSilent'
  BY SMTT(30) DEF LeasedIsSilent
<1>5. QueuedIsSilent'
  BY SMTT(30) DEF QueuedIsSilent, Bounded, RowShape
<1>6. RowShape'
  BY DEF RowShape
<1>7. VerdictIsCurrent'
  BY DEF VerdictIsCurrent, Finished
<1>8. CasesMatchVerdict'
  BY DEF CasesMatchVerdict
<1>9. QED
  BY <1>0, <1>1, <1>2, <1>3, <1>4, <1>5, <1>6, <1>7, <1>8

LEMMA RowShapeKept ==
    ASSUME RowShape, UNCHANGED <<status, attempt, owner, rejudge>>,
           \A x \in Submissions : lease'[x] = lease[x] \/ status[x] # "absent"
    PROVE  RowShape'
  BY DEF RowShape

(* An expiring lease leaves the holder in place.                             *)
LEMMA LeaseExpiresInv ==
    ASSUME IInv, NEW s \in Submissions, LeaseExpires(s) PROVE IInv'
<1>0. TypeOK /\ TypeOK'
  BY ServerTypeOK DEF IInv, ServerStep
<1> USE <1>0, Constants DEF IInv, TypeOK, LeaseExpires, row, workers, wire, cache, Unanswered,
        Task, Heartbeat, Result, Effect, Verdicts, Live
<1>1. Bounded'
  BY SMTT(30) DEF Bounded
<1>2. HandedOutOnce'
  BY SMTT(30) DEF HandedOutOnce
<1>3. HolderOwnsRow'
  BY SMTT(30) DEF HolderOwnsRow
<1>4. LeasedIsSilent'
  BY SMTT(30) DEF LeasedIsSilent
<1>5. QueuedIsSilent'
  BY SMTT(30) DEF QueuedIsSilent
<1>6. RowShape'
  <2>1. UNCHANGED <<status, attempt, owner, rejudge>> /\ lease[s] = "live"
    OBVIOUS
  <2>2. \A x \in Submissions : lease'[x] = IF x = s THEN "expired" ELSE lease[x]
    OBVIOUS
  <2>3. UNCHANGED <<status, attempt, owner, rejudge>> /\ RowShape
    OBVIOUS
  <2>4. ASSUME NEW x \in Submissions PROVE lease'[x] = lease[x] \/ status[x] # "absent"
    BY <2>1, <2>2 DEF RowShape
  <2>5. QED
    BY <2>3, <2>4, RowShapeKept
<1>7. VerdictIsCurrent'
  BY DEF VerdictIsCurrent, Finished
<1>8. CasesMatchVerdict'
  BY DEF CasesMatchVerdict
<1>9. QED
  BY <1>0, <1>1, <1>2, <1>3, <1>4, <1>5, <1>6, <1>7, <1>8

(* An expiring progress entry is no trace of anybody.                        *)
LEMMA ProgressExpiresInv ==
    ASSUME IInv, NEW s \in Submissions, ProgressExpires(s) PROVE IInv'
<1>0. TypeOK /\ TypeOK'
  BY ServerTypeOK DEF IInv, ServerStep
<1> USE <1>0, Constants DEF IInv, TypeOK, ProgressExpires, row, workers, wire, cache, Unanswered,
        Task, Heartbeat, Result, Effect, Verdicts, Live
<1>1. Bounded'
  BY SMTT(30) DEF Bounded
<1>2. HandedOutOnce'
  BY SMTT(30) DEF HandedOutOnce
<1>3. HolderOwnsRow'
  BY SMTT(30) DEF HolderOwnsRow
<1>4. LeasedIsSilent'
  BY SMTT(30) DEF LeasedIsSilent, Bounded
<1>5. QueuedIsSilent'
  BY SMTT(30) DEF QueuedIsSilent, Bounded
<1>6. RowShape'
  BY DEF RowShape
<1>7. VerdictIsCurrent'
  BY DEF VerdictIsCurrent, Finished
<1>8. CasesMatchVerdict'
  BY DEF CasesMatchVerdict
<1>9. QED
  BY <1>0, <1>1, <1>2, <1>3, <1>4, <1>5, <1>6, <1>7, <1>8

(* A lease hands out a number nothing in circulation carries.                *)
LEMMA TryLeaseInv ==
    ASSUME IInv, NEW w \in Workers, TryLease(w) PROVE IInv'
<1>0. TypeOK /\ TypeOK'
  BY WorkerTypeOK DEF IInv, WorkerStep
<1> USE <1>0, Constants DEF IInv, TypeOK, TryLease, NextAttempt, Leasable, row, workers, wire, cache, Unanswered,
        Task, Heartbeat, Result, Effect, Verdicts, Live
<1>1. Bounded'
  BY SMTT(30) DEF Bounded
<1>2. HandedOutOnce'
  BY SMTT(30) DEF HandedOutOnce, Bounded
<1>3. HolderOwnsRow'
  BY SMTT(30) DEF HolderOwnsRow, Bounded
<1>4. LeasedIsSilent'
  BY SMTT(30) DEF LeasedIsSilent, Bounded
<1>5. QueuedIsSilent'
  <2> SUFFICES ASSUME NEW t \in Submissions, status'[t] = "queued"
               PROVE  QueuedIsSilent!(t)!2'
    BY ZenonT(60) DEF QueuedIsSilent
  <2>1. PICK s \in Submissions :
          /\ status' = [status EXCEPT ![s] = "judging"]
          /\ attempt' = [attempt EXCEPT ![s] = attempt[s] + 1]
          /\ owner' = [owner EXCEPT ![s] = JudgerOf[w]]
          /\ lease' = [lease EXCEPT ![s] = "live"]
          /\ task' = [task EXCEPT ![w] = [sub |-> s, attempt |-> attempt[s] + 1]]
    BY ZenonT(60)
  <2>2. t # s /\ status[t] = "queued" /\ attempt'[t] = attempt[t]
    BY <2>1
  <2>3. QueuedIsSilent!(t)!2
    BY <2>2 DEF QueuedIsSilent
  <2>4. ASSUME NEW u \in Workers, phase'[u] # "idle"
        PROVE  ~(task'[u].sub = t /\ task'[u].attempt = attempt'[t])
    <3>1. CASE u = w
      BY <3>1, <2>1, <2>2
    <3>2. CASE u # w
      <4>1. phase[u] # "idle" /\ task'[u] = task[u]
        BY <3>2, <2>1, <2>4
      <4>2. QED
        BY <4>1, <2>2, <2>3
    <3>3. QED
      BY <3>1, <3>2
  <2>5. owner'[t] = owner[t] /\ lease'[t] = lease[t] /\ UNCHANGED <<beats, effects, progress>>
    BY <2>1, <2>2
  <2>6. QED
    BY <2>2, <2>3, <2>4, <2>5
<1>6. RowShape'
  <2>1. PICK s \in Submissions :
          /\ status[s] # "absent"
          /\ status' = [status EXCEPT ![s] = "judging"]
          /\ attempt' = [attempt EXCEPT ![s] = attempt[s] + 1]
          /\ owner' = [owner EXCEPT ![s] = JudgerOf[w]]
          /\ lease' = [lease EXCEPT ![s] = "live"]
    OBVIOUS
  <2>2. rejudge' = rejudge /\ JudgerOf[w] # NoJudger
    OBVIOUS
  <2>3. ASSUME NEW t \in Submissions
        PROVE  /\ status'[t] = "absent" => attempt'[t] = 0 /\ owner'[t] = NoJudger /\ lease'[t] = "none"
               /\ status'[t] = "judging" => owner'[t] # NoJudger
               /\ \A r \in Rejudges : t \in rejudge'[r].ids => status'[t] # "absent"
    <3>1. CASE t = s
      BY <3>1, <2>1, <2>2
    <3>2. CASE t # s
      BY <3>2, <2>1, <2>2 DEF RowShape
    <3>3. QED
      BY <3>1, <3>2
  <2>4. QED
    BY <2>3 DEF RowShape
<1>7. VerdictIsCurrent'
  BY DEF VerdictIsCurrent, Finished
<1>8. CasesMatchVerdict'
  <2> SUFFICES ASSUME NEW t \in Submissions, status'[t] = "judged"
               PROVE  cases'[t] = attempt'[t]
    BY ZenonT(60) DEF CasesMatchVerdict
  <2>1. PICK s \in Submissions :
          /\ status' = [status EXCEPT ![s] = "judging"]
          /\ attempt' = [attempt EXCEPT ![s] = attempt[s] + 1]
    BY ZenonT(60)
  <2>2. t # s
    BY <2>1
  <2>3. QED
    BY <2>1, <2>2 DEF CasesMatchVerdict
<1>9. QED
  BY <1>0, <1>1, <1>2, <1>3, <1>4, <1>5, <1>6, <1>7, <1>8

(* The first progress entry belongs to the task just handed out.             *)
LEMMA BuildPayloadInv ==
    ASSUME IInv, NEW w \in Workers, BuildPayload(w) PROVE IInv'
<1>0. TypeOK /\ TypeOK'
  BY WorkerTypeOK DEF IInv, WorkerStep
<1> USE <1>0, Constants DEF IInv, TypeOK, BuildPayload, row, workers, wire, cache, Unanswered,
        Task, Heartbeat, Result, Effect, Verdicts, Live
<1>1. Bounded'
  BY SMTT(30) DEF Bounded
<1>2. HandedOutOnce'
  BY SMTT(30) DEF HandedOutOnce, Bounded
<1>3. HolderOwnsRow'
  BY SMTT(30) DEF HolderOwnsRow
<1>4. LeasedIsSilent'
  BY SMTT(30) DEF LeasedIsSilent, HandedOutOnce
<1>5. QueuedIsSilent'
  BY SMTT(30) DEF QueuedIsSilent, HolderOwnsRow
<1>6. RowShape'
  BY DEF RowShape
<1>7. VerdictIsCurrent'
  BY DEF VerdictIsCurrent, Finished
<1>8. CasesMatchVerdict'
  BY DEF CasesMatchVerdict
<1>9. QED
  BY <1>0, <1>1, <1>2, <1>3, <1>4, <1>5, <1>6, <1>7, <1>8

(* A lease given back before anybody could use it leaves no trace.           *)
LEMMA BuildPayloadFailsInv ==
    ASSUME IInv, NEW w \in Workers, BuildPayloadFails(w) PROVE IInv'
<1>0. TypeOK /\ TypeOK'
  BY WorkerTypeOK DEF IInv, WorkerStep
<1> USE <1>0, Constants DEF IInv, TypeOK, BuildPayloadFails, row, workers, wire, cache, Unanswered,
        Task, Heartbeat, Result, Effect, Verdicts, Live
<1>1. Bounded'
  BY SMTT(30) DEF Bounded
<1>2. HandedOutOnce'
  BY SMTT(30) DEF HandedOutOnce
<1>3. HolderOwnsRow'
  <2>1. ASSUME NEW u \in Workers, phase'[u] \in Unanswered, task'[u].attempt = attempt'[task'[u].sub]
        PROVE  status'[task'[u].sub] = "judging" /\ owner'[task'[u].sub] = JudgerOf[u]
    <3>1. u # w /\ task'[u] = task[u] /\ phase[u] \in Unanswered /\ phase[u] # "idle" /\ task[u] # task[w]
      BY <2>1 DEF HandedOutOnce
    <3>2. CASE task[u].sub = task[w].sub
      BY SMTT(30), <2>1, <3>1, <3>2 DEF HolderOwnsRow
    <3>3. CASE task[u].sub # task[w].sub
      BY SMTT(30), <2>1, <3>1, <3>3 DEF HolderOwnsRow
    <3>4. QED
      BY <3>2, <3>3
  <2>2. \A m \in results' :
           m.attempt = attempt'[m.sub] => status'[m.sub] = "judging" /\ owner'[m.sub] = m.judger
    BY SMTT(30) DEF HolderOwnsRow, HandedOutOnce
  <2>3. QED
    BY <2>1, <2>2 DEF HolderOwnsRow
<1>4. LeasedIsSilent'
  BY SMTT(30) DEF LeasedIsSilent
<1>5. QueuedIsSilent'
  <2> SUFFICES ASSUME NEW t \in Submissions, status'[t] = "queued"
               PROVE  QueuedIsSilent!(t)!2'
    BY DEF QueuedIsSilent
  <2>1. ASSUME NEW u \in Workers, phase'[u] # "idle"
        PROVE  u # w /\ phase[u] = phase'[u] /\ task'[u] = task[u]
    BY <2>1
  <2>2. CASE status[t] = "queued"
    BY <2>1, <2>2 DEF QueuedIsSilent
  <2>3. CASE status[t] # "queued"
    <3>1. t = task[w].sub /\ attempt[t] = task[w].attempt
      BY <2>3
    <3>2. owner'[t] = NoJudger /\ lease'[t] = "none"
      BY <3>1, <2>3
    <3>3. ASSUME NEW u \in Workers, phase'[u] # "idle",
                 task'[u].sub = t, task'[u].attempt = attempt'[t]
          PROVE  FALSE
      <4>1. task[u] = task[w] /\ u # w
        BY <2>1, <3>1, <3>3
      <4>2. QED
        BY <2>1, <4>1, <3>3 DEF HandedOutOnce
    <3>4. QED
      BY <3>1, <3>2, <3>3 DEF LeasedIsSilent
  <2>4. QED
    BY <2>2, <2>3
<1>6. RowShape'
  BY DEF RowShape
<1>7. VerdictIsCurrent'
  BY DEF VerdictIsCurrent, Finished
<1>8. CasesMatchVerdict'
  BY DEF CasesMatchVerdict
<1>9. QED
  BY <1>0, <1>1, <1>2, <1>3, <1>4, <1>5, <1>6, <1>7, <1>8

(* Fetching the package changes the phase only.                              *)
LEMMA FetchPackageInv ==
    ASSUME IInv, NEW w \in Workers, FetchPackage(w) PROVE IInv'
<1>0. TypeOK /\ TypeOK'
  BY WorkerTypeOK DEF IInv, WorkerStep
<1> USE <1>0, Constants DEF IInv, TypeOK, FetchPackage, row, workers, wire, cache, Unanswered,
        Task, Heartbeat, Result, Effect, Verdicts, Live
<1>1. Bounded'
  BY SMTT(30) DEF Bounded
<1>2. HandedOutOnce'
  BY SMTT(30) DEF HandedOutOnce
<1>3. HolderOwnsRow'
  BY SMTT(30) DEF HolderOwnsRow
<1>4. LeasedIsSilent'
  BY SMTT(30) DEF LeasedIsSilent
<1>5. QueuedIsSilent'
  BY SMTT(30) DEF QueuedIsSilent
<1>6. RowShape'
  BY ZenonT(60) DEF RowShape
<1>7. VerdictIsCurrent'
  BY DEF VerdictIsCurrent, Finished
<1>8. CasesMatchVerdict'
  BY DEF CasesMatchVerdict
<1>9. QED
  BY <1>0, <1>1, <1>2, <1>3, <1>4, <1>5, <1>6, <1>7, <1>8

(* Posting a result moves the right to answer from worker to request.        *)
LEMMA PostInv ==
    ASSUME IInv, NEW w \in Workers, NEW v \in Verdicts, phase[w] \in {"prepare", "running"}, Post(w, v) PROVE IInv'
<1>0. TypeOK /\ TypeOK'
  BY PostTypeOK DEF IInv, Post
<1> USE <1>0, Constants DEF IInv, TypeOK, Post, row, workers, wire, cache, Unanswered,
        Task, Heartbeat, Result, Effect, Verdicts, Live
<1>1. Bounded'
  BY SMTT(30) DEF Bounded
<1>2. HandedOutOnce'
  <2>1. \A x, u \in Workers :
           phase'[x] # "idle" /\ phase'[u] # "idle" /\ task'[x] = task'[u] => x = u
    BY SMTT(30) DEF HandedOutOnce
  <2>2. \A u \in Workers, m \in results' :
           phase'[u] \in Unanswered => ~(task'[u].sub = m.sub /\ task'[u].attempt = m.attempt)
    BY SMTT(30) DEF HandedOutOnce
  <2>3. \A m, n \in results' : m.sub = n.sub /\ m.attempt = n.attempt => m = n
    BY SMTT(30) DEF HandedOutOnce
  <2>4. QED
    BY <2>1, <2>2, <2>3 DEF HandedOutOnce
<1>3. HolderOwnsRow'
  BY SMTT(30) DEF HolderOwnsRow
<1>4. LeasedIsSilent'
  BY SMTT(30) DEF LeasedIsSilent
<1>5. QueuedIsSilent'
  BY SMTT(30) DEF QueuedIsSilent
<1>6. RowShape'
  BY DEF RowShape
<1>7. VerdictIsCurrent'
  BY DEF VerdictIsCurrent, Finished
<1>8. CasesMatchVerdict'
  BY DEF CasesMatchVerdict
<1>9. QED
  BY <1>0, <1>1, <1>2, <1>3, <1>4, <1>5, <1>6, <1>7, <1>8

(* A heartbeat carries the number of a task past its payload.                *)
LEMMA BeatInv ==
    ASSUME IInv, NEW w \in Workers, Beat(w) PROVE IInv'
<1>0. TypeOK /\ TypeOK'
  BY WorkerTypeOK DEF IInv, WorkerStep
<1> USE <1>0, Constants DEF IInv, TypeOK, Beat, Working, row, workers, wire, cache, Unanswered,
        Task, Heartbeat, Result, Effect, Verdicts, Live
<1>1. Bounded'
  BY SMTT(30) DEF Bounded
<1>2. HandedOutOnce'
  BY SMTT(30) DEF HandedOutOnce
<1>3. HolderOwnsRow'
  BY SMTT(30) DEF HolderOwnsRow
<1>4. LeasedIsSilent'
  <2> SUFFICES ASSUME NEW u \in Workers, phase[u] = "leased"
               PROVE  ~(task[w].sub = task[u].sub /\ task[w].attempt = task[u].attempt)
    BY DEF LeasedIsSilent
  <2>1. u # w
    OBVIOUS
  <2>2. task[w] # task[u]
    BY <2>1 DEF HandedOutOnce
  <2>3. task[w] \in Task /\ task[u] \in Task
    OBVIOUS
  <2>4. QED
    BY <2>2, <2>3
<1>5. QueuedIsSilent'
  BY SMTT(30) DEF QueuedIsSilent
<1>6. RowShape'
  BY DEF RowShape
<1>7. VerdictIsCurrent'
  BY DEF VerdictIsCurrent, Finished
<1>8. CasesMatchVerdict'
  BY DEF CasesMatchVerdict
<1>9. QED
  BY <1>0, <1>1, <1>2, <1>3, <1>4, <1>5, <1>6, <1>7, <1>8

(* A worker that lets go of its task takes nothing with it.                  *)
LEMMA LetGoInv ==
    ASSUME IInv, NEW w \in Workers, PostReturns(w) \/ Crash(w) PROVE IInv'
<1>0. TypeOK /\ TypeOK'
  BY WorkerTypeOK DEF IInv, WorkerStep
<1> USE <1>0, Constants DEF IInv, TypeOK, PostReturns, Crash, row, workers, wire, cache, Unanswered,
        Task, Heartbeat, Result, Effect, Verdicts, Live
<1>1. Bounded'
  BY SMTT(30) DEF Bounded
<1>2. HandedOutOnce'
  BY SMTT(30) DEF HandedOutOnce
<1>3. HolderOwnsRow'
  BY SMTT(30) DEF HolderOwnsRow
<1>4. LeasedIsSilent'
  BY SMTT(30) DEF LeasedIsSilent
<1>5. QueuedIsSilent'
  BY SMTT(30) DEF QueuedIsSilent
<1>6. RowShape'
  BY ZenonT(60) DEF RowShape
<1>7. VerdictIsCurrent'
  BY DEF VerdictIsCurrent, Finished
<1>8. CasesMatchVerdict'
  BY DEF CasesMatchVerdict
<1>9. QED
  BY <1>0, <1>1, <1>2, <1>3, <1>4, <1>5, <1>6, <1>7, <1>8

(* A heartbeat renews the lease of a row that is not queued.                 *)
LEMMA HeartbeatTxInv ==
    ASSUME IInv, NEW m \in beats, HeartbeatTx(m) PROVE IInv'
<1>0. TypeOK /\ TypeOK'
  BY ServerTypeOK DEF IInv, ServerStep
<1> USE <1>0, Constants DEF IInv, TypeOK, HeartbeatTx, Current, row, workers, wire, cache, Unanswered,
        Task, Heartbeat, Result, Effect, Verdicts, Live
<1>1. Bounded'
  BY SMTT(30) DEF Bounded
<1>2. HandedOutOnce'
  BY SMTT(30) DEF HandedOutOnce
<1>3. HolderOwnsRow'
  BY SMTT(30) DEF HolderOwnsRow
<1>4. LeasedIsSilent'
  BY SMTT(30) DEF LeasedIsSilent
<1>5. QueuedIsSilent'
  BY SMTT(30) DEF QueuedIsSilent
<1>6. RowShape'
  BY DEF RowShape, Bounded
<1>7. VerdictIsCurrent'
  BY DEF VerdictIsCurrent, Finished
<1>8. CasesMatchVerdict'
  BY DEF CasesMatchVerdict
<1>9. QED
  BY <1>0, <1>1, <1>2, <1>3, <1>4, <1>5, <1>6, <1>7, <1>8

(* A result settles the row it is current for.                               *)
LEMMA ResultTxInv ==
    ASSUME IInv, NEW m \in results, ResultTx(m) PROVE IInv'
<1>0. TypeOK /\ TypeOK'
  BY ServerTypeOK DEF IInv, ServerStep
<1> USE <1>0, Constants DEF IInv, TypeOK, ResultTx, Current, row, workers, wire, cache, Unanswered,
        Task, Heartbeat, Result, Effect, Verdicts, Live
<1>1. Bounded'
  BY SMTT(30) DEF Bounded
<1>2. HandedOutOnce'
  BY SMTT(30) DEF HandedOutOnce
<1>3. HolderOwnsRow'
  BY SMTT(30) DEF HolderOwnsRow, HandedOutOnce
<1>4. LeasedIsSilent'
  BY SMTT(30) DEF LeasedIsSilent, Bounded
<1>5. QueuedIsSilent'
  BY SMTT(30) DEF QueuedIsSilent, Bounded
<1>6. RowShape'
  BY DEF RowShape, Bounded
<1>7. VerdictIsCurrent'
  BY DEF VerdictIsCurrent, Finished
<1>8. CasesMatchVerdict'
  BY DEF CasesMatchVerdict
<1>9. QED
  BY <1>0, <1>1, <1>2, <1>3, <1>4, <1>5, <1>6, <1>7, <1>8

(* A request that is refused or lost settles nothing.                        *)
LEMMA DropInv ==
    ASSUME IInv, NEW m \in beats \cup results, Refuse(m) \/ Lose(m) PROVE IInv'
<1>0. TypeOK /\ TypeOK'
  BY ServerTypeOK DEF IInv, ServerStep
<1> USE <1>0, Constants DEF IInv, TypeOK, Refuse, Lose, row, workers, wire, cache, Unanswered,
        Task, Heartbeat, Result, Effect, Verdicts, Live
<1>1. Bounded'
  BY SMTT(30) DEF Bounded
<1>2. HandedOutOnce'
  BY SMTT(30) DEF HandedOutOnce
<1>3. HolderOwnsRow'
  BY SMTT(30) DEF HolderOwnsRow
<1>4. LeasedIsSilent'
  BY SMTT(30) DEF LeasedIsSilent
<1>5. QueuedIsSilent'
  BY SMTT(30) DEF QueuedIsSilent
<1>6. RowShape'
  BY ZenonT(60) DEF RowShape
<1>7. VerdictIsCurrent'
  BY DEF VerdictIsCurrent, Finished
<1>8. CasesMatchVerdict'
  BY DEF CasesMatchVerdict
<1>9. QED
  BY <1>0, <1>1, <1>2, <1>3, <1>4, <1>5, <1>6, <1>7, <1>8

(* A cache write shows the attempt whose request caused it.                  *)
LEMMA ApplyEffectInv ==
    ASSUME IInv, NEW e \in effects, ApplyEffect(e) PROVE IInv'
<1>0. TypeOK /\ TypeOK'
  BY ServerTypeOK DEF IInv, ServerStep
<1> USE <1>0, Constants DEF IInv, TypeOK, ApplyEffect, row, workers, wire, cache, Unanswered,
        Task, Heartbeat, Result, Effect, Verdicts, Live
<1>1. Bounded'
  BY SMTT(30) DEF Bounded
<1>2. HandedOutOnce'
  BY SMTT(30) DEF HandedOutOnce
<1>3. HolderOwnsRow'
  BY SMTT(30) DEF HolderOwnsRow
<1>4. LeasedIsSilent'
  <2> SUFFICES ASSUME NEW w \in Workers, phase[w] = "leased"
               PROVE  LeasedIsSilent!(w)!2'
    BY DEF LeasedIsSilent
  <2>1. task[w] \in Task /\ task[w].attempt # 0
    BY DEF Bounded
  <2>2. progress'[task[w].sub] # task[w].attempt
    <3>1. CASE progress' = [progress EXCEPT ![e.sub] = 0]
      BY <2>1, <3>1 DEF LeasedIsSilent
    <3>2. CASE progress' = [progress EXCEPT ![e.sub] = e.attempt]
      BY <2>1, <3>2 DEF LeasedIsSilent
    <3>3. CASE progress' = progress
      BY <2>1, <3>3 DEF LeasedIsSilent
    <3>4. QED
      BY <3>1, <3>2, <3>3
  <2>3. QED
    BY <2>2 DEF LeasedIsSilent
<1>5. QueuedIsSilent'
  BY SMTT(30) DEF QueuedIsSilent, Bounded
<1>6. RowShape'
  BY DEF RowShape
<1>7. VerdictIsCurrent'
  BY DEF VerdictIsCurrent, Finished
<1>8. CasesMatchVerdict'
  BY DEF CasesMatchVerdict
<1>9. QED
  BY <1>0, <1>1, <1>2, <1>3, <1>4, <1>5, <1>6, <1>7, <1>8

(* Deleting case rows, or giving up after it, touches no submission row.    *)
LEMMA RejudgeDeleteInv ==
    ASSUME IInv, NEW r \in Rejudges,
           RejudgeAborts(r) \/ \E ids \in RejudgeTargets : RejudgeDelete(r, ids)
    PROVE  IInv'
<1>0. TypeOK /\ TypeOK'
  BY RejudgeTypeOK DEF IInv, RejudgeStep
<1>1. UNCHANGED <<row, workers, wire, cache>>
  BY DEF RejudgeAborts, RejudgeDelete
<1>2. /\ Bounded' /\ HandedOutOnce' /\ HolderOwnsRow' /\ LeasedIsSilent' /\ QueuedIsSilent'
      /\ VerdictIsCurrent' /\ CasesMatchVerdict'
  BY <1>1 DEF IInv, Bounded, HandedOutOnce, HolderOwnsRow, LeasedIsSilent, QueuedIsSilent,
     VerdictIsCurrent, Finished, CasesMatchVerdict, row, workers, wire, cache
<1>3. \A t \in Rejudges, s \in Submissions : s \in rejudge'[t].ids => status[s] # "absent"
  <2>1. CASE RejudgeAborts(r)
    BY <1>0, <2>1 DEF IInv, RowShape, RejudgeAborts, TypeOK
  <2>2. ASSUME NEW ids \in RejudgeTargets, RejudgeDelete(r, ids),
               NEW t \in Rejudges, NEW s \in Submissions, s \in rejudge'[t].ids
        PROVE  status[s] # "absent"
    <3>1. ids \subseteq Existing
      BY DEF RejudgeTargets, Existing
    <3>2. rejudge'[t].ids = IF t = r THEN ids ELSE rejudge[t].ids
      BY <1>0, <2>2 DEF RejudgeDelete, TypeOK
    <3>3. QED
      BY <2>2, <3>1, <3>2 DEF IInv, RowShape, Existing
  <2>3. QED
    BY <2>1, <2>2
<1>4. RowShape'
  BY <1>1, <1>3 DEF IInv, RowShape, row
<1>5. QED
  BY <1>0, <1>2, <1>4 DEF IInv

(* A requeued row waits under a number nobody was given.                    *)
LEMMA RejudgeCommitInv ==
    ASSUME IInv, NEW r \in Rejudges, RejudgeCommit(r) PROVE IInv'
<1>0. TypeOK /\ TypeOK'
  BY RejudgeTypeOK DEF IInv, RejudgeStep
<1> DEFINE ids == rejudge[r].ids
<1>1. ASSUME NEW s \in Submissions, s \notin ids
      PROVE  /\ status'[s] = status[s] /\ attempt'[s] = attempt[s]
             /\ owner'[s] = owner[s] /\ lease'[s] = lease[s]
             /\ scoredBy'[s] = scoredBy[s]
  BY <1>0, <1>1 DEF RejudgeCommit, TypeOK
<1>2. ASSUME NEW s \in Submissions, s \in ids
      PROVE  /\ status'[s] = "queued" /\ attempt'[s] = attempt[s] + 1
             /\ owner'[s] = NoJudger /\ lease'[s] = "none" /\ scoredBy'[s] = 0
  BY <1>0, <1>2 DEF RejudgeCommit, RejudgedAttempt, TypeOK
<1>3. UNCHANGED <<phase, task, beats, results, progress>>
  BY DEF RejudgeCommit, workers, wire
<1>4. \A e \in effects' : e \in effects \/ e.attempt = 0
  BY DEF RejudgeCommit
<1>5. \A s \in Submissions : attempt[s] \in Nat /\ attempt'[s] \in Nat /\ attempt[s] <= attempt'[s]
  <2>1. attempt \in [Submissions -> Nat] /\ attempt' \in [Submissions -> Nat]
    BY <1>0 DEF TypeOK
  <2>2. ASSUME NEW s \in Submissions PROVE attempt[s] <= attempt'[s]
    BY <1>1, <1>2, <2>1
  <2>3. QED
    BY <2>1, <2>2
<1>6. \A w \in Workers : phase[w] # "idle" =>
          task[w].sub \in Submissions /\ task[w].attempt \in Nat
  BY <1>0 DEF TypeOK, Task
<1>7. \A m \in beats \cup results : m.sub \in Submissions /\ m.attempt \in Nat
  BY <1>0 DEF TypeOK, Heartbeat, Result
<1>8. \A e \in effects' : e.sub \in Submissions /\ e.attempt \in Nat
  BY <1>0 DEF TypeOK, Effect
<1>9. \A s \in Submissions : progress[s] \in Nat
  BY <1>0 DEF TypeOK
<1>10. Bounded'
  <2>1. \A w \in Workers : phase[w] # "idle" => task[w].attempt \in 1 .. attempt'[task[w].sub]
    BY <1>5, <1>6 DEF IInv, Bounded
  <2>2. \A m \in beats \cup results : m.attempt \in 1 .. attempt'[m.sub]
    BY <1>5, <1>7 DEF IInv, Bounded
  <2>3. \A e \in effects' : e.attempt <= attempt'[e.sub]
    BY <1>4, <1>5, <1>8 DEF IInv, Bounded
  <2>4. \A s \in Submissions : progress[s] <= attempt'[s]
    BY <1>5, <1>9 DEF IInv, Bounded
  <2>5. QED
    BY <1>3, <2>1, <2>2, <2>3, <2>4 DEF Bounded
<1>11. HandedOutOnce'
  BY <1>3 DEF IInv, HandedOutOnce, Unanswered
<1>12. HolderOwnsRow'
  <2>1. ASSUME NEW s \in Submissions, NEW a \in 1 .. attempt[s], a = attempt'[s]
        PROVE  s \notin ids
    BY <1>2, <1>5, <2>1
  <2>2. ASSUME NEW w \in Workers, phase[w] \in Unanswered,
               task[w].attempt = attempt'[task[w].sub]
        PROVE  status'[task[w].sub] = "judging" /\ owner'[task[w].sub] = JudgerOf[w]
    <3>1. task[w].sub \in Submissions /\ task[w].attempt \in 1 .. attempt[task[w].sub]
      BY <1>6, <2>2 DEF IInv, Bounded, Unanswered
    <3>2. QED
      BY <1>1, <2>1, <2>2, <3>1 DEF IInv, HolderOwnsRow
  <2>3. ASSUME NEW m \in results, m.attempt = attempt'[m.sub]
        PROVE  status'[m.sub] = "judging" /\ owner'[m.sub] = m.judger
    <3>1. m.sub \in Submissions /\ m.attempt \in 1 .. attempt[m.sub]
      BY <1>7 DEF IInv, Bounded
    <3>2. QED
      BY <1>1, <2>1, <2>3, <3>1 DEF IInv, HolderOwnsRow
  <2>4. QED
    BY <1>3, <2>2, <2>3 DEF HolderOwnsRow
<1>13. LeasedIsSilent'
  <2>1. ASSUME NEW w \in Workers, phase[w] = "leased" PROVE task[w].attempt # 0
    BY <1>6, <2>1 DEF IInv, Bounded
  <2>2. QED
    BY <1>3, <1>4, <2>1 DEF IInv, LeasedIsSilent
<1>14. QueuedIsSilent'
  <2> SUFFICES ASSUME NEW s \in Submissions, status'[s] = "queued"
               PROVE  QueuedIsSilent!(s)!2'
    BY DEF QueuedIsSilent
  <2>1. CASE s \notin ids
    BY <1>1, <1>3, <1>4, <2>1 DEF IInv, QueuedIsSilent
  <2>2. CASE s \in ids
    <3>1. ASSUME NEW a \in Nat, a <= attempt[s] PROVE a # attempt'[s]
      BY <1>2, <1>5, <2>2, <3>1
    <3>2. \A w \in Workers : phase[w] # "idle" =>
              ~(task[w].sub = s /\ task[w].attempt = attempt'[s])
      BY <1>6, <3>1 DEF IInv, Bounded
    <3>3. \A m \in beats : ~(m.sub = s /\ m.attempt = attempt'[s])
      BY <1>7, <3>1 DEF IInv, Bounded
    <3>4. \A e \in effects' : ~(e.sub = s /\ e.attempt = attempt'[s] /\ e.attempt # 0)
      BY <1>4, <1>8, <3>1 DEF IInv, Bounded
    <3>5. progress[s] # attempt'[s]
      BY <1>9, <3>1 DEF IInv, Bounded
    <3>6. QED
      BY <1>2, <1>3, <2>2, <3>2, <3>3, <3>4, <3>5
  <2>3. QED
    BY <2>1, <2>2
<1>15. RowShape'
  <2>1. \A t \in Rejudges : rejudge'[t].ids \subseteq rejudge[t].ids
    BY <1>0 DEF RejudgeCommit, TypeOK
  <2>2. QED
    BY <1>1, <1>2, <2>1 DEF IInv, RowShape
<1>16. VerdictIsCurrent'
  BY <1>1, <1>2 DEF IInv, VerdictIsCurrent, Finished, Verdicts
<1>17. CasesMatchVerdict'
  <2>1. ASSUME NEW s \in Submissions, s \notin ids PROVE cases'[s] = cases[s]
    BY <1>0, <2>1 DEF RejudgeCommit, TypeOK
  <2>2. QED
    BY <1>1, <1>2, <2>1 DEF IInv, CasesMatchVerdict
<1>18. QED
  BY <1>0, <1>10, <1>11, <1>12, <1>13, <1>14, <1>15, <1>16, <1>17 DEF IInv

-----------------------------------------------------------------------------

(* The bookkeeping holds before anything happened.                          *)
LEMMA InitInv == Init => IInv
BY Constants DEF Init, IInv, TypeOK, Statuses, Live, Verdicts, Phases, Bounded, HandedOutOnce,
   HolderOwnsRow, LeasedIsSilent, QueuedIsSilent, RowShape, VerdictIsCurrent, Finished,
   CasesMatchVerdict, Unanswered

(* Every step keeps the bookkeeping.                                        *)
LEMMA NextInv == IInv /\ [Next]_vars => IInv'
<1>1. IInv /\ UNCHANGED vars => IInv'
  BY DEF IInv, TypeOK, Bounded, HandedOutOnce, HolderOwnsRow, LeasedIsSilent, QueuedIsSilent,
     RowShape, VerdictIsCurrent, Finished, CasesMatchVerdict, vars, row, workers, wire, cache
<1>2. IInv /\ ServerStep => IInv'
  BY SubmitInv, LeaseExpiresInv, ProgressExpiresInv, HeartbeatTxInv, ResultTxInv, DropInv,
     ApplyEffectInv DEF ServerStep
<1>3. IInv /\ RejudgeStep => IInv'
  BY RejudgeDeleteInv, RejudgeCommitInv DEF RejudgeStep
<1>4. IInv /\ WorkerStep => IInv'
  <2>1. ASSUME IInv, NEW w \in Workers, FetchFails(w) \/ FinishRun(w) PROVE IInv'
    BY <2>1, PostInv DEF FetchFails, FinishRun, Verdicts
  <2>2. QED
    BY <2>1, TryLeaseInv, BuildPayloadInv, BuildPayloadFailsInv, FetchPackageInv, BeatInv,
       LetGoInv DEF WorkerStep
<1>5. QED
  BY <1>1, <1>2, <1>3, <1>4 DEF Next

(* The queue's bookkeeping holds in every reachable state.                  *)
THEOREM Bookkeeping == Spec => []IInv
BY InitInv, NextInv, PTL DEF Spec

(* Verdicts on display answer the current attempt, and a row still to be    *)
(* judged shows none.                                                       *)
THEOREM ShowsCurrentVerdict == Spec => []VerdictIsCurrent
BY Bookkeeping, PTL DEF IInv

(* A verdict with case rows is shown with its own attempt's rows.           *)
THEOREM ShowsOwnCases == Spec => []CasesMatchVerdict
BY Bookkeeping, PTL DEF IInv

(* No two workers judge under the same attempt, nor under an answered one.  *)
THEOREM Exclusive == Spec => []AttemptIsExclusive
<1>1. IInv => AttemptIsExclusive
  BY DEF IInv, HandedOutOnce, AttemptIsExclusive, Unanswered
<1>2. QED
  BY <1>1, Bookkeeping, PTL

(* Progress is shown only for a row some judger holds.                      *)
THEOREM ProgressIsOwned == Spec => []ShownProgressIsOwned
<1>1. IInv => ShownProgressIsOwned
  BY DEF IInv, QueuedIsSilent, RowShape, ShownProgressIsOwned, ShowsProgress, Live
<1>2. QED
  BY <1>1, Bookkeeping, PTL

(* A queued row has neither owner nor lease.                                *)
THEOREM QueuedHasNoLease == Spec => []QueuedIsUnleased
<1>1. IInv => QueuedIsUnleased
  BY DEF IInv, QueuedIsSilent, QueuedIsUnleased
<1>2. QED
  BY <1>1, Bookkeeping, PTL

-----------------------------------------------------------------------------
(* What a step may do to a verdict on display.                              *)

(* Apart from the recording of a result, a step leaves a row's verdict and  *)
(* case rows alone, works on a row without verdict, or requeues it under a  *)
(* later attempt.                                                           *)
LEMMA VerdictSteps ==
    ASSUME IInv, [Next]_vars, ~ \E m \in results : ResultTx(m), NEW s \in Submissions
    PROVE  \/ UNCHANGED <<status[s], scoredBy[s], cases[s]>>
           \/ ~Finished(s) /\ status'[s] \in Live
           \/ status'[s] = "queued" /\ attempt'[s] > attempt[s]
<1> DEFINE Goal == \/ UNCHANGED <<status[s], scoredBy[s], cases[s]>>
                   \/ ~Finished(s) /\ status'[s] \in Live
                   \/ status'[s] = "queued" /\ attempt'[s] > attempt[s]
<1> USE DEF IInv, TypeOK, Finished, Live, Verdicts, row
<1>1. CASE UNCHANGED vars
  BY <1>1 DEF vars
<1>2. ASSUME NEW t \in Submissions, Submit(t) \/ LeaseExpires(t) \/ ProgressExpires(t)
      PROVE  Goal
  BY <1>2 DEF Submit, LeaseExpires, ProgressExpires
<1>3. ASSUME NEW m, HeartbeatTx(m) \/ Refuse(m) \/ Lose(m) PROVE Goal
  BY <1>3 DEF HeartbeatTx, Refuse, Lose
<1>4. ASSUME NEW e \in effects, ApplyEffect(e) PROVE Goal
  BY <1>4 DEF ApplyEffect
<1>5. ASSUME NEW r \in Rejudges, RejudgeCommit(r) PROVE Goal
  BY <1>5 DEF RejudgeCommit, RejudgedAttempt
<1>6. ASSUME NEW r \in Rejudges,
             RejudgeAborts(r) \/ \E ids \in RejudgeTargets : RejudgeDelete(r, ids)
      PROVE  Goal
  BY <1>6 DEF RejudgeAborts, RejudgeDelete
<1>7. ASSUME NEW w \in Workers, TryLease(w) PROVE Goal
  BY <1>7 DEF TryLease, Leasable
<1>8. ASSUME NEW w \in Workers, BuildPayloadFails(w) PROVE Goal
  BY <1>8 DEF BuildPayloadFails
<1>9. ASSUME NEW w \in Workers,
             \/ BuildPayload(w) \/ FetchPackage(w) \/ FetchFails(w) \/ FinishRun(w)
             \/ Beat(w) \/ PostReturns(w) \/ Crash(w)
      PROVE  Goal
  BY <1>9 DEF BuildPayload, FetchPackage, FetchFails, FinishRun, Post, Beat, PostReturns, Crash
<1>10. QED
  BY <1>1, <1>2, <1>3, <1>4, <1>5, <1>6, <1>7, <1>8, <1>9
     DEF Next, ServerStep, RejudgeStep, WorkerStep

(* A recorded result is the owner's, for a row that still has no verdict.   *)
LEMMA ResultStep ==
    ASSUME IInv, NEW m \in results, ResultTx(m)
    PROVE  /\ m.sub \in Submissions /\ m.attempt = attempt[m.sub]
           /\ status[m.sub] = "judging" /\ owner[m.sub] = m.judger
           /\ status' = [status EXCEPT ![m.sub] = m.verdict]
           /\ \A s \in Submissions : s # m.sub =>
                  UNCHANGED <<status[s], scoredBy[s], cases[s]>>
<1>1. m.sub \in Submissions
  BY DEF IInv, TypeOK, Result
<1>2. m.attempt = attempt[m.sub]
  BY DEF ResultTx, Current
<1>3. status[m.sub] = "judging" /\ owner[m.sub] = m.judger
  BY <1>2 DEF IInv, HolderOwnsRow
<1>4. QED
  BY <1>1, <1>2, <1>3 DEF ResultTx, IInv, TypeOK

(* The verdict of a live row is the one its owner posted for its current    *)
(* attempt, also from a local judger whose ownership nobody checks.         *)
THEOREM RecordsOwnersVerdict == Spec => VerdictFromOwner
<1> DEFINE A == \A s \in Submissions :
          status[s] \in Live /\ status'[s] \in Verdicts =>
              \E m \in results : /\ m.sub = s /\ m.attempt = attempt[s]
                                 /\ m.judger = owner[s] /\ m.verdict = status'[s]
<1>1. IInv /\ [Next]_vars => [A]_vars
  <2> SUFFICES ASSUME IInv, [Next]_vars, NEW s \in Submissions,
                      status[s] \in Live, status'[s] \in Verdicts
               PROVE  \E m \in results : /\ m.sub = s /\ m.attempt = attempt[s]
                                         /\ m.judger = owner[s] /\ m.verdict = status'[s]
    OBVIOUS
  <2>1. PICK m \in results : ResultTx(m)
    BY VerdictSteps DEF Live, Verdicts
  <2>2. m.sub = s
    BY <2>1, ResultStep DEF Live, Verdicts
  <2>3. m.verdict = status'[s]
    BY <2>1, <2>2, ResultStep DEF IInv, TypeOK
  <2>4. QED
    BY <2>1, <2>2, <2>3, ResultStep
<1>2. QED
  BY <1>1, Bookkeeping, PTL DEF Spec, VerdictFromOwner

(* A verdict stays as it is until a rejudge requeues the row under a later  *)
(* attempt.                                                                 *)
THEOREM KeepsVerdict == Spec => VerdictIsFinal
<1> DEFINE A == \A s \in Submissions :
          Finished(s) =>
              \/ status'[s] = status[s] /\ scoredBy'[s] = scoredBy[s] /\ cases'[s] = cases[s]
              \/ status'[s] = "queued" /\ attempt'[s] > attempt[s]
<1>1. IInv /\ [Next]_vars => [A]_vars
  <2> SUFFICES ASSUME IInv, [Next]_vars, NEW s \in Submissions, Finished(s)
               PROVE  \/ UNCHANGED <<status[s], scoredBy[s], cases[s]>>
                      \/ status'[s] = "queued" /\ attempt'[s] > attempt[s]
    OBVIOUS
  <2>1. CASE \E m \in results : ResultTx(m)
    BY <2>1, ResultStep DEF Finished, Verdicts
  <2>2. CASE ~ \E m \in results : ResultTx(m)
    BY <2>2, VerdictSteps
  <2>3. QED
    BY <2>1, <2>2
<1>2. QED
  BY <1>1, Bookkeeping, PTL DEF Spec, VerdictIsFinal

-----------------------------------------------------------------------------
(* The queue implements the ticket queue of FencedQueue.                    *)

(* Tasks, and results as tickets, are ticket records.                       *)
Ticket(m) == [sub |-> m.sub, attempt |-> m.attempt]

(* A worker that holds an unanswered task holds a ticket, and nobody else   *)
(* has it.                                                                  *)
LEMMA HeldTicket ==
    ASSUME IInv, NEW w \in Workers, phase[w] \in Unanswered
    PROVE  /\ task[w] \in TicketsOut
           /\ \A v \in Workers : phase[v] \in Unanswered /\ v # w => task[v] # task[w]
           /\ \A m \in results : Ticket(m) # task[w]
<1>1. \A v \in Workers : phase[v] \in Unanswered => phase[v] # "idle"
  BY DEF Unanswered
<1>2. \A m \in results : Ticket(m) # task[w]
  BY DEF IInv, HandedOutOnce, Ticket
<1>3. QED
  BY <1>1, <1>2 DEF IInv, HandedOutOnce, TicketsOut

(* A result in flight is a ticket nobody else has.                          *)
LEMMA SentTicket ==
    ASSUME IInv, NEW m \in results
    PROVE  /\ Ticket(m) \in TicketsOut
           /\ Ticket(m).sub = m.sub /\ Ticket(m).attempt = m.attempt
           /\ \A n \in results : n # m => Ticket(n) # Ticket(m)
           /\ \A w \in Workers : phase[w] \in Unanswered => task[w] # Ticket(m)
<1>1. \A n \in results : n # m => Ticket(n) # Ticket(m)
  BY DEF IInv, HandedOutOnce, Ticket
<1>2. \A w \in Workers : phase[w] \in Unanswered => task[w] # Ticket(m)
  BY HeldTicket
<1>3. QED
  BY <1>1, <1>2 DEF TicketsOut, Ticket

(* A worker that lets go of its task unanswered tears its ticket up.        *)
LEMMA DroppedTicket ==
    ASSUME IInv, NEW w \in Workers, phase[w] \in Unanswered,
           phase' = [phase EXCEPT ![w] = "idle"], task' = [task EXCEPT ![w] = NoTask],
           results' = results
    PROVE  task[w] \in TicketsOut /\ TicketsOut' = TicketsOut \ {task[w]}
<1>1. \A v \in Workers : v # w => phase'[v] = phase[v] /\ task'[v] = task[v]
  BY DEF IInv, TypeOK
<1>2. phase'[w] \notin Unanswered
  BY DEF IInv, TypeOK, Unanswered
<1>3. QED
  BY <1>1, <1>2, HeldTicket DEF TicketsOut, Ticket

(* A result that leaves the wire takes its ticket with it.                  *)
LEMMA ReceivedTicket ==
    ASSUME IInv, NEW m \in results, results' = results \ {m}, UNCHANGED <<phase, task>>
    PROVE  Ticket(m) \in TicketsOut /\ TicketsOut' = TicketsOut \ {Ticket(m)}
<1> DEFINE Held == {task[w] : w \in {x \in Workers : phase[x] \in Unanswered}}
           Sent == {Ticket(n) : n \in results}
<1>1. TicketsOut = Held \cup Sent
  BY DEF TicketsOut, Ticket
<1>2. TicketsOut' = Held \cup {Ticket(n) : n \in results \ {m}}
  BY DEF TicketsOut, Ticket
<1>3. Ticket(m) \notin Held
  BY SentTicket
<1>4. {Ticket(n) : n \in results \ {m}} = Sent \ {Ticket(m)}
  BY SentTicket
<1>5. QED
  BY <1>1, <1>2, <1>3, <1>4, SentTicket

(* The rows' states change only where a verdict or an enqueued row appears. *)
LEMMA SameTickets ==
    ASSUME UNCHANGED <<attempt, phase, task, results>>, QueueState' = QueueState
    PROVE  UNCHANGED Tickets!vars
BY DEF Tickets!vars, TicketsOut

(* Submitting enqueues; a passing lease or progress entry does nothing.     *)
LEMMA UserRefines ==
    ASSUME IInv, NEW s \in Submissions,
           Submit(s) \/ LeaseExpires(s) \/ ProgressExpires(s)
    PROVE  [Tickets!Next]_(Tickets!vars)
<1>1. CASE Submit(s)
  <2>1. QueueState[s] = "absent" /\ QueueState' = [QueueState EXCEPT ![s] = "waiting"]
    BY <1>1 DEF Submit, QueueState, Live, IInv, TypeOK
  <2>2. TicketsOut' = TicketsOut /\ attempt' = attempt
    BY <1>1 DEF Submit, TicketsOut, workers, wire
  <2>3. QED
    BY <2>1, <2>2 DEF Tickets!Next, Tickets!Enqueue
<1>2. CASE LeaseExpires(s) \/ ProgressExpires(s)
  BY <1>2, SameTickets DEF LeaseExpires, ProgressExpires, QueueState, row, workers, wire
<1>3. QED
  BY <1>1, <1>2

(* Leasing issues the next ticket.                                          *)
LEMMA TryLeaseRefines ==
    ASSUME IInv, NEW w \in Workers, TryLease(w)
    PROVE  [Tickets!Next]_(Tickets!vars)
<1>1. PICK s \in Submissions :
        /\ Leasable(s)
        /\ status' = [status EXCEPT ![s] = "judging"]
        /\ attempt' = [attempt EXCEPT ![s] = attempt[s] + 1]
        /\ phase' = [phase EXCEPT ![w] = "leased"]
        /\ task' = [task EXCEPT ![w] = [sub |-> s, attempt |-> attempt[s] + 1]]
  BY DEF TryLease, NextAttempt
<1>2. phase[w] = "idle" /\ results' = results
  BY DEF TryLease, wire
<1>3. QueueState[s] = "waiting" /\ QueueState' = QueueState
  BY <1>1 DEF Leasable, QueueState, Live, IInv, TypeOK
<1>4. TicketsOut' = TicketsOut \cup {[sub |-> s, attempt |-> attempt[s] + 1]}
  <2>1. \A v \in Workers : v # w => phase'[v] = phase[v] /\ task'[v] = task[v]
    BY <1>1 DEF IInv, TypeOK
  <2>2. /\ phase[w] \notin Unanswered /\ phase'[w] \in Unanswered
        /\ task'[w] = [sub |-> s, attempt |-> attempt[s] + 1]
    BY <1>1, <1>2 DEF IInv, TypeOK, Unanswered
  <2>3. QED
    BY <2>1, <2>2, <1>2 DEF TicketsOut
<1>5. Tickets!Issue(s)
  BY <1>1, <1>3, <1>4 DEF Tickets!Issue
<1>6. QED
  BY <1>5 DEF Tickets!Next

(* Giving a lease back, or dying with it, tears the ticket up.              *)
LEMMA GiveUpRefines ==
    ASSUME IInv, NEW w \in Workers, BuildPayloadFails(w) \/ Crash(w) \/ PostReturns(w)
    PROVE  [Tickets!Next]_(Tickets!vars)
<1>1. QueueState' = QueueState
  BY DEF BuildPayloadFails, Crash, PostReturns, QueueState, Live, IInv, TypeOK, row
<1>2. attempt' = attempt /\ results' = results
  BY DEF BuildPayloadFails, Crash, PostReturns, row, wire
<1>3. phase' = [phase EXCEPT ![w] = "idle"] /\ task' = [task EXCEPT ![w] = NoTask]
  BY DEF BuildPayloadFails, Crash, PostReturns
<1>4. CASE phase[w] \in Unanswered
  <2>1. Tickets!TearUp(task[w])
    BY <1>1, <1>2, <1>3, <1>4, DroppedTicket DEF Tickets!TearUp
  <2>2. QED
    BY <2>1, <1>4, HeldTicket DEF Tickets!Next
<1>5. CASE phase[w] \notin Unanswered
  <2>1. phase'[w] \notin Unanswered
        /\ \A v \in Workers : v # w => phase'[v] = phase[v] /\ task'[v] = task[v]
    BY <1>3 DEF IInv, TypeOK, Unanswered
  <2>2. TicketsOut' = TicketsOut
    BY <1>2, <1>5, <2>1 DEF TicketsOut
  <2>3. QED
    BY <1>1, <1>2, <2>2 DEF Tickets!vars
<1>6. QED
  BY <1>4, <1>5

(* Posting a result moves the ticket from the worker to the wire.           *)
LEMMA PostRefines ==
    ASSUME IInv, NEW w \in Workers, NEW v \in Verdicts,
           phase[w] \in {"prepare", "running"}, Post(w, v)
    PROVE  UNCHANGED Tickets!vars
<1> DEFINE m == [sub |-> task[w].sub, attempt |-> task[w].attempt,
                 judger |-> JudgerOf[w], verdict |-> v]
<1>1. task[w] \in Task
  BY Constants DEF IInv, TypeOK
<1>2. Ticket(m) = task[w]
  BY <1>1 DEF Ticket, Task
<1>3. /\ phase[w] \in Unanswered /\ phase'[w] \notin Unanswered /\ task' = task
      /\ \A x \in Workers : x # w => phase'[x] = phase[x]
      /\ results' = results \cup {m}
  BY DEF Post, IInv, TypeOK, Unanswered
<1>4. TicketsOut' = TicketsOut
  <2>1. {Ticket(n) : n \in results'} = {Ticket(n) : n \in results} \cup {task[w]}
    BY <1>2, <1>3
  <2>2. {task'[x] : x \in {y \in Workers : phase'[y] \in Unanswered}} \cup {task[w]}
        = {task[x] : x \in {y \in Workers : phase[y] \in Unanswered}}
    BY <1>3
  <2>3. QED
    BY <2>1, <2>2 DEF TicketsOut, Ticket
<1>5. QED
  BY <1>4 DEF Post, row, QueueState, Tickets!vars

(* The rest of a worker's steps leave the tickets where they are.           *)
LEMMA WorkRefines ==
    ASSUME IInv, NEW w \in Workers, BuildPayload(w) \/ FetchPackage(w) \/ Beat(w)
    PROVE  UNCHANGED Tickets!vars
<1>1. UNCHANGED <<status, attempt, task, results>>
  BY DEF BuildPayload, FetchPackage, Beat, row, workers, wire
<1>2. \A x \in Workers : phase'[x] \in Unanswered <=> phase[x] \in Unanswered
  BY DEF BuildPayload, FetchPackage, Beat, workers, Unanswered, IInv, TypeOK
<1>3. TicketsOut' = TicketsOut
  BY <1>1, <1>2 DEF TicketsOut
<1>4. QED
  BY <1>1, <1>3 DEF Tickets!vars, QueueState

(* An accepted result decides with the latest ticket.                       *)
LEMMA ResultTxRefines ==
    ASSUME IInv, NEW m \in results, ResultTx(m)
    PROVE  [Tickets!Next]_(Tickets!vars)
<1>1. /\ m.sub \in Submissions /\ m.verdict \in Verdicts /\ m.attempt = attempt[m.sub]
      /\ status[m.sub] = "judging" /\ status' = [status EXCEPT ![m.sub] = m.verdict]
  BY ResultStep DEF IInv, TypeOK, Result
<1>2. QueueState[m.sub] = "waiting"
      /\ QueueState' = [QueueState EXCEPT ![m.sub] = m.verdict]
  BY <1>1 DEF QueueState, Live, Verdicts, IInv, TypeOK
<1>3. results' = results \ {m} /\ UNCHANGED <<attempt, phase, task>>
  BY DEF ResultTx, workers
<1>4. Tickets!Decide(Ticket(m), m.verdict)
  BY <1>1, <1>2, <1>3, ReceivedTicket, SentTicket DEF Tickets!Decide
<1>5. QED
  BY <1>1, <1>4, SentTicket DEF Tickets!Next

(* A refused or lost result tears its ticket up; heartbeats carry none.     *)
LEMMA DropRefines ==
    ASSUME IInv, NEW m \in beats \cup results, Refuse(m) \/ Lose(m)
    PROVE  [Tickets!Next]_(Tickets!vars)
<1>1. results' = results \ {m} /\ UNCHANGED <<status, attempt, phase, task>>
  BY DEF Refuse, Lose, row, workers
<1>2. QueueState' = QueueState
  BY <1>1 DEF QueueState
<1>3. CASE m \in results
  <2>1. Tickets!TearUp(Ticket(m))
    BY <1>1, <1>2, <1>3, ReceivedTicket DEF Tickets!TearUp
  <2>2. QED
    BY <2>1, <1>3, SentTicket DEF Tickets!Next
<1>4. CASE m \notin results
  BY <1>1, <1>2, <1>4, SameTickets
<1>5. QED
  BY <1>3, <1>4

(* A committed rejudge requeues its rows.                                   *)
LEMMA RejudgeRefines ==
    ASSUME IInv, NEW r \in Rejudges, RejudgeCommit(r)
    PROVE  [Tickets!Next]_(Tickets!vars)
<1> DEFINE ids == rejudge[r].ids
<1>1. ids \in SUBSET Submissions
  BY DEF IInv, TypeOK
<1>2. \A s \in ids : QueueState[s] # "absent"
  BY <1>1 DEF IInv, RowShape, QueueState
<1>3. QueueState' = [s \in Submissions |-> IF s \in ids THEN "waiting" ELSE QueueState[s]]
  BY DEF RejudgeCommit, QueueState, Live
<1>4. attempt' = [s \in Submissions |-> IF s \in ids THEN attempt[s] + 1 ELSE attempt[s]]
  BY DEF RejudgeCommit, RejudgedAttempt
<1>5. TicketsOut' = TicketsOut
  BY DEF RejudgeCommit, TicketsOut, workers, wire
<1>6. Tickets!Requeue(ids)
  BY <1>2, <1>3, <1>4, <1>5 DEF Tickets!Requeue
<1>7. QED
  BY <1>1, <1>6 DEF Tickets!Next

(* The rest of the server's steps are invisible to the ticket queue.        *)
LEMMA CacheRefines ==
    ASSUME \/ \E m \in beats : HeartbeatTx(m)
           \/ \E e \in effects : ApplyEffect(e)
           \/ \E r \in Rejudges : \/ RejudgeAborts(r)
                                 \/ \E ids \in RejudgeTargets : RejudgeDelete(r, ids)
    PROVE  UNCHANGED Tickets!vars
<1>1. UNCHANGED <<status, attempt, phase, task, results>>
  BY DEF HeartbeatTx, ApplyEffect, RejudgeAborts, RejudgeDelete, row, workers, wire
<1>2. QED
  BY <1>1, SameTickets DEF QueueState

(* Leases, heartbeats, retries, results and rejudges together implement the *)
(* ticket queue.                                                            *)
THEOREM Refinement == Spec => ImplementsTickets
<1>1. Init => Tickets!Init
  BY DEF Init, Tickets!Init, QueueState, TicketsOut, Live, Unanswered
<1>2. IInv /\ [Next]_vars => [Tickets!Next]_(Tickets!vars)
  <2> SUFFICES ASSUME IInv, [Next]_vars PROVE [Tickets!Next]_(Tickets!vars)
    OBVIOUS
  <2>1. CASE UNCHANGED vars
    BY <2>1, SameTickets DEF vars, row, workers, wire, QueueState
  <2>2. CASE ServerStep
    BY <2>2, UserRefines, CacheRefines, ResultTxRefines, DropRefines DEF ServerStep
  <2>3. CASE RejudgeStep
    BY <2>3, RejudgeRefines, CacheRefines DEF RejudgeStep
  <2>4. CASE WorkerStep
    BY <2>4, TryLeaseRefines, GiveUpRefines, PostRefines, WorkRefines
       DEF WorkerStep, FetchFails, FinishRun, Verdicts
  <2>5. QED
    BY <2>1, <2>2, <2>3, <2>4 DEF Next
<1>3. QED
  BY <1>1, <1>2, Bookkeeping, PTL DEF Spec, ImplementsTickets, Tickets!Spec

=============================================================================
