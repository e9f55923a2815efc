---------------------------- MODULE RunnerProtocol ----------------------------
(***************************************************************************)
(* How one submission is run: the judger outside the container and the     *)
(* runner inside it, talking over a socket.                                *)
(*                                                                         *)
(* The judger asks for a compilation and then for one case after another.  *)
(* For a case the runner starts the user's program behind a gate and tells *)
(* its pid; the judger puts the process into a cgroup and releases it.     *)
(* The time limit of the case runs in the runner all the while, and when   *)
(* it ends the runner answers without waiting for the release, which may   *)
(* be on its way.  With a custom judge two programs run and talk to each   *)
(* other, and their ends are waited for in any order.                      *)
(*                                                                         *)
(* Simplifications.  Requests come in the judger's order, so the runner's  *)
(* checks of hello and of the compiled command always pass.  The exit of a *)
(* program stands for what the program did; the text of messages, times    *)
(* and memory figures are left out.  An error of the file system, of a     *)
(* cgroup or of the container is a fault, of which there are MaxFaults.    *)
(***************************************************************************)
EXTENDS Integers, Sequences

CONSTANTS
    NCases,     \* the cases of the task
    MaxFaults,  \* bound: errors of the environment
    NoResult

FullScore == 2
Cases     == 1..NCases
Modes     == {"builtin", "custom"}
Verdicts  == {"AC", "WA", "TLE", "MLE", "OLE", "RE", "SE"}
Result    == [verdict: Verdicts, score: 0..FullScore]

(* How a program ended: for the user's, failed is a status or a signal and  *)
(* stopped a kill at the gate; for the judge, what its exit code and the    *)
(* points it wrote amount to.  A judge that is killed counts as exit 3,     *)
(* with the points it has written so far.                                   *)
UserEnds  == {"ok", "failed", "brokenPipe", "overflow", "stopped"}
JudgeEnds == {"accepted", "wrong", "partial", "fail"}
Killed    == {"accepted", "partial", "fail"}
Checks    == {"accepted", "wrong", "fail"}  \* what the built-in checker says

ASSUME ConstantsAssumption ==
    /\ NCases \in Nat \ {0}
    /\ MaxFaults \in Nat
    /\ NoResult \notin Result

VARIABLES
    mode,       \* how the problem is judged
    toRunner,   \* the two directions of the socket
    toJudger,
    stage,      \* how far the judger is
    current,    \* the case the judger asked for last
    got,        \* the results it has, by case
    verdict,    \* and what they amount to so far
    score,
    cgroup,     \* the cgroup of each case
    limit,      \* the limit of the cgroup that was reached
    local,      \* the runner's goroutine of each case
    pending,    \* the gates the runner can release
    released,   \* the gates it has released
    expired,    \* the cases whose time limit has ended
    user,       \* the user's program, by case
    child,      \* a process it left behind in a group of its own
    judge,      \* the custom judge, or the checker
    waited,     \* the programs whose end the runner has taken note of
    faults

socket   == <<toRunner, toJudger>>
results  == <<current, got, verdict, score>>
gates    == <<pending, released>>
programs == <<user, child, judge>>
vars     == <<mode, socket, stage, results, cgroup, limit, local, gates, expired,
              programs, waited, faults>>

Requests == {"hello", "compile", "run_case", "release_user"}
Answers  == {"hello", "compile_result", "user_pid", "error"}

TypeOK ==
    /\ mode \in Modes
    /\ toRunner \in Seq([kind: Requests, case: 0..NCases])
    /\ toJudger \in Seq([kind: Answers, case: 0..NCases, ok: BOOLEAN]
                        \cup [kind: {"case_result"}, case: Cases, result: Result])
    /\ stage \in {"hello", "compile", "case", "done", "rejected", "failed"}
    /\ current \in 0..NCases
    /\ got \in [Cases -> Result \cup {NoResult}]
    /\ verdict \in Verdicts
    /\ score \in 0..(NCases * FullScore)
    /\ cgroup \in [Cases -> {"none", "made", "removed"}]
    /\ limit \in [Cases -> {"none", "memory", "pids"}]
    /\ local \in [Cases -> {"none", "preparing", "gate", "waiting", "answered", "ended"}]
    /\ pending \subseteq Cases /\ released \subseteq Cases
    /\ expired \subseteq Cases
    /\ user \in [Cases -> {"none", "gate", "running"} \cup UserEnds]
    /\ child \in [Cases -> BOOLEAN]
    /\ judge \in [Cases -> {"none", "running"} \cup JudgeEnds]
    /\ waited \in [Cases -> SUBSET {"user", "judge"}]
    /\ faults \in 0..MaxFaults

Request(kind, c) == [kind |-> kind, case |-> c]
Answer(kind, c, ok) == [kind |-> kind, case |-> c, ok |-> ok]

(* The judger connects and says hello at once.                              *)
Init ==
    /\ mode \in Modes
    /\ toRunner = <<Request("hello", 0)>> /\ toJudger = <<>>
    /\ stage = "hello"
    /\ current = 0 /\ got = [c \in Cases |-> NoResult] /\ verdict = "AC" /\ score = 0
    /\ cgroup = [c \in Cases |-> "none"] /\ limit = [c \in Cases |-> "none"]
    /\ local = [c \in Cases |-> "none"]
    /\ pending = {} /\ released = {} /\ expired = {}
    /\ user = [c \in Cases |-> "none"] /\ child = [c \in Cases |-> FALSE]
    /\ judge = [c \in Cases |-> "none"]
    /\ waited = [c \in Cases |-> {}]
    /\ faults = 0

-----------------------------------------------------------------------------
Fault == faults < MaxFaults /\ faults' = faults + 1

Asked(kind) == toRunner # <<>> /\ Head(toRunner).kind = kind
Heard(kind) == toJudger # <<>> /\ Head(toJudger).kind = kind

UserAlive(c) == user[c] \in {"gate", "running"}

(* The user's program and the judge of a case killed, where they still run. *)
UserKilled(c) == CASE user[c] = "gate"    -> "stopped"
                   [] user[c] = "running" -> "failed"
                   [] OTHER               -> user[c]
KillPrograms(c) ==
    /\ user' = [user EXCEPT ![c] = UserKilled(c)]
    /\ \E end \in Killed :
        judge' = [judge EXCEPT ![c] = IF judge[c] = "running" THEN end ELSE judge[c]]
KillAllPrograms ==
    /\ user' = [c \in Cases |-> UserKilled(c)]
    /\ child' = [c \in Cases |-> FALSE]
    /\ judge' = [c \in Cases |-> IF judge[c] = "running" THEN "fail" ELSE judge[c]]

-----------------------------------------------------------------------------
(***************************************************************************)
(* The runner: its loop over requests, and one goroutine per case.         *)
(***************************************************************************)
Sends(message) == toJudger' = Append(toJudger, message)
Served == toRunner' = Tail(toRunner)

ServeHello ==
    /\ Asked("hello")
    /\ Served
    /\ Sends(Answer("hello", 0, TRUE))
    /\ UNCHANGED <<mode, stage, results, cgroup, limit, local, gates, expired, programs,
                   waited, faults>>

(* A compilation that fails or exceeds its limits is an answer, too.        *)
ServeCompile ==
    /\ Asked("compile")
    /\ Served
    /\ \/ \E ok \in BOOLEAN : Sends(Answer("compile_result", 0, ok))
          /\ UNCHANGED faults
       \/ Fault /\ Sends(Answer("error", 0, FALSE))
    /\ UNCHANGED <<mode, stage, results, cgroup, limit, local, gates, expired, programs, waited>>

(* Mutation of Registers: the gate is made without being entered.           *)
Unregistered(c) == pending' = pending

Registers(c) == pending' = pending \cup {c}

ServeRunCase ==
    /\ Asked("run_case")
    /\ Served
    /\ LET c == Head(toRunner).case
       IN  /\ local' = [local EXCEPT ![c] = "preparing"]
           /\ Registers(c)
    /\ UNCHANGED <<mode, toJudger, stage, results, cgroup, limit, released, expired,
                   programs, waited, faults>>

(* A gate is released once; a gate that is gone makes an error, which does  *)
(* not say whom it answers.                                                 *)
ServeRelease ==
    /\ Asked("release_user")
    /\ Served
    /\ LET c == Head(toRunner).case
       IN  \/ /\ c \in pending
              /\ pending' = pending \ {c} /\ released' = released \cup {c}
              /\ UNCHANGED toJudger
           \/ /\ c \notin pending
              /\ Sends(Answer("error", c, FALSE))
              /\ UNCHANGED gates
    /\ UNCHANGED <<mode, stage, results, cgroup, limit, local, expired, programs, waited, faults>>

(* The case's directory, its programs and the pid of the user's; the time   *)
(* limit starts to run.                                                     *)
StartCase(c) ==
    /\ local[c] = "preparing"
    /\ local' = [local EXCEPT ![c] = "gate"]
    /\ user' = [user EXCEPT ![c] = "gate"]
    /\ judge' = [judge EXCEPT ![c] = IF mode = "custom" THEN "running" ELSE "none"]
    /\ Sends(Answer("user_pid", c, TRUE))
    /\ UNCHANGED <<mode, toRunner, stage, results, cgroup, limit, gates, expired, child,
                   waited, faults>>

StartFails(c) ==
    /\ local[c] = "preparing"
    /\ Fault
    /\ local' = [local EXCEPT ![c] = "answered"]
    /\ Sends(Answer("error", c, FALSE))
    /\ UNCHANGED <<mode, toRunner, stage, results, cgroup, limit, gates, expired, programs, waited>>

GivesResult(c, result) ==
    /\ local' = [local EXCEPT ![c] = "answered"]
    /\ waited' = [waited EXCEPT ![c] = {}]
    /\ Sends([kind |-> "case_result", case |-> c, result |-> result])

Scored(v, points) == [verdict |-> v, score |-> points]

(* The gate opens; a program killed meanwhile stays dead.                   *)
PassGate(c) ==
    /\ local[c] = "gate"
    /\ c \in released
    /\ local' = [local EXCEPT ![c] = "waiting"]
    /\ user' = [user EXCEPT ![c] = IF user[c] = "gate" THEN "running" ELSE user[c]]
    /\ UNCHANGED <<mode, socket, stage, results, cgroup, limit, gates, expired, child, judge,
                   waited, faults>>

GateTimesOut(c) ==
    /\ local[c] = "gate"
    /\ c \in expired
    /\ KillPrograms(c)
    /\ GivesResult(c, Scored("TLE", 0))
    /\ UNCHANGED <<mode, toRunner, stage, results, cgroup, limit, gates, expired, child, faults>>

(* Mutation of Testlib: points that are not clamped to the case's score.    *)
Unclamped(end) ==
    CASE end = "accepted" -> Scored("AC", FullScore)
      [] end = "wrong"    -> Scored("WA", 0)
      [] end = "partial"  -> Scored("WA", FullScore + 1)
      [] end = "fail"     -> Scored("SE", 0)

(* caseResultFromTestlib                                                    *)
Testlib(end) ==
    CASE end = "accepted" -> Scored("AC", FullScore)
      [] end = "wrong"    -> Scored("WA", 0)
      [] end = "partial"  -> Scored("WA", 1)
      [] end = "fail"     -> Scored("SE", 0)

(* What the end of the user's program makes of the judge's word.            *)
Judged(userEnd, judgeEnd) ==
    CASE userEnd = "overflow"              -> Scored("OLE", 0)
      [] userEnd \in {"ok", "brokenPipe"}  -> Testlib(judgeEnd)
      [] OTHER                             -> Scored("RE", 0)

(* One program's end read from the channel of the two waits.                *)
TakeEnd(c, program) ==
    /\ local[c] = "waiting"
    /\ program \notin waited[c]
    /\ \/ program = "user" /\ user[c] \in UserEnds
       \/ program = "judge" /\ judge[c] \in JudgeEnds
    /\ waited' = [waited EXCEPT ![c] = waited[c] \cup {program}]
    /\ UNCHANGED <<mode, socket, stage, results, cgroup, limit, local, gates, expired,
                   programs, faults>>

ConcludeCustom(c) ==
    /\ local[c] = "waiting"
    /\ mode = "custom"
    /\ waited[c] = {"user", "judge"}
    /\ GivesResult(c, Judged(user[c], judge[c]))
    /\ UNCHANGED <<mode, toRunner, stage, results, cgroup, limit, gates, expired, programs, faults>>

(* The checker runs after the program has ended well.                       *)
ConcludeBuiltin(c) ==
    /\ local[c] = "waiting"
    /\ mode = "builtin"
    /\ waited[c] = {"user"}
    /\ \E check \in Checks :
        /\ judge' = [judge EXCEPT ![c] = IF user[c] = "ok" THEN check ELSE "none"]
        /\ GivesResult(c, Judged(user[c], check))
    /\ UNCHANGED <<mode, toRunner, stage, results, cgroup, limit, gates, expired, user, child, faults>>

(* Mutation of TimedOut: a judge that accepts is heard, too.                *)
HeardAnyway(c) == IF "judge" \in waited[c] THEN Testlib(judge[c]) ELSE Scored("TLE", 0)

(* The limit ends while a program is awaited: a custom judge that had ended *)
(* already and did not accept is still heard.                               *)
TimedOut(c) ==
    IF "judge" \in waited[c] /\ Testlib(judge[c]).verdict # "AC"
    THEN Testlib(judge[c])
    ELSE Scored("TLE", 0)

(* Mutation of WaitTimesOut: no time limit once one program has ended.      *)
WaitTimesOutAtFirst(c) ==
    /\ local[c] = "waiting"
    /\ c \in expired
    /\ waited[c] = {}
    /\ KillPrograms(c)
    /\ GivesResult(c, TimedOut(c))
    /\ UNCHANGED <<mode, toRunner, stage, results, cgroup, limit, gates, expired, child, faults>>

WaitTimesOut(c) ==
    /\ local[c] = "waiting"
    /\ c \in expired
    /\ waited[c] # IF mode = "custom" THEN {"user", "judge"} ELSE {"user"}
    /\ KillPrograms(c)
    /\ GivesResult(c, TimedOut(c))
    /\ UNCHANGED <<mode, toRunner, stage, results, cgroup, limit, gates, expired, child, faults>>

(* The deferred end of the goroutine.                                       *)
EndCase(c) ==
    /\ local[c] = "answered"
    /\ local' = [local EXCEPT ![c] = "ended"]
    /\ pending' = pending \ {c} /\ released' = released \ {c}
    /\ UNCHANGED <<mode, socket, stage, results, cgroup, limit, expired, programs, waited, faults>>

-----------------------------------------------------------------------------
(***************************************************************************)
(* The clock, the kernel and the two programs.                             *)
(***************************************************************************)
Running(c) == local[c] \in {"gate", "waiting"}

TimeLimit(c) ==
    /\ Running(c)
    /\ c \notin expired
    /\ expired' = expired \cup {c}
    /\ UNCHANGED <<mode, socket, stage, results, cgroup, limit, local, gates, programs,
                   waited, faults>>

(* exec.CommandContext kills the two programs by itself, at any time after. *)
KilledByContext(c) ==
    /\ Running(c)
    /\ c \in expired
    /\ UserAlive(c) \/ judge[c] = "running"
    /\ KillPrograms(c)
    /\ UNCHANGED <<mode, socket, stage, results, cgroup, limit, local, gates, expired, child,
                   waited, faults>>

(* A program may leave a process behind that a kill of its group misses.    *)
UserForks(c) ==
    /\ user[c] = "running"
    /\ ~child[c]
    /\ child' = [child EXCEPT ![c] = TRUE]
    /\ UNCHANGED <<mode, socket, stage, results, cgroup, limit, local, gates, expired, user,
                   judge, waited, faults>>

(* Writing to a judge that has ended breaks the pipe.                       *)
UserExits(c) ==
    /\ user[c] = "running"
    /\ \E end \in {"ok", "failed", "brokenPipe", "overflow"} :
        /\ end = "brokenPipe" => judge[c] \in JudgeEnds
        /\ user' = [user EXCEPT ![c] = end]
    /\ UNCHANGED <<mode, socket, stage, results, cgroup, limit, local, gates, expired, child,
                   judge, waited, faults>>

JudgeExits(c) ==
    /\ judge[c] = "running"
    /\ \E end \in JudgeEnds : judge' = [judge EXCEPT ![c] = end]
    /\ UNCHANGED <<mode, socket, stage, results, cgroup, limit, local, gates, expired, user,
                   child, waited, faults>>

LimitReached(c) ==
    /\ cgroup[c] = "made"
    /\ user[c] = "running" \/ child[c]
    /\ limit[c] = "none"
    /\ \E which \in {"memory", "pids"} : limit' = [limit EXCEPT ![c] = which]
    /\ UNCHANGED <<mode, socket, stage, results, cgroup, local, gates, expired, programs,
                   waited, faults>>

(* The judger's watch, every 10 ms, or the kernel before it.                *)
KilledForMemory(c) ==
    /\ cgroup[c] = "made"
    /\ limit[c] = "memory"
    /\ UserAlive(c) \/ child[c]
    /\ user' = [user EXCEPT ![c] = UserKilled(c)]
    /\ child' = [child EXCEPT ![c] = FALSE]
    /\ UNCHANGED <<mode, socket, stage, results, cgroup, limit, local, gates, expired, judge,
                   waited, faults>>

-----------------------------------------------------------------------------
(***************************************************************************)
(* The judger.                                                             *)
(***************************************************************************)
Heeds == toJudger' = Tail(toJudger)
Asks(request) == toRunner' = Append(toRunner, request)

HearHello ==
    /\ stage = "hello" /\ Heard("hello")
    /\ Heeds
    /\ stage' = "compile"
    /\ Asks(Request("compile", 0))
    /\ UNCHANGED <<mode, results, cgroup, limit, local, gates, expired, programs, waited, faults>>

AskCase(c) == current' = c /\ Asks(Request("run_case", c))

(* A program that does not compile ends the task, and so does a custom      *)
(* judge that cannot be built; otherwise the first case is asked for.       *)
HearCompiled ==
    /\ stage = "compile" /\ Heard("compile_result")
    /\ Heeds
    /\ \/ /\ Head(toJudger).ok
          /\ stage' = "case"
          /\ AskCase(1)
       \/ /\ ~Head(toJudger).ok \/ mode = "custom"
          /\ stage' = "rejected"
          /\ UNCHANGED <<toRunner, current>>
    /\ UNCHANGED <<mode, got, verdict, score, cgroup, limit, local, gates, expired, programs,
                   waited, faults>>

(* Mutation of CleanUp: only the program itself is killed.                  *)
CleanUpProgram(c) ==
    IF cgroup[c] = "made"
    THEN /\ cgroup' = [cgroup EXCEPT ![c] = "removed"]
         /\ user' = [user EXCEPT ![c] = UserKilled(c)]
         /\ UNCHANGED child
    ELSE UNCHANGED <<cgroup, user, child>>

(* Cleanup kills what is left in the cgroup and removes it.                 *)
CleanUp(c) ==
    IF cgroup[c] = "made"
    THEN /\ cgroup' = [cgroup EXCEPT ![c] = "removed"]
         /\ user' = [user EXCEPT ![c] = UserKilled(c)]
         /\ child' = [child EXCEPT ![c] = FALSE]
    ELSE UNCHANGED <<cgroup, user, child>>

(* runTask returns an error, which becomes the verdict SE of the task.      *)
TaskFails ==
    /\ stage' = "failed"
    /\ IF stage = "case" THEN CleanUp(current) ELSE UNCHANGED <<cgroup, user, child>>

Confined(c) ==
    /\ cgroup' = [cgroup EXCEPT ![c] = "made"]
    /\ Asks(Request("release_user", c))

(* The pid is looked up among the container's processes, put into a new     *)
(* cgroup, and released; a process that is gone is not found.               *)
HearUserPID ==
    /\ stage = "case" /\ Heard("user_pid")
    /\ Heeds
    /\ LET c == Head(toJudger).case
       IN  \/ /\ UserAlive(c)
              /\ Confined(c)
              /\ UNCHANGED <<stage, user, child, faults>>
           \/ /\ UserAlive(c) => faults < MaxFaults
              /\ faults' = IF UserAlive(c) THEN faults + 1 ELSE faults
              /\ TaskFails
              /\ UNCHANGED toRunner
    /\ UNCHANGED <<mode, results, limit, local, gates, expired, judge, waited>>

(* applyCgroupStatsSnapshot: the cgroup has the last word.                  *)
Limited(result, reached) ==
    CASE reached = "memory"                            -> Scored("MLE", 0)
      [] reached = "pids" /\ result.verdict = "AC"     -> Scored("RE", 0)
      [] OTHER                                         -> result

(* Mutation of CaseStats: asked after the cgroup is gone.                   *)
StatsTooLate(c, result) == result

CaseStats(c, result) == IF cgroup[c] = "made" THEN Limited(result, limit[c]) ELSE result

(* The result is booked and the next case asked for, unless the cgroup      *)
(* cannot be removed.                                                       *)
HearResult ==
    /\ stage = "case" /\ Heard("case_result")
    /\ Heeds
    /\ CleanUp(current)
    /\ LET result == CaseStats(current, Head(toJudger).result)
       IN  /\ got' = [got EXCEPT ![current] = result]
           /\ verdict' = IF verdict = "AC" THEN result.verdict ELSE verdict
           /\ score' = score + result.score
    /\ IF current < NCases
       THEN AskCase(current + 1) /\ UNCHANGED stage
       ELSE stage' = "done" /\ UNCHANGED <<toRunner, current>>
    /\ UNCHANGED <<mode, limit, local, gates, expired, judge, waited, faults>>

CleanUpFails ==
    /\ stage = "case" /\ Heard("case_result")
    /\ cgroup[current] = "made"
    /\ Fault
    /\ Heeds
    /\ stage' = "failed"
    /\ UNCHANGED <<mode, toRunner, results, cgroup, limit, local, gates, expired, programs, waited>>

(* Whatever it is about, an error ends the task.                            *)
HearError ==
    /\ stage \in {"compile", "case"} /\ Heard("error")
    /\ Heeds
    /\ TaskFails
    /\ UNCHANGED <<mode, toRunner, results, limit, local, gates, expired, judge, waited, faults>>

Over == stage \in {"done", "rejected", "failed"}

(* The container dies, or the connection is lost, or the judger is told to  *)
(* stop: Recv fails.                                                        *)
Disconnect ==
    /\ ~Over
    /\ Fault
    /\ stage' = "failed"
    /\ KillAllPrograms
    /\ local' = [c \in Cases |-> "ended"]
    /\ cgroup' = [c \in Cases |-> IF cgroup[c] = "made" THEN "removed" ELSE cgroup[c]]
    /\ UNCHANGED <<mode, socket, results, limit, gates, expired, waited>>

(* RunContainerTask removes the container, whatever came of the task.       *)
RemoveContainer ==
    /\ Over
    /\ local # [c \in Cases |-> "ended"]
    /\ KillAllPrograms
    /\ local' = [c \in Cases |-> "ended"]
    /\ UNCHANGED <<mode, socket, stage, results, cgroup, limit, gates, expired, waited, faults>>

-----------------------------------------------------------------------------
Judger == HearHello \/ HearCompiled \/ HearUserPID \/ HearResult \/ HearError \/ RemoveContainer
Runner == ServeHello \/ ServeCompile \/ ServeRunCase \/ ServeRelease
Goroutine(c) ==
    \/ StartCase(c) \/ PassGate(c) \/ GateTimesOut(c)
    \/ ConcludeCustom(c) \/ ConcludeBuiltin(c) \/ WaitTimesOut(c) \/ EndCase(c)

Next ==
    \/ Judger \/ CleanUpFails \/ Disconnect
    \/ Runner
    \/ \E c \in Cases :
        \/ Goroutine(c) \/ StartFails(c)
        \/ \E program \in {"user", "judge"} : TakeEnd(c, program)
        \/ TimeLimit(c) \/ KilledByContext(c)
        \/ UserForks(c) \/ UserExits(c) \/ JudgeExits(c)
        \/ LimitReached(c) \/ KilledForMemory(c)

Spec == Init /\ [][Next]_vars

(* The judger, the runner and the clock go on; the programs need not end,   *)
(* and the end of one may go unnoticed while a process it left behind holds *)
(* its output open.                                                         *)
FairSpec ==
    /\ Spec
    /\ WF_vars(Judger) /\ WF_vars(Runner)
    /\ \A c \in Cases : WF_vars(Goroutine(c)) /\ WF_vars(TimeLimit(c))

-----------------------------------------------------------------------------
(* The verdict of a case follows from how its own two programs ended and    *)
(* from its own cgroup, whichever of the two was first and whatever became  *)
(* of other cases; only at the time limit may it be TLE, or the judge's     *)
(* rejection, instead.  A case is accepted only if its program ended by     *)
(* itself, within its cgroup's limits, to the judge's satisfaction, and a   *)
(* task is when all of its cases are, with their full score.                *)
VerdictOf(c) == Limited(Judged(user[c], judge[c]), limit[c])
Accepted(c) == got[c].verdict = "AC"
VerdictIsEarned ==
    /\ \A c \in Cases : got[c] # NoResult =>
        /\ (c \in expired /\ ~Accepted(c)) \/ got[c] = VerdictOf(c)
        /\ Accepted(c) => /\ user[c] \in {"ok", "brokenPipe"}
                         /\ judge[c] = "accepted"
                         /\ limit[c] = "none"
    /\ stage = "done" =>
        /\ (verdict = "AC") <=> \A c \in Cases : Accepted(c)
        /\ (verdict = "AC") <=> (score = NCases * FullScore)

(* The user's program runs in the cgroup of its case and nowhere else: it   *)
(* is not let go before it is in there, and nothing of it is left when the  *)
(* judger has gone on to another case.                                      *)
UserIsConfined ==
    \A c \in Cases :
        user[c] = "running" \/ child[c] => cgroup[c] = "made" /\ c = current

(* Unless the environment failed, a task ends in a system error only when   *)
(* a case's time limit ended before its program was let go: the late        *)
(* release, or the pid of the program killed for it, makes the error.       *)
FailureHasCause ==
    stage = "failed" /\ faults = 0 => \E c \in Cases : user[c] = "stopped" /\ c \in expired

(* Every task ends, whatever its programs do.                               *)
Ends == <>(Over /\ \A c \in Cases : local[c] = "ended")
=============================================================================
