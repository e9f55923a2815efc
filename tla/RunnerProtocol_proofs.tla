------------------------ MODULE RunnerProtocol_proofs ------------------------
(***************************************************************************)
(* Proofs about RunnerProtocol: whatever the number of cases and of        *)
(* faults, the user's program runs in its cgroup only, a verdict follows   *)
(* from how the programs of its own case ended, and a task fails without a *)
(* fault only after a time limit that ended before its program was let go. *)
(***************************************************************************)
EXTENDS RunnerProtocol, SequenceTheorems, TLAPS

(***************************************************************************)
(* What is on its way in the two directions.  The proofs speak of the two  *)
(* queues by what they contain.                                            *)
(***************************************************************************)
RequestMessage == [kind: Requests, case: 0..NCases]
ResultMessage  == [kind: {"case_result"}, case: Cases, result: Result]
AnswerMessage  == [kind: Answers, case: 0..NCases, ok: BOOLEAN] \cup ResultMessage

Contents(queue) == {queue[i] : i \in 1..Len(queue)}

CasesOf(messages, kind) == {c \in Cases : \E m \in messages : m.kind = kind /\ m.case = c}

asked   == CasesOf(Contents(toRunner), "run_case")
letGo   == CasesOf(Contents(toRunner), "release_user")
told    == CasesOf(Contents(toJudger), "user_pid")
answers == {m \in Contents(toJudger) : m.kind = "case_result"}
brought == CasesOf(Contents(toJudger), "case_result")
errors  == {m \in Contents(toJudger) : m.kind = "error"}

(* No message about a case comes twice.                                     *)
Once(queue, kinds) ==
    \A i, j \in 1..Len(queue) :
        queue[i].kind \in kinds /\ queue[j].kind = queue[i].kind
            /\ queue[j].case = queue[i].case => i = j

AboutCases(queue, kinds) == \A m \in Contents(queue) : m.kind \in kinds => m.case \in Cases

(* Nor does a pid come after a result.                                      *)
PidsFirst ==
    \A i, j \in 1..Len(toJudger) :
        toJudger[i].kind = "case_result" /\ toJudger[j].kind = "user_pid" => j < i

RunnerQueueOK ==
    /\ toRunner \in Seq(RequestMessage)
    /\ Once(toRunner, {"run_case", "release_user"})
    /\ AboutCases(toRunner, {"run_case", "release_user"})

JudgerQueueOK ==
    /\ toJudger \in Seq(AnswerMessage)
    /\ Once(toJudger, {"user_pid", "case_result"})
    /\ AboutCases(toJudger, {"user_pid", "case_result"})
    /\ PidsFirst

QueuesOK == RunnerQueueOK /\ JudgerQueueOK

-----------------------------------------------------------------------------
LEMMA AppendContents ==
    ASSUME NEW S, NEW q \in Seq(S), NEW m \in S
    PROVE  Contents(Append(q, m)) = Contents(q) \cup {m}
<1> DEFINE r == Append(q, m)
<1>1. /\ r \in Seq(S) /\ Len(r) = Len(q) + 1
      /\ \A i \in 1..Len(q) : r[i] = q[i]
      /\ r[Len(q) + 1] = m
  BY AppendProperties
<1>2. Len(q) \in Nat
  BY LenProperties
<1> HIDE DEF r
<1>3. \A i \in 1..Len(r) : i \in 1..Len(q) \/ i = Len(q) + 1
  BY <1>1, <1>2
<1>4. \A i \in 1..Len(q) : i \in 1..Len(r)
  BY <1>1, <1>2
<1>5. Len(q) + 1 \in 1..Len(r)
  BY <1>1, <1>2
<1>6. Contents(r) = Contents(q) \cup {m}
  BY <1>1, <1>3, <1>4, <1>5, Zenon DEF Contents
<1>7. QED
  BY <1>6 DEF r

LEMMA TailContents ==
    ASSUME NEW S, NEW q \in Seq(S), q # <<>>
    PROVE  /\ Head(q) \in S /\ Tail(q) \in Seq(S)
           /\ Head(q) = q[1] /\ 1 \in 1..Len(q)
           /\ Head(q) \in Contents(q)
           /\ Len(Tail(q)) = Len(q) - 1
           /\ \A i \in 1..Len(Tail(q)) : i + 1 \in 1..Len(q) /\ Tail(q)[i] = q[i + 1]
           /\ Contents(Tail(q)) \subseteq Contents(q)
<1> DEFINE r == Tail(q)
<1>1. /\ Head(q) \in S /\ r \in Seq(S) /\ Len(r) = Len(q) - 1
      /\ \A i \in 1..Len(r) : r[i] = q[i + 1]
  BY HeadTailProperties
<1>2. Head(q) = q[1]
  OBVIOUS
<1>3. Len(q) \in Nat /\ Len(q) # 0
  BY LenProperties, EmptySeq
<1> HIDE DEF r
<1>4. 1 \in 1..Len(q) /\ \A i \in 1..Len(r) : i + 1 \in 1..Len(q)
  BY <1>1, <1>3
<1>5. Head(q) \in Contents(q) /\ Contents(r) \subseteq Contents(q)
  BY <1>1, <1>2, <1>4 DEF Contents
<1>6. QED
  BY <1>1, <1>2, <1>4, <1>5 DEF r

LEMMA ContentsTyped ==
    ASSUME NEW S, NEW q \in Seq(S)
    PROVE  Contents(q) \subseteq S
  BY ElementOfSeq DEF Contents

LEMMA CasesNumbered == /\ \A c \in Cases : c \in 0..NCases /\ c # 0
                       /\ \A c \in 0..NCases : c # 0 => c \in Cases
                       /\ 0 \in 0..NCases /\ NCases \in Nat \ {0}
  BY ConstantsAssumption DEF Cases

LEMMA AnswerTyped ==
    ASSUME NEW kind \in Answers, NEW c \in 0..NCases, NEW ok \in BOOLEAN
    PROVE  LET m == Answer(kind, c, ok)
           IN  m \in AnswerMessage /\ m.kind = kind /\ m.case = c
  BY DEF AnswerMessage, Answer

(***************************************************************************)
(* What one operation on a queue does to what is on its way.               *)
(***************************************************************************)
LEMMA AsksEffect ==
    ASSUME RunnerQueueOK, NEW kind \in Requests, NEW c \in 0..NCases,
           Asks(Request(kind, c)),
           kind = "run_case" => c \in Cases \ asked,
           kind = "release_user" => c \in Cases \ letGo
    PROVE  /\ RunnerQueueOK'
           /\ asked' = IF kind = "run_case" THEN asked \cup {c} ELSE asked
           /\ letGo' = IF kind = "release_user" THEN letGo \cup {c} ELSE letGo
<1> DEFINE m == Request(kind, c)
<1> DEFINE q == toRunner'
<1>1. m \in RequestMessage /\ m.kind = kind /\ m.case = c
  BY DEF RequestMessage, Request
<1>2. toRunner \in Seq(RequestMessage) /\ q = Append(toRunner, m)
  BY DEF RunnerQueueOK, Asks
<1> HIDE DEF m
<1>3. /\ q \in Seq(RequestMessage) /\ Len(q) = Len(toRunner) + 1
      /\ \A i \in 1..Len(toRunner) : q[i] = toRunner[i]
      /\ q[Len(toRunner) + 1] = m
      /\ Contents(q) = Contents(toRunner) \cup {m}
      /\ Len(toRunner) \in Nat
  BY <1>1, <1>2, AppendProperties, AppendContents, LenProperties
<1> HIDE DEF q
<1>4. \A i \in 1..Len(q) : i \in 1..Len(toRunner) \/ i = Len(toRunner) + 1
  BY <1>3
<1>5. \A i \in 1..Len(toRunner) : toRunner[i] \in Contents(toRunner)
  BY DEF Contents
<1>6. \A i \in 1..Len(toRunner) :
        m.kind \in {"run_case", "release_user"} => ~(toRunner[i].kind = m.kind /\ toRunner[i].case = m.case)
  BY <1>1, <1>5 DEF asked, letGo, CasesOf
<1>7. Once(q, {"run_case", "release_user"})
  BY <1>3, <1>4, <1>6 DEF Once, RunnerQueueOK
<1>8. AboutCases(q, {"run_case", "release_user"})
  BY <1>1, <1>3 DEF AboutCases, RunnerQueueOK
<1>9. RunnerQueueOK'
  BY <1>3, <1>7, <1>8 DEF RunnerQueueOK, q
<1>10. asked' = CasesOf(Contents(q), "run_case") /\ letGo' = CasesOf(Contents(q), "release_user")
  BY DEF asked, letGo, q
<1>11. CasesOf(Contents(q), "run_case") = IF kind = "run_case" THEN asked \cup {c} ELSE asked
  BY <1>1, <1>3 DEF CasesOf, asked
<1>12. CasesOf(Contents(q), "release_user") = IF kind = "release_user" THEN letGo \cup {c} ELSE letGo
  BY <1>1, <1>3 DEF CasesOf, letGo
<1>13. QED
  BY <1>9, <1>10, <1>11, <1>12

LEMMA ServedEffect ==
    ASSUME RunnerQueueOK, toRunner # <<>>, Served
    PROVE  LET m == Head(toRunner)
           IN  /\ m \in RequestMessage
               /\ RunnerQueueOK'
               /\ asked' \subseteq asked /\ letGo' \subseteq letGo
               /\ m.kind = "run_case" => m.case \in asked /\ m.case \notin asked'
               /\ m.kind = "release_user" => m.case \in letGo /\ m.case \notin letGo'
<1> DEFINE m == Head(toRunner)
<1> DEFINE q == toRunner'
<1>1. toRunner \in Seq(RequestMessage) /\ q = Tail(toRunner)
  BY DEF RunnerQueueOK, Served
<1>2. /\ m \in RequestMessage /\ q \in Seq(RequestMessage)
      /\ m = toRunner[1] /\ 1 \in 1..Len(toRunner)
      /\ m \in Contents(toRunner)
      /\ \A i \in 1..Len(q) : i + 1 \in 1..Len(toRunner) /\ q[i] = toRunner[i + 1]
      /\ Contents(q) \subseteq Contents(toRunner)
  BY <1>1, TailContents
<1> HIDE DEF m, q
<1>3. Once(q, {"run_case", "release_user"})
  BY <1>2 DEF Once, RunnerQueueOK
<1>4. AboutCases(q, {"run_case", "release_user"})
  BY <1>2 DEF AboutCases, RunnerQueueOK
<1>5. \A n \in Contents(q) :
        m.kind \in {"run_case", "release_user"} => ~(n.kind = m.kind /\ n.case = m.case)
  <2> SUFFICES ASSUME NEW i \in 1..Len(q), m.kind \in {"run_case", "release_user"},
                      q[i].kind = m.kind /\ q[i].case = m.case
               PROVE  FALSE
    BY DEF Contents
  <2>1. i + 1 = 1
    BY <1>2 DEF Once, RunnerQueueOK
  <2>2. QED
    BY <2>1
<1>6. m.kind \in {"run_case", "release_user"} => m.case \in Cases
  BY <1>2 DEF AboutCases, RunnerQueueOK
<1>7. asked' = CasesOf(Contents(q), "run_case") /\ letGo' = CasesOf(Contents(q), "release_user")
  BY DEF asked, letGo, q
<1>8. /\ CasesOf(Contents(q), "run_case") \subseteq asked
      /\ CasesOf(Contents(q), "release_user") \subseteq letGo
  BY <1>2 DEF CasesOf, asked, letGo
<1>9. m.kind = "run_case" => m.case \in asked /\ m.case \notin CasesOf(Contents(q), "run_case")
  BY <1>2, <1>5, <1>6 DEF CasesOf, asked
<1>10. m.kind = "release_user" => m.case \in letGo /\ m.case \notin CasesOf(Contents(q), "release_user")
  BY <1>2, <1>5, <1>6 DEF CasesOf, letGo
<1>11. RunnerQueueOK'
  BY <1>2, <1>3, <1>4 DEF RunnerQueueOK, q
<1>12. QED
  BY <1>2, <1>7, <1>8, <1>9, <1>10, <1>11 DEF m, q

LEMMA SendsEffect ==
    ASSUME JudgerQueueOK, NEW m \in AnswerMessage, Sends(m),
           m.kind = "user_pid" => m.case \in Cases \ told /\ brought = {},
           m.kind = "case_result" => m.case \in Cases \ brought
    PROVE  /\ JudgerQueueOK'
           /\ told' = IF m.kind = "user_pid" THEN told \cup {m.case} ELSE told
           /\ brought' = IF m.kind = "case_result" THEN brought \cup {m.case} ELSE brought
           /\ answers' = IF m.kind = "case_result" THEN answers \cup {m} ELSE answers
           /\ errors' = IF m.kind = "error" THEN errors \cup {m} ELSE errors
<1> DEFINE q == toJudger'
<1>1. toJudger \in Seq(AnswerMessage) /\ q = Append(toJudger, m)
  BY DEF JudgerQueueOK, Sends
<1>2. /\ q \in Seq(AnswerMessage) /\ Len(q) = Len(toJudger) + 1
      /\ \A i \in 1..Len(toJudger) : q[i] = toJudger[i]
      /\ q[Len(toJudger) + 1] = m
      /\ Contents(q) = Contents(toJudger) \cup {m}
      /\ Len(toJudger) \in Nat
  BY <1>1, AppendProperties, AppendContents, LenProperties
<1> HIDE DEF q
<1>3. \A i \in 1..Len(q) : i \in 1..Len(toJudger) \/ i = Len(toJudger) + 1
  BY <1>2
<1>4. \A i \in 1..Len(toJudger) : toJudger[i] \in Contents(toJudger)
  BY DEF Contents
<1>5. \A i \in 1..Len(toJudger) :
        m.kind \in {"user_pid", "case_result"} => ~(toJudger[i].kind = m.kind /\ toJudger[i].case = m.case)
  BY <1>4 DEF told, brought, CasesOf
<1>6. Once(q, {"user_pid", "case_result"})
  BY <1>2, <1>3, <1>5 DEF Once, JudgerQueueOK
<1>7. AboutCases(q, {"user_pid", "case_result"})
  BY <1>2 DEF AboutCases, JudgerQueueOK
<1>8. \A i \in 1..Len(toJudger) : m.kind = "user_pid" => toJudger[i].kind # "case_result"
  BY <1>4 DEF brought, CasesOf, JudgerQueueOK, AboutCases
<1>9. \A i, j \in 1..Len(q) : q[i].kind = "case_result" /\ q[j].kind = "user_pid" => j < i
  <2> SUFFICES ASSUME NEW i \in 1..Len(q), NEW j \in 1..Len(q),
                      q[i].kind = "case_result", q[j].kind = "user_pid"
               PROVE  j < i
    OBVIOUS
  <2>1. CASE j \in 1..Len(toJudger) /\ i \in 1..Len(toJudger)
    BY <1>2, <2>1 DEF JudgerQueueOK, PidsFirst
  <2>2. CASE j \in 1..Len(toJudger) /\ i = Len(toJudger) + 1
    BY <1>2, <2>2
  <2>3. CASE j = Len(toJudger) + 1
    BY <1>2, <1>3, <1>8, <2>3
  <2>4. QED
    BY <1>3, <2>1, <2>2, <2>3
<1>10. /\ told' = CasesOf(Contents(q), "user_pid")
       /\ brought' = CasesOf(Contents(q), "case_result")
       /\ answers' = {n \in Contents(q) : n.kind = "case_result"}
       /\ errors' = {n \in Contents(q) : n.kind = "error"}
  BY DEF told, brought, answers, errors, q
<1>11. CasesOf(Contents(q), "user_pid") = IF m.kind = "user_pid" THEN told \cup {m.case} ELSE told
  BY <1>2 DEF CasesOf, told
<1>12. CasesOf(Contents(q), "case_result") = IF m.kind = "case_result" THEN brought \cup {m.case} ELSE brought
  BY <1>2 DEF CasesOf, brought
<1>13. {n \in Contents(q) : n.kind = "case_result"} = IF m.kind = "case_result" THEN answers \cup {m} ELSE answers
  BY <1>2 DEF answers
<1>14. {n \in Contents(q) : n.kind = "error"} = IF m.kind = "error" THEN errors \cup {m} ELSE errors
  BY <1>2 DEF errors
<1>15. JudgerQueueOK'
  BY <1>2, <1>6, <1>7, <1>9 DEF JudgerQueueOK, PidsFirst, q
<1>16. QED
  BY <1>2, <1>10, <1>11, <1>12, <1>13, <1>14, <1>15 DEF q

LEMMA HeedsEffect ==
    ASSUME JudgerQueueOK, toJudger # <<>>, Heeds
    PROVE  LET m == Head(toJudger)
           IN  /\ m \in AnswerMessage
               /\ JudgerQueueOK'
               /\ told' \subseteq told /\ brought' \subseteq brought
               /\ answers' \subseteq answers /\ errors' \subseteq errors
               /\ m.kind = "user_pid" => m.case \in told /\ m.case \notin told'
               /\ m.kind = "case_result" => /\ m \in answers /\ m.case \in brought
                                            /\ m.case \notin brought' /\ told' = {}
               /\ m.kind = "error" => m \in errors
<1> DEFINE m == Head(toJudger)
<1> DEFINE q == toJudger'
<1>1. toJudger \in Seq(AnswerMessage) /\ q = Tail(toJudger)
  BY DEF JudgerQueueOK, Heeds
<1>2. /\ m \in AnswerMessage /\ q \in Seq(AnswerMessage)
      /\ m = toJudger[1] /\ 1 \in 1..Len(toJudger)
      /\ m \in Contents(toJudger)
      /\ \A i \in 1..Len(q) : i + 1 \in 1..Len(toJudger) /\ q[i] = toJudger[i + 1]
      /\ Contents(q) \subseteq Contents(toJudger)
  BY <1>1, TailContents
<1> HIDE DEF m, q
<1>3. Once(q, {"user_pid", "case_result"})
  <2> SUFFICES ASSUME NEW i \in 1..Len(q), NEW j \in 1..Len(q), q[i].kind \in {"user_pid", "case_result"},
                      q[j].kind = q[i].kind, q[j].case = q[i].case
               PROVE  i = j
    BY DEF Once
  <2>0. /\ Once(toJudger, {"user_pid", "case_result"})
        /\ i + 1 \in 1..Len(toJudger) /\ toJudger[i + 1] = q[i]
        /\ j + 1 \in 1..Len(toJudger) /\ toJudger[j + 1] = q[j]
    BY <1>2 DEF JudgerQueueOK
  <2>1. i + 1 = j + 1
    BY <2>0 DEF Once
  <2>2. QED
    BY <2>1
<1>4. AboutCases(q, {"user_pid", "case_result"})
  BY <1>2 DEF AboutCases, JudgerQueueOK
<1>5. \A n \in Contents(q) :
        m.kind \in {"user_pid", "case_result"} => ~(n.kind = m.kind /\ n.case = m.case)
  <2> SUFFICES ASSUME NEW i \in 1..Len(q), m.kind \in {"user_pid", "case_result"},
                      q[i].kind = m.kind /\ q[i].case = m.case
               PROVE  FALSE
    BY DEF Contents
  <2>1. i + 1 = 1
    BY <1>2 DEF Once, JudgerQueueOK
  <2>2. QED
    BY <2>1
<1>6. m.kind = "case_result" => \A n \in Contents(q) : n.kind # "user_pid"
  <2> SUFFICES ASSUME NEW i \in 1..Len(q), m.kind = "case_result", q[i].kind = "user_pid"
               PROVE  FALSE
    BY DEF Contents
  <2>1. i + 1 < 1
    BY <1>2 DEF PidsFirst, JudgerQueueOK
  <2>2. QED
    BY <2>1
<1>7. m.kind \in {"user_pid", "case_result"} => m.case \in Cases
  BY <1>2 DEF AboutCases, JudgerQueueOK
<1>8. \A i, j \in 1..Len(q) : q[i].kind = "case_result" /\ q[j].kind = "user_pid" => j < i
  <2> SUFFICES ASSUME NEW i \in 1..Len(q), NEW j \in 1..Len(q),
                      q[i].kind = "case_result", q[j].kind = "user_pid"
               PROVE  j < i
    OBVIOUS
  <2>1. j + 1 < i + 1
    BY <1>2 DEF PidsFirst, JudgerQueueOK
  <2>2. QED
    BY <2>1
<1>9. /\ told' = CasesOf(Contents(q), "user_pid")
      /\ brought' = CasesOf(Contents(q), "case_result")
      /\ answers' = {n \in Contents(q) : n.kind = "case_result"}
      /\ errors' = {n \in Contents(q) : n.kind = "error"}
  BY DEF told, brought, answers, errors, q
<1>10. told' \subseteq told /\ brought' \subseteq brought
  BY <1>2, <1>9 DEF CasesOf, told, brought
<1>11. answers' \subseteq answers /\ errors' \subseteq errors
  BY <1>2, <1>9 DEF answers, errors
<1>12. m.kind = "user_pid" => m.case \in told /\ m.case \notin told'
  BY <1>2, <1>5, <1>7, <1>9 DEF CasesOf, told
<1>13. m.kind = "case_result" => m \in answers /\ m.case \in brought /\ m.case \notin brought'
  BY <1>2, <1>5, <1>7, <1>9 DEF CasesOf, brought, answers
<1>14. m.kind = "case_result" => told' = {}
  BY <1>6, <1>9 DEF CasesOf
<1>15. m.kind = "error" => m \in errors
  BY <1>2 DEF errors
<1>16. JudgerQueueOK'
  BY <1>2, <1>3, <1>4, <1>8 DEF JudgerQueueOK, PidsFirst, q
<1>17. QED
  BY <1>2, <1>10, <1>11, <1>12, <1>13, <1>14, <1>15, <1>16 DEF m, q

LEMMA RunnerQueueSame ==
    ASSUME RunnerQueueOK, toRunner' = toRunner
    PROVE  RunnerQueueOK' /\ asked' = asked /\ letGo' = letGo
  BY DEF RunnerQueueOK, Once, AboutCases, Contents, asked, letGo, CasesOf

LEMMA JudgerQueueSame ==
    ASSUME JudgerQueueOK, toJudger' = toJudger
    PROVE  /\ JudgerQueueOK'
           /\ told' = told /\ brought' = brought /\ answers' = answers /\ errors' = errors
<1>1. JudgerQueueOK'
  BY DEF JudgerQueueOK, Once, AboutCases, Contents, PidsFirst
<1>2. QED
  BY <1>1 DEF told, brought, answers, errors, CasesOf, Contents

(* A result that is on its way is a result, of a case that it is about.     *)
LEMMA AnswersTyped ==
    ASSUME JudgerQueueOK
    PROVE  \A m \in answers : m \in ResultMessage /\ m.case \in brought
<1>1. Contents(toJudger) \subseteq AnswerMessage
  BY ContentsTyped DEF JudgerQueueOK
<1>2. \A m \in answers : m \in ResultMessage
  BY <1>1 DEF answers, AnswerMessage, Answers
<1>3. QED
  BY <1>2 DEF answers, brought, CasesOf, ResultMessage

-----------------------------------------------------------------------------
(***************************************************************************)
(* The inductive invariant.                                                *)
(***************************************************************************)
StateTyped ==
    /\ mode \in Modes
    /\ stage \in {"hello", "compile", "case", "done", "rejected", "failed"}
    /\ current \in 0..NCases
    /\ got \in [Cases -> Result \cup {NoResult}]
    /\ verdict \in Verdicts
    /\ score \in 0..(NCases * FullScore)
    /\ cgroup \in [Cases -> {"none", "made", "removed"}]
    /\ limit \in [Cases -> {"none", "memory", "pids"}]
    /\ local \in [Cases -> {"none", "preparing", "gate", "waiting", "answered", "ended"}]
    /\ pending \subseteq Cases /\ released \subseteq Cases
    /\ expired \subseteq Cases
    /\ user \in [Cases -> {"none", "gate", "running"} \cup UserEnds]
    /\ child \in [Cases -> BOOLEAN]
    /\ judge \in [Cases -> {"none", "running"} \cup JudgeEnds]
    /\ waited \in [Cases -> SUBSET {"user", "judge"}]
    /\ faults \in 0..MaxFaults

(* Nothing has happened to a case before its goroutine has prepared it.     *)
Untouched(c) ==
    /\ user[c] = "none" /\ ~child[c] /\ judge[c] = "none" /\ waited[c] = {}
    /\ cgroup[c] = "none" /\ limit[c] = "none" /\ got[c] = NoResult
    /\ c \notin released /\ c \notin letGo /\ c \notin told /\ c \notin brought

Awaited(c)  == c > current \/ c \in asked
Finished(c) == local[c] \in {"answered", "ended"}

(* The cases are run one after the other: only the current one is being     *)
(* run, those before it are finished, those behind it untouched.            *)
InTurn ==
    /\ stage \in {"hello", "compile", "rejected"} => current = 0
    /\ stage \in {"case", "done"} => current > 0
    /\ stage = "done" => current = NCases
    /\ asked \subseteq {current} /\ told \subseteq {current} /\ brought \subseteq {current}

CourseOf(c) ==
    /\ Awaited(c) => local[c] \in {"none", "ended"}
    /\ Awaited(c) \/ local[c] \in {"none", "preparing"} => Untouched(c)
    /\ local[c] \in {"preparing", "gate", "waiting"} => c = current
    /\ c < current \/ c \in brought \/ got[c] # NoResult => Finished(c)

(* A program that is held at its gate is the current one; it is let go only *)
(* when its cgroup is made, and gone when the cgroup is removed.            *)
ConfinementOf(c) ==
    /\ user[c] = "gate" => c = current /\ cgroup[c] # "removed"
    /\ user[c] = "running" \/ child[c] => cgroup[c] = "made" /\ c = current
    /\ Finished(c) => ~UserAlive(c) /\ judge[c] # "running"
    /\ c \in released \/ c \in letGo \/ limit[c] # "none" => cgroup[c] # "none"
    /\ c \in told => cgroup[c] = "none"
    /\ got[c] # NoResult => cgroup[c] # "made"
    /\ cgroup[c] = "removed" /\ stage = "case" => c < current
    /\ "user" \in waited[c] => user[c] \in UserEnds
    /\ "judge" \in waited[c] => judge[c] \in JudgeEnds

(* A result is worth the full score if and only if it is an acceptance, and *)
(* follows from how the two programs of its case ended, unless it came of   *)
(* the time limit.                                                          *)
FairScore(r) == r.verdict = "AC" <=> r.score = FullScore

EarnedBy(c, r, end) ==
    /\ (c \in expired /\ r.verdict # "AC") \/ r = end
    /\ r.verdict = "AC" => user[c] \in {"ok", "brokenPipe"} /\ judge[c] = "accepted"

VerdictsOf(c) ==
    /\ user[c] = "brokenPipe" => mode = "custom"
    /\ mode = "builtin" /\ ~Finished(c) => judge[c] = "none"
    /\ got[c] # NoResult => /\ FairScore(got[c])
                            /\ EarnedBy(c, got[c], VerdictOf(c))
                            /\ Accepted(c) => limit[c] = "none"

AnswersEarned ==
    \A m \in answers : /\ FairScore(m.result)
                       /\ EarnedBy(m.case, m.result, Judged(user[m.case], judge[m.case]))

(* The results are booked in order, and what they amount to with them.      *)
BookedUpTo(n) ==
    /\ \A c \in Cases : got[c] # NoResult <=> c <= n
    /\ verdict = "AC" <=> \A c \in 1..n : Accepted(c)
    /\ score <= n * FullScore
    /\ verdict = "AC" <=> score = n * FullScore

Booked ==
    /\ stage \in {"hello", "compile"} => verdict = "AC" /\ score = 0
    /\ stage = "case" => BookedUpTo(current - 1)
    /\ stage = "done" => BookedUpTo(NCases)

(* A gate is pending until it is released or the goroutine has ended, and a *)
(* program behind it has done nothing.                                      *)
GatesOf(c) ==
    /\ local[c] \in {"preparing", "gate", "waiting", "answered"} => c \in pending \cup released
    /\ local[c] = "waiting" => c \in released
    /\ local[c] = "gate" => user[c] \in {"gate", "stopped"} /\ ~child[c] /\ limit[c] = "none"
    /\ c \in letGo => c \notin released

Late == \E c \in Cases : user[c] = "stopped" /\ c \in expired

LatenessOf(c) ==
    /\ c \in letGo /\ Finished(c) => Late
    /\ c \in told /\ stage = "case" => user[c] = "gate" \/ (user[c] = "stopped" /\ c \in expired)

Causes == faults = 0 => /\ stage = "failed" \/ errors # {} => Late
                        /\ \A c \in Cases : LatenessOf(c)

CaseInv(c) == CourseOf(c) /\ ConfinementOf(c) /\ VerdictsOf(c) /\ GatesOf(c)

RunnerInv ==
    /\ StateTyped /\ QueuesOK
    /\ InTurn /\ \A c \in Cases : CaseInv(c)
    /\ AnswersEarned /\ Booked /\ Causes

-----------------------------------------------------------------------------
(***************************************************************************)
(* What no step takes back: how the programs of a finished case ended, and *)
(* that a program was stopped behind its gate.                             *)
(***************************************************************************)
Lasts ==
    /\ mode' = mode /\ expired \subseteq expired'
    /\ \A d \in Cases : Finished(d) => user'[d] = user[d] /\ judge'[d] = judge[d]
    /\ \A d \in Cases : got[d] # NoResult => got'[d] = got[d] /\ limit'[d] = limit[d]

LEMMA EarnedLasts ==
    ASSUME Lasts, NEW d \in Cases, Finished(d), NEW r,
           EarnedBy(d, r, Judged(user[d], judge[d]))
    PROVE  EarnedBy(d, r, Judged(user[d], judge[d]))'
  BY DEF Lasts, EarnedBy, Judged

LEMMA AnswersLast ==
    ASSUME RunnerInv, Lasts, answers' \subseteq answers
    PROVE  AnswersEarned'
<1> SUFFICES ASSUME NEW m \in answers
             PROVE  (FairScore(m.result) /\ EarnedBy(m.case, m.result, Judged(user[m.case], judge[m.case])))'
  BY DEF AnswersEarned
<1>1. m.case \in brought
  BY AnswersTyped DEF RunnerInv, QueuesOK
<1>2. m.case \in Cases /\ Finished(m.case)
  BY <1>1 DEF RunnerInv, CaseInv, CourseOf, brought, CasesOf
<1>3. FairScore(m.result) /\ EarnedBy(m.case, m.result, Judged(user[m.case], judge[m.case]))
  BY DEF RunnerInv, AnswersEarned
<1>4. QED
  BY <1>2, <1>3, EarnedLasts DEF FairScore

LEMMA ResultLasts ==
    ASSUME RunnerInv, Lasts, NEW d \in Cases, got[d] # NoResult
    PROVE  /\ FairScore(got[d])'
           /\ EarnedBy(d, got[d], VerdictOf(d))'
           /\ Accepted(d)' => limit'[d] = "none"
<1>1. Finished(d)
  BY DEF RunnerInv, CaseInv, CourseOf
<1>2. FairScore(got[d]) /\ EarnedBy(d, got[d], VerdictOf(d)) /\ (Accepted(d) => limit[d] = "none")
  BY DEF RunnerInv, CaseInv, VerdictsOf
<1>3. /\ user'[d] = user[d] /\ judge'[d] = judge[d] /\ got'[d] = got[d] /\ limit'[d] = limit[d]
      /\ expired \subseteq expired'
  BY <1>1 DEF Lasts
<1>4. VerdictOf(d)' = VerdictOf(d)
  BY <1>3 DEF VerdictOf, Limited, Judged
<1>5. QED
  BY <1>2, <1>3, <1>4 DEF FairScore, EarnedBy, Accepted

LEMMA BookedLasts ==
    ASSUME Booked, UNCHANGED results,
           \/ stage' \in {stage, "rejected", "failed"}
           \/ stage = "hello" /\ stage' = "compile"
    PROVE  Booked'
  BY DEF Booked, BookedUpTo, results, Accepted

LEMMA LateLasts ==
    ASSUME Late, expired \subseteq expired',
           \A d \in Cases : user[d] = "stopped" => user'[d] = "stopped"
    PROVE  Late'
  BY DEF Late

-----------------------------------------------------------------------------
(***************************************************************************)
(* The clock, the kernel and the two programs keep the invariant.          *)
(***************************************************************************)
LEMMA TimeLimitKeeps ==
    ASSUME RunnerInv, NEW c \in Cases, TimeLimit(c)
    PROVE  RunnerInv'
<1> USE DEF RunnerInv, CaseInv, Finished, UserAlive
<1>1. /\ QueuesOK'
      /\ asked' = asked /\ letGo' = letGo
      /\ told' = told /\ brought' = brought /\ answers' = answers /\ errors' = errors
  BY RunnerQueueSame, JudgerQueueSame DEF TimeLimit, socket, QueuesOK
<1>2. StateTyped'
  BY DEF TimeLimit, StateTyped, results, gates, programs, UserEnds, JudgeEnds
<1>3. InTurn'
  BY <1>1 DEF TimeLimit, InTurn, results
<1>4. Lasts
  BY DEF TimeLimit, Lasts, StateTyped, CourseOf, ConfinementOf, Running, results, programs
<1>5. ASSUME NEW d \in Cases
      PROVE  CaseInv(d)'
  <2>1. CourseOf(d)'
    BY <1>1 DEF TimeLimit, CourseOf, ConfinementOf, Untouched, Awaited, StateTyped, Running, results, gates, programs
  <2>2. ConfinementOf(d)'
    BY <1>1 DEF TimeLimit, CourseOf, ConfinementOf, Untouched, StateTyped, Running, results, gates, programs, UserEnds, JudgeEnds
  <2>3. VerdictsOf(d)'
    BY <1>4, ResultLasts DEF TimeLimit, VerdictsOf, StateTyped, results, programs, JudgeEnds
  <2>4. GatesOf(d)'
    BY <1>1 DEF TimeLimit, CourseOf, GatesOf, ConfinementOf, StateTyped, gates, programs
  <2>5. QED
    BY <2>1, <2>2, <2>3, <2>4
<1>6. AnswersEarned'
  BY <1>1, <1>4, AnswersLast
<1>7. Booked'
  BY BookedLasts DEF TimeLimit
<1>8. Causes'
  <2>1. \A d \in Cases : user[d] = "stopped" => user'[d] = "stopped"
    BY DEF TimeLimit, StateTyped, programs
  <2>2. Late => Late'
    BY <1>4, <2>1, LateLasts DEF Lasts
  <2>3. ASSUME NEW d \in Cases, LatenessOf(d)
        PROVE  LatenessOf(d)'
    BY <1>1, <2>2, <2>3 DEF TimeLimit, LatenessOf, CourseOf, ConfinementOf, GatesOf, StateTyped, programs
  <2>4. QED
    BY <1>1, <2>2, <2>3 DEF TimeLimit, Causes
<1>9. QED
  BY <1>1, <1>2, <1>3, <1>5, <1>6, <1>7, <1>8

LEMMA KilledByContextKeeps ==
    ASSUME RunnerInv, NEW c \in Cases, KilledByContext(c)
    PROVE  RunnerInv'
<1> USE DEF RunnerInv, CaseInv, Finished, UserAlive, KillPrograms, UserKilled
<1>1. /\ QueuesOK'
      /\ asked' = asked /\ letGo' = letGo
      /\ told' = told /\ brought' = brought /\ answers' = answers /\ errors' = errors
  BY RunnerQueueSame, JudgerQueueSame DEF KilledByContext, socket, QueuesOK
<1>2. StateTyped'
  BY DEF KilledByContext, StateTyped, results, gates, programs, UserEnds, JudgeEnds, Killed
<1>3. InTurn'
  BY <1>1 DEF KilledByContext, InTurn, results
<1>4. Lasts
  BY DEF KilledByContext, Lasts, StateTyped, CourseOf, ConfinementOf, Running, results, programs
<1>5. ASSUME NEW d \in Cases
      PROVE  CaseInv(d)'
  <2>1. CourseOf(d)'
    BY <1>1 DEF KilledByContext, CourseOf, ConfinementOf, Untouched, Awaited, StateTyped, Running, results, gates, programs
  <2>2. ConfinementOf(d)'
    BY <1>1 DEF KilledByContext, CourseOf, ConfinementOf, Untouched, StateTyped, Running, results, gates, programs, UserEnds, JudgeEnds, Killed
  <2>3. VerdictsOf(d)'
    BY <1>4, ResultLasts DEF KilledByContext, VerdictsOf, StateTyped, results, programs, JudgeEnds, Killed
  <2>4. GatesOf(d)'
    BY <1>1 DEF KilledByContext, CourseOf, GatesOf, ConfinementOf, StateTyped, gates, programs, Killed
  <2>5. QED
    BY <2>1, <2>2, <2>3, <2>4
<1>6. AnswersEarned'
  BY <1>1, <1>4, AnswersLast
<1>7. Booked'
  BY BookedLasts DEF KilledByContext
<1>8. Causes'
  <2>1. \A d \in Cases : user[d] = "stopped" => user'[d] = "stopped"
    BY DEF KilledByContext, StateTyped, programs
  <2>2. Late => Late'
    BY <1>4, <2>1, LateLasts DEF Lasts
  <2>3. ASSUME NEW d \in Cases, LatenessOf(d)
        PROVE  LatenessOf(d)'
    BY <1>1, <2>2, <2>3 DEF KilledByContext, LatenessOf, CourseOf, ConfinementOf, GatesOf, StateTyped, programs
  <2>4. QED
    BY <1>1, <2>2, <2>3 DEF KilledByContext, Causes
<1>9. QED
  BY <1>1, <1>2, <1>3, <1>5, <1>6, <1>7, <1>8

LEMMA UserForksKeeps ==
    ASSUME RunnerInv, NEW c \in Cases, UserForks(c)
    PROVE  RunnerInv'
<1> USE DEF RunnerInv, CaseInv, Finished, UserAlive
<1>1. /\ QueuesOK'
      /\ asked' = asked /\ letGo' = letGo
      /\ told' = told /\ brought' = brought /\ answers' = answers /\ errors' = errors
  BY RunnerQueueSame, JudgerQueueSame DEF UserForks, socket, QueuesOK
<1>2. StateTyped'
  BY DEF UserForks, StateTyped, results, gates, programs, UserEnds, JudgeEnds
<1>3. InTurn'
  BY <1>1 DEF UserForks, InTurn, results
<1>4. Lasts
  BY DEF UserForks, Lasts, StateTyped, CourseOf, ConfinementOf, Running, results, programs
<1>5. ASSUME NEW d \in Cases
      PROVE  CaseInv(d)'
  <2>1. CourseOf(d)'
    BY <1>1 DEF UserForks, CourseOf, ConfinementOf, Untouched, Awaited, StateTyped, Running, results, gates, programs
  <2>2. ConfinementOf(d)'
    BY <1>1 DEF UserForks, CourseOf, ConfinementOf, Untouched, StateTyped, Running, results, gates, programs, UserEnds, JudgeEnds
  <2>3. VerdictsOf(d)'
    BY <1>4, ResultLasts DEF UserForks, VerdictsOf, StateTyped, results, programs, JudgeEnds
  <2>4. GatesOf(d)'
    BY <1>1 DEF UserForks, CourseOf, GatesOf, ConfinementOf, StateTyped, gates, programs
  <2>5. QED
    BY <2>1, <2>2, <2>3, <2>4
<1>6. AnswersEarned'
  BY <1>1, <1>4, AnswersLast
<1>7. Booked'
  BY BookedLasts DEF UserForks
<1>8. Causes'
  <2>1. \A d \in Cases : user[d] = "stopped" => user'[d] = "stopped"
    BY DEF UserForks, StateTyped, programs
  <2>2. Late => Late'
    BY <1>4, <2>1, LateLasts DEF Lasts
  <2>3. ASSUME NEW d \in Cases, LatenessOf(d)
        PROVE  LatenessOf(d)'
    BY <1>1, <2>2, <2>3 DEF UserForks, LatenessOf, CourseOf, ConfinementOf, GatesOf, StateTyped, programs
  <2>4. QED
    BY <1>1, <2>2, <2>3 DEF UserForks, Causes
<1>9. QED
  BY <1>1, <1>2, <1>3, <1>5, <1>6, <1>7, <1>8

LEMMA UserExitsKeeps ==
    ASSUME RunnerInv, NEW c \in Cases, UserExits(c)
    PROVE  RunnerInv'
<1> USE DEF RunnerInv, CaseInv, Finished, UserAlive
<1>1. /\ QueuesOK'
      /\ asked' = asked /\ letGo' = letGo
      /\ told' = told /\ brought' = brought /\ answers' = answers /\ errors' = errors
  BY RunnerQueueSame, JudgerQueueSame DEF UserExits, socket, QueuesOK
<1>2. StateTyped'
  BY DEF UserExits, StateTyped, results, gates, programs, UserEnds, JudgeEnds
<1>3. InTurn'
  BY <1>1 DEF UserExits, InTurn, results
<1>4. Lasts
  BY DEF UserExits, Lasts, StateTyped, CourseOf, ConfinementOf, Running, results, programs
<1>5. ASSUME NEW d \in Cases
      PROVE  CaseInv(d)'
  <2>1. CourseOf(d)'
    BY <1>1 DEF UserExits, CourseOf, ConfinementOf, Untouched, Awaited, StateTyped, Running, results, gates, programs
  <2>2. ConfinementOf(d)'
    BY <1>1 DEF UserExits, CourseOf, ConfinementOf, Untouched, StateTyped, Running, results, gates, programs, UserEnds, JudgeEnds
  <2>3. VerdictsOf(d)'
    BY <1>4, ResultLasts DEF UserExits, VerdictsOf, ConfinementOf, StateTyped, Modes, results, JudgeEnds
  <2>4. GatesOf(d)'
    BY <1>1 DEF UserExits, CourseOf, GatesOf, ConfinementOf, StateTyped, gates, programs
  <2>5. QED
    BY <2>1, <2>2, <2>3, <2>4
<1>6. AnswersEarned'
  BY <1>1, <1>4, AnswersLast
<1>7. Booked'
  BY BookedLasts DEF UserExits
<1>8. Causes'
  <2>1. \A d \in Cases : user[d] = "stopped" => user'[d] = "stopped"
    BY DEF UserExits, StateTyped, programs
  <2>2. Late => Late'
    BY <1>4, <2>1, LateLasts DEF Lasts
  <2>3. ASSUME NEW d \in Cases, LatenessOf(d)
        PROVE  LatenessOf(d)'
    BY <1>1, <2>2, <2>3 DEF UserExits, LatenessOf, CourseOf, ConfinementOf, GatesOf, StateTyped, programs
  <2>4. QED
    BY <1>1, <2>2, <2>3 DEF UserExits, Causes
<1>9. QED
  BY <1>1, <1>2, <1>3, <1>5, <1>6, <1>7, <1>8

LEMMA JudgeExitsKeeps ==
    ASSUME RunnerInv, NEW c \in Cases, JudgeExits(c)
    PROVE  RunnerInv'
<1> USE DEF RunnerInv, CaseInv, Finished, UserAlive
<1>1. /\ QueuesOK'
      /\ asked' = asked /\ letGo' = letGo
      /\ told' = told /\ brought' = brought /\ answers' = answers /\ errors' = errors
  BY RunnerQueueSame, JudgerQueueSame DEF JudgeExits, socket, QueuesOK
<1>2. StateTyped'
  BY DEF JudgeExits, StateTyped, results, gates, programs, UserEnds, JudgeEnds
<1>3. InTurn'
  BY <1>1 DEF JudgeExits, InTurn, results
<1>4. Lasts
  BY DEF JudgeExits, Lasts, StateTyped, CourseOf, ConfinementOf, Running, results, programs
<1>5. ASSUME NEW d \in Cases
      PROVE  CaseInv(d)'
  <2>1. CourseOf(d)'
    BY <1>1 DEF JudgeExits, CourseOf, ConfinementOf, Untouched, Awaited, StateTyped, Running, results, gates, programs
  <2>2. ConfinementOf(d)'
    BY <1>1 DEF JudgeExits, CourseOf, ConfinementOf, Untouched, StateTyped, Running, results, gates, programs, UserEnds, JudgeEnds
  <2>3. VerdictsOf(d)'
    BY <1>4, ResultLasts DEF JudgeExits, VerdictsOf, StateTyped, results, programs, JudgeEnds
  <2>4. GatesOf(d)'
    BY <1>1 DEF JudgeExits, CourseOf, GatesOf, ConfinementOf, StateTyped, gates, programs
  <2>5. QED
    BY <2>1, <2>2, <2>3, <2>4
<1>6. AnswersEarned'
  BY <1>1, <1>4, AnswersLast
<1>7. Booked'
  BY BookedLasts DEF JudgeExits
<1>8. Causes'
  <2>1. \A d \in Cases : user[d] = "stopped" => user'[d] = "stopped"
    BY DEF JudgeExits, StateTyped, programs
  <2>2. Late => Late'
    BY <1>4, <2>1, LateLasts DEF Lasts
  <2>3. ASSUME NEW d \in Cases, LatenessOf(d)
        PROVE  LatenessOf(d)'
    BY <1>1, <2>2, <2>3 DEF JudgeExits, LatenessOf, CourseOf, ConfinementOf, GatesOf, StateTyped, programs
  <2>4. QED
    BY <1>1, <2>2, <2>3 DEF JudgeExits, Causes
<1>9. QED
  BY <1>1, <1>2, <1>3, <1>5, <1>6, <1>7, <1>8

LEMMA LimitReachedKeeps ==
    ASSUME RunnerInv, NEW c \in Cases, LimitReached(c)
    PROVE  RunnerInv'
<1> USE DEF RunnerInv, CaseInv, Finished, UserAlive
<1>1. /\ QueuesOK'
      /\ asked' = asked /\ letGo' = letGo
      /\ told' = told /\ brought' = brought /\ answers' = answers /\ errors' = errors
  BY RunnerQueueSame, JudgerQueueSame DEF LimitReached, socket, QueuesOK
<1>2. StateTyped'
  BY DEF LimitReached, StateTyped, results, gates, programs, UserEnds, JudgeEnds
<1>3. InTurn'
  BY <1>1 DEF LimitReached, InTurn, results
<1>4. Lasts
  BY DEF LimitReached, Lasts, StateTyped, CourseOf, ConfinementOf, Running, results, programs
<1>5. ASSUME NEW d \in Cases
      PROVE  CaseInv(d)'
  <2>1. CourseOf(d)'
    BY <1>1 DEF LimitReached, CourseOf, ConfinementOf, Untouched, Awaited, StateTyped, Running, results, gates, programs
  <2>2. ConfinementOf(d)'
    BY <1>1 DEF LimitReached, CourseOf, ConfinementOf, Untouched, StateTyped, Running, results, gates, programs, UserEnds, JudgeEnds
  <2>3. VerdictsOf(d)'
    BY <1>4, ResultLasts DEF LimitReached, VerdictsOf, StateTyped, results, programs, JudgeEnds
  <2>4. GatesOf(d)'
    BY <1>1 DEF LimitReached, CourseOf, GatesOf, ConfinementOf, StateTyped, gates, programs
  <2>5. QED
    BY <2>1, <2>2, <2>3, <2>4
<1>6. AnswersEarned'
  BY <1>1, <1>4, AnswersLast
<1>7. Booked'
  BY BookedLasts DEF LimitReached
<1>8. Causes'
  <2>1. \A d \in Cases : user[d] = "stopped" => user'[d] = "stopped"
    BY DEF LimitReached, StateTyped, programs
  <2>2. Late => Late'
    BY <1>4, <2>1, LateLasts DEF Lasts
  <2>3. ASSUME NEW d \in Cases, LatenessOf(d)
        PROVE  LatenessOf(d)'
    BY <1>1, <2>2, <2>3 DEF LimitReached, LatenessOf, CourseOf, ConfinementOf, GatesOf, StateTyped, programs
  <2>4. QED
    BY <1>1, <2>2, <2>3 DEF LimitReached, Causes
<1>9. QED
  BY <1>1, <1>2, <1>3, <1>5, <1>6, <1>7, <1>8

LEMMA KilledForMemoryKeeps ==
    ASSUME RunnerInv, NEW c \in Cases, KilledForMemory(c)
    PROVE  RunnerInv'
<1> USE DEF RunnerInv, CaseInv, Finished, UserAlive, UserKilled
<1>1. /\ QueuesOK'
      /\ asked' = asked /\ letGo' = letGo
      /\ told' = told /\ brought' = brought /\ answers' = answers /\ errors' = errors
  BY RunnerQueueSame, JudgerQueueSame DEF KilledForMemory, socket, QueuesOK
<1>2. StateTyped'
  BY DEF KilledForMemory, StateTyped, results, gates, programs, UserEnds, JudgeEnds
<1>3. InTurn'
  BY <1>1 DEF KilledForMemory, InTurn, results
<1>4. Lasts
  BY DEF KilledForMemory, Lasts, StateTyped, CourseOf, ConfinementOf, Running, results, programs
<1>5. ASSUME NEW d \in Cases
      PROVE  CaseInv(d)'
  <2>1. CourseOf(d)'
    BY <1>1 DEF KilledForMemory, CourseOf, ConfinementOf, Untouched, Awaited, StateTyped, Running, results, gates, programs
  <2>2. ConfinementOf(d)'
    BY <1>1 DEF KilledForMemory, CourseOf, ConfinementOf, Untouched, StateTyped, Running, results, gates, programs, UserEnds, JudgeEnds
  <2>3. VerdictsOf(d)'
    BY <1>4, ResultLasts DEF KilledForMemory, VerdictsOf, StateTyped, results, programs, JudgeEnds
  <2>4. GatesOf(d)'
    BY <1>1 DEF KilledForMemory, CourseOf, GatesOf, ConfinementOf, StateTyped, gates, programs
  <2>5. QED
    BY <2>1, <2>2, <2>3, <2>4
<1>6. AnswersEarned'
  BY <1>1, <1>4, AnswersLast
<1>7. Booked'
  BY BookedLasts DEF KilledForMemory
<1>8. Causes'
  <2>1. \A d \in Cases : user[d] = "stopped" => user'[d] = "stopped"
    BY DEF KilledForMemory, StateTyped, programs
  <2>2. Late => Late'
    BY <1>4, <2>1, LateLasts DEF Lasts
  <2>3. ASSUME NEW d \in Cases, LatenessOf(d)
        PROVE  LatenessOf(d)'
    BY <1>1, <2>2, <2>3 DEF KilledForMemory, LatenessOf, CourseOf, ConfinementOf, GatesOf, StateTyped, programs
  <2>4. QED
    BY <1>1, <2>2, <2>3 DEF KilledForMemory, Causes
<1>9. QED
  BY <1>1, <1>2, <1>3, <1>5, <1>6, <1>7, <1>8

LEMMA TakeEndKeeps ==
    ASSUME RunnerInv, NEW c \in Cases, NEW program \in {"user", "judge"}, TakeEnd(c, program)
    PROVE  RunnerInv'
<1> USE DEF RunnerInv, CaseInv, Finished, UserAlive
<1>1. /\ QueuesOK'
      /\ asked' = asked /\ letGo' = letGo
      /\ told' = told /\ brought' = brought /\ answers' = answers /\ errors' = errors
  BY RunnerQueueSame, JudgerQueueSame DEF TakeEnd, socket, QueuesOK
<1>2. StateTyped'
  BY DEF TakeEnd, StateTyped, results, gates, programs
<1>3. InTurn'
  BY <1>1 DEF TakeEnd, InTurn, results
<1>4. Lasts
  BY DEF TakeEnd, Lasts, results, programs
<1>5. ASSUME NEW d \in Cases
      PROVE  CaseInv(d)'
  <2>1. waited[c] \cup {program} = waited'[c] /\ \A e \in Cases \ {c} : waited'[e] = waited[e]
    BY DEF TakeEnd, StateTyped
  <2>2. CourseOf(d)'
    BY <1>1, <2>1 DEF TakeEnd, CourseOf, Untouched, Awaited, results, gates, programs
  <2>3. ConfinementOf(d)'
    BY <1>1, <2>1 DEF TakeEnd, ConfinementOf, results, gates, programs
  <2>4. VerdictsOf(d)'
    BY <1>4, ResultLasts DEF TakeEnd, VerdictsOf, results, programs
  <2>5. GatesOf(d)'
    BY <1>1 DEF TakeEnd, GatesOf, gates, programs
  <2>6. QED
    BY <2>2, <2>3, <2>4, <2>5
<1>6. AnswersEarned'
  BY <1>1, <1>4, AnswersLast
<1>7. Booked'
  BY BookedLasts DEF TakeEnd
<1>8. Causes'
  BY <1>1 DEF TakeEnd, Causes, Late, LatenessOf, programs
<1>9. QED
  BY <1>1, <1>2, <1>3, <1>5, <1>6, <1>7, <1>8

-----------------------------------------------------------------------------
(***************************************************************************)
(* A goroutine answers.  Whatever way the result comes about, it is enough *)
(* that the programs are gone by then, that the result follows from their  *)
(* ends, and that a program still held at its gate is stopped late.        *)
(***************************************************************************)
LEMMA ResultGiven ==
    ASSUME RunnerInv, NEW c \in Cases, NEW r \in Result,
           local[c] \in {"gate", "waiting"},
           GivesResult(c, r),
           UNCHANGED <<mode, toRunner, stage, results, cgroup, limit, gates, expired, child, faults>>,
           user' \in [Cases -> {"none"} \cup UserEnds \cup {"gate", "running"}],
           judge' \in [Cases -> {"none", "running"} \cup JudgeEnds],
           \A d \in Cases \ {c} : user'[d] = user[d] /\ judge'[d] = judge[d],
           user'[c] \notin {"gate", "running"}, judge'[c] # "running",
           user[c] = "stopped" => user'[c] = "stopped",
           user'[c] = "brokenPipe" => mode = "custom",
           local[c] = "gate" => user'[c] = "stopped" /\ c \in expired,
           FairScore(r), EarnedBy(c, r, Judged(user[c], judge[c]))'
    PROVE  RunnerInv'
<1> USE DEF RunnerInv, CaseInv, Finished, UserAlive, UserEnds
<1> DEFINE m == [kind |-> "case_result", case |-> c, result |-> r]
<1>1. /\ QueuesOK'
      /\ asked' = asked /\ letGo' = letGo /\ told' = told
      /\ brought' = brought \cup {c} /\ answers' = answers \cup {m} /\ errors' = errors
  <2>1. m \in AnswerMessage /\ m.kind = "case_result" /\ m.case = c /\ Sends(m)
    BY DEF AnswerMessage, ResultMessage, GivesResult
  <2>2. c \notin brought
    BY DEF CourseOf
  <2> HIDE DEF m
  <2>3. QED
    BY <2>1, <2>2, RunnerQueueSame, SendsEffect DEF QueuesOK
<1>2. /\ \A d \in Cases \ {c} : local'[d] = local[d] /\ waited'[d] = waited[d]
      /\ local'[c] = "answered" /\ waited'[c] = {}
      /\ local' \in [Cases -> {"none", "preparing", "gate", "waiting", "answered", "ended"}]
      /\ waited' \in [Cases -> SUBSET {"user", "judge"}]
  BY DEF GivesResult, StateTyped
<1>3. StateTyped'
  BY <1>2 DEF StateTyped, results, gates
<1>4. c = current
  BY DEF CourseOf
<1>5. InTurn'
  BY <1>1, <1>4 DEF InTurn, results
<1>6. Lasts
  BY DEF Lasts, results
<1>7. ASSUME NEW d \in Cases
      PROVE  CaseInv(d)'
  <2>1. CourseOf(d)'
    BY <1>1, <1>2, <1>4 DEF CourseOf, Untouched, Awaited, results, gates
  <2>2. ConfinementOf(d)'
    BY <1>1, <1>2 DEF CourseOf, ConfinementOf, StateTyped, results, gates
  <2>3. VerdictsOf(d)'
    BY <1>2, <1>6, ResultLasts DEF VerdictsOf, CourseOf, results
  <2>4. GatesOf(d)'
    BY <1>1, <1>2 DEF GatesOf, gates
  <2>5. QED
    BY <2>1, <2>2, <2>3, <2>4
<1>8. AnswersEarned'
  <2>1. ASSUME NEW n \in answers
        PROVE  (FairScore(n.result) /\ EarnedBy(n.case, n.result, Judged(user[n.case], judge[n.case])))'
    <3>1. n.case \in brought
      BY AnswersTyped DEF QueuesOK
    <3>2. n.case \in Cases /\ Finished(n.case)
      BY <3>1 DEF CourseOf, brought, CasesOf
    <3>3. FairScore(n.result) /\ EarnedBy(n.case, n.result, Judged(user[n.case], judge[n.case]))
      BY DEF AnswersEarned
    <3>4. QED
      BY <1>6, <3>2, <3>3, EarnedLasts DEF FairScore
  <2>2. m.case = c /\ m.result = r
    OBVIOUS
  <2>3. (FairScore(m.result) /\ EarnedBy(m.case, m.result, Judged(user[m.case], judge[m.case])))'
    BY <2>2 DEF FairScore
  <2> HIDE DEF m
  <2>4. QED
    BY <1>1, <2>1, <2>3 DEF AnswersEarned
<1>9. Booked'
  BY BookedLasts
<1>10. Causes'
  <2>1. Late => Late'
    BY LateLasts
  <2>2. local[c] = "gate" => Late'
    BY DEF Late
  <2>3. local[c] = "waiting" => c \notin letGo /\ c \notin told
    BY DEF GatesOf, ConfinementOf
  <2>4. ASSUME NEW d \in Cases, LatenessOf(d)
        PROVE  LatenessOf(d)'
    BY <1>1, <1>2, <2>1, <2>2, <2>3, <2>4 DEF LatenessOf
  <2>5. QED
    BY <1>1, <2>1, <2>4 DEF Causes
<1>11. QED
  BY <1>1, <1>3, <1>5, <1>7, <1>8, <1>9, <1>10

\* What killing the programs of a case does to them.
LEMMA KillEffect ==
    ASSUME StateTyped, NEW c \in Cases, KillPrograms(c)
    PROVE  /\ user' \in [Cases -> {"none"} \cup UserEnds \cup {"gate", "running"}]
           /\ judge' \in [Cases -> {"none", "running"} \cup JudgeEnds]
           /\ \A d \in Cases \ {c} : user'[d] = user[d] /\ judge'[d] = judge[d]
           /\ user'[c] = UserKilled(c)
           /\ judge[c] = "running" => judge'[c] \in Killed
           /\ judge[c] # "running" => judge'[c] = judge[c]
<1>1. UserKilled(c) \in {"none"} \cup UserEnds
  BY DEF UserKilled, StateTyped, UserEnds
<1>2. QED
  BY <1>1 DEF KillPrograms, StateTyped, Killed, JudgeEnds

LEMMA GateTimesOutKeeps ==
    ASSUME RunnerInv, NEW c \in Cases, GateTimesOut(c)
    PROVE  RunnerInv'
<1> DEFINE r == Scored("TLE", 0)
<1>1. user[c] \in {"gate", "stopped"}
  BY DEF RunnerInv, CaseInv, GatesOf, GateTimesOut
<1>2. /\ \A d \in Cases \ {c} : user'[d] = user[d] /\ judge'[d] = judge[d]
      /\ user' \in [Cases -> {"none"} \cup UserEnds \cup {"gate", "running"}]
      /\ judge' \in [Cases -> {"none", "running"} \cup JudgeEnds]
      /\ user'[c] = "stopped" /\ judge'[c] # "running"
  BY <1>1, KillEffect DEF GateTimesOut, RunnerInv, UserKilled, Killed
<1>3. r \in Result /\ FairScore(r) /\ r.verdict # "AC"
  BY DEF Scored, Result, Verdicts, FairScore, FullScore
<1>4. EarnedBy(c, r, Judged(user[c], judge[c]))'
  BY <1>3 DEF EarnedBy, GateTimesOut
<1> HIDE DEF r
<1>5. local[c] \in {"gate", "waiting"} /\ GivesResult(c, r)
  BY DEF GateTimesOut, r
<1>6. QED
  BY <1>2, <1>3, <1>4, <1>5, ResultGiven DEF GateTimesOut, UserEnds

\* A result that an error of the judge makes, too, is a fair one.
LEMMA TestlibFair ==
    ASSUME NEW end \in JudgeEnds
    PROVE  /\ Testlib(end) \in Result /\ FairScore(Testlib(end))
           /\ Testlib(end).verdict = "AC" => end = "accepted"
<1>1. /\ \A v \in Verdicts, points \in 0..FullScore :
            /\ Scored(v, points) \in Result
            /\ Scored(v, points).verdict = v /\ Scored(v, points).score = points
  BY DEF Scored, Result
<1>2. \E v \in Verdicts, points \in 0..FullScore :
        /\ Testlib(end) = Scored(v, points)
        /\ v = "AC" <=> points = FullScore
        /\ v = "AC" => end = "accepted"
  BY DEF Testlib, JudgeEnds, Verdicts, FullScore
<1>3. QED
  BY <1>1, <1>2 DEF FairScore

LEMMA JudgedFair ==
    ASSUME NEW userEnd \in UserEnds, NEW judgeEnd,
           userEnd \in {"ok", "brokenPipe"} => judgeEnd \in JudgeEnds
    PROVE  LET r == Judged(userEnd, judgeEnd)
           IN  /\ r \in Result /\ FairScore(r)
               /\ r.verdict = "AC" => userEnd \in {"ok", "brokenPipe"} /\ judgeEnd = "accepted"
<1>1. CASE userEnd \in {"ok", "brokenPipe"}
  BY <1>1, TestlibFair DEF Judged
<1>2. CASE userEnd \notin {"ok", "brokenPipe"}
  <2>1. Judged(userEnd, judgeEnd) \in {Scored("OLE", 0), Scored("RE", 0)}
    BY <1>2 DEF Judged
  <2>2. QED
    BY <2>1 DEF Scored, Result, Verdicts, FairScore, FullScore
<1>3. QED
  BY <1>1, <1>2

LEMMA WaitTimesOutKeeps ==
    ASSUME RunnerInv, NEW c \in Cases, WaitTimesOut(c)
    PROVE  RunnerInv'
<1> DEFINE r == TimedOut(c)
<1>1. /\ \A d \in Cases \ {c} : user'[d] = user[d] /\ judge'[d] = judge[d]
      /\ user' \in [Cases -> {"none"} \cup UserEnds \cup {"gate", "running"}]
      /\ judge' \in [Cases -> {"none", "running"} \cup JudgeEnds]
      /\ user'[c] = UserKilled(c) /\ judge'[c] # "running"
  BY KillEffect DEF WaitTimesOut, RunnerInv, Killed
<1>2. /\ user'[c] \notin {"gate", "running"}
      /\ user[c] = "stopped" => user'[c] = "stopped"
      /\ user'[c] = "brokenPipe" => mode = "custom"
  BY <1>1 DEF UserKilled, RunnerInv, CaseInv, VerdictsOf
<1>3. r \in Result /\ FairScore(r) /\ r.verdict # "AC"
  <2>1. CASE "judge" \in waited[c] /\ Testlib(judge[c]).verdict # "AC"
    <3>1. judge[c] \in JudgeEnds
      BY <2>1 DEF RunnerInv, CaseInv, ConfinementOf
    <3>2. QED
      BY <2>1, <3>1, TestlibFair DEF TimedOut
  <2>2. CASE ~("judge" \in waited[c] /\ Testlib(judge[c]).verdict # "AC")
    <3>1. r = Scored("TLE", 0)
      BY <2>2 DEF TimedOut
    <3>2. QED
      BY <3>1 DEF Scored, Result, Verdicts, FairScore, FullScore
  <2>3. QED
    BY <2>1, <2>2
<1> HIDE DEF r
<1>4. PICK e \in Result : e = r
  BY <1>3
<1>5. EarnedBy(c, e, Judged(user[c], judge[c]))'
  BY <1>3, <1>4 DEF EarnedBy, WaitTimesOut
<1>6. local[c] = "waiting" /\ GivesResult(c, e) /\ FairScore(e)
  BY <1>3, <1>4 DEF WaitTimesOut, r
<1>7. QED
  BY <1>1, <1>2, <1>5, <1>6, ResultGiven DEF WaitTimesOut

LEMMA ConcludeCustomKeeps ==
    ASSUME RunnerInv, NEW c \in Cases, ConcludeCustom(c)
    PROVE  RunnerInv'
<1> DEFINE r == Judged(user[c], judge[c])
<1>1. user[c] \in UserEnds /\ judge[c] \in JudgeEnds
  BY DEF RunnerInv, CaseInv, ConfinementOf, ConcludeCustom
<1>2. /\ r \in Result /\ FairScore(r)
      /\ r.verdict = "AC" => user[c] \in {"ok", "brokenPipe"} /\ judge[c] = "accepted"
  BY <1>1, JudgedFair
<1>3. user' = user /\ judge' = judge /\ expired' = expired
  BY DEF ConcludeCustom, programs
<1> HIDE DEF r
<1>4. PICK e \in Result : e = r
  BY <1>2
<1>5. EarnedBy(c, e, Judged(user[c], judge[c]))'
  BY <1>2, <1>3, <1>4 DEF EarnedBy, r
<1>6. GivesResult(c, e) /\ FairScore(e)
  BY <1>2, <1>4 DEF ConcludeCustom, r
<1>7. /\ user' \in [Cases -> {"none"} \cup UserEnds \cup {"gate", "running"}]
      /\ judge' \in [Cases -> {"none", "running"} \cup JudgeEnds]
      /\ user'[c] \notin {"gate", "running"} /\ judge'[c] # "running"
  BY <1>1, <1>3 DEF RunnerInv, StateTyped, UserEnds, JudgeEnds
<1>8. /\ local[c] = "waiting" /\ mode = "custom"
      /\ UNCHANGED <<mode, toRunner, stage, results, cgroup, limit, gates, expired, child, faults>>
  BY DEF ConcludeCustom, programs
<1>9. QED
  BY <1>3, <1>5, <1>6, <1>7, <1>8, ResultGiven

LEMMA ConcludeBuiltinKeeps ==
    ASSUME RunnerInv, NEW c \in Cases, ConcludeBuiltin(c)
    PROVE  RunnerInv'
<1>1. PICK check \in Checks :
        /\ judge' = [judge EXCEPT ![c] = IF user[c] = "ok" THEN check ELSE "none"]
        /\ GivesResult(c, Judged(user[c], check))
  BY DEF ConcludeBuiltin
<1> DEFINE r == Judged(user[c], check)
<1>2. user[c] \in UserEnds /\ user[c] # "brokenPipe" /\ check \in JudgeEnds
  BY DEF RunnerInv, CaseInv, ConfinementOf, VerdictsOf, ConcludeBuiltin, Checks, JudgeEnds
<1>3. /\ judge' \in [Cases -> {"none", "running"} \cup JudgeEnds]
      /\ judge'[c] = IF user[c] = "ok" THEN check ELSE "none"
      /\ \A d \in Cases \ {c} : judge'[d] = judge[d]
      /\ judge'[c] # "running"
  BY <1>1, <1>2 DEF RunnerInv, StateTyped, Checks
<1>4. /\ r \in Result /\ FairScore(r)
      /\ r.verdict = "AC" => user[c] \in {"ok", "brokenPipe"} /\ check = "accepted"
  BY <1>2, JudgedFair
<1>5. r = Judged(user[c], judge'[c])
  BY <1>2, <1>3 DEF Judged
<1>6. user' = user /\ expired' = expired
  BY DEF ConcludeBuiltin
<1> HIDE DEF r
<1>7. PICK e \in Result : e = r
  BY <1>4
<1>8. EarnedBy(c, e, Judged(user[c], judge[c]))'
  BY <1>2, <1>3, <1>4, <1>5, <1>6, <1>7 DEF EarnedBy
<1>9. GivesResult(c, e) /\ FairScore(e)
  BY <1>1, <1>4, <1>7 DEF r
<1>10. user' \in [Cases -> {"none"} \cup UserEnds \cup {"gate", "running"}]
       /\ user'[c] \notin {"gate", "running"} /\ user'[c] # "brokenPipe"
  BY <1>2, <1>6 DEF RunnerInv, StateTyped, UserEnds
<1>11. /\ local[c] = "waiting"
       /\ UNCHANGED <<mode, toRunner, stage, results, cgroup, limit, gates, expired, child, faults>>
  BY DEF ConcludeBuiltin
<1>12. QED
  BY <1>3, <1>6, <1>8, <1>9, <1>10, <1>11, ResultGiven

-----------------------------------------------------------------------------
(***************************************************************************)
(* The other steps of a goroutine.                                         *)
(***************************************************************************)
LEMMA PassGateKeeps ==
    ASSUME RunnerInv, NEW c \in Cases, PassGate(c)
    PROVE  RunnerInv'
<1> USE DEF RunnerInv, CaseInv, Finished, UserAlive
<1>1. /\ QueuesOK'
      /\ asked' = asked /\ letGo' = letGo
      /\ told' = told /\ brought' = brought /\ answers' = answers /\ errors' = errors
  BY RunnerQueueSame, JudgerQueueSame DEF PassGate, socket, QueuesOK
<1>2. /\ \A d \in Cases \ {c} : local'[d] = local[d] /\ user'[d] = user[d]
      /\ local'[c] = "waiting"
      /\ user'[c] = IF user[c] = "gate" THEN "running" ELSE user[c]
  BY DEF PassGate, StateTyped
<1>3. StateTyped'
  BY DEF PassGate, StateTyped, results, gates
<1>4. InTurn'
  BY <1>1 DEF PassGate, InTurn, results
<1>5. Lasts
  BY <1>2 DEF PassGate, Lasts, results
<1>6. c = current /\ c \in released /\ cgroup[c] # "none" /\ local[c] = "gate"
  BY DEF PassGate, CourseOf, ConfinementOf
<1>7. ASSUME NEW d \in Cases
      PROVE  CaseInv(d)'
  <2>1. CourseOf(d)'
    BY <1>1, <1>2, <1>6 DEF PassGate, CourseOf, Untouched, Awaited, results, gates
  <2>2. ConfinementOf(d)'
    BY <1>1, <1>2, <1>6 DEF PassGate, ConfinementOf, StateTyped, UserEnds, results, gates
  <2>3. VerdictsOf(d)'
    BY <1>2, <1>5, <1>6, ResultLasts DEF PassGate, VerdictsOf, results
  <2>4. GatesOf(d)'
    BY <1>1, <1>2, <1>6 DEF PassGate, GatesOf, gates
  <2>5. QED
    BY <2>1, <2>2, <2>3, <2>4
<1>8. AnswersEarned'
  BY <1>1, <1>5, AnswersLast
<1>9. Booked'
  BY BookedLasts DEF PassGate
<1>10. Causes'
  <2>1. Late => Late'
    BY <1>2, LateLasts DEF PassGate
  <2>2. c \notin letGo /\ c \notin told
    BY <1>6 DEF GatesOf, ConfinementOf
  <2>3. ASSUME NEW d \in Cases, LatenessOf(d)
        PROVE  LatenessOf(d)'
    BY <1>1, <1>2, <2>1, <2>2, <2>3 DEF PassGate, LatenessOf
  <2>4. QED
    BY <1>1, <2>1, <2>3 DEF PassGate, Causes
<1>11. QED
  BY <1>1, <1>3, <1>4, <1>7, <1>8, <1>9, <1>10

LEMMA EndCaseKeeps ==
    ASSUME RunnerInv, NEW c \in Cases, EndCase(c)
    PROVE  RunnerInv'
<1> USE DEF RunnerInv, CaseInv, Finished, UserAlive
<1>1. /\ QueuesOK'
      /\ asked' = asked /\ letGo' = letGo
      /\ told' = told /\ brought' = brought /\ answers' = answers /\ errors' = errors
  BY RunnerQueueSame, JudgerQueueSame DEF EndCase, socket, QueuesOK
<1>2. /\ \A d \in Cases \ {c} : local'[d] = local[d] /\ (d \in pending' <=> d \in pending)
                                 /\ (d \in released' <=> d \in released)
      /\ local'[c] = "ended" /\ local[c] = "answered" /\ c \notin released'
  BY DEF EndCase, StateTyped
<1>3. StateTyped'
  BY DEF EndCase, StateTyped, results, programs
<1>4. InTurn'
  BY <1>1 DEF EndCase, InTurn, results
<1>5. Lasts
  BY DEF EndCase, Lasts, results, programs
<1>6. ASSUME NEW d \in Cases
      PROVE  CaseInv(d)'
  <2>1. CourseOf(d)'
    BY <1>1, <1>2 DEF EndCase, CourseOf, Untouched, Awaited, results, programs
  <2>2. ConfinementOf(d)'
    BY <1>1, <1>2 DEF EndCase, ConfinementOf, results, programs
  <2>3. VerdictsOf(d)'
    BY <1>2, <1>5, ResultLasts DEF EndCase, VerdictsOf, results, programs
  <2>4. GatesOf(d)'
    BY <1>1, <1>2 DEF EndCase, GatesOf, programs
  <2>5. QED
    BY <2>1, <2>2, <2>3, <2>4
<1>7. AnswersEarned'
  BY <1>1, <1>5, AnswersLast
<1>8. Booked'
  BY BookedLasts DEF EndCase
<1>9. Causes'
  <2>1. Late' = Late
    BY DEF EndCase, Late, programs
  <2>2. ASSUME NEW d \in Cases, LatenessOf(d)
        PROVE  LatenessOf(d)'
    BY <1>1, <1>2, <2>1, <2>2 DEF EndCase, LatenessOf, programs
  <2>3. QED
    BY <1>1, <2>1, <2>2 DEF EndCase, Causes
<1>10. QED
  BY <1>1, <1>3, <1>4, <1>6, <1>7, <1>8, <1>9

LEMMA StartCaseKeeps ==
    ASSUME RunnerInv, NEW c \in Cases, StartCase(c)
    PROVE  RunnerInv'
<1> USE DEF RunnerInv, CaseInv, Finished, UserAlive
<1>1. Untouched(c) /\ c = current /\ local[c] = "preparing" /\ c \notin asked
  BY DEF StartCase, CourseOf, Awaited
<1>2. /\ QueuesOK'
      /\ asked' = asked /\ letGo' = letGo
      /\ told' = told \cup {c} /\ brought' = brought /\ answers' = answers /\ errors' = errors
  <2> DEFINE m == Answer("user_pid", c, TRUE)
  <2>1. m \in AnswerMessage /\ m.kind = "user_pid" /\ m.case = c /\ Sends(m)
    BY CasesNumbered, AnswerTyped DEF StartCase, Answers
  <2>2. c \notin told /\ brought = {}
    BY <1>1 DEF Untouched, InTurn
  <2> HIDE DEF m
  <2>3. QED
    BY <2>1, <2>2, RunnerQueueSame, SendsEffect DEF QueuesOK, StartCase
<1>3. /\ \A d \in Cases \ {c} : local'[d] = local[d] /\ user'[d] = user[d] /\ judge'[d] = judge[d]
      /\ local'[c] = "gate" /\ user'[c] = "gate"
      /\ judge'[c] = IF mode = "custom" THEN "running" ELSE "none"
  BY DEF StartCase, StateTyped
<1>4. StateTyped'
  BY DEF StartCase, StateTyped, results, gates
<1>5. InTurn'
  BY <1>1, <1>2 DEF StartCase, InTurn, results
<1>6. Lasts
  BY <1>1, <1>3 DEF StartCase, Lasts, results
<1>7. ASSUME NEW d \in Cases
      PROVE  CaseInv(d)'
  <2>1. CourseOf(d)'
    BY <1>1, <1>2, <1>3 DEF StartCase, CourseOf, Untouched, Awaited, StateTyped, results, gates
  <2>2. ConfinementOf(d)'
    BY <1>1, <1>2, <1>3 DEF StartCase, ConfinementOf, Untouched, results, gates
  <2>3. VerdictsOf(d)'
    BY <1>1, <1>3, <1>6, ResultLasts DEF StartCase, VerdictsOf, results
  <2>4. GatesOf(d)'
    BY <1>1, <1>2, <1>3 DEF StartCase, GatesOf, Untouched, gates
  <2>5. QED
    BY <2>1, <2>2, <2>3, <2>4
<1>8. AnswersEarned'
  BY <1>2, <1>6, AnswersLast
<1>9. Booked'
  BY BookedLasts DEF StartCase
<1>10. Causes'
  <2>1. Late => Late'
    BY <1>1, <1>3, LateLasts DEF StartCase, Untouched
  <2>2. ASSUME NEW d \in Cases, LatenessOf(d)
        PROVE  LatenessOf(d)'
    BY <1>1, <1>2, <1>3, <2>1, <2>2 DEF StartCase, LatenessOf
  <2>3. QED
    BY <1>2, <2>1, <2>2 DEF StartCase, Causes
<1>11. QED
  BY <1>2, <1>4, <1>5, <1>7, <1>8, <1>9, <1>10

LEMMA StartFailsKeeps ==
    ASSUME RunnerInv, NEW c \in Cases, StartFails(c)
    PROVE  RunnerInv'
<1> USE DEF RunnerInv, CaseInv, Finished, UserAlive
<1>1. Untouched(c) /\ c = current /\ local[c] = "preparing" /\ c \notin asked
  BY DEF StartFails, CourseOf, Awaited
<1>2. /\ QueuesOK'
      /\ asked' = asked /\ letGo' = letGo
      /\ told' = told /\ brought' = brought /\ answers' = answers
  <2> DEFINE m == Answer("error", c, FALSE)
  <2>1. m \in AnswerMessage /\ m.kind = "error" /\ m.case = c /\ Sends(m)
    BY CasesNumbered, AnswerTyped DEF StartFails, Answers
  <2> HIDE DEF m
  <2>2. QED
    BY <2>1, RunnerQueueSame, SendsEffect DEF QueuesOK, StartFails
<1>3. /\ \A d \in Cases \ {c} : local'[d] = local[d]
      /\ local'[c] = "answered"
      /\ faults' # 0 /\ faults' \in 0..MaxFaults
  BY ConstantsAssumption DEF StartFails, StateTyped, Fault
<1>4. StateTyped'
  BY <1>3 DEF StartFails, StateTyped, results, gates, programs
<1>5. InTurn'
  BY <1>2 DEF StartFails, InTurn, results
<1>6. Lasts
  BY DEF StartFails, Lasts, results, programs
<1>7. ASSUME NEW d \in Cases
      PROVE  CaseInv(d)'
  <2>1. CourseOf(d)'
    BY <1>1, <1>2, <1>3 DEF StartFails, CourseOf, Untouched, Awaited, StateTyped, results, gates, programs
  <2>2. ConfinementOf(d)'
    BY <1>1, <1>2, <1>3 DEF StartFails, ConfinementOf, Untouched, results, gates, programs
  <2>3. VerdictsOf(d)'
    BY <1>1, <1>3, <1>6, ResultLasts DEF StartFails, VerdictsOf, results, programs
  <2>4. GatesOf(d)'
    BY <1>1, <1>2, <1>3 DEF StartFails, GatesOf, Untouched, gates, programs
  <2>5. QED
    BY <2>1, <2>2, <2>3, <2>4
<1>8. AnswersEarned'
  BY <1>2, <1>6, AnswersLast
<1>9. Booked'
  BY BookedLasts DEF StartFails
<1>10. QED
  BY <1>2, <1>3, <1>4, <1>5, <1>7, <1>8, <1>9 DEF Causes

-----------------------------------------------------------------------------
(***************************************************************************)
(* The runner's loop.                                                      *)
(***************************************************************************)
\* A step that takes messages away and adds none that says anything about a
\* case, except for errors that have a cause; the task may fail at that.
LEMMA FewerMessages ==
    ASSUME RunnerInv, QueuesOK',
           \/ stage' = stage
           \/ stage = "hello" /\ stage' = "compile"
           \/ stage = "compile" /\ stage' = "rejected"
           \/ stage' = "failed" /\ (faults' = 0 => Late),
           UNCHANGED <<mode, results, cgroup, limit, local, gates, expired, programs, waited>>,
           faults' \in 0..MaxFaults, faults' = 0 => faults = 0,
           asked' \subseteq asked, letGo' \subseteq letGo, told' \subseteq told,
           brought' \subseteq brought, answers' \subseteq answers,
           faults' = 0 /\ errors' # {} => Late
    PROVE  RunnerInv'
<1> USE DEF RunnerInv, CaseInv, Finished, UserAlive
<1>1. StateTyped'
  BY DEF StateTyped, results, gates, programs
<1>2. InTurn'
  BY DEF InTurn, results
<1>3. Lasts
  BY DEF Lasts, results, programs
<1>4. ASSUME NEW d \in Cases
      PROVE  CaseInv(d)'
  <2>1. CourseOf(d)'
    BY DEF CourseOf, Untouched, Awaited, results, gates, programs
  <2>2. ConfinementOf(d)'
    BY DEF ConfinementOf, results, gates, programs
  <2>3. VerdictsOf(d)'
    BY <1>3, ResultLasts DEF VerdictsOf, results, programs
  <2>4. GatesOf(d)'
    BY DEF GatesOf, gates, programs
  <2>5. QED
    BY <2>1, <2>2, <2>3, <2>4
<1>5. AnswersEarned'
  BY <1>3, AnswersLast
<1>6. Booked'
  BY BookedLasts
<1>7. Causes'
  <2>1. Late' = Late
    BY DEF Late, programs
  <2>2. ASSUME NEW d \in Cases, LatenessOf(d)
        PROVE  LatenessOf(d)'
    BY <2>1, <2>2 DEF LatenessOf, programs
  <2>3. QED
    BY <2>1, <2>2 DEF Causes
<1>8. QED
  BY <1>1, <1>2, <1>4, <1>5, <1>6, <1>7

LEMMA ServeHelloKeeps ==
    ASSUME RunnerInv, ServeHello
    PROVE  RunnerInv'
<1> DEFINE m == Answer("hello", 0, TRUE)
<1>1. m \in AnswerMessage /\ m.kind = "hello" /\ Sends(m)
  BY CasesNumbered, AnswerTyped DEF ServeHello, Answers
<1> HIDE DEF m
<1>2. RunnerQueueOK' /\ asked' \subseteq asked /\ letGo' \subseteq letGo
  BY ServedEffect DEF ServeHello, Asked, RunnerInv, QueuesOK
<1>3. JudgerQueueOK' /\ told' = told /\ brought' = brought /\ answers' = answers /\ errors' = errors
  BY <1>1, SendsEffect DEF RunnerInv, QueuesOK
<1>4. faults = 0 /\ errors # {} => Late
  BY DEF RunnerInv, Causes
<1>5. faults' = faults /\ faults \in 0..MaxFaults
  BY DEF RunnerInv, StateTyped, ServeHello
<1>6. QED
  BY <1>2, <1>3, <1>4, <1>5, FewerMessages DEF ServeHello, QueuesOK

LEMMA ServeCompileKeeps ==
    ASSUME RunnerInv, ServeCompile
    PROVE  RunnerInv'
<1>1. RunnerQueueOK' /\ asked' \subseteq asked /\ letGo' \subseteq letGo
  BY ServedEffect DEF ServeCompile, Asked, RunnerInv, QueuesOK
<1>2. UNCHANGED <<mode, stage, results, cgroup, limit, local, gates, expired, programs, waited>>
  BY DEF ServeCompile
<1>3. CASE (\E ok \in BOOLEAN : Sends(Answer("compile_result", 0, ok))) /\ UNCHANGED faults
  <2>1. PICK ok \in BOOLEAN : Sends(Answer("compile_result", 0, ok))
    BY <1>3
  <2> DEFINE m == Answer("compile_result", 0, ok)
  <2>2. m \in AnswerMessage /\ m.kind = "compile_result" /\ Sends(m)
    BY <2>1, CasesNumbered, AnswerTyped DEF Answers
  <2> HIDE DEF m
  <2>3. JudgerQueueOK' /\ told' = told /\ brought' = brought /\ answers' = answers /\ errors' = errors
    BY <2>2, SendsEffect DEF RunnerInv, QueuesOK
  <2>4. faults = 0 /\ errors # {} => Late
    BY DEF RunnerInv, Causes
  <2>5. faults' = faults /\ faults \in 0..MaxFaults
    BY <1>3 DEF RunnerInv, StateTyped
  <2>6. QED
    BY <1>1, <1>2, <2>3, <2>4, <2>5, FewerMessages DEF QueuesOK
<1>4. CASE Fault /\ Sends(Answer("error", 0, FALSE))
  <2> DEFINE m == Answer("error", 0, FALSE)
  <2>1. m \in AnswerMessage /\ m.kind = "error" /\ Sends(m)
    BY <1>4, CasesNumbered, AnswerTyped DEF Answers
  <2> HIDE DEF m
  <2>2. JudgerQueueOK' /\ told' = told /\ brought' = brought /\ answers' = answers
    BY <2>1, SendsEffect DEF RunnerInv, QueuesOK
  <2>3. faults' # 0 /\ faults' \in 0..MaxFaults
    BY <1>4, ConstantsAssumption DEF RunnerInv, StateTyped, Fault
  <2>4. QED
    BY <1>1, <1>2, <2>2, <2>3, FewerMessages DEF QueuesOK
<1>5. QED
  BY <1>3, <1>4 DEF ServeCompile

LEMMA ServeRunCaseKeeps ==
    ASSUME RunnerInv, ServeRunCase
    PROVE  RunnerInv'
<1> USE DEF RunnerInv, CaseInv, Finished, UserAlive
<1> DEFINE c == Head(toRunner).case
<1>1. RunnerQueueOK' /\ asked' \subseteq asked /\ letGo' \subseteq letGo /\ c \in asked /\ c \notin asked'
  BY ServedEffect DEF ServeRunCase, Asked, QueuesOK
<1>2. JudgerQueueOK' /\ told' = told /\ brought' = brought /\ answers' = answers /\ errors' = errors
  BY JudgerQueueSame DEF ServeRunCase, QueuesOK
<1>3. local' = [local EXCEPT ![c] = "preparing"] /\ pending' = pending \cup {c}
  BY DEF ServeRunCase, Registers
<1> HIDE DEF c
<1>4. c \in Cases /\ c = current /\ Untouched(c) /\ local[c] \in {"none", "ended"}
  BY <1>1 DEF asked, CasesOf, InTurn, CourseOf, Awaited
<1>5. /\ \A d \in Cases \ {c} : local'[d] = local[d] /\ (d \in pending' <=> d \in pending)
      /\ local'[c] = "preparing" /\ c \in pending'
  BY <1>3, <1>4 DEF StateTyped
<1>6. StateTyped'
  BY <1>3, <1>4 DEF ServeRunCase, StateTyped, results, programs
<1>7. InTurn'
  BY <1>1, <1>2 DEF ServeRunCase, InTurn, results
<1>8. Lasts
  BY DEF ServeRunCase, Lasts, results, programs
<1>9. asked = {c}
  BY <1>1, <1>4 DEF InTurn
<1>10. ASSUME NEW d \in Cases
       PROVE  CaseInv(d)'
  <2>1. CourseOf(d)'
    BY <1>1, <1>2, <1>4, <1>5 DEF ServeRunCase, CourseOf, Untouched, Awaited, results, programs, StateTyped
  <2>2. ConfinementOf(d)'
    BY <1>1, <1>2, <1>4, <1>5 DEF ServeRunCase, ConfinementOf, results, programs
  <2>3. VerdictsOf(d)'
    BY <1>4, <1>5, <1>8, ResultLasts DEF ServeRunCase, VerdictsOf, Untouched, results, programs
  <2>4. GatesOf(d)'
    BY <1>1, <1>2, <1>4, <1>5 DEF ServeRunCase, GatesOf, programs
  <2>5. QED
    BY <2>1, <2>2, <2>3, <2>4
<1>11. AnswersEarned'
  BY <1>2, <1>4, <1>8, AnswersLast
<1>12. Booked'
  BY BookedLasts DEF ServeRunCase
<1>13. Causes'
  <2>1. Late' = Late
    BY DEF ServeRunCase, Late, programs
  <2>2. ASSUME NEW d \in Cases, LatenessOf(d)
        PROVE  LatenessOf(d)'
    BY <1>1, <1>2, <1>4, <1>5, <2>1, <2>2 DEF ServeRunCase, LatenessOf, programs
  <2>3. QED
    BY <1>2, <2>1, <2>2 DEF ServeRunCase, Causes
<1>14. QED
  BY <1>1, <1>2, <1>6, <1>7, <1>10, <1>11, <1>12, <1>13 DEF QueuesOK

LEMMA ServeReleaseKeeps ==
    ASSUME RunnerInv, ServeRelease
    PROVE  RunnerInv'
<1> USE DEF RunnerInv, CaseInv, Finished, UserAlive
<1> DEFINE c == Head(toRunner).case
<1>1. RunnerQueueOK' /\ asked' \subseteq asked /\ letGo' \subseteq letGo /\ c \in letGo /\ c \notin letGo'
  BY ServedEffect DEF ServeRelease, Asked, QueuesOK
<1>2. \/ c \in pending /\ pending' = pending \ {c} /\ released' = released \cup {c} /\ UNCHANGED toJudger
      \/ c \notin pending /\ Sends(Answer("error", c, FALSE)) /\ UNCHANGED gates
  BY DEF ServeRelease
<1> HIDE DEF c
<1>3. c \in Cases /\ ~Untouched(c) /\ cgroup[c] # "none"
  BY <1>1 DEF letGo, CasesOf, Untouched, ConfinementOf
<1>4. CASE c \in pending /\ pending' = pending \ {c} /\ released' = released \cup {c} /\ UNCHANGED toJudger
  <2>1. JudgerQueueOK' /\ told' = told /\ brought' = brought /\ answers' = answers /\ errors' = errors
    BY <1>4, JudgerQueueSame DEF QueuesOK
  <2>2. StateTyped'
    BY <1>3, <1>4 DEF ServeRelease, StateTyped, results, programs
  <2>3. InTurn'
    BY <1>1, <2>1 DEF ServeRelease, InTurn, results
  <2>4. Lasts
    BY DEF ServeRelease, Lasts, results, programs
  <2>5. ASSUME NEW d \in Cases
        PROVE  CaseInv(d)'
    <3>1. CourseOf(d)'
      BY <1>1, <1>3, <1>4, <2>1 DEF ServeRelease, CourseOf, Untouched, Awaited, results, programs
    <3>2. ConfinementOf(d)'
      BY <1>1, <1>3, <1>4, <2>1 DEF ServeRelease, ConfinementOf, results, programs
    <3>3. VerdictsOf(d)'
      BY <2>4, ResultLasts DEF ServeRelease, VerdictsOf, results, programs
    <3>4. GatesOf(d)'
      BY <1>1, <1>4, <2>1 DEF ServeRelease, GatesOf, programs
    <3>5. QED
      BY <3>1, <3>2, <3>3, <3>4
  <2>6. AnswersEarned'
    BY <2>1, <2>4, AnswersLast
  <2>7. Booked'
    BY BookedLasts DEF ServeRelease
  <2>8. Causes'
    <3>1. Late' = Late
      BY DEF ServeRelease, Late, programs
    <3>2. ASSUME NEW d \in Cases, LatenessOf(d)
          PROVE  LatenessOf(d)'
      BY <1>1, <2>1, <3>1, <3>2 DEF ServeRelease, LatenessOf, programs
    <3>3. QED
      BY <2>1, <3>1, <3>2 DEF ServeRelease, Causes
  <2>9. QED
    BY <1>1, <2>1, <2>2, <2>3, <2>5, <2>6, <2>7, <2>8 DEF QueuesOK
<1>5. CASE c \notin pending /\ Sends(Answer("error", c, FALSE)) /\ UNCHANGED gates
  <2> DEFINE m == Answer("error", c, FALSE)
  <2>1. m \in AnswerMessage /\ m.kind = "error" /\ Sends(m)
    BY <1>3, <1>5, CasesNumbered, AnswerTyped DEF Answers
  <2> HIDE DEF m
  <2>2. JudgerQueueOK' /\ told' = told /\ brought' = brought /\ answers' = answers
    BY <2>1, SendsEffect DEF QueuesOK
  <2>3. Finished(c)
    BY <1>1, <1>3, <1>5 DEF CourseOf, GatesOf, StateTyped
  <2>4. faults = 0 => Late
    BY <1>1, <1>3, <2>3 DEF Causes, LatenessOf
  <2>5. /\ UNCHANGED <<mode, stage, results, cgroup, limit, local, gates, expired, programs, waited>>
        /\ faults' = faults /\ faults \in 0..MaxFaults
    BY <1>5 DEF ServeRelease, StateTyped
  <2>6. QED
    BY <1>1, <2>2, <2>4, <2>5, FewerMessages DEF QueuesOK
<1>6. QED
  BY <1>2, <1>4, <1>5

-----------------------------------------------------------------------------
(***************************************************************************)
(* The judger, and the end of the container.                               *)
(***************************************************************************)
LEMMA EverythingDies ==
    ASSUME RunnerInv, KillAllPrograms, local' = [d \in Cases |-> "ended"],
           UNCHANGED <<mode, socket, results, limit, gates, expired, waited>>,
           cgroup' \in [Cases -> {"none", "made", "removed"}],
           \A d \in Cases : cgroup'[d] = cgroup[d] \/ (cgroup[d] = "made" /\ cgroup'[d] = "removed"),
           faults' \in 0..MaxFaults, faults' = 0 => faults = 0,
           stage' \in {"done", "rejected", "failed"},
           stage' = stage \/ (stage' = "failed" /\ faults' # 0)
    PROVE  RunnerInv'
<1> USE DEF RunnerInv, CaseInv, Finished, UserAlive
<1>1. /\ QueuesOK'
      /\ asked' = asked /\ letGo' = letGo
      /\ told' = told /\ brought' = brought /\ answers' = answers /\ errors' = errors
  BY RunnerQueueSame, JudgerQueueSame DEF socket, QueuesOK
<1>2. \A d \in Cases : /\ UserKilled(d) \in {"none"} \cup UserEnds
                       /\ user'[d] = UserKilled(d) /\ child'[d] = FALSE /\ local'[d] = "ended"
                       /\ judge'[d] = IF judge[d] = "running" THEN "fail" ELSE judge[d]
                       /\ ~UserAlive(d) => user'[d] = user[d]
  BY DEF KillAllPrograms, UserKilled, StateTyped, UserEnds
<1>3. StateTyped'
  <2>1. user' \in [Cases -> {"none", "gate", "running"} \cup UserEnds]
    BY <1>2 DEF KillAllPrograms
  <2>2. child' \in [Cases -> BOOLEAN] /\ judge' \in [Cases -> {"none", "running"} \cup JudgeEnds]
    BY DEF KillAllPrograms, StateTyped, JudgeEnds
  <2>3. QED
    BY <2>1, <2>2 DEF StateTyped, results, gates
<1>4. InTurn'
  BY <1>1 DEF InTurn, results
<1>5. Lasts
  BY <1>2 DEF Lasts, ConfinementOf, results
<1>6. ASSUME NEW d \in Cases
      PROVE  CaseInv(d)'
  <2>1. CourseOf(d)'
    BY <1>1, <1>2 DEF CourseOf, Untouched, Awaited, results, gates
  <2>2. ConfinementOf(d)'
    BY <1>1, <1>2 DEF ConfinementOf, UserEnds, JudgeEnds, results, gates
  <2>3. VerdictsOf(d)'
    BY <1>2, <1>5, ResultLasts DEF VerdictsOf, results, UserKilled
  <2>4. GatesOf(d)'
    BY <1>1, <1>2 DEF GatesOf, gates
  <2>5. QED
    BY <2>1, <2>2, <2>3, <2>4
<1>7. AnswersEarned'
  BY <1>1, <1>5, AnswersLast
<1>8. Booked'
  BY BookedLasts
<1>9. Causes'
  <2>1. Late => Late'
    BY <1>2, LateLasts
  <2>2. ASSUME NEW d \in Cases, d \in letGo, faults' = 0
        PROVE  Late
    <3>1. ~(d > current)
      BY <2>2 DEF CourseOf, Awaited, Untouched
    <3>2. CASE stage = "failed"
      BY <2>2, <3>2 DEF Causes
    <3>3. CASE stage = "done"
      <4>1. got[d] # NoResult
        BY <3>3, CasesNumbered DEF Booked, BookedUpTo
      <4>2. QED
        BY <2>2, <4>1 DEF Causes, LatenessOf, CourseOf
    <3>4. CASE stage = "rejected"
      BY <3>1, <3>4, CasesNumbered DEF InTurn
    <3>5. QED
      BY <2>2, <3>2, <3>3, <3>4
  <2>3. ASSUME NEW d \in Cases, faults' = 0
        PROVE  LatenessOf(d)'
    BY <1>1, <2>1, <2>2, <2>3 DEF LatenessOf
  <2>4. QED
    BY <1>1, <2>1, <2>3 DEF Causes
<1>10. QED
  BY <1>1, <1>3, <1>4, <1>6, <1>7, <1>8, <1>9

LEMMA DisconnectKeeps ==
    ASSUME RunnerInv, Disconnect
    PROVE  RunnerInv'
<1>1. /\ cgroup' \in [Cases -> {"none", "made", "removed"}]
      /\ \A d \in Cases : cgroup'[d] = cgroup[d] \/ (cgroup[d] = "made" /\ cgroup'[d] = "removed")
  <2>1. cgroup' = [d \in Cases |-> IF cgroup[d] = "made" THEN "removed" ELSE cgroup[d]]
    BY DEF Disconnect
  <2>2. \A d \in Cases : cgroup[d] \in {"none", "made", "removed"}
    BY DEF RunnerInv, StateTyped
  <2>3. QED
    BY <2>1, <2>2
<1>2. faults' # 0 /\ faults' \in 0..MaxFaults
  BY ConstantsAssumption DEF RunnerInv, StateTyped, Disconnect, Fault
<1>3. QED
  BY <1>1, <1>2, EverythingDies DEF Disconnect

LEMMA RemoveContainerKeeps ==
    ASSUME RunnerInv, RemoveContainer
    PROVE  RunnerInv'
<1>1. cgroup' \in [Cases -> {"none", "made", "removed"}] /\ cgroup' = cgroup
  BY DEF RemoveContainer, RunnerInv, StateTyped
<1>2. faults' = faults /\ faults \in 0..MaxFaults
  BY DEF RemoveContainer, RunnerInv, StateTyped
<1>3. /\ KillAllPrograms /\ local' = [d \in Cases |-> "ended"]
      /\ UNCHANGED <<mode, socket, results, limit, gates, expired, waited>>
      /\ stage' = stage /\ stage \in {"done", "rejected", "failed"}
  BY DEF RemoveContainer, Over
<1>4. QED
  BY <1>1, <1>2, <1>3, EverythingDies

LEMMA HearHelloKeeps ==
    ASSUME RunnerInv, HearHello
    PROVE  RunnerInv'
<1>1. RunnerQueueOK' /\ asked' = asked /\ letGo' = letGo
  BY AsksEffect, CasesNumbered DEF HearHello, Requests, RunnerInv, QueuesOK
<1>2. /\ JudgerQueueOK' /\ told' \subseteq told /\ brought' \subseteq brought
      /\ answers' \subseteq answers /\ errors' \subseteq errors
  BY HeedsEffect DEF HearHello, Heard, RunnerInv, QueuesOK
<1>3. faults' = faults /\ faults \in 0..MaxFaults /\ (faults = 0 /\ errors # {} => Late)
  BY DEF HearHello, RunnerInv, StateTyped, Causes
<1>4. QED
  BY <1>1, <1>2, <1>3, FewerMessages DEF HearHello, QueuesOK

LEMMA CleanUpFailsKeeps ==
    ASSUME RunnerInv, CleanUpFails
    PROVE  RunnerInv'
<1>1. RunnerQueueOK' /\ asked' = asked /\ letGo' = letGo
  BY RunnerQueueSame DEF CleanUpFails, RunnerInv, QueuesOK
<1>2. /\ JudgerQueueOK' /\ told' \subseteq told /\ brought' \subseteq brought
      /\ answers' \subseteq answers /\ errors' \subseteq errors
  BY HeedsEffect DEF CleanUpFails, Heard, RunnerInv, QueuesOK
<1>3. faults' # 0 /\ faults' \in 0..MaxFaults
  BY ConstantsAssumption DEF RunnerInv, StateTyped, CleanUpFails, Fault
<1>4. QED
  BY <1>1, <1>2, <1>3, FewerMessages DEF CleanUpFails, QueuesOK

\* What cleaning up a case does to its cgroup and to its programs.
LEMMA CleanUpEffect ==
    ASSUME StateTyped, NEW c \in Cases, CleanUp(c)
    PROVE  /\ cgroup' \in [Cases -> {"none", "made", "removed"}]
           /\ user' \in [Cases -> {"none", "gate", "running"} \cup UserEnds]
           /\ child' \in [Cases -> BOOLEAN]
           /\ \A d \in Cases \ {c} : cgroup'[d] = cgroup[d] /\ user'[d] = user[d] /\ child'[d] = child[d]
           /\ IF cgroup[c] = "made"
              THEN cgroup'[c] = "removed" /\ user'[c] = UserKilled(c) /\ ~child'[c]
              ELSE cgroup'[c] = cgroup[c] /\ user'[c] = user[c] /\ child'[c] = child[c]
           /\ user'[c] \in {user[c], UserKilled(c)}
<1>1. UserKilled(c) \in {"none"} \cup UserEnds
  BY DEF UserKilled, StateTyped, UserEnds
<1>2. CASE cgroup[c] = "made"
  <2>1. /\ cgroup' = [cgroup EXCEPT ![c] = "removed"]
        /\ user' = [user EXCEPT ![c] = UserKilled(c)]
        /\ child' = [child EXCEPT ![c] = FALSE]
    BY <1>2 DEF CleanUp
  <2>2. user' \in [Cases -> {"none", "gate", "running"} \cup UserEnds]
    BY <1>1, <2>1 DEF StateTyped
  <2>3. /\ cgroup' \in [Cases -> {"none", "made", "removed"}] /\ child' \in [Cases -> BOOLEAN]
        /\ cgroup'[c] = "removed" /\ ~child'[c] /\ user'[c] = UserKilled(c)
    BY <2>1 DEF StateTyped
  <2>4. \A d \in Cases \ {c} : cgroup'[d] = cgroup[d] /\ user'[d] = user[d] /\ child'[d] = child[d]
    BY <2>1 DEF StateTyped
  <2>5. QED
    BY <1>2, <2>2, <2>3, <2>4
<1>3. CASE cgroup[c] # "made"
  BY <1>3 DEF CleanUp, StateTyped
<1>4. QED
  BY <1>2, <1>3

LEMMA TaskFailsKeeps ==
    ASSUME RunnerInv, TaskFails, JudgerQueueOK', toRunner' = toRunner,
           told' \subseteq told, brought' \subseteq brought, answers' \subseteq answers,
           UNCHANGED <<mode, results, limit, local, gates, expired, judge, waited>>,
           faults' \in 0..MaxFaults, faults' = 0 => faults = 0 /\ Late
    PROVE  RunnerInv'
<1> USE DEF RunnerInv, CaseInv, Finished, UserAlive
<1>1. RunnerQueueOK' /\ asked' = asked /\ letGo' = letGo
  BY RunnerQueueSame DEF QueuesOK
<1>2. CASE stage # "case"
  <2>1. UNCHANGED programs /\ UNCHANGED cgroup /\ stage' = "failed"
    BY <1>2 DEF TaskFails, programs
  <2>2. QED
    BY <1>1, <2>1, FewerMessages DEF QueuesOK
<1>3. CASE stage = "case"
  <2>1. current \in Cases
    BY <1>3, CasesNumbered DEF InTurn, StateTyped
  <2>2. stage' = "failed" /\ CleanUp(current)
    BY <1>3 DEF TaskFails
  <2>3. PICK c \in Cases : c = current
    BY <2>1
  <2>4. /\ cgroup' \in [Cases -> {"none", "made", "removed"}]
        /\ user' \in [Cases -> {"none", "gate", "running"} \cup UserEnds]
        /\ child' \in [Cases -> BOOLEAN]
        /\ \A d \in Cases \ {c} : cgroup'[d] = cgroup[d] /\ user'[d] = user[d] /\ child'[d] = child[d]
        /\ IF cgroup[c] = "made"
           THEN cgroup'[c] = "removed" /\ user'[c] = UserKilled(c) /\ ~child'[c]
           ELSE cgroup'[c] = cgroup[c] /\ user'[c] = user[c] /\ child'[c] = child[c]
        /\ user'[c] \in {user[c], UserKilled(c)}
    BY <2>2, <2>3, CleanUpEffect
  <2>5. StateTyped'
    BY <2>2, <2>4 DEF StateTyped, results, gates
  <2>6. InTurn'
    BY <1>1, <2>2 DEF InTurn, results
  <2>7. Lasts
    BY <2>4 DEF Lasts, ConfinementOf, UserKilled, results
  <2>8. \A d \in Cases : /\ ~UserAlive(d) => user'[d] = user[d]
                         /\ user'[d] \in {user[d], "stopped", "failed"}
                         /\ child'[d] => child[d]
    BY <2>4 DEF UserKilled, StateTyped
  <2>9. ASSUME NEW d \in Cases
        PROVE  CaseInv(d)'
    <3>1. CourseOf(d)'
      BY <1>1, <2>4, <2>8 DEF CourseOf, Untouched, Awaited, results, gates
    <3>2. ConfinementOf(d)'
      BY <1>1, <2>2, <2>3, <2>4, <2>8 DEF ConfinementOf, UserKilled, UserEnds, results, gates
    <3>3. VerdictsOf(d)'
      BY <2>7, <2>8, ResultLasts DEF VerdictsOf, results
    <3>4. GatesOf(d)'
      BY <1>1, <2>4, <2>8 DEF GatesOf, UserKilled, gates
    <3>5. QED
      BY <3>1, <3>2, <3>3, <3>4
  <2>10. AnswersEarned'
    BY <2>7, AnswersLast
  <2>11. Booked'
    BY <2>2, BookedLasts
  <2>12. Causes'
    <3>1. Late => Late'
      BY <2>8, LateLasts
    <3>2. QED
      BY <2>2, <3>1 DEF Causes, LatenessOf
  <2>13. QED
    BY <1>1, <2>5, <2>6, <2>9, <2>10, <2>11, <2>12 DEF QueuesOK
<1>4. QED
  BY <1>2, <1>3

LEMMA HearErrorKeeps ==
    ASSUME RunnerInv, HearError
    PROVE  RunnerInv'
<1>1. /\ JudgerQueueOK' /\ told' \subseteq told /\ brought' \subseteq brought
      /\ answers' \subseteq answers /\ errors # {}
  BY HeedsEffect DEF HearError, Heard, RunnerInv, QueuesOK
<1>2. faults' = faults /\ faults \in 0..MaxFaults /\ (faults = 0 => Late)
  BY <1>1 DEF HearError, RunnerInv, StateTyped, Causes
<1>3. QED
  BY <1>1, <1>2, TaskFailsKeeps DEF HearError

LEMMA HearUserPIDKeeps ==
    ASSUME RunnerInv, HearUserPID
    PROVE  RunnerInv'
<1> USE DEF RunnerInv, CaseInv, Finished, UserAlive
<1>1. /\ JudgerQueueOK' /\ told' \subseteq told /\ brought' \subseteq brought
      /\ answers' \subseteq answers /\ errors' \subseteq errors
      /\ Head(toJudger).case \in told /\ Head(toJudger).case \notin told'
  BY HeedsEffect DEF HearUserPID, Heard, QueuesOK
<1>2. PICK c \in Cases : c = Head(toJudger).case
  BY <1>1 DEF told, CasesOf
<1>3. /\ c = current /\ cgroup[c] = "none" /\ ~Untouched(c) /\ c \notin letGo /\ c \in told
  BY <1>1, <1>2 DEF InTurn, ConfinementOf, Untouched
<1>4. /\ stage = "case"
      /\ UNCHANGED <<mode, results, limit, local, gates, expired, judge, waited>>
  BY DEF HearUserPID
<1>5. CASE UserAlive(c) /\ Confined(c) /\ UNCHANGED <<stage, user, child, faults>>
  <2>1. /\ RunnerQueueOK' /\ asked' = asked /\ letGo' = letGo \cup {c}
    BY <1>3, <1>5, AsksEffect, CasesNumbered DEF Confined, Requests, QueuesOK
  <2>2. /\ cgroup' \in [Cases -> {"none", "made", "removed"}]
        /\ \A d \in Cases \ {c} : cgroup'[d] = cgroup[d]
        /\ cgroup'[c] = "made"
    BY <1>5 DEF Confined, StateTyped
  <2>3. StateTyped'
    BY <1>4, <1>5, <2>2 DEF StateTyped, results, gates
  <2>4. InTurn'
    BY <1>1, <1>4, <1>5, <2>1 DEF InTurn, results
  <2>5. Lasts
    BY <1>4, <1>5 DEF Lasts, results
  <2>6. ~Finished(c) /\ c \notin released /\ got[c] = NoResult
    BY <1>3, <1>5 DEF ConfinementOf, CourseOf
  <2>7. ASSUME NEW d \in Cases
        PROVE  CaseInv(d)'
    <3>1. CourseOf(d)'
      BY <1>1, <1>3, <1>4, <1>5, <2>1, <2>2 DEF CourseOf, Untouched, Awaited, results, gates
    <3>2. ConfinementOf(d)'
      BY <1>1, <1>2, <1>3, <1>4, <1>5, <2>1, <2>2, <2>6 DEF ConfinementOf, results, gates
    <3>3. VerdictsOf(d)'
      BY <1>4, <1>5, <2>5, ResultLasts DEF VerdictsOf, results
    <3>4. GatesOf(d)'
      BY <1>4, <1>5, <2>1, <2>6 DEF GatesOf, gates
    <3>5. QED
      BY <3>1, <3>2, <3>3, <3>4
  <2>8. AnswersEarned'
    BY <1>1, <2>5, AnswersLast
  <2>9. Booked'
    BY <1>4, <1>5, BookedLasts
  <2>10. Causes'
    <3>1. Late' = Late
      BY <1>4, <1>5 DEF Late
    <3>2. ASSUME NEW d \in Cases, LatenessOf(d)
          PROVE  LatenessOf(d)'
      BY <1>1, <1>4, <1>5, <2>1, <2>6, <3>1, <3>2 DEF LatenessOf
    <3>3. QED
      BY <1>1, <1>5, <3>1, <3>2 DEF Causes
  <2>11. QED
    BY <1>1, <2>1, <2>3, <2>4, <2>7, <2>8, <2>9, <2>10 DEF QueuesOK
<1>6. CASE /\ UserAlive(c) => faults < MaxFaults
           /\ faults' = IF UserAlive(c) THEN faults + 1 ELSE faults
           /\ TaskFails
           /\ UNCHANGED toRunner
  <2>1. faults' \in 0..MaxFaults /\ (faults' = 0 => faults = 0 /\ ~UserAlive(c))
    BY <1>6, ConstantsAssumption DEF StateTyped
  <2>2. faults = 0 /\ ~UserAlive(c) => user[c] = "stopped" /\ c \in expired
    BY <1>3, <1>4 DEF Causes, LatenessOf
  <2>3. faults' = 0 => faults = 0 /\ Late
    BY <2>1, <2>2 DEF Late
  <2>4. QED
    BY <1>1, <1>4, <1>6, <2>1, <2>3, TaskFailsKeeps
<1>7. QED
  BY <1>2, <1>5, <1>6 DEF HearUserPID

LEMMA HearCompiledKeeps ==
    ASSUME RunnerInv, HearCompiled
    PROVE  RunnerInv'
<1> USE DEF RunnerInv, CaseInv, Finished, UserAlive
<1>1. /\ JudgerQueueOK' /\ told' \subseteq told /\ brought' \subseteq brought
      /\ answers' \subseteq answers /\ errors' \subseteq errors
  BY HeedsEffect DEF HearCompiled, Heard, QueuesOK
<1>2. /\ stage = "compile" /\ faults' = faults /\ faults \in 0..MaxFaults
      /\ UNCHANGED <<mode, got, verdict, score, cgroup, limit, local, gates, expired, programs, waited>>
  BY DEF HearCompiled, StateTyped
<1>3. CASE stage' = "rejected" /\ UNCHANGED <<toRunner, current>>
  <2>1. RunnerQueueOK' /\ asked' = asked /\ letGo' = letGo
    BY <1>3, RunnerQueueSame DEF QueuesOK
  <2>2. faults = 0 /\ errors # {} => Late
    BY DEF Causes
  <2>3. UNCHANGED results
    BY <1>2, <1>3 DEF results
  <2>4. QED
    BY <1>1, <1>2, <1>3, <2>1, <2>2, <2>3, FewerMessages DEF QueuesOK
<1>4. CASE stage' = "case" /\ AskCase(1)
  <2>1. 1 \in Cases /\ current = 0 /\ \A d \in Cases : d > current /\ ~(d < 1) /\ ~(d <= 0)
    BY <1>2, CasesNumbered DEF InTurn
  <2>2. asked = {} /\ told = {} /\ brought = {} /\ \A d \in Cases : Untouched(d)
    BY <2>1 DEF InTurn, CourseOf, Awaited, asked, told, brought, CasesOf
  <2>3. RunnerQueueOK' /\ asked' = {1} /\ letGo' = letGo
    BY <1>4, <2>1, <2>2, AsksEffect, CasesNumbered DEF AskCase, Requests, QueuesOK
  <2>4. current' = 1
    BY <1>4 DEF AskCase
  <2>5. StateTyped'
    BY <1>2, <1>4, <2>1, <2>4, CasesNumbered DEF StateTyped, gates, programs
  <2>6. InTurn'
    BY <1>1, <1>4, <2>2, <2>3, <2>4 DEF InTurn
  <2>7. Lasts
    BY <1>2 DEF Lasts, programs
  <2>8. \A d \in Cases : local[d] \in {"none", "ended"}
    BY <2>1 DEF CourseOf, Awaited
  <2>9. ASSUME NEW d \in Cases
        PROVE  CaseInv(d)'
    <3>1. CourseOf(d)'
      BY <1>1, <1>2, <2>1, <2>2, <2>3, <2>4, <2>8 DEF CourseOf, Untouched, Awaited, gates, programs
    <3>2. ConfinementOf(d)'
      BY <1>1, <1>2, <2>2, <2>3 DEF ConfinementOf, Untouched, gates, programs
    <3>3. VerdictsOf(d)'
      BY <1>2, <2>2 DEF VerdictsOf, Untouched, programs
    <3>4. GatesOf(d)'
      BY <1>2, <2>3 DEF GatesOf, gates, programs
    <3>5. QED
      BY <3>1, <3>2, <3>3, <3>4
  <2>10. AnswersEarned'
    BY <1>1, <2>7, AnswersLast
  <2>11. Booked'
    <3>1. verdict' = "AC" /\ score' = 0 /\ \A d \in Cases : got'[d] = NoResult
      BY <1>2, <2>2 DEF Booked, Untouched
    <3>2. BookedUpTo(0)'
      <4>1. 1..0 = {} /\ score' <= 0 * FullScore /\ (verdict' = "AC" <=> score' = 0 * FullScore)
        BY <3>1 DEF FullScore
      <4>2. \A d \in Cases : got'[d] # NoResult <=> d <= 0
        BY <2>1, <3>1
      <4>3. QED
        BY <3>1, <4>1, <4>2 DEF BookedUpTo
    <3>3. current' - 1 = 0
      BY <2>4
    <3>4. QED
      BY <1>4, <3>2, <3>3 DEF Booked, BookedUpTo
  <2>12. Causes'
    <3>1. Late' = Late
      BY <1>2 DEF Late, programs
    <3>2. QED
      BY <1>1, <1>2, <1>4, <2>2, <2>3, <3>1 DEF Causes, LatenessOf, Untouched
  <2>13. QED
    BY <1>1, <2>3, <2>5, <2>6, <2>9, <2>10, <2>11, <2>12 DEF QueuesOK
<1>5. QED
  BY <1>3, <1>4 DEF HearCompiled

\* The cgroup has the last word, and a fair one.
LEMMA LimitedFair ==
    ASSUME NEW r \in Result, FairScore(r), NEW reached \in {"none", "memory", "pids"}
    PROVE  /\ Limited(r, reached) \in Result /\ FairScore(Limited(r, reached))
           /\ Limited(r, reached).verdict = "AC" => reached = "none" /\ Limited(r, reached) = r
           /\ r.verdict # "AC" => Limited(r, reached).verdict # "AC"
<1>1. /\ Limited(r, reached) \in {Scored("MLE", 0), Scored("RE", 0), r}
      /\ reached = "memory" => Limited(r, reached) = Scored("MLE", 0)
      /\ reached = "pids" /\ r.verdict = "AC" => Limited(r, reached) = Scored("RE", 0)
      /\ reached = "pids" /\ r.verdict # "AC" => Limited(r, reached) = r
      /\ reached = "none" => Limited(r, reached) = r
  BY DEF Limited
<1>2. \A e \in {Scored("MLE", 0), Scored("RE", 0)} : e \in Result /\ FairScore(e) /\ e.verdict # "AC"
  BY DEF Scored, Result, Verdicts, FairScore, FullScore
<1>3. QED
  BY <1>1, <1>2

\* One more result is booked.
LEMMA BookedNext ==
    ASSUME NEW c \in Cases, BookedUpTo(c - 1), StateTyped, NEW r \in Result, FairScore(r),
           got' = [got EXCEPT ![c] = r],
           verdict' = IF verdict = "AC" THEN r.verdict ELSE verdict,
           score' = score + r.score
    PROVE  BookedUpTo(c)'
<1>1. /\ \A d \in Cases \ {c} : got'[d] = got[d]
      /\ got'[c] = r /\ r # NoResult
  BY ConstantsAssumption DEF StateTyped
<1>2. c \in Nat /\ \A d \in Cases : d \in Nat
  BY DEF Cases
<1>3. \A d \in Cases : got'[d] # NoResult <=> d <= c
  <2>1. \A d \in Cases : got[d] # NoResult <=> d <= c - 1
    BY DEF BookedUpTo
  <2>2. \A d \in Cases \ {c} : d <= c <=> d <= c - 1
    BY <1>2
  <2>3. c <= c
    BY <1>2
  <2>4. QED
    BY <1>1, <2>1, <2>2, <2>3
<1>4. \A d \in 1..(c - 1) : d \in Cases \ {c}
  BY <1>2, CasesNumbered DEF Cases
<1>5. 1..c = 1..(c - 1) \cup {c}
  BY <1>2 DEF Cases
<1>6. verdict' = "AC" <=> \A d \in 1..c : Accepted(d)'
  BY <1>1, <1>4, <1>5 DEF BookedUpTo, Accepted
<1>7. /\ r.score \in 0..FullScore /\ score \in Nat
      /\ r.verdict = "AC" <=> r.score = FullScore
  BY CasesNumbered DEF Result, StateTyped, FairScore, FullScore
<1>8. score' <= c * FullScore /\ (verdict' = "AC" <=> score' = c * FullScore)
  BY <1>2, <1>7 DEF BookedUpTo, FullScore
<1>9. QED
  BY <1>3, <1>6, <1>8 DEF BookedUpTo, Accepted

LEMMA HearResultKeeps ==
    ASSUME RunnerInv, HearResult
    PROVE  RunnerInv'
<1> USE DEF RunnerInv, CaseInv, Finished, UserAlive
<1> DEFINE m == Head(toJudger)
<1>1. /\ JudgerQueueOK' /\ told' = {} /\ brought' \subseteq brought
      /\ answers' \subseteq answers /\ errors' \subseteq errors
      /\ m \in answers /\ m.case \in brought /\ m.case \notin brought'
  BY HeedsEffect DEF HearResult, Heard, QueuesOK
<1> HIDE DEF m
<1>2. PICK c \in Cases : c = m.case
  BY <1>1 DEF brought, CasesOf
<1>3. /\ stage = "case" /\ c = current /\ c \in brought /\ brought' = {} /\ asked = {}
      /\ Finished(c) /\ ~Untouched(c)
  BY <1>1, <1>2 DEF InTurn, CourseOf, Awaited, Untouched, HearResult
<1>4. /\ m.result \in Result /\ FairScore(m.result)
      /\ EarnedBy(c, m.result, Judged(user[c], judge[c]))
  BY <1>1, <1>2, AnswersTyped DEF AnswersEarned, ResultMessage, QueuesOK
<1> DEFINE r == CaseStats(c, m.result)
<1>5. r = Limited(m.result, limit[c])
  <2>1. limit[c] # "none" => cgroup[c] = "made"
    BY <1>2, <1>3 DEF ConfinementOf, StateTyped
  <2>2. QED
    BY <2>1 DEF CaseStats, Limited
<1>6. /\ r \in Result /\ FairScore(r)
      /\ r.verdict = "AC" => limit[c] = "none"
      /\ EarnedBy(c, r, VerdictOf(c))
  <2>1. limit[c] \in {"none", "memory", "pids"}
    BY DEF StateTyped
  <2>2. /\ r \in Result /\ FairScore(r)
        /\ r.verdict = "AC" => limit[c] = "none" /\ r = m.result
        /\ m.result.verdict # "AC" => r.verdict # "AC"
    BY <1>4, <1>5, <2>1, LimitedFair
  <2>3. m.result = Judged(user[c], judge[c]) => r = VerdictOf(c)
    BY <1>5 DEF VerdictOf
  <2>4. QED
    BY <1>4, <2>2, <2>3 DEF EarnedBy
<1>7. /\ Heeds /\ CleanUp(c)
      /\ got' = [got EXCEPT ![c] = r]
      /\ verdict' = IF verdict = "AC" THEN r.verdict ELSE verdict
      /\ score' = score + r.score
      /\ IF c < NCases
         THEN AskCase(c + 1) /\ UNCHANGED stage
         ELSE stage' = "done" /\ UNCHANGED <<toRunner, current>>
      /\ UNCHANGED <<mode, limit, local, gates, expired, judge, waited, faults>>
  BY <1>3 DEF HearResult, m
<1> HIDE DEF r
<1>8. PICK e \in Result : e = r
  BY <1>6
<1>9. /\ cgroup' \in [Cases -> {"none", "made", "removed"}]
      /\ user' \in [Cases -> {"none", "gate", "running"} \cup UserEnds]
      /\ child' \in [Cases -> BOOLEAN]
      /\ \A d \in Cases \ {c} : cgroup'[d] = cgroup[d] /\ child'[d] = child[d]
      /\ \A d \in Cases : user'[d] = user[d]
      /\ cgroup'[c] # "made" /\ ~child'[c]
      /\ cgroup'[c] = "none" <=> cgroup[c] = "none"
  <2>1. UserKilled(c) = user[c]
    BY <1>3 DEF ConfinementOf, UserKilled
  <2>2. StateTyped /\ (child[c] => cgroup[c] = "made")
    BY DEF ConfinementOf
  <2>3. QED
    BY <1>7, <2>1, <2>2, CleanUpEffect DEF StateTyped
<1>10. /\ \A d \in Cases \ {c} : got'[d] = got[d]
       /\ got'[c] = e /\ e # NoResult
       /\ got' \in [Cases -> Result \cup {NoResult}]
  BY <1>7, <1>8, ConstantsAssumption DEF StateTyped
<1>11. /\ BookedUpTo(c)'
       /\ verdict' \in Verdicts /\ score' \in 0..(NCases * FullScore)
  <2>1. BookedUpTo(c - 1)
    BY <1>3 DEF Booked
  <2>2. BookedUpTo(c)'
    BY <1>6, <1>7, <1>8, <2>1, BookedNext
  <2>3. score' \in Nat /\ score' <= c * FullScore /\ c <= NCases /\ c \in Nat
    BY <1>6, <1>7, <2>2, CasesNumbered DEF BookedUpTo, StateTyped, Result, FullScore
  <2>4. verdict' \in Verdicts
    BY <1>6, <1>7 DEF StateTyped, Result
  <2>5. QED
    BY <2>2, <2>3, <2>4, CasesNumbered DEF FullScore
<1>12. got[c] = NoResult
  <2>1. BookedUpTo(c - 1) /\ ~(c <= c - 1)
    BY <1>3, CasesNumbered DEF Booked
  <2>2. QED
    BY <2>1 DEF BookedUpTo
<1>13. Lasts
  BY <1>7, <1>9, <1>10, <1>12 DEF Lasts
<1>14. AnswersEarned'
  BY <1>1, <1>13, AnswersLast
<1>15. \A d \in Cases : d > c => Untouched(d) /\ local[d] \in {"none", "ended"}
  BY <1>3 DEF CourseOf, Awaited
<1>16. /\ RunnerQueueOK' /\ letGo' = letGo /\ asked' \subseteq {current'}
       /\ current' \in 0..NCases /\ stage' \in {"case", "done"} /\ current' > 0
       /\ stage' = "done" => current' = NCases /\ c = NCases
       /\ stage' = "case" => current' = c + 1
       /\ \A d \in Cases : Awaited(d)' => d > c
       /\ \A d \in Cases : d < current' => d <= c
  <2>1. c \in Nat \ {0} /\ c <= NCases /\ NCases \in Nat /\ \A d \in Cases : d \in Nat
    BY CasesNumbered
  <2>2. CASE c < NCases
    <3>1. /\ current' = c + 1 /\ stage' = "case" /\ Asks(Request("run_case", c + 1))
      BY <1>3, <1>7, <2>2 DEF AskCase
    <3>2. c + 1 \in Cases /\ c + 1 \in 0..NCases
      BY <2>1, <2>2 DEF Cases
    <3>3. RunnerQueueOK' /\ asked' = {c + 1} /\ letGo' = letGo
      BY <1>3, <3>1, <3>2, AsksEffect DEF Requests, QueuesOK
    <3>4. \A d \in Cases : Awaited(d)' => d > c
      BY <2>1, <3>1, <3>3 DEF Awaited
    <3>5. \A d \in Cases : d < c + 1 => d <= c
      BY <2>1
    <3>6. QED
      BY <2>1, <3>1, <3>2, <3>3, <3>4, <3>5
  <2>3. CASE ~(c < NCases)
    <3>1. stage' = "done" /\ toRunner' = toRunner /\ current' = c /\ c = NCases
      BY <1>3, <1>7, <2>1, <2>3
    <3>2. RunnerQueueOK' /\ asked' = {} /\ letGo' = letGo
      BY <1>3, <3>1, RunnerQueueSame DEF QueuesOK
    <3>3. \A d \in Cases : Awaited(d)' => d > c
      BY <3>1, <3>2 DEF Awaited
    <3>4. QED
      BY <2>1, <3>1, <3>2, <3>3
  <2>4. QED
    BY <2>2, <2>3
<1>17. StateTyped'
  BY <1>7, <1>9, <1>10, <1>11, <1>16 DEF StateTyped, gates
<1>18. InTurn'
  BY <1>1, <1>3, <1>16 DEF InTurn
<1>19. ASSUME NEW d \in Cases
       PROVE  CaseInv(d)'
  <2>1. /\ d > c => d # c
        /\ d <= c /\ d # c => d < current
        /\ d = c \/ d < c \/ d > c
        /\ c <= c /\ ~(c > c)
    BY <1>3, CasesNumbered
  <2>2. d <= c => Finished(d)
    BY <1>3, <2>1 DEF CourseOf
  <2>3. CourseOf(d)'
    <3>1. (Awaited(d) => local[d] \in {"none", "ended"} /\ Untouched(d))'
      BY <1>1, <1>3, <1>7, <1>9, <1>10, <1>15, <1>16, <2>1 DEF Untouched, gates
    <3>2. (local[d] \in {"none", "preparing"} => Untouched(d))'
      BY <1>1, <1>3, <1>7, <1>9, <1>10, <1>16 DEF CourseOf, Untouched, gates
    <3>3. (local[d] \in {"preparing", "gate", "waiting"} => d = current)'
      BY <1>3, <1>7 DEF CourseOf
    <3>4. (d < current \/ d \in brought \/ got[d] # NoResult => Finished(d))'
      BY <1>3, <1>7, <1>10, <1>16, <2>2 DEF CourseOf
    <3>5. QED
      BY <3>1, <3>2, <3>3, <3>4 DEF CourseOf
  <2>4. ConfinementOf(d)'
    <3>1. CASE d = c
      BY <1>1, <1>3, <1>7, <1>9, <1>10, <1>16, <3>1, CasesNumbered DEF ConfinementOf, gates
    <3>2. CASE d # c
      <4>1. d \notin told /\ d # current
        BY <1>3, <3>2 DEF InTurn
      <4>2. d < current => d < current'
        BY <1>3, <1>16, CasesNumbered
      <4>3. /\ cgroup'[d] = cgroup[d] /\ child'[d] = child[d] /\ user'[d] = user[d] /\ got'[d] = got[d]
            /\ judge'[d] = judge[d] /\ limit'[d] = limit[d] /\ waited'[d] = waited[d]
            /\ local'[d] = local[d] /\ released' = released
        BY <1>7, <1>9, <1>10, <3>2 DEF gates
      <4>4. cgroup[d] = "removed" => d < current
        BY <1>3 DEF ConfinementOf
      <4>5. QED
        BY <1>1, <1>3, <1>16, <4>1, <4>2, <4>3, <4>4 DEF ConfinementOf
    <3>3. QED
      BY <3>1, <3>2
  <2>5. VerdictsOf(d)'
    <3>1. /\ (user[d] = "brokenPipe" => mode = "custom")'
          /\ (mode = "builtin" /\ ~Finished(d) => judge[d] = "none")'
      BY <1>7, <1>9 DEF VerdictsOf
    <3>2. CASE d # c /\ got'[d] # NoResult
      BY <1>10, <1>13, <3>1, <3>2, ResultLasts DEF VerdictsOf
    <3>3. CASE d = c
      <4>1. user'[c] = user[c] /\ judge' = judge /\ limit' = limit /\ expired' = expired
        BY <1>7, <1>9
      <4>2. VerdictOf(c)' = VerdictOf(c)
        BY <4>1 DEF VerdictOf
      <4>3. /\ FairScore(got[c])' /\ EarnedBy(c, got[c], VerdictOf(c))'
            /\ (Accepted(c) => limit[c] = "none")'
        BY <1>6, <1>8, <1>10, <4>1, <4>2 DEF FairScore, EarnedBy, Accepted
      <4>4. QED
        BY <3>1, <3>3, <4>3 DEF VerdictsOf
    <3>4. QED
      BY <3>1, <3>2, <3>3 DEF VerdictsOf
  <2>6. GatesOf(d)'
    <3>1. CASE d = c
      BY <1>3, <1>7, <1>9, <1>16, <3>1 DEF GatesOf, gates
    <3>2. CASE d # c
      BY <1>7, <1>9, <1>16, <3>2 DEF GatesOf, gates
    <3>3. QED
      BY <3>1, <3>2
  <2>7. QED
    BY <2>3, <2>4, <2>5, <2>6
<1>20. Booked'
  <2>1. current' = c + 1 => current' - 1 = c
    BY CasesNumbered
  <2>2. stage' = "case" => BookedUpTo(current - 1)'
    BY <1>11, <1>16, <2>1 DEF BookedUpTo, Accepted
  <2>3. stage' = "done" => BookedUpTo(NCases)'
    BY <1>11, <1>16
  <2>4. QED
    BY <1>16, <2>2, <2>3 DEF Booked
<1>21. Causes'
  <2>1. Late' = Late
    BY <1>7, <1>9 DEF Late
  <2>2. faults' = faults /\ local' = local
    BY <1>7
  <2>3. QED
    BY <1>1, <1>16, <2>1, <2>2 DEF Causes, LatenessOf
<1>22. QED
  BY <1>1, <1>14, <1>16, <1>17, <1>18, <1>19, <1>20, <1>21 DEF QueuesOK

-----------------------------------------------------------------------------
(***************************************************************************)
(* The invariant holds.                                                    *)
(***************************************************************************)
LEMMA InitHolds == Init => RunnerInv
<1> SUFFICES ASSUME Init
             PROVE  RunnerInv
  OBVIOUS
<1> USE DEF Init
<1>1. Contents(toJudger) = {}
  BY DEF Contents
<1>2. told = {} /\ brought = {} /\ answers = {} /\ errors = {}
  BY <1>1 DEF told, brought, answers, errors, CasesOf
<1>3. JudgerQueueOK
  BY <1>1 DEF JudgerQueueOK, Once, AboutCases, PidsFirst
<1>4. Len(toRunner) = 1 /\ toRunner[1].kind = "hello" /\ toRunner \in Seq(RequestMessage)
  BY CasesNumbered DEF Request, RequestMessage, Requests
<1>5. \A m \in Contents(toRunner) : m.kind = "hello"
  BY <1>4 DEF Contents
<1>6. RunnerQueueOK /\ asked = {} /\ letGo = {}
  <2>1. Once(toRunner, {"run_case", "release_user"})
    BY <1>4 DEF Once
  <2>2. AboutCases(toRunner, {"run_case", "release_user"})
    BY <1>5 DEF AboutCases
  <2>3. asked = {} /\ letGo = {}
    BY <1>5 DEF asked, letGo, CasesOf
  <2>4. QED
    BY <1>4, <2>1, <2>2, <2>3 DEF RunnerQueueOK
<1>7. StateTyped
  <2>1. 0 \in 0..MaxFaults /\ 0 \in 0..(NCases * FullScore)
    BY ConstantsAssumption DEF FullScore
  <2>2. QED
    BY <2>1, CasesNumbered DEF StateTyped, Verdicts
<1>8. InTurn
  BY <1>2, <1>6 DEF InTurn
<1>9. ASSUME NEW c \in Cases
      PROVE  CaseInv(c)
  <2>1. ~(c < current)
    BY CasesNumbered
  <2>2. QED
    BY <1>2, <1>6, <2>1
       DEF CaseInv, CourseOf, ConfinementOf, VerdictsOf, GatesOf, Untouched, Finished, UserAlive
<1>10. AnswersEarned /\ Booked /\ Causes
  BY <1>2, <1>6 DEF AnswersEarned, Booked, Causes, LatenessOf
<1>11. QED
  BY <1>3, <1>6, <1>7, <1>8, <1>9, <1>10 DEF RunnerInv, QueuesOK

LEMMA StutteringHolds ==
    ASSUME RunnerInv, UNCHANGED vars
    PROVE  RunnerInv'
<1>1. QueuesOK' /\ asked' = asked /\ letGo' = letGo /\ told' = told /\ brought' = brought /\ answers' = answers /\ errors' = errors
  BY RunnerQueueSame, JudgerQueueSame DEF RunnerInv, QueuesOK, vars, socket
<1>2. faults' = faults /\ faults \in 0..MaxFaults /\ (faults = 0 /\ errors # {} => Late)
  BY DEF RunnerInv, StateTyped, Causes, vars
<1>3. QED
  BY <1>1, <1>2, FewerMessages DEF vars

LEMMA StepHolds ==
    ASSUME RunnerInv, [Next]_vars
    PROVE  RunnerInv'
<1>1. CASE Judger \/ CleanUpFails \/ Disconnect
  BY <1>1, HearHelloKeeps, HearCompiledKeeps, HearUserPIDKeeps, HearResultKeeps, HearErrorKeeps,
     RemoveContainerKeeps, CleanUpFailsKeeps, DisconnectKeeps DEF Judger
<1>2. CASE Runner
  BY <1>2, ServeHelloKeeps, ServeCompileKeeps, ServeRunCaseKeeps, ServeReleaseKeeps DEF Runner
<1>3. ASSUME NEW c \in Cases, Goroutine(c) \/ StartFails(c)
      PROVE  RunnerInv'
  BY <1>3, StartCaseKeeps, PassGateKeeps, GateTimesOutKeeps, ConcludeCustomKeeps,
     ConcludeBuiltinKeeps, WaitTimesOutKeeps, EndCaseKeeps, StartFailsKeeps DEF Goroutine
<1>4. ASSUME NEW c \in Cases,
             \/ \E program \in {"user", "judge"} : TakeEnd(c, program)
             \/ TimeLimit(c) \/ KilledByContext(c)
             \/ UserForks(c) \/ UserExits(c) \/ JudgeExits(c)
             \/ LimitReached(c) \/ KilledForMemory(c)
      PROVE  RunnerInv'
  BY <1>4, TakeEndKeeps, TimeLimitKeeps, KilledByContextKeeps, UserForksKeeps, UserExitsKeeps,
     JudgeExitsKeeps, LimitReachedKeeps, KilledForMemoryKeeps
<1>5. CASE UNCHANGED vars
  BY <1>5, StutteringHolds
<1>6. QED
  BY <1>1, <1>2, <1>3, <1>4, <1>5 DEF Next

LEMMA InvariantHolds == Spec => []RunnerInv
<1>1. Init => RunnerInv
  BY InitHolds
<1>2. RunnerInv /\ [Next]_vars => RunnerInv'
  BY StepHolds
<1>3. QED
  BY <1>1, <1>2, PTL DEF Spec

-----------------------------------------------------------------------------
(* The types of the protocol: the two queues carry well-formed messages     *)
(* only, and the score of a task never exceeds that of its cases.           *)
THEOREM TypeCorrect == Spec => []TypeOK
<1>1. RunnerInv => TypeOK
  BY DEF RunnerInv, QueuesOK, RunnerQueueOK, JudgerQueueOK, StateTyped, TypeOK,
         RequestMessage, AnswerMessage, ResultMessage
<1>2. QED
  BY <1>1, InvariantHolds, PTL

(* The user's program and what it leaves behind run in the cgroup of the    *)
(* current case only: a gate is opened by a release, a release is sent when *)
(* the cgroup is made, and who is in a cgroup dies with it.                 *)
THEOREM ProgramsConfined == Spec => []UserIsConfined
<1>1. RunnerInv => UserIsConfined
  BY DEF RunnerInv, CaseInv, ConfinementOf, UserIsConfined
<1>2. QED
  BY <1>1, InvariantHolds, PTL

(* Without a fault a task fails only when a time limit ended before the     *)
(* program was let go: a release comes too late only for a goroutine that   *)
(* gave its answer while its program was behind the gate.                   *)
THEOREM FailuresHaveCause == Spec => []FailureHasCause
<1>1. RunnerInv => FailureHasCause
  BY DEF RunnerInv, Causes, Late, FailureHasCause
<1>2. QED
  BY <1>1, InvariantHolds, PTL

(* The verdict of each case, and of the task, is earned: the ends of the    *)
(* two programs that the answer was made from are still theirs when it is   *)
(* booked, and every answer is booked for the case it is about.             *)
THEOREM VerdictsEarned == Spec => []VerdictIsEarned
<1>1. RunnerInv => VerdictIsEarned
  <2> SUFFICES ASSUME RunnerInv
               PROVE  VerdictIsEarned
    OBVIOUS
  <2>1. ASSUME NEW c \in Cases, got[c] # NoResult
        PROVE  /\ (c \in expired /\ ~Accepted(c)) \/ got[c] = VerdictOf(c)
               /\ Accepted(c) => /\ user[c] \in {"ok", "brokenPipe"}
                                 /\ judge[c] = "accepted"
                                 /\ limit[c] = "none"
    BY <2>1 DEF RunnerInv, CaseInv, VerdictsOf, EarnedBy, Accepted
  <2>2. stage = "done" => /\ (verdict = "AC") <=> \A c \in Cases : Accepted(c)
                          /\ (verdict = "AC") <=> (score = NCases * FullScore)
    BY DEF RunnerInv, Booked, BookedUpTo, Cases
  <2>3. QED
    BY <2>1, <2>2 DEF VerdictIsEarned
<1>2. QED
  BY <1>1, InvariantHolds, PTL
=============================================================================
