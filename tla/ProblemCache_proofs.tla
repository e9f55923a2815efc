------------------------ MODULE ProblemCache_proofs ------------------------
(***************************************************************************)
(* Proofs about ProblemCache: a ready entry is whole, also while it is     *)
(* copied, unless its removal broke off, or a removal that began while the *)
(* directory was in the making took files from it, before or after it was  *)
(* published; and it is downloaded once.                                   *)
(***************************************************************************)
EXTENDS ProblemCache, TLAPS

LEMMA Constants ==
    /\ NoDir \notin Dirs /\ NoDir \notin Temps /\ NoDir \notin Packages
    /\ NoWorker \notin Workers
    /\ Packages \cap Temps = {}
    /\ Packages \subseteq Dirs /\ Temps \subseteq Dirs
    /\ Files \subseteq Items /\ Judge \in Items
    /\ MaxCrashes \in Nat
    /\ NoStripe \notin Stripes /\ Stripings \subseteq [Packages -> Stripes]
  BY CacheAssumption DEF Dirs, Items

(***************************************************************************)
(* Types.                                                                  *)
(***************************************************************************)

LEMMA LoopFacts ==
    ASSUME NEW l \in Loop
    PROVE  /\ l.step \in {"idle"} \cup Inside \cup Outside
           /\ l.step # "idle" => l.want \in Packages
           /\ l.temp # NoDir <=> l.step \in Extracting
           /\ l.temp # NoDir => l.temp \in Temps
           /\ l.todo \subseteq Files
  BY Constants DEF Loop, Idle, Extracting, Inside, Outside

(* Between the steps that extract nothing a loop only changes its step.    *)
LEMMA GotoTyped ==
    ASSUME NEW l \in Loop, l.step \notin {"idle"} \cup Extracting,
           NEW s \in Outside \cup (Inside \ Extracting)
    PROVE  [l EXCEPT !.step = s] \in Loop
<1>1. l \in [step: Outside \cup (Inside \ Extracting), want: Packages, temp: {NoDir}, todo: {{}}]
  BY DEF Loop, Idle
<1>2. QED
  BY <1>1 DEF Loop

LEMMA IdleTyped == Idle \in Loop
  BY DEF Loop

(* A loop takes a step that extracts nothing.                              *)
LEMMA Goes ==
    ASSUME TypeOK, NEW w \in Workers, NEW s \in Outside \cup (Inside \ Extracting),
           worker[w].step \notin {"idle"} \cup Extracting, Goto(w, s)
    PROVE  /\ worker' \in [Workers -> Loop]
           /\ worker'[w].step = s /\ worker'[w].want = worker[w].want
           /\ worker'[w].temp = NoDir /\ worker[w].temp = NoDir
           /\ worker'[w].todo = worker[w].todo
           /\ \A v \in Workers : v # w => worker'[v] = worker[v]
<1> DEFINE new == [worker[w] EXCEPT !.step = s]
<1>0. worker[w] \in Loop
  BY DEF TypeOK
<1>1. new \in Loop
  BY <1>0, GotoTyped
<1>2. worker' = [worker EXCEPT ![w] = new]
  BY DEF Goto, TypeOK
<1>3. worker[w].temp = NoDir
  BY <1>0, LoopFacts
<1>4. new.step = s /\ new.want = worker[w].want /\ new.temp = worker[w].temp /\ new.todo = worker[w].todo
  BY <1>0 DEF Loop, Idle
<1> HIDE DEF new
<1>5. QED
  BY <1>1, <1>2, <1>3, <1>4 DEF TypeOK

LEMMA Returns ==
    ASSUME TypeOK, NEW w \in Workers, Return(w)
    PROVE  /\ worker' \in [Workers -> Loop]
           /\ worker'[w] = Idle
           /\ \A v \in Workers : v # w => worker'[v] = worker[v]
  BY IdleTyped DEF Return, TypeOK

-----------------------------------------------------------------------------
(***************************************************************************)
(* What each action does to the loops, one by one.                         *)
(***************************************************************************)

Others(w) == \A v \in Workers : v # w => worker'[v] = worker[v]

LEMMA OneMoves ==
    ASSUME worker \in [Workers -> Loop], NEW w \in Workers, NEW new \in Loop,
           worker' = [worker EXCEPT ![w] = new]
    PROVE  worker' \in [Workers -> Loop] /\ Others(w) /\ worker'[w] = new
  BY DEF Others

LEMMA TakeTaskMoves ==
    ASSUME TypeOK, NEW w \in Workers, NEW p \in Packages, TakeTask(w, p)
    PROVE  /\ worker' \in [Workers -> Loop] /\ Others(w)
           /\ worker'[w].step = "waiting" /\ worker'[w].temp = NoDir
<1> DEFINE new == [worker[w] EXCEPT !.step = "waiting", !.want = p]
<1>1. worker[w] \in [step: {"idle"}, want: {NoDir}, temp: {NoDir}, todo: {{}}]
  BY DEF TypeOK, TakeTask, Loop, Idle, Extracting, Inside, Outside
<1>2. new \in Loop /\ new.step = "waiting" /\ new.temp = NoDir
  BY <1>1 DEF Loop, Outside
<1>3. worker' = [worker EXCEPT ![w] = new]
  BY DEF TakeTask, TypeOK
<1> HIDE DEF new
<1>4. worker \in [Workers -> Loop]
  BY DEF TypeOK
<1>5. QED
  BY <1>2, <1>3, <1>4, OneMoves

LEMMA DownloadMoves ==
    ASSUME TypeOK, NEW w \in Workers, NEW t \in Temps, worker[w].step = "miss",
           worker' = [worker EXCEPT ![w].step = "extracting", ![w].temp = t, ![w].todo = Files]
    PROVE  /\ worker' \in [Workers -> Loop] /\ Others(w)
           /\ worker'[w].step = "extracting" /\ worker'[w].want = worker[w].want
           /\ worker'[w].temp = t /\ worker'[w].todo = Files
<1> DEFINE new == [worker[w] EXCEPT !.step = "extracting", !.temp = t, !.todo = Files]
<1>1. worker[w] \in [step: {"miss"}, want: Packages, temp: {NoDir}, todo: {{}}]
  BY DEF TypeOK, Loop, Idle, Extracting
<1>2. /\ new \in Loop /\ new.step = "extracting" /\ new.want = worker[w].want
      /\ new.temp = t /\ new.todo = Files
  BY <1>1 DEF Loop, Extracting
<1>3. worker' = [worker EXCEPT ![w] = new]
  BY DEF TypeOK
<1> HIDE DEF new
<1>4. worker \in [Workers -> Loop]
  BY DEF TypeOK
<1>5. QED
  BY <1>2, <1>3, <1>4, OneMoves

LEMMA ExtractMoves ==
    ASSUME TypeOK, NEW w \in Workers, NEW f \in worker[w].todo, worker[w].step = "extracting",
           worker' = [worker EXCEPT ![w].todo = worker[w].todo \ {f}]
    PROVE  /\ worker' \in [Workers -> Loop] /\ Others(w)
           /\ worker'[w].step = "extracting" /\ worker'[w].want = worker[w].want
           /\ worker'[w].temp = worker[w].temp /\ worker'[w].todo = worker[w].todo \ {f}
<1> DEFINE new == [worker[w] EXCEPT !.todo = worker[w].todo \ {f}]
<1>1. worker[w] \in [step: {"extracting"}, want: Packages, temp: Temps, todo: SUBSET Files]
  BY DEF TypeOK, Loop, Idle, Extracting, Outside
<1>2. /\ new \in Loop /\ new.step = "extracting" /\ new.want = worker[w].want
      /\ new.temp = worker[w].temp /\ new.todo = worker[w].todo \ {f}
  BY <1>1 DEF Loop, Extracting
<1>3. worker' = [worker EXCEPT ![w] = new]
  BY DEF TypeOK
<1> HIDE DEF new
<1>4. worker \in [Workers -> Loop]
  BY DEF TypeOK
<1>5. QED
  BY <1>2, <1>3, <1>4, OneMoves

LEMMA MarkMoves ==
    ASSUME TypeOK, NEW w \in Workers, worker[w].step = "extracting", Goto(w, "marked")
    PROVE  /\ worker' \in [Workers -> Loop] /\ Others(w)
           /\ worker'[w].step = "marked" /\ worker'[w].want = worker[w].want
           /\ worker'[w].temp = worker[w].temp /\ worker'[w].todo = worker[w].todo
<1> DEFINE new == [worker[w] EXCEPT !.step = "marked"]
<1>1. worker[w] \in [step: {"extracting"}, want: Packages, temp: Temps, todo: SUBSET Files]
  BY DEF TypeOK, Loop, Idle, Extracting, Outside
<1>2. /\ new \in Loop /\ new.step = "marked" /\ new.want = worker[w].want
      /\ new.temp = worker[w].temp /\ new.todo = worker[w].todo
  BY <1>1 DEF Loop, Extracting
<1>3. worker' = [worker EXCEPT ![w] = new]
  BY DEF Goto, TypeOK
<1> HIDE DEF new
<1>4. worker \in [Workers -> Loop]
  BY DEF TypeOK
<1>5. QED
  BY <1>2, <1>3, <1>4, OneMoves

(* Only with nothing left to extract: then the record is that of a loop.   *)
LEMMA PublishMoves ==
    ASSUME TypeOK, NEW w \in Workers, worker[w].step = "marked", worker[w].todo = {},
           worker' = [worker EXCEPT ![w].step = "copyNew", ![w].temp = NoDir]
    PROVE  /\ worker' \in [Workers -> Loop] /\ Others(w)
           /\ worker'[w].step = "copyNew" /\ worker'[w].want = worker[w].want
           /\ worker'[w].temp = NoDir
<1> DEFINE new == [worker[w] EXCEPT !.step = "copyNew", !.temp = NoDir]
<1>1. worker[w] \in [step: {"marked"}, want: Packages, temp: Temps, todo: {{}}]
  BY DEF TypeOK, Loop, Idle, Extracting, Outside
<1>2. /\ new \in Loop /\ new.step = "copyNew" /\ new.want = worker[w].want /\ new.temp = NoDir
  BY <1>1 DEF Loop, Extracting, Inside
<1>3. worker' = [worker EXCEPT ![w] = new]
  BY DEF TypeOK
<1> HIDE DEF new
<1>4. worker \in [Workers -> Loop]
  BY DEF TypeOK
<1>5. QED
  BY <1>2, <1>3, <1>4, OneMoves

(***************************************************************************)
(* Types are preserved together with the fact that a marked directory is   *)
(* complete.                                                               *)
(***************************************************************************)

MarkedIsDone == \A w \in Workers : worker[w].step = "marked" => worker[w].todo = {}

LEMMA DirTyped ==
    ASSUME dir \in [Dirs -> Directory], NEW d \in Dirs
    PROVE  /\ [dir[d] EXCEPT !.exists = TRUE] \in Directory
           /\ [dir[d] EXCEPT !.ready = TRUE] \in Directory
           /\ [dir[d] EXCEPT !.ready = FALSE] \in Directory
           /\ \A i \in Items : [dir[d] EXCEPT !.items = dir[d].items \cup {i}] \in Directory
           /\ \A i \in Items : [dir[d] EXCEPT !.exists = TRUE, !.items = dir[d].items \cup {i}] \in Directory
           /\ \A i \in Items : [dir[d] EXCEPT !.items = dir[d].items \ {i}] \in Directory
           /\ NoDirectory \in Directory
           /\ [NoDirectory EXCEPT !.exists = TRUE] \in Directory
  BY DEF Directory, NoDirectory

Marked == TypeOK /\ MarkedIsDone

LEMMA TornTyped ==
    ASSUME TypeOK, [Next]_vars PROVE torn' \subseteq Dirs
<1>0. torn \subseteq Dirs /\ trim.open \in Dirs \cup {NoDir} /\ Packages \subseteq Dirs
  BY Constants DEF TypeOK
<1>1. ASSUME NEW w \in Workers, Publish(w) PROVE torn' \subseteq Dirs
  <2>1. worker[w].step = "marked" /\ worker[w] \in Loop
    BY <1>1 DEF Publish, TypeOK
  <2>2. worker[w].want \in Packages
    BY <2>1, LoopFacts
  <2>3. QED
    BY <1>0, <1>1, <2>2 DEF Publish
<1>2. ASSUME NEW w \in Workers, DownloadStep(w), ~Publish(w) PROVE torn' \subseteq torn
  BY <1>2 DEF DownloadStep, TakeTask, Acquire, NotModified, Download, Extract, Mark, Copy, Fail
<1>3. ASSUME NEW w \in Workers, TrimStep(w) PROVE torn' \subseteq Dirs
  <2>1. CASE Unlink(w)
    BY <1>0, <2>1 DEF Unlink
  <2>2. CASE RemoveFails(w)
    BY <1>0, <2>2 DEF RemoveFails, Halved
  <2>3. CASE UNCHANGED torn
    BY <1>0, <2>3
  <2>4. QED
    BY <1>3, <2>1, <2>2, <2>3 DEF TrimStep, TrimGoesOn, SkipTrim, BeginTrim, Spare, Doom, Removed, EndTrim
<1>4. ASSUME NEW w \in Workers, JudgeStep(w) PROVE torn' = torn
  BY <1>4 DEF JudgeStep, FinishTask, LookForJudge, StoreJudge
<1>5. CASE Crash
  BY <1>0, <1>5 DEF Crash
<1>6. CASE UNCHANGED vars
  BY <1>0, <1>6 DEF vars
<1>7. QED
  BY <1>0, <1>1, <1>2, <1>3, <1>4, <1>5, <1>6 DEF Next

LEMMA StripeTyped ==
    ASSUME TypeOK, [Next]_vars PROVE stripe' \in Stripings
<1>1. ASSUME NEW w \in Workers, DownloadStep(w) \/ TrimStep(w) \/ JudgeStep(w) PROVE stripe' = stripe
  BY <1>1 DEF DownloadStep, TakeTask, Acquire, NotModified, Download, Extract, Mark, Publish, Copy, Fail,
              TrimStep, TrimGoesOn, SkipTrim, BeginTrim, Spare, Doom, Unlink, Removed, RemoveFails, EndTrim,
              JudgeStep, FinishTask, LookForJudge, StoreJudge
<1>2. QED
  BY <1>1 DEF Next, Crash, vars, TypeOK

TrimRecord == [by: Workers \cup {NoWorker}, left: SUBSET Dirs, doomed: Dirs \cup {NoDir},
               lock: Stripes \cup {NoStripe}, open: Dirs \cup {NoDir}]

LEMMA TrimTyped ==
    ASSUME TypeOK, [Next]_vars PROVE trim' \in TrimRecord
<1>0. trim \in TrimRecord /\ NoTrim \in TrimRecord
  BY DEF TypeOK, TrimRecord, NoTrim
<1>1. ASSUME NEW w \in Workers, TrimStep(w) PROVE trim' \in TrimRecord
  <2>1. CASE BeginTrim(w)
    <3>1. Existing \in SUBSET Dirs
      BY DEF Existing
    <3>2. QED
      BY <1>0, <2>1, <3>1 DEF BeginTrim, TrimRecord
  <2>2. CASE Spare(w)
    <3>1. PICK d \in Dirs : trim' = [trim EXCEPT !.left = trim.left \ {d}]
      BY <1>0, <2>2 DEF Spare, TrimRecord
    <3> DEFINE rest == trim.left \ {d}
    <3>2. rest \in SUBSET Dirs /\ trim' = [trim EXCEPT !.left = rest]
      BY <1>0, <3>1 DEF TrimRecord
    <3> HIDE DEF rest
    <3>3. QED
      BY <1>0, <3>2 DEF TrimRecord
  <2>3. CASE Doom(w)
    <3>1. PICK d \in Dirs, l \in Stripes :
             trim' = [trim EXCEPT !.left = trim.left \ {d}, !.doomed = d, !.lock = l, !.open = d]
      BY <1>0, <2>3 DEF Doom, TrimRecord
    <3> DEFINE rest == trim.left \ {d}
    <3>2. rest \in SUBSET Dirs /\ trim' = [trim EXCEPT !.left = rest, !.doomed = d, !.lock = l, !.open = d]
      BY <1>0, <3>1 DEF TrimRecord
    <3> HIDE DEF rest
    <3>3. QED
      BY <1>0, <3>2 DEF TrimRecord
  <2>4. CASE Removed(w) \/ RemoveFails(w)
    BY <1>0, <2>4 DEF Removed, RemoveFails, NextDirectory, TrimRecord
  <2>5. CASE EndTrim(w)
    BY <1>0, <2>5 DEF EndTrim
  <2>6. CASE UNCHANGED trim
    BY <1>0, <2>6
  <2>7. QED
    BY <1>1, <2>1, <2>2, <2>3, <2>4, <2>5, <2>6 DEF TrimStep, TrimGoesOn, SkipTrim, Unlink
<1>2. ASSUME NEW w \in Workers, Publish(w) PROVE trim' \in TrimRecord
  <2>1. worker[w].want \in Dirs
    BY <1>2, LoopFacts, Constants DEF Publish, TypeOK
  <2> DEFINE new == CASE trim.open = worker[w].temp -> worker[w].want
                      [] trim.open = worker[w].want -> NoDir
                      [] OTHER -> trim.open
  <2>2. new \in Dirs \cup {NoDir}
    BY <1>0, <2>1 DEF TrimRecord
  <2>3. trim' = [trim EXCEPT !.open = new]
    BY <1>0, <1>2 DEF Publish, TrimRecord
  <2> HIDE DEF new
  <2>4. QED
    BY <1>0, <2>2, <2>3 DEF TrimRecord
<1>3. ASSUME NEW w \in Workers, Fail(w) PROVE trim' \in TrimRecord
  BY <1>0, <1>3 DEF Fail, TrimRecord
<1>4. ASSUME NEW w \in Workers, DownloadStep(w), ~Publish(w), ~Fail(w) PROVE trim' = trim
  BY <1>4 DEF DownloadStep, TakeTask, Acquire, NotModified, Download, Extract, Mark, Copy
<1>5. ASSUME NEW w \in Workers, JudgeStep(w) PROVE trim' = trim
  BY <1>5 DEF JudgeStep, FinishTask, LookForJudge, StoreJudge
<1>6. QED
  BY <1>0, <1>1, <1>2, <1>3, <1>4, <1>5 DEF Next, Crash, vars

LEMMA MarkedStep ==
    ASSUME Marked, [Next]_vars PROVE Marked'
<1> USE DEF Marked
<1>d. dir \in [Dirs -> Directory] /\ crashes \in 0..MaxCrashes
  BY DEF TypeOK
<1>t. trim \in TrimRecord
  BY DEF TypeOK, TrimRecord
<1>n. ASSUME dir' \in [Dirs -> Directory], crashes' \in 0..MaxCrashes,
             worker' \in [Workers -> Loop], MarkedIsDone'
      PROVE  Marked'
  BY <1>n, TornTyped, StripeTyped, TrimTyped DEF TypeOK, TrimRecord
<1>w. ASSUME NEW w \in Workers
      PROVE  /\ worker[w] \in Loop
             /\ worker[w].step # "idle" => worker[w].want \in Dirs
             /\ worker[w].step \in Extracting => worker[w].temp \in Dirs
  BY Constants, LoopFacts DEF TypeOK
<1>1. ASSUME worker' \in [Workers -> Loop], MarkedIsDone', UNCHANGED <<dir, crashes>>
      PROVE  Marked'
  BY <1>1, <1>d, <1>n
<1>2. ASSUME NEW w \in Workers, NEW s \in Outside \cup (Inside \ Extracting),
             worker[w].step \notin {"idle"} \cup Extracting, Goto(w, s)
      PROVE  worker' \in [Workers -> Loop] /\ MarkedIsDone'
  <2>1. worker' \in [Workers -> Loop] /\ worker'[w].step = s /\ Others(w)
    BY <1>2, Goes DEF Others
  <2>2. s # "marked"
    BY DEF Extracting, Outside
  <2>3. QED
    BY <2>1, <2>2 DEF MarkedIsDone, Others
<1>3. ASSUME NEW w \in Workers, Return(w) PROVE worker' \in [Workers -> Loop] /\ MarkedIsDone'
  <2>1. worker' \in [Workers -> Loop] /\ worker'[w].step = "idle" /\ Others(w)
    BY <1>3, Returns DEF Idle, Others
  <2>2. QED
    BY <2>1 DEF MarkedIsDone, Others
<1>4. ASSUME NEW w \in Workers, DownloadStep(w) PROVE Marked'
  <2>1. ASSUME NEW p \in Packages, TakeTask(w, p) PROVE Marked'
    <3>1. worker' \in [Workers -> Loop] /\ MarkedIsDone'
      BY <2>1, TakeTaskMoves DEF MarkedIsDone, Others
    <3>2. QED
      BY <2>1, <3>1, <1>1 DEF TakeTask
  <2>2. CASE Acquire(w)
    <3>1. \E s \in {"hit", "miss"} : Goto(w, s)
      BY <2>2 DEF Acquire
    <3>2. worker' \in [Workers -> Loop] /\ MarkedIsDone'
      BY <2>2, <3>1, <1>2 DEF Acquire, Inside, Extracting
    <3>3. QED
      BY <2>2, <3>2, <1>1 DEF Acquire
  <2>3. CASE NotModified(w)
    <3>1. worker' \in [Workers -> Loop] /\ MarkedIsDone'
      BY <2>3, <1>2 DEF NotModified, Inside, Extracting
    <3>2. QED
      BY <2>3, <3>1, <1>1 DEF NotModified
  <2>4. CASE Download(w)
    <3>1. PICK t \in Temps :
             /\ dir' = [dir EXCEPT ![t] = [NoDirectory EXCEPT !.exists = TRUE]]
             /\ worker' = [worker EXCEPT ![w].step = "extracting", ![w].temp = t, ![w].todo = Files]
      BY <2>4 DEF Download
    <3>2. worker[w].step = "miss" /\ UNCHANGED <<trim, crashes>>
      BY <2>4 DEF Download
    <3>3. worker' \in [Workers -> Loop] /\ MarkedIsDone'
      BY <3>1, <3>2, DownloadMoves DEF MarkedIsDone, Others
    <3>4. dir' \in [Dirs -> Directory]
      BY <3>1, <1>d, DirTyped, Constants
    <3>5. QED
      BY <3>2, <3>3, <3>4, <1>d, <1>n
  <2>5. CASE Extract(w)
    <3> DEFINE t == worker[w].temp
    <3>0. worker[w].step = "extracting" /\ t \in Dirs /\ UNCHANGED <<trim, crashes>>
      BY <2>5, <1>w DEF Extract, Extracting
    <3>1. PICK f \in worker[w].todo :
             /\ worker' = [worker EXCEPT ![w].todo = worker[w].todo \ {f}]
             /\ dir' = [dir EXCEPT ![t].exists = TRUE, ![t].items = @ \cup {f}]
      BY <2>5 DEF Extract
    <3>2. worker' \in [Workers -> Loop] /\ MarkedIsDone'
      BY <3>0, <3>1, ExtractMoves DEF MarkedIsDone, Others
    <3>3. f \in Items
      BY <1>w, LoopFacts, Constants
    <3> DEFINE new == [dir[t] EXCEPT !.exists = TRUE, !.items = dir[t].items \cup {f}]
    <3>a. new \in Directory
      BY <3>0, <3>3, <1>d, DirTyped
    <3>b. dir' = [dir EXCEPT ![t] = new]
      BY <3>0, <3>1, <1>d
    <3>4. dir' \in [Dirs -> Directory]
      <4> HIDE DEF new, t
      <4> QED
        BY <3>a, <3>b, <1>d
    <3>5. QED
      BY <3>0, <3>2, <3>4, <1>d, <1>n
  <2>6. CASE Mark(w)
    <3> DEFINE t == worker[w].temp
    <3>0. worker[w].step = "extracting" /\ t \in Dirs /\ UNCHANGED <<trim, crashes>>
      BY <2>6, <1>w DEF Mark, Extracting
    <3>1. worker' \in [Workers -> Loop] /\ MarkedIsDone'
      BY <2>6, <3>0, MarkMoves DEF Mark, MarkedIsDone, Others
    <3>2. dir' = [dir EXCEPT ![t] = [dir[t] EXCEPT !.ready = TRUE]]
      BY <2>6, <3>0, <1>d DEF Mark
    <3>3. dir' \in [Dirs -> Directory]
      BY <3>0, <3>2, <1>d, DirTyped
    <3>4. QED
      BY <3>0, <3>1, <3>3, <1>d, <1>n
  <2>7. CASE Publish(w)
    <3>0. /\ worker[w].step = "marked" /\ worker[w].temp \in Dirs /\ worker[w].want \in Dirs
          /\ UNCHANGED crashes
      BY <2>7, <1>w DEF Publish, Extracting
    <3>1. worker' \in [Workers -> Loop] /\ MarkedIsDone'
      BY <2>7, <3>0, PublishMoves DEF Publish, MarkedIsDone, Others
    <3>2. dir' \in [Dirs -> Directory]
      BY <2>7, <3>0, <1>d, DirTyped DEF Publish
    <3>3. QED
      BY <3>0, <3>1, <3>2, <1>d, <1>n
  <2>8. CASE Copy(w)
    <3>0. worker[w].step \in {"copyHit", "copyNew"} /\ worker[w].want \in Dirs
      BY <2>8, <1>w DEF Copy
    <3>1. \E s \in {"trim", "running"} : Goto(w, s)
      BY <2>8 DEF Copy
    <3>2. worker' \in [Workers -> Loop] /\ MarkedIsDone'
      BY <3>0, <3>1, <1>2 DEF Inside, Outside, Extracting
    <3>3. QED
      BY <2>8, <3>2, <1>1 DEF Copy
  <2>9. CASE Fail(w)
    <3>1. worker' \in [Workers -> Loop] /\ MarkedIsDone'
      BY <2>9, <1>3 DEF Fail
    <3>2. dir' \in [Dirs -> Directory]
      BY <2>9, <1>d, DirTyped DEF Fail, NoDirectory
    <3>3. QED
      BY <2>9, <3>1, <3>2, <1>d, <1>n DEF Fail
  <2>10. QED
    BY <1>4, <2>1, <2>2, <2>3, <2>4, <2>5, <2>6, <2>7, <2>8, <2>9 DEF DownloadStep
<1>5. ASSUME NEW w \in Workers, TrimStep(w) PROVE Marked'
  <2>1. CASE SkipTrim(w)
    <3>1. worker' \in [Workers -> Loop] /\ MarkedIsDone'
      BY <2>1, <1>2 DEF SkipTrim, Outside, Inside, Extracting
    <3>2. QED
      BY <2>1, <3>1, <1>1 DEF SkipTrim
  <2>2. CASE BeginTrim(w)
    <3>1. worker' \in [Workers -> Loop] /\ MarkedIsDone'
      BY <2>2, <1>2 DEF BeginTrim, Inside, Extracting
    <3>2. QED
      BY <2>2, <3>1, <1>1 DEF BeginTrim
  <2>3. CASE Spare(w) \/ Doom(w) \/ RemoveFails(w)
    <3>1. UNCHANGED <<dir, worker, crashes>>
      BY <2>3 DEF Spare, Doom, RemoveFails
    <3>2. QED
      BY <3>1, <1>d, <1>n DEF TypeOK, MarkedIsDone
  <2>4. CASE Unlink(w)
    <3> DEFINE d == trim.open
    <3>1. d \in Dirs /\ UNCHANGED <<worker, crashes>>
      BY <2>4, <1>t DEF Unlink, TrimRecord
    <3>2. \/ \E i \in dir[d].items : dir' = [dir EXCEPT ![d].items = dir[d].items \ {i}]
          \/ dir' = [dir EXCEPT ![d].ready = FALSE]
      BY <2>4, <3>1, <1>d DEF Unlink
    <3> HIDE DEF d
    <3>3. dir' \in [Dirs -> Directory]
      <4>1. CASE \E i \in dir[d].items : dir' = [dir EXCEPT ![d].items = dir[d].items \ {i}]
        BY <4>1, <3>1, <1>d DEF Directory
      <4>2. CASE dir' = [dir EXCEPT ![d].ready = FALSE]
        BY <4>2, <3>1, <1>d DEF Directory
      <4>3. QED
        BY <3>2, <4>1, <4>2
    <3>4. QED
      BY <3>1, <3>3, <1>d, <1>n DEF TypeOK, MarkedIsDone
  <2>5. CASE Removed(w)
    <3>1. dir' \in [Dirs -> Directory] /\ UNCHANGED <<worker, crashes>>
      BY <2>5, <1>d, <1>t, DirTyped DEF Removed, TrimRecord
    <3>2. QED
      BY <3>1, <1>d, <1>n DEF TypeOK, MarkedIsDone
  <2>6. CASE EndTrim(w)
    <3>1. worker' \in [Workers -> Loop] /\ MarkedIsDone'
      BY <2>6, <1>2 DEF EndTrim, Sweeping, Outside, Extracting
    <3>2. QED
      BY <2>6, <3>1, <1>1 DEF EndTrim
  <2>7. QED
    BY <1>5, <2>1, <2>2, <2>3, <2>4, <2>5, <2>6 DEF TrimStep, TrimGoesOn
<1>6. ASSUME NEW w \in Workers, JudgeStep(w) PROVE Marked'
  <2>1. CASE FinishTask(w)
    BY <2>1, <1>1, <1>3 DEF FinishTask
  <2>2. CASE LookForJudge(w)
    <3>1. worker' \in [Workers -> Loop] /\ MarkedIsDone'
      BY <2>2, <1>2, <1>3 DEF LookForJudge, Outside, Extracting
    <3>2. QED
      BY <2>2, <3>1, <1>1 DEF LookForJudge
  <2>3. CASE StoreJudge(w)
    <3> DEFINE p == worker[w].want
    <3>0. p \in Dirs
      BY <2>3, <1>w DEF StoreJudge
    <3>1. worker' \in [Workers -> Loop] /\ MarkedIsDone'
      BY <2>3, <1>3 DEF StoreJudge
    <3>2. dir' = [dir EXCEPT ![p] = [dir[p] EXCEPT !.exists = TRUE, !.items = dir[p].items \cup {Judge}]]
      BY <2>3, <3>0, <1>d DEF StoreJudge
    <3>3. dir' \in [Dirs -> Directory]
      BY <3>0, <3>2, <1>d, DirTyped, Constants
    <3>4. QED
      BY <2>3, <3>1, <3>3, <1>d, <1>n DEF StoreJudge
  <2>4. QED
    BY <1>6, <2>1, <2>2, <2>3 DEF JudgeStep
<1>7. CASE Crash
  <2>1. crashes' \in 0..MaxCrashes
    BY <1>7, <1>d, Constants DEF Crash
  <2>2. worker' \in [Workers -> Loop] /\ MarkedIsDone'
    BY <1>7, IdleTyped DEF Crash, MarkedIsDone, Idle
  <2>3. QED
    BY <1>7, <2>1, <2>2, <1>d, <1>n DEF Crash
<1>8. CASE UNCHANGED vars
  BY <1>8 DEF vars, TypeOK, MarkedIsDone
<1>9. QED
  BY <1>4, <1>5, <1>6, <1>7, <1>8 DEF Next

LEMMA MarkedInit == Init => Marked
  BY IdleTyped, Constants DEF Init, Marked, MarkedIsDone, TypeOK, Idle, NoTrim, NoDirectory, Directory

(* Types, for every set of packages, loops and locks, and any fault.       *)
THEOREM TypeCorrect == Spec => []TypeOK
<1>1. Marked => TypeOK
  BY DEF Marked
<1>2. Marked /\ [Next]_vars => Marked'
  BY MarkedStep
<1>3. QED
  BY <1>1, <1>2, MarkedInit, PTL DEF Spec

-----------------------------------------------------------------------------
(***************************************************************************)
(* The inductive invariant.                                                *)
(***************************************************************************)

Unready == \A v \in Workers : Fetching(v) => ~dir[worker[v].want].ready

LEMMA CacheInvIntro ==
    ASSUME TypeOK', LockedOnce', TempsAreOwned', OneSweeper', ReadyIsWhole', HitIsWhole',
           NewIsWhole', Unready'
    PROVE  CacheInv'
<1>1. \A v, w \in Workers :
         Fetching(v)' /\ Fetching(w)' /\ v # w => worker'[v].want # worker'[w].want
  BY DEF LockedOnce, Fetching, Inside, Extracting
<1>2. DownloadIsShared'
  BY <1>1 DEF DownloadIsShared, Unready
<1>3. QED
  BY <1>2 DEF CacheInv

LEMMA CacheInvElim ==
    ASSUME CacheInv
    PROVE  /\ TypeOK /\ LockedOnce /\ TempsAreOwned /\ OneSweeper
           /\ ReadyIsWhole /\ HitIsWhole /\ NewIsWhole /\ Unready
           /\ Marked
<1>1. Unready
  BY DEF CacheInv, DownloadIsShared, Unready
<1>2. MarkedIsDone
  <2>1. \A w \in Workers : worker[w].step = "marked" => worker[w].temp # NoDir
    BY LoopFacts DEF CacheInv, TypeOK, Extracting
  <2>2. QED
    BY <2>1 DEF CacheInv, TempsAreOwned, MarkedIsDone
<1>3. QED
  BY <1>1, <1>2 DEF CacheInv, Marked

(* A loop moves on, and touches neither directories nor the trim.          *)
LEMMA LoopStepInv ==
    ASSUME CacheInv, NEW w \in Workers, Others(w), TypeOK', UNCHANGED <<dir, stripe, trim, torn>>,
           worker'[w].temp = NoDir,
           worker[w].step # "sweep", worker'[w].step # "sweep",
           worker'[w].step \in Inside =>
               /\ worker'[w].want = worker[w].want
               /\ worker[w].step \in Inside \/ Free(stripe[worker[w].want]),
           worker'[w].step \in {"hit", "copyHit", "copyNew"} /\ worker'[w].want \notin torn =>
               Files \subseteq dir[worker'[w].want].items,
           Fetching(w)' => ~dir[worker'[w].want].ready
    PROVE  CacheInv'
<1>0. /\ LockedOnce /\ TempsAreOwned /\ OneSweeper /\ ReadyIsWhole /\ HitIsWhole /\ NewIsWhole
      /\ Unready
  BY CacheInvElim
<1>1. LockedOnce'
  BY <1>0 DEF LockedOnce, Free, Others
<1>2. TempsAreOwned'
  BY <1>0 DEF TempsAreOwned, Others
<1>3. OneSweeper'
  BY <1>0 DEF OneSweeper, Others
<1>4. ReadyIsWhole'
  BY <1>0 DEF ReadyIsWhole
<1>5. HitIsWhole' /\ NewIsWhole'
  BY <1>0 DEF HitIsWhole, NewIsWhole, Others
<1>6. Unready'
  BY <1>0 DEF Unready, Fetching, Others
<1>7. QED
  BY <1>1, <1>2, <1>3, <1>4, <1>5, <1>6, CacheInvIntro

LEMMA WaitingStepsInv ==
    ASSUME CacheInv, TypeOK', NEW w \in Workers,
           \/ \E p \in Packages : TakeTask(w, p)
           \/ Acquire(w) \/ NotModified(w) \/ Copy(w)
           \/ SkipTrim(w) \/ FinishTask(w) \/ LookForJudge(w)
    PROVE  CacheInv'
<1>0. TypeOK /\ worker[w] \in Loop
  BY CacheInvElim DEF TypeOK
<1>e. "idle" \notin Inside \cup Outside \cup Extracting
  BY DEF Inside, Outside, Extracting
<1>1. ASSUME NEW p \in Packages, TakeTask(w, p) PROVE CacheInv'
  <2>1. Others(w) /\ worker'[w].step = "waiting" /\ worker'[w].temp = NoDir
    BY <1>0, <1>1, TakeTaskMoves
  <2>2. UNCHANGED <<dir, stripe, trim, torn>> /\ worker[w].step # "sweep"
    BY <1>1 DEF TakeTask
  <2>3. QED
    BY <2>1, <2>2, LoopStepInv DEF Inside, Extracting, Fetching
<1>2. ASSUME Acquire(w) PROVE CacheInv'
  <2> DEFINE s == IF dir[worker[w].want].ready THEN "hit" ELSE "miss"
  <2>1. worker[w].step = "waiting" /\ Goto(w, s) /\ UNCHANGED <<dir, stripe, trim, torn>> /\ Free(stripe[worker[w].want])
    BY <1>2 DEF Acquire
  <2>2. s \in Inside \ Extracting /\ s # "sweep"
    BY DEF Inside, Extracting
  <2>3. Others(w) /\ worker'[w].step = s /\ worker'[w].temp = NoDir /\ worker'[w].want = worker[w].want
    BY <1>0, <2>1, <2>2, Goes DEF Extracting, Others
  <2>4. s = "hit" /\ worker[w].want \notin torn => Files \subseteq dir[worker[w].want].items
    <3>1. worker[w].want \in Packages
      BY <1>0, <2>1, LoopFacts
    <3>2. worker[w].want # trim.doomed
      BY <2>1, <3>1, CacheInvElim DEF Free, LockedOnce
    <3>3. QED
      BY <3>1, <3>2, CacheInvElim DEF ReadyIsWhole
  <2>5. Fetching(w)' => ~dir[worker'[w].want].ready
    BY <2>3 DEF Fetching, Extracting
  <2>6. worker'[w].step \in {"hit", "copyHit", "copyNew"} /\ worker'[w].want \notin torn =>
           Files \subseteq dir[worker'[w].want].items
    BY <2>3, <2>4
  <2> HIDE DEF s
  <2>7. worker[w].step # "sweep" /\ worker'[w].step # "sweep"
    BY <2>1, <2>2, <2>3
  <2>8. QED
    BY <2>1, <2>3, <2>5, <2>6, <2>7, LoopStepInv
<1>3. ASSUME NotModified(w) PROVE CacheInv'
  <2>1. worker[w].step = "hit" /\ Goto(w, "copyHit") /\ UNCHANGED <<dir, stripe, trim, torn>>
    BY <1>3 DEF NotModified
  <2>2. Others(w) /\ worker'[w].step = "copyHit" /\ worker'[w].temp = NoDir /\ worker'[w].want = worker[w].want
    BY <1>0, <2>1, Goes DEF Inside, Extracting, Others
  <2>3. worker[w].want \notin torn => Files \subseteq dir[worker[w].want].items
    BY <2>1, CacheInvElim DEF HitIsWhole
  <2>4. QED
    BY <2>1, <2>2, <2>3, LoopStepInv DEF Inside, Extracting, Fetching
<1>4. ASSUME Copy(w) PROVE CacheInv'
  <2>1. /\ worker[w].step \in {"copyHit", "copyNew"} /\ UNCHANGED <<dir, stripe, trim, torn>>
        /\ \E s \in {"trim", "running"} : Goto(w, s)
    BY <1>4 DEF Copy
  <2>2. PICK s \in {"trim", "running"} : Goto(w, s)
    BY <2>1
  <2>3. Others(w) /\ worker'[w].step = s /\ worker'[w].temp = NoDir /\ worker'[w].want = worker[w].want
    BY <1>0, <2>1, <2>2, Goes DEF Inside, Outside, Extracting, Others
  <2>4. QED
    BY <2>1, <2>3, LoopStepInv DEF Inside, Extracting, Fetching
<1>5. ASSUME SkipTrim(w) PROVE CacheInv'
  <2>1. worker[w].step = "trim" /\ Goto(w, "running") /\ UNCHANGED <<dir, stripe, trim, torn>>
    BY <1>5 DEF SkipTrim
  <2>2. Others(w) /\ worker'[w].step = "running" /\ worker'[w].temp = NoDir
    BY <1>0, <2>1, Goes DEF Inside, Outside, Extracting, Others
  <2>3. QED
    BY <2>1, <2>2, LoopStepInv DEF Inside, Extracting, Fetching
<1>6. ASSUME worker[w].step = "running", Return(w), UNCHANGED <<dir, stripe, trim, torn>> PROVE CacheInv'
  <2>1. Others(w) /\ worker'[w].step = "idle" /\ worker'[w].temp = NoDir
    BY <1>0, <1>6, Returns DEF Others, Idle
  <2>2. QED
    BY <1>6, <2>1, LoopStepInv DEF Inside, Extracting, Fetching
<1>7. ASSUME worker[w].step = "running", Goto(w, "compiled"), UNCHANGED <<dir, stripe, trim, torn>> PROVE CacheInv'
  <2>1. Others(w) /\ worker'[w].step = "compiled" /\ worker'[w].temp = NoDir
    BY <1>0, <1>7, Goes DEF Inside, Outside, Extracting, Others
  <2>2. QED
    BY <1>7, <2>1, LoopStepInv DEF Inside, Extracting, Fetching
<1>8. QED
  BY <1>1, <1>2, <1>3, <1>4, <1>5, <1>6, <1>7 DEF FinishTask, LookForJudge

(* A loop works on its temporary directory, and on no other.               *)
LEMMA TempStepInv ==
    ASSUME CacheInv, NEW w \in Workers, Others(w), TypeOK', UNCHANGED stripe,
           trim' = trim \/ trim' = [trim EXCEPT !.open = NoDir],
           \A p \in Packages : dir'[p] = dir[p] /\ (p \in torn' <=> p \in torn),
           \A v \in Workers : v # w /\ worker[v].temp # NoDir =>
               /\ dir'[worker[v].temp] = dir[worker[v].temp]
               /\ worker[v].temp \in torn' <=> worker[v].temp \in torn,
           worker'[w].temp # NoDir =>
               /\ \A v \in Workers : v # w => worker[v].temp # worker'[w].temp
               /\ worker'[w].temp \notin torn' => Files \ worker'[w].todo \subseteq dir'[worker'[w].temp].items
               /\ worker'[w].step = "marked" => worker'[w].todo = {},
           worker[w].step \in Inside, worker[w].step # "sweep",
           worker'[w].step \notin {"sweep", "hit", "copyHit", "copyNew"},
           worker'[w].step \in Inside => worker'[w].want = worker[w].want,
           Fetching(w)' => Fetching(w)
    PROVE  CacheInv'
<1>0. /\ LockedOnce /\ TempsAreOwned /\ OneSweeper /\ ReadyIsWhole /\ HitIsWhole /\ NewIsWhole
      /\ Unready /\ TypeOK
  BY CacheInvElim
<1>a. \A v \in Workers : worker[v].step \in Inside => worker[v].want \in Packages
  <2>1. "idle" \notin Inside
    BY DEF Inside, Extracting
  <2>2. QED
    BY <1>0, <2>1, LoopFacts DEF TypeOK
<1>b. trim'.by = trim.by /\ trim'.lock = trim.lock /\ trim'.doomed = trim.doomed /\ trim'.open \in {trim.open, NoDir}
  BY <1>0 DEF TypeOK
<1>1. LockedOnce'
  BY <1>0, <1>b DEF LockedOnce, Others
<1>2. TempsAreOwned'
  BY <1>0 DEF TempsAreOwned, Others
<1>3. OneSweeper'
  BY <1>0, <1>b DEF OneSweeper, Others
<1>4. ReadyIsWhole'
  BY <1>0, <1>b DEF ReadyIsWhole
<1>5. HitIsWhole' /\ NewIsWhole'
  BY <1>0, <1>a DEF HitIsWhole, NewIsWhole, Others, Inside
<1>6. Unready'
  BY <1>0, <1>a DEF Unready, Fetching, Others, Inside
<1>7. QED
  BY <1>1, <1>2, <1>3, <1>4, <1>5, <1>6, CacheInvIntro

LEMMA ExtractingInv ==
    ASSUME CacheInv, TypeOK', NEW w \in Workers,
           Download(w) \/ Extract(w) \/ Mark(w) \/ Fail(w)
    PROVE  CacheInv'
<1>0. /\ TypeOK /\ TempsAreOwned /\ OneSweeper /\ worker[w] \in Loop
      /\ dir \in [Dirs -> Directory]
  BY CacheInvElim DEF TypeOK
<1>o. ASSUME NEW t \in Temps, \A d \in Dirs : d # t => dir'[d] = dir[d],
             \A v \in Workers : v # w => worker[v].temp # t
      PROVE  /\ \A p \in Packages : dir'[p] = dir[p]
             /\ \A v \in Workers : v # w /\ worker[v].temp # NoDir =>
                   dir'[worker[v].temp] = dir[worker[v].temp]
  BY <1>0, <1>o, Constants, LoopFacts DEF TypeOK
<1>1. ASSUME Download(w) PROVE CacheInv'
  <2>1. PICK t \in Temps :
           /\ ~Live(t)
           /\ dir' = [dir EXCEPT ![t] = [NoDirectory EXCEPT !.exists = TRUE]]
           /\ worker' = [worker EXCEPT ![w].step = "extracting", ![w].temp = t, ![w].todo = Files]
    BY <1>1 DEF Download, Unused
  <2>2. worker[w].step = "miss" /\ UNCHANGED <<stripe, trim, torn>>
    BY <1>1 DEF Download
  <2>3. /\ Others(w) /\ worker'[w].step = "extracting" /\ worker'[w].want = worker[w].want
        /\ worker'[w].temp = t /\ worker'[w].todo = Files
    BY <1>0, <2>1, <2>2, DownloadMoves
  <2>4. \A v \in Workers : worker[v].temp # t
    BY <2>1 DEF Live
  <2>5. \A d \in Dirs : d # t => dir'[d] = dir[d]
    BY <1>0, <2>1
  <2>6. t # NoDir /\ Files \ Files = {}
    BY Constants
  <2>7. QED
    BY <2>2, <2>3, <2>4, <2>5, <2>6, <1>o, TempStepInv DEF Inside, Extracting, Fetching
<1>2. ASSUME Extract(w) PROVE CacheInv'
  <2> DEFINE t == worker[w].temp
  <2>1. worker[w].step = "extracting" /\ UNCHANGED <<stripe, trim, torn>>
    BY <1>2 DEF Extract
  <2>2. t \in Temps /\ t # NoDir
    BY <1>0, <2>1, LoopFacts DEF Extracting
  <2>3. PICK f \in worker[w].todo :
           /\ worker' = [worker EXCEPT ![w].todo = worker[w].todo \ {f}]
           /\ dir' = [dir EXCEPT ![t] = [dir[t] EXCEPT !.exists = TRUE, !.items = dir[t].items \cup {f}]]
    <3>1. PICK f \in worker[w].todo :
             /\ worker' = [worker EXCEPT ![w].todo = @ \ {f}]
             /\ dir' = [dir EXCEPT ![t].exists = TRUE, ![t].items = @ \cup {f}]
      BY <1>2 DEF Extract
    <3>2. dir \in [Dirs -> Directory] /\ worker \in [Workers -> Loop] /\ t \in Dirs
      BY <1>0, <2>2, Constants DEF TypeOK
    <3>3. QED
      BY <3>1, <3>2
  <2>4. /\ Others(w) /\ worker'[w].step = "extracting" /\ worker'[w].want = worker[w].want
        /\ worker'[w].temp = t /\ worker'[w].todo = worker[w].todo \ {f}
    BY <1>0, <2>1, <2>3, ExtractMoves
  <2>5. /\ \A d \in Dirs : d # t => dir'[d] = dir[d]
        /\ dir'[t].items = dir[t].items \cup {f}
    BY <1>0, <2>2, <2>3, Constants DEF Directory
  <2>6. /\ \A v \in Workers : v # w => worker[v].temp # t
        /\ t \notin torn => Files \ (worker[w].todo \ {f}) \subseteq dir'[t].items
    BY <1>0, <2>2, <2>5 DEF TempsAreOwned
  <2> HIDE DEF t
  <2>7. QED
    BY <2>1, <2>2, <2>4, <2>5, <2>6, <1>o, TempStepInv DEF Inside, Extracting, Fetching
<1>3. ASSUME Mark(w) PROVE CacheInv'
  <2> DEFINE t == worker[w].temp
  <2>1. worker[w].step = "extracting" /\ worker[w].todo = {} /\ UNCHANGED <<stripe, trim, torn>>
    BY <1>3 DEF Mark
  <2>2. t \in Temps /\ t # NoDir
    BY <1>0, <2>1, LoopFacts DEF Extracting
  <2>3. dir' = [dir EXCEPT ![t] = [dir[t] EXCEPT !.ready = TRUE]]
    BY <1>0, <1>3, <2>2, Constants DEF Mark
  <2>4. /\ Others(w) /\ worker'[w].step = "marked" /\ worker'[w].want = worker[w].want
        /\ worker'[w].temp = t /\ worker'[w].todo = worker[w].todo
    BY <1>0, <1>3, <2>1, MarkMoves DEF Mark
  <2>5. /\ \A d \in Dirs : d # t => dir'[d] = dir[d]
        /\ dir'[t].items = dir[t].items
    BY <1>0, <2>2, <2>3, Constants DEF Directory
  <2>6. /\ \A v \in Workers : v # w => worker[v].temp # t
        /\ t \notin torn => Files \ worker[w].todo \subseteq dir'[t].items
    BY <1>0, <2>2, <2>5 DEF TempsAreOwned
  <2> HIDE DEF t
  <2>7. QED
    BY <2>1, <2>2, <2>4, <2>5, <2>6, <1>o, TempStepInv DEF Inside, Extracting, Fetching
<1>4. ASSUME Fail(w) PROVE CacheInv'
  <2> DEFINE t == worker[w].temp
  <2>1. /\ worker[w].step \in Inside \ {"trim", "sweep"} /\ UNCHANGED stripe /\ Return(w)
        /\ trim' = trim \/ trim' = [trim EXCEPT !.open = NoDir]
    BY <1>0, <1>4 DEF Fail, TypeOK
  <2>2. Others(w) /\ worker'[w].step = "idle" /\ worker'[w].temp = NoDir
    BY <1>0, <2>1, Returns DEF Others, Idle
  <2>3. t = NoDir \/ t \in Temps
    BY <1>0, LoopFacts
  <2>4. (\A d \in Dirs : d # t => dir'[d] = dir[d]) /\ torn' = torn \ {t}
    BY <1>4 DEF Fail
  <2>5. \A v \in Workers : v # w /\ worker[v].temp # NoDir => worker[v].temp # t
    BY <1>0 DEF TempsAreOwned
  <2>6. /\ \A p \in Packages : dir'[p] = dir[p] /\ (p \in torn' <=> p \in torn)
        /\ \A v \in Workers : v # w /\ worker[v].temp # NoDir =>
              /\ dir'[worker[v].temp] = dir[worker[v].temp]
              /\ worker[v].temp \in torn' <=> worker[v].temp \in torn
    BY <1>0, <2>3, <2>4, <2>5, Constants, LoopFacts DEF TypeOK
  <2> HIDE DEF t
  <2>7. QED
    BY <2>1, <2>2, <2>6, TempStepInv DEF Inside, Extracting, Fetching
<1>5. QED
  BY <1>1, <1>2, <1>3, <1>4

(* The entry it renames its directory to is whole, and its own.            *)
LEMMA PublishInv ==
    ASSUME CacheInv, TypeOK', NEW w \in Workers, Publish(w) PROVE CacheInv'
<1> DEFINE t == worker[w].temp
           p == worker[w].want
<1>0. /\ LockedOnce /\ TempsAreOwned /\ OneSweeper /\ ReadyIsWhole /\ HitIsWhole /\ NewIsWhole
      /\ Unready /\ TypeOK /\ worker[w] \in Loop /\ dir \in [Dirs -> Directory]
  BY CacheInvElim DEF TypeOK
<1>1. worker[w].step = "marked" /\ UNCHANGED stripe
  BY DEF Publish
<1>2. t \in Temps /\ t # NoDir /\ p \in Packages
  BY <1>0, <1>1, LoopFacts DEF Extracting
<1>3. worker[w].todo = {} /\ (t \notin torn => Files \subseteq dir[t].items)
  BY <1>0, <1>1, <1>2 DEF TempsAreOwned
<1>4. Others(w) /\ worker'[w].step = "copyNew" /\ worker'[w].want = p /\ worker'[w].temp = NoDir
  BY <1>0, <1>1, <1>3, PublishMoves DEF Publish
<1>5. /\ dir'[p] = dir[t]
      /\ \A d \in Dirs : d \notin {p, t} => dir'[d] = dir[d] /\ (d \in torn' <=> d \in torn)
      /\ p \in torn' <=> t \in torn
  BY <1>0, <1>2, Constants DEF Publish
<1>6. \A v \in Workers : v # w /\ worker[v].step \in Inside =>
         worker[v].want # p /\ worker[v].want \in Packages
  <2>1. worker[w].step \in Inside /\ "idle" \notin Inside
    BY <1>1 DEF Inside, Extracting
  <2>2. \A v \in Workers : worker[v].step \in Inside => worker[v].want \in Packages
    BY <1>0, <2>1, LoopFacts DEF TypeOK
  <2>3. QED
    BY <1>0, <2>1, <2>2 DEF LockedOnce
<1>7. \A q \in Packages : q # p => dir'[q] = dir[q] /\ (q \in torn' <=> q \in torn)
  BY <1>2, <1>5, Constants
<1>a. /\ trim'.by = trim.by /\ trim'.lock = trim.lock /\ trim'.doomed = trim.doomed
      /\ trim'.open \in {p, NoDir, trim.open}
      /\ trim'.open = p => trim.open = t
  <2>1. t # p /\ p # NoDir
    BY <1>2, Constants
  <2>2. trim' = [trim EXCEPT !.open = CASE trim.open = t -> p [] trim.open = p -> NoDir [] OTHER -> trim.open]
    BY <1>0 DEF Publish, TypeOK
  <2>3. trim \in TrimRecord
    BY <1>0 DEF TypeOK, TrimRecord
  <2> HIDE DEF t, p
  <2>4. QED
    BY <2>1, <2>2, <2>3 DEF TrimRecord
<1> HIDE DEF t, p
<1>8. LockedOnce'
  BY <1>0, <1>1, <1>4, <1>a DEF LockedOnce, Others, Inside, Extracting, p
<1>9. TempsAreOwned'
  <2>1. \A v \in Workers : v # w /\ worker[v].temp # NoDir =>
           /\ dir'[worker[v].temp] = dir[worker[v].temp]
           /\ worker[v].temp \in torn' <=> worker[v].temp \in torn
    BY <1>0, <1>2, <1>5, Constants, LoopFacts DEF TempsAreOwned, TypeOK, t
  <2>2. QED
    BY <1>0, <1>1, <1>4, <2>1 DEF TempsAreOwned, Others
<1>10. OneSweeper'
  BY <1>0, <1>1, <1>2, <1>4, <1>a, Constants DEF OneSweeper, Others
<1>11. ReadyIsWhole'
  BY <1>0, <1>1, <1>3, <1>5, <1>7, <1>a DEF ReadyIsWhole
<1>12. HitIsWhole' /\ NewIsWhole'
  BY <1>0, <1>3, <1>4, <1>5, <1>6, <1>7 DEF HitIsWhole, NewIsWhole, Others, Inside
<1>13. Unready'
  BY <1>0, <1>4, <1>6, <1>7 DEF Unready, Fetching, Others, Inside, Extracting
<1>14. QED
  BY <1>8, <1>9, <1>10, <1>11, <1>12, <1>13, CacheInvIntro

(* Who holds a lock is not removed from.                                   *)
LEMMA DoomedIsNobodys ==
    ASSUME CacheInv, NEW w \in Workers
    PROVE  /\ worker[w].step \in Inside => worker[w].want \in Packages /\ worker[w].want # trim.doomed
           /\ worker[w].temp # NoDir => worker[w].temp \in Temps /\ worker[w].temp \in Dirs
<1>0. LockedOnce /\ TempsAreOwned /\ worker[w] \in Loop
  BY CacheInvElim DEF TypeOK
<1>1. "idle" \notin Inside
  BY DEF Inside, Extracting
<1>2. worker[w].step \in Inside => worker[w].want \in Packages
  BY <1>0, <1>1, LoopFacts
<1>3. QED
  BY <1>0, <1>2, LoopFacts, Constants DEF LockedOnce, TempsAreOwned

LEMMA FetchingInside == \A w \in Workers : Fetching(w) => worker[w].step \in Inside
  BY DEF Fetching, Inside, Extracting

(* The trim takes something out of a directory, or is through with it: only *)
(* the one it removes loses a file unnoticed, when no loop works in it.    *)
LEMMA RemovalInv ==
    ASSUME CacheInv, TypeOK', UNCHANGED <<stripe, worker>>, trim.doomed # NoDir,
           \A d \in Dirs : dir'[d].ready => dir[d].ready,
           \A d \in Dirs : (d # trim.doomed \/ Live(d)) /\ d \notin torn' =>
               d \notin torn /\ (Files \cap dir[d].items \subseteq dir'[d].items),
           \/ trim' = trim
           \/ /\ NextDirectory
              /\ trim.doomed \in Packages \ torn' /\ dir'[trim.doomed].ready =>
                    Files \subseteq dir'[trim.doomed].items
    PROVE  CacheInv'
<1>0. /\ LockedOnce /\ TempsAreOwned /\ OneSweeper /\ ReadyIsWhole /\ HitIsWhole /\ NewIsWhole
      /\ Unready /\ TypeOK
  BY CacheInvElim
<1>a. /\ trim'.by = trim.by
      /\ trim'.lock \in {trim.lock, NoStripe}
      /\ \/ trim'.doomed = trim.doomed /\ trim'.lock = trim.lock /\ trim'.open = trim.open
         \/ trim'.doomed = NoDir /\ trim'.open = NoDir
  BY <1>0 DEF NextDirectory, TypeOK
<1>1. ASSUME NEW w \in Workers
      PROVE  /\ worker[w].step \in Inside =>
                   /\ worker[w].want \in Packages /\ stripe[worker[w].want] # NoStripe
                   /\ dir'[worker[w].want].ready => dir[worker[w].want].ready
                   /\ worker[w].want \notin torn' =>
                         /\ worker[w].want \notin torn
                         /\ Files \cap dir[worker[w].want].items \subseteq dir'[worker[w].want].items
             /\ worker[w].temp # NoDir /\ worker[w].temp \notin torn' =>
                   /\ worker[w].temp \notin torn
                   /\ Files \cap dir[worker[w].temp].items \subseteq dir'[worker[w].temp].items
  <2>1. CASE worker[w].step \in Inside
    <3>1. worker[w].want \in Packages /\ worker[w].want # trim.doomed /\ worker[w].want \in Dirs
      BY <2>1, DoomedIsNobodys, Constants
    <3>2. stripe[worker[w].want] # NoStripe
      BY <1>0, <3>1, Constants DEF TypeOK
    <3>3. worker[w].temp # NoDir => worker[w].temp \in Dirs /\ Live(worker[w].temp)
      BY DoomedIsNobodys DEF Live
    <3>4. QED
      BY <2>1, <3>1, <3>2, <3>3
  <2>2. CASE worker[w].step \notin Inside
    <3>1. worker[w].temp # NoDir => worker[w].temp \in Dirs /\ Live(worker[w].temp)
      BY DoomedIsNobodys DEF Live
    <3>2. QED
      BY <2>2, <3>1
  <2>3. QED
    BY <2>1, <2>2
<1>2. LockedOnce'
  BY <1>0, <1>1, <1>a, Constants DEF LockedOnce
<1>3. TempsAreOwned'
  <2>1. ASSUME NEW w \in Workers, worker[w].temp # NoDir, worker[w].temp \notin torn'
        PROVE  Files \ worker[w].todo \subseteq dir'[worker[w].temp].items
    BY <1>0, <1>1, <2>1 DEF TempsAreOwned
  <2>2. QED
    BY <1>0, <2>1 DEF TempsAreOwned
<1>4. OneSweeper'
  BY <1>0, <1>a DEF OneSweeper
<1>5. ReadyIsWhole'
  <2>1. ASSUME NEW p \in Packages \ torn', dir'[p].ready, p # trim'.doomed, p # trim.doomed
        PROVE  Files \subseteq dir'[p].items
    BY <1>0, <2>1, Constants DEF ReadyIsWhole
  <2>2. trim.doomed # trim'.doomed /\ trim.doomed \in Packages \ torn' /\ dir'[trim.doomed].ready =>
           Files \subseteq dir'[trim.doomed].items
    OBVIOUS
  <2>3. QED
    BY <2>1, <2>2 DEF ReadyIsWhole
<1>6. HitIsWhole' /\ NewIsWhole'
  BY <1>0, <1>1 DEF HitIsWhole, NewIsWhole, Inside
<1>7. Unready'
  BY <1>0, <1>1, FetchingInside DEF Unready, Fetching
<1>8. QED
  BY <1>2, <1>3, <1>4, <1>5, <1>6, <1>7, CacheInvIntro

(* The trim goes on to its next directory, whose lock it has.              *)
LEMMA NextDoomedInv ==
    ASSUME CacheInv, TypeOK', UNCHANGED <<dir, stripe, worker, torn>>, trim'.by = trim.by,
           trim.doomed = NoDir,
           \/ trim'.doomed = NoDir /\ trim'.open = trim.open /\ trim'.lock = trim.lock
           \/ /\ trim.by # NoWorker /\ trim'.open = trim'.doomed /\ trim'.lock \in Locks(trim'.doomed)
              /\ Free(trim'.lock)
    PROVE  CacheInv'
<1>0. /\ LockedOnce /\ TempsAreOwned /\ OneSweeper /\ ReadyIsWhole /\ HitIsWhole /\ NewIsWhole
      /\ Unready /\ TypeOK
  BY CacheInvElim
<1>1. LockedOnce'
  BY <1>0, Constants DEF LockedOnce, Free, Locks
<1>2. TempsAreOwned'
  BY <1>0 DEF TempsAreOwned
<1>3. OneSweeper'
  BY <1>0, Constants DEF OneSweeper
<1>4. ReadyIsWhole'
  BY <1>0, Constants DEF ReadyIsWhole
<1>5. HitIsWhole' /\ NewIsWhole' /\ Unready'
  BY <1>0 DEF HitIsWhole, NewIsWhole, Unready, Fetching
<1>6. QED
  BY <1>1, <1>2, <1>3, <1>4, <1>5, CacheInvIntro

(* A loop begins or ends the trim.                                         *)
LEMMA TrimOwnerInv ==
    ASSUME CacheInv, TypeOK', NEW w \in Workers, Others(w), UNCHANGED <<dir, stripe, torn>>,
           worker[w].step \in {"trim", "sweep"}, worker'[w].step \in {"sweep", "running"},
           worker'[w].want = worker[w].want, worker'[w].temp = NoDir,
           trim.by \in {w, NoWorker}, trim'.by = IF worker'[w].step = "sweep" THEN w ELSE NoWorker,
           trim.doomed = NoDir, trim'.doomed = NoDir, trim'.lock = NoStripe, trim'.open = NoDir
    PROVE  CacheInv'
<1>0. /\ LockedOnce /\ TempsAreOwned /\ OneSweeper /\ ReadyIsWhole /\ HitIsWhole /\ NewIsWhole
      /\ Unready /\ TypeOK
  BY CacheInvElim
<1>1. LockedOnce'
  <2>1. \A v \in Workers : worker'[v].step \in Inside =>
           worker[v].step \in Inside /\ worker'[v].want = worker[v].want
    BY DEF Others, Inside
  <2>2. \A v \in Workers : worker[v].step \in Inside => stripe[worker[v].want] # NoStripe
    BY <1>0, DoomedIsNobodys, Constants DEF TypeOK
  <2>3. QED
    BY <1>0, <2>1, <2>2, Constants DEF LockedOnce
<1>2. TempsAreOwned'
  BY <1>0, Constants, LoopFacts DEF TempsAreOwned, Others, TypeOK
<1>3. OneSweeper'
  BY <1>0, Constants DEF OneSweeper, Others
<1>4. ReadyIsWhole'
  BY <1>0 DEF ReadyIsWhole
<1>5. HitIsWhole' /\ NewIsWhole' /\ Unready'
  BY <1>0 DEF HitIsWhole, NewIsWhole, Unready, Fetching, Others, Extracting
<1>6. QED
  BY <1>1, <1>2, <1>3, <1>4, <1>5, CacheInvIntro

LEMMA TrimInv ==
    ASSUME CacheInv, TypeOK', NEW w \in Workers, TrimStep(w)
    PROVE  CacheInv'
<1>0. /\ TypeOK /\ OneSweeper /\ worker[w] \in Loop /\ dir \in [Dirs -> Directory]
      /\ trim \in TrimRecord
  BY CacheInvElim DEF TypeOK, TrimRecord
<1>1. CASE SkipTrim(w)
  BY <1>1, WaitingStepsInv
<1>2. CASE BeginTrim(w)
  <2>1. /\ worker[w].step = "trim" /\ trim.by = NoWorker /\ Goto(w, "sweep") /\ UNCHANGED <<dir, stripe, torn>>
        /\ trim'.by = w /\ trim'.doomed = NoDir /\ trim'.lock = NoStripe /\ trim'.open = NoDir
    BY <1>2 DEF BeginTrim, NoTrim
  <2>2. trim.doomed = NoDir
    BY <1>0, <2>1 DEF OneSweeper
  <2>3. Others(w) /\ worker'[w].step = "sweep" /\ worker'[w].temp = NoDir /\ worker'[w].want = worker[w].want
    BY <1>0, <2>1, Goes DEF Inside, Extracting, Others
  <2>4. QED
    BY <2>1, <2>2, <2>3, TrimOwnerInv
<1>3. CASE EndTrim(w)
  <2>1. /\ worker[w].step = "sweep" /\ trim.doomed = NoDir /\ Goto(w, "running") /\ UNCHANGED <<dir, stripe, torn>>
        /\ trim' = NoTrim
    BY <1>3 DEF EndTrim, Sweeping
  <2>2. trim.by = w
    BY <1>0, <2>1 DEF OneSweeper
  <2>3. Others(w) /\ worker'[w].step = "running" /\ worker'[w].temp = NoDir /\ worker'[w].want = worker[w].want
    BY <1>0, <2>1, Goes DEF Inside, Outside, Extracting, Others
  <2>4. trim'.by = NoWorker /\ trim'.doomed = NoDir /\ trim'.lock = NoStripe /\ trim'.open = NoDir
    BY <2>1 DEF NoTrim
  <2>5. QED
    BY <2>1, <2>2, <2>3, <2>4, TrimOwnerInv
<1>4. CASE Spare(w)
  <2>1. trim.doomed = NoDir /\ UNCHANGED <<dir, stripe, worker, torn>>
    BY <1>4 DEF Spare, Sweeping
  <2>2. trim'.by = trim.by /\ trim'.doomed = NoDir /\ trim'.open = trim.open /\ trim'.lock = trim.lock
    BY <1>0, <1>4, <2>1 DEF Spare, TrimRecord
  <2>3. QED
    BY <2>1, <2>2, NextDoomedInv
<1>5. CASE Doom(w)
  <2>1. PICK d \in Dirs, l \in Stripes :
           /\ l \in Locks(d) /\ Free(l)
           /\ trim' = [trim EXCEPT !.left = @ \ {d}, !.doomed = d, !.lock = l, !.open = d]
    BY <1>0, <1>5 DEF Doom, TrimRecord
  <2>2. worker[w].step = "sweep" /\ trim.doomed = NoDir /\ UNCHANGED <<dir, stripe, worker, torn>>
    BY <1>5 DEF Doom, Sweeping
  <2>3. trim'.by = trim.by /\ trim'.doomed = d /\ trim'.open = d /\ trim'.lock = l
    BY <1>0, <2>1 DEF TrimRecord
  <2>4. trim.by # NoWorker
    BY <1>0, <2>2, Constants DEF OneSweeper
  <2>5. QED
    BY <2>1, <2>2, <2>3, <2>4, NextDoomedInv
<1>6. CASE Unlink(w)
  <2> DEFINE d == trim.open
  <2>1. d \in Dirs /\ UNCHANGED <<stripe, worker, trim>>
    BY <1>0, <1>6 DEF Unlink, TrimRecord
  <2>2. trim.doomed # NoDir
    BY <1>0, <1>6, Constants DEF Unlink, OneSweeper
  <2>3. CASE \E i \in dir[d].items :
                /\ dir' = [dir EXCEPT ![d].items = @ \ {i}]
                /\ torn' = IF i \in Files /\ (Live(d) \/ d # trim.doomed) THEN torn \cup {d} ELSE torn
    <3>1. PICK i \in dir[d].items :
                /\ dir' = [dir EXCEPT ![d].items = @ \ {i}]
                /\ torn' = IF i \in Files /\ (Live(d) \/ d # trim.doomed) THEN torn \cup {d} ELSE torn
      BY <2>3
    <3>2. \A e \in Dirs : dir'[e].ready = dir[e].ready /\ (e # d => dir'[e].items = dir[e].items)
      BY <1>0, <2>1, <3>1 DEF Directory
    <3>3. dir'[d].items = dir[d].items \ {i}
      BY <1>0, <2>1, <3>1 DEF Directory
    <3>4. torn \subseteq torn'
      BY <3>1
    <3> HIDE DEF d
    <3>5. \A e \in Dirs : (e # trim.doomed \/ Live(e)) /\ e \notin torn' =>
             e \notin torn /\ (Files \cap dir[e].items \subseteq dir'[e].items)
      BY <3>1, <3>2, <3>3, <3>4
    <3>6. QED
      BY <2>1, <2>2, <3>2, <3>5, RemovalInv
  <2>4. CASE /\ dir' = [dir EXCEPT ![d].ready = FALSE]
             /\ torn' = IF Live(d) \/ d # trim.doomed THEN torn ELSE torn \ {d}
    <3>1. \A e \in Dirs : (dir'[e].ready => dir[e].ready) /\ dir'[e].items = dir[e].items
      BY <1>0, <2>1, <2>4 DEF Directory
    <3> HIDE DEF d
    <3>2. \A e \in Dirs : (e # trim.doomed \/ Live(e)) /\ e \notin torn' =>
             e \notin torn /\ (Files \cap dir[e].items \subseteq dir'[e].items)
      BY <2>4, <3>1
    <3>3. QED
      BY <2>1, <2>2, <3>1, <3>2, RemovalInv
  <2>5. QED
    BY <1>6, <2>3, <2>4 DEF Unlink
<1>7. CASE Removed(w)
  <2>1. /\ trim.doomed \in Dirs /\ trim.doomed # NoDir /\ UNCHANGED <<stripe, worker, torn>>
        /\ dir[trim.doomed].items = {} /\ NextDirectory
    BY <1>0, <1>7 DEF Removed, TrimRecord
  <2>2. dir' = [dir EXCEPT ![trim.doomed] = NoDirectory]
    BY <1>7 DEF Removed
  <2>3. ~dir'[trim.doomed].ready /\ dir'[trim.doomed].items = {}
    BY <1>0, <2>1, <2>2 DEF NoDirectory
  <2>4. \A d \in Dirs : (dir'[d].ready => dir[d].ready) /\ dir'[d].items = dir[d].items
    BY <1>0, <2>1, <2>2, <2>3
  <2>5. QED
    BY <2>1, <2>3, <2>4, RemovalInv
<1>8. CASE RemoveFails(w)
  <2>1. trim.doomed # NoDir /\ UNCHANGED <<dir, stripe, worker>> /\ torn' = torn \cup Halved /\ NextDirectory
    BY <1>8 DEF RemoveFails
  <2>2. trim.doomed \in Packages \ torn' /\ dir[trim.doomed].ready => Files \subseteq dir[trim.doomed].items
    BY <2>1 DEF Halved
  <2>3. QED
    BY <2>1, <2>2, RemovalInv
<1>9. QED
  BY <1>1, <1>2, <1>3, <1>4, <1>5, <1>6, <1>7, <1>8 DEF TrimStep, TrimGoesOn

(* A judge stored in an entry takes no file from it, and marks nothing.    *)
LEMMA StoreJudgeInv ==
    ASSUME CacheInv, TypeOK', NEW w \in Workers, StoreJudge(w)
    PROVE  CacheInv'
<1> DEFINE p == worker[w].want
<1>0. /\ LockedOnce /\ TempsAreOwned /\ OneSweeper /\ ReadyIsWhole /\ HitIsWhole /\ NewIsWhole
      /\ Unready /\ TypeOK /\ worker[w] \in Loop /\ dir \in [Dirs -> Directory]
  BY CacheInvElim DEF TypeOK
<1>1. worker[w].step = "compiled" /\ UNCHANGED <<stripe, trim, torn>> /\ Return(w)
  BY DEF StoreJudge
<1>2. p \in Packages
  BY <1>0, <1>1, LoopFacts
<1>3. Others(w) /\ worker'[w].step = "idle" /\ worker'[w].temp = NoDir
  BY <1>0, <1>1, Returns DEF Others, Idle
<1>4. /\ dir' = [dir EXCEPT ![p] = [dir[p] EXCEPT !.exists = TRUE, !.items = dir[p].items \cup {Judge}]]
      /\ p \in Dirs
  BY <1>0, <1>2, Constants DEF StoreJudge
<1> HIDE DEF p
<1>5. \A d \in Dirs : dir'[d].ready = dir[d].ready /\ dir[d].items \subseteq dir'[d].items
  BY <1>0, <1>4 DEF Directory
<1>6. \A v \in Workers :
         /\ worker[v].step \in Inside => worker[v].want \in Dirs
         /\ worker[v].temp # NoDir => worker[v].temp \in Dirs
  BY DoomedIsNobodys, Constants
<1>7. LockedOnce'
  BY <1>0, <1>1, <1>3 DEF LockedOnce, Others, Inside, Extracting
<1>8. TempsAreOwned'
  BY <1>0, <1>1, <1>3, <1>5, <1>6 DEF TempsAreOwned, Others
<1>9. OneSweeper'
  BY <1>0, <1>1, <1>3 DEF OneSweeper, Others
<1>10. ReadyIsWhole'
  BY <1>0, <1>1, <1>5, Constants DEF ReadyIsWhole
<1>11. HitIsWhole' /\ NewIsWhole'
  <2>1. ASSUME NEW v \in Workers, v # w, worker[v].step \in Inside
        PROVE  worker'[v] = worker[v] /\ dir[worker[v].want].items \subseteq dir'[worker[v].want].items
    BY <2>1, <1>3, <1>5, <1>6 DEF Others
  <2>2. HitIsWhole'
    BY <1>0, <1>1, <1>3, <2>1 DEF HitIsWhole, Others, Inside
  <2>3. NewIsWhole'
    BY <1>0, <1>1, <1>3, <2>1 DEF NewIsWhole, Others, Inside
  <2>4. QED
    BY <2>2, <2>3
<1>12. Unready'
  BY <1>0, <1>3, <1>5, <1>6, FetchingInside DEF Unready, Fetching, Others, Extracting
<1>13. QED
  BY <1>7, <1>8, <1>9, <1>10, <1>11, <1>12, CacheInvIntro

(* Of the entry that was being removed it is noted what it has become.     *)
LEMMA CrashInv ==
    ASSUME CacheInv, TypeOK', Crash
    PROVE  CacheInv'
<1>0. ReadyIsWhole
  BY CacheInvElim
<1>1. UNCHANGED dir /\ trim' = NoTrim /\ torn' = (torn \cup Halved) \cap Packages
  BY DEF Crash
<1>2. \A w \in Workers : worker'[w].step = "idle" /\ worker'[w].temp = NoDir
  BY DEF Crash, Idle
<1>3. trim'.by = NoWorker /\ trim'.doomed = NoDir /\ trim'.open = NoDir
  BY <1>1 DEF NoTrim
<1>4. LockedOnce' /\ TempsAreOwned' /\ OneSweeper' /\ HitIsWhole' /\ NewIsWhole' /\ Unready'
  BY <1>2, <1>3, Constants
  DEF LockedOnce, TempsAreOwned, OneSweeper, HitIsWhole, NewIsWhole, Unready, Fetching, Inside, Extracting
<1>5. ReadyIsWhole'
  BY <1>0, <1>1 DEF ReadyIsWhole, Halved
<1>6. QED
  BY <1>4, <1>5, CacheInvIntro

LEMMA CacheInit == ASSUME Init PROVE CacheInv
<1>1. TypeOK
  BY MarkedInit DEF Marked
<1>2. \A w \in Workers : worker[w].step = "idle" /\ worker[w].temp = NoDir
  BY DEF Init, Idle
<1>3. trim.by = NoWorker /\ trim.doomed = NoDir /\ trim.open = NoDir
  BY DEF Init, NoTrim
<1>4. \A d \in Dirs : ~dir[d].ready
  BY DEF Init, NoDirectory
<1>5. QED
  BY <1>1, <1>2, <1>3, <1>4, Constants
  DEF CacheInv, LockedOnce, TempsAreOwned, OneSweeper, ReadyIsWhole, HitIsWhole, NewIsWhole,
      DownloadIsShared, Fetching, Inside, Extracting

LEMMA CacheStep ==
    ASSUME CacheInv, [Next]_vars PROVE CacheInv'
<1>1. TypeOK'
  BY CacheInvElim, MarkedStep DEF Marked
<1>2. CASE UNCHANGED vars
  BY <1>2 DEF CacheInv, TypeOK, LockedOnce, TempsAreOwned, OneSweeper, ReadyIsWhole, HitIsWhole,
              NewIsWhole, DownloadIsShared, Fetching, vars
<1>3. CASE Crash
  BY <1>1, <1>3, CrashInv
<1>4. ASSUME NEW w \in Workers, DownloadStep(w) PROVE CacheInv'
  <2>1. CASE Publish(w)
    BY <1>1, <2>1, PublishInv
  <2>2. CASE Download(w) \/ Extract(w) \/ Mark(w) \/ Fail(w)
    BY <1>1, <2>2, ExtractingInv
  <2>3. CASE (\E p \in Packages : TakeTask(w, p)) \/ Acquire(w) \/ NotModified(w) \/ Copy(w)
    BY <1>1, <2>3, WaitingStepsInv
  <2>4. QED
    BY <1>4, <2>1, <2>2, <2>3 DEF DownloadStep
<1>5. ASSUME NEW w \in Workers, TrimStep(w) PROVE CacheInv'
  BY <1>1, <1>5, TrimInv
<1>6. ASSUME NEW w \in Workers, JudgeStep(w) PROVE CacheInv'
  BY <1>1, <1>6, StoreJudgeInv, WaitingStepsInv DEF JudgeStep
<1>7. QED
  BY <1>2, <1>3, <1>4, <1>5, <1>6 DEF Next

(* The cache's invariant: locks have one holder, temporary directories one *)
(* owner, and a ready entry, a hit and a new entry are whole, unless torn. *)
THEOREM CacheIsSafe == Spec => []CacheInv
<1>1. Init => CacheInv
  BY CacheInit
<1>2. CacheInv /\ [Next]_vars => CacheInv'
  BY CacheStep
<1>3. QED
  BY <1>1, <1>2, PTL DEF Spec

(* An entry marked ready holds all its package's files until it is removed, *)
(* but for entries in torn: those a broken-off removal has left, and those  *)
(* a removal has at that began before they were entries.                    *)
THEOREM ReadyStaysWhole == Spec => []ReadyIsWhole
<1>1. CacheInv => ReadyIsWhole
  BY DEF CacheInv
<1>2. QED
  BY <1>1, CacheIsSafe, PTL

(* What a loop found ready stays whole until the loop has copied it, but   *)
(* for the entries in torn: trims try the lock the loop holds.             *)
THEOREM HitStaysWhole == Spec => []HitIsWhole
<1>1. CacheInv => HitIsWhole
  BY DEF CacheInv
<1>2. QED
  BY <1>1, CacheIsSafe, PTL

(* No package is downloaded twice at once, or while its entry is ready: who *)
(* fetches has the entry's lock, and the trim leaves locked entries alone.  *)
THEOREM DownloadsAreShared == Spec => []DownloadIsShared
<1>1. CacheInv => DownloadIsShared
  BY DEF CacheInv
<1>2. QED
  BY <1>1, CacheIsSafe, PTL

=============================================================================
