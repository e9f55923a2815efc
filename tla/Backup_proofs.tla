---------------------------- MODULE Backup_proofs ----------------------------
(***************************************************************************)
(* Proofs about Backup: for any servers, jobs, schedules and limits, one   *)
(* dump runs at a time while no lock slips away, the newest backups are    *)
(* never pruned, and a minute is scheduled once.                           *)
(***************************************************************************)
EXTENDS Backup, FiniteSetTheorems, TLAPS

(***************************************************************************)
(* The inductive invariant.                                                *)
(***************************************************************************)
\* Whoever is at work holds the lock.
WorkerHoldsLock == slipped \/ \A j \in Jobs : Working(j) => lock = j

\* The ticket a scheduled backup was begun under stays for two minutes from
\* the beginning of its minute, however early or late it was taken.
TicketFirst ==
  \A m \in scheduled : tickets[m] >= m * MinuteLength + ScheduleLockTTL

\* The names above x, of those ever stored.
Above(x) == {y \in ever : y > x}

\* What a job is about to delete had, already when it listed the store, enough
\* newer backups; the limit it listed with is one that was saved.
DoomedIsOld ==
  \A j \in Jobs :
    /\ job[j].phase = "listing" => job[j].keep >= leastKeep
    /\ \A x \in job[j].doomed : Cardinality(Above(x)) >= leastKeep

-----------------------------------------------------------------------------
(***************************************************************************)
(* Jobs.                                                                   *)
(***************************************************************************)
\* What TypeOK says of one job.
JobOK(r, names, t) ==
  /\ r \in Job
  /\ (r.phase = "idle") <=> (r.on = NoServer)
  /\ (r.phase = "pruning") <=> (r.doomed # {})
  /\ r.doomed \subseteq names /\ r.name <= t

LEMMA IdleOK ==
    ASSUME NEW names, NEW t \in Nat
    PROVE  /\ JobOK(Idle, names, t)
           /\ \A s \in Servers, p \in Phases \ {"idle", "pruning"} :
                JobOK([Idle EXCEPT !.phase = p, !.on = s], names, t)
<1>1. 0 \in Seconds /\ 0 <= t /\ 0 \in Keeps \cup {0} /\ {} \in SUBSET Seconds
  BY BackupAssumption
<1>2. JobOK(Idle, names, t)
  BY <1>1 DEF JobOK, Job, Idle, Phases
<1>3. ASSUME NEW s \in Servers, NEW p \in Phases \ {"idle", "pruning"}
      PROVE  JobOK([Idle EXCEPT !.phase = p, !.on = s], names, t)
  <2> DEFINE q == [Idle EXCEPT !.phase = p, !.on = s]
  <2>1. p \in Phases /\ p # "idle" /\ p # "pruning" /\ s # NoServer
    BY BackupAssumption DEF Phases
  <2>2. Idle \in Job /\ Idle.doomed = {} /\ Idle.name = 0
    BY <1>1 DEF Idle, Job, Phases
  <2>3. q \in Job /\ q.phase = p /\ q.on = s /\ q.doomed = {} /\ q.name = 0
    BY <2>1, <2>2 DEF Job
  <2> HIDE DEF q
  <2>4. JobOK(q, names, t)
    BY <1>1, <2>1, <2>3 DEF JobOK
  <2>5. QED
    BY <2>4 DEF q
<1>4. QED
  BY <1>2, <1>3

LEMMA JobsTyped ==
    ASSUME TypeOK
    PROVE  /\ \A j \in Jobs : JobOK(job[j], ever, now)
           /\ job \in [Jobs -> Job] /\ now \in Nat
  BY BackupAssumption DEF TypeOK, JobOK

\* More names and a later time are no harm.
LEMMA JobOKLater ==
    ASSUME NEW r, NEW names, NEW t \in Nat, JobOK(r, names, t),
           NEW more, names \subseteq more, NEW u \in Nat, t <= u
    PROVE  JobOK(r, more, u)
<1>1. r.name \in Int
  <2>1. r.name \in Seconds
    BY DEF JobOK, Job
  <2>2. \A x \in Seconds : x \in Int
    BY BackupAssumption
  <2>3. QED
    BY <2>1, <2>2
<1>2. QED
  BY <1>1 DEF JobOK

\* One job changed.
LEMMA JobStep ==
    ASSUME TypeOK, NEW j \in Jobs, NEW r, job' = [job EXCEPT ![j] = r],
           now' = now, ever \subseteq ever', JobOK(r, ever', now)
    PROVE  /\ job' \in [Jobs -> Job]
           /\ \A i \in Jobs : JobOK(job'[i], ever', now')
<1>1. r \in Job
  BY DEF JobOK
<1>2. job' \in [Jobs -> Job]
  BY <1>1, JobsTyped
<1>3. ASSUME NEW i \in Jobs PROVE JobOK(job'[i], ever', now')
  <2>1. CASE i = j
    BY <2>1, JobsTyped
  <2>2. CASE i # j
    <3>1. job'[i] = job[i]
      BY <2>2, JobsTyped
    <3>2. QED
      BY <3>1, JobsTyped, JobOKLater
  <2>3. QED
    BY <2>1, <2>2
<1>4. QED
  BY <1>2, <1>3

\* A job that goes on with the same server, and the change of its other parts.
LEMMA GoesOn ==
    ASSUME TypeOK, NEW j \in Jobs, NEW p \in Phases \ {"idle", "pruning"},
           job[j].phase # "idle"
    PROVE  /\ JobOK([job[j] EXCEPT !.phase = p, !.doomed = {}], ever, now)
           /\ job[j].phase # "pruning" =>
                /\ JobOK([job[j] EXCEPT !.phase = p], ever, now)
                /\ JobOK([job[j] EXCEPT !.phase = p, !.name = now], ever, now)
                /\ JobOK([job[j] EXCEPT !.phase = p, !.name = 0], ever, now)
                /\ JobOK([job[j] EXCEPT !.phase = p, !.keep = settings.keep], ever, now)
<1> DEFINE r == job[j]
<1>1. JobOK(r, ever, now) /\ now \in Seconds /\ now \in Nat /\ settings.keep \in Keeps
  BY JobsTyped DEF TypeOK, Settings
<1>2. r.phase # "idle"
  OBVIOUS
<1> HIDE DEF r
<1>3. r.phase # "pruning" => r.doomed = {}
  BY <1>1 DEF JobOK
<1>4. JobOK([r EXCEPT !.phase = p, !.doomed = {}], ever, now)
  BY <1>1, <1>2 DEF JobOK, Job
<1>5. ASSUME r.phase # "pruning"
      PROVE  /\ JobOK([r EXCEPT !.phase = p], ever, now)
             /\ JobOK([r EXCEPT !.phase = p, !.keep = settings.keep], ever, now)
  BY <1>1, <1>2, <1>3, <1>5 DEF JobOK, Job
<1>6. ASSUME r.phase # "pruning", NEW t \in {0, now}
      PROVE  JobOK([r EXCEPT !.phase = p, !.name = t], ever, now)
  <2> DEFINE q == [r EXCEPT !.phase = p, !.name = t]
  <2>0. t \in Seconds /\ t \in Nat /\ t <= now
    BY <1>1, BackupAssumption
  <2>1. /\ q.phase = p /\ q.on = r.on /\ q.name = t /\ q.keep = r.keep
        /\ q.doomed = r.doomed /\ q \in Job
    BY <1>1, <1>2, <2>0 DEF JobOK, Job
  <2> HIDE DEF q
  <2>2. JobOK(q, ever, now)
    BY <1>1, <1>2, <1>3, <1>6, <2>0, <2>1 DEF JobOK
  <2>3. QED
    BY <2>2 DEF q
<1>7. QED
  BY <1>4, <1>5, <1>6 DEF r

\* What Prune has left to delete.
LEMMA PruneGoesOn ==
    ASSUME TypeOK, NEW j \in Jobs, job[j].phase # "idle",
           NEW rest \in SUBSET ever, job' = PruneRest(j, rest)
    PROVE  /\ \E r : job' = [job EXCEPT ![j] = r] /\ JobOK(r, ever, now)
           /\ job'[j].doomed = rest /\ job'[j].phase # "listing"
<1> DEFINE p == IF rest = {} THEN "leaving" ELSE "pruning"
           r == [job[j] EXCEPT !.phase = p, !.keep = 0, !.doomed = rest]
<1>1. JobOK(job[j], ever, now) /\ rest \in SUBSET Seconds /\ job[j] \in Job
  BY JobsTyped, BackupAssumption DEF TypeOK, JobOK
<1>2. job' = [job EXCEPT ![j] = r]
  BY DEF PruneRest
<1>3. p \in Phases /\ p # "idle" /\ p # "listing" /\ (p = "pruning" <=> rest # {})
  BY DEF Phases
<1> HIDE DEF p
<1>4. JobOK(r, ever, now) /\ r.doomed = rest /\ r.phase = p
  BY <1>1, <1>3 DEF JobOK, Job
<1> HIDE DEF r
<1>5. job'[j] = r
  BY <1>2, JobsTyped
<1>6. QED
  BY <1>2, <1>3, <1>4, <1>5

-----------------------------------------------------------------------------
(***************************************************************************)
(* Type correctness, in four parts.                                        *)
(***************************************************************************)
JobsOK == job \in [Jobs -> Job] /\ \A j \in Jobs : JobOK(job[j], ever, now)

ScheduleOK ==
  /\ settings \in Settings
  /\ pending \subseteq Servers \X Settings
  /\ entry \in [Servers -> SUBSET Minutes]
  /\ leastKeep \in Keeps /\ leastKeep <= settings.keep

StoreOK ==
  /\ now \in Seconds
  /\ stored \subseteq ever /\ byHand \subseteq ever \ stored
  /\ ever \subseteq {x \in Seconds : x <= now}

CountsOK ==
  /\ tickets \in [Minutes -> Nat]
  /\ lock \in Jobs \cup {NoJob}
  /\ scheduled \subseteq Minutes
  /\ slipped \in BOOLEAN
  /\ used \in [runs : 0..MaxRuns, events : 0..MaxEvents]

LEMMA Parts == TypeOK <=> JobsOK /\ ScheduleOK /\ StoreOK /\ CountsOK
  BY DEF TypeOK, JobOK, JobsOK, ScheduleOK, StoreOK, CountsOK

LEMMA PartsNext == TypeOK' <=> JobsOK' /\ ScheduleOK' /\ StoreOK' /\ CountsOK'
  BY DEF TypeOK, JobOK, JobsOK, ScheduleOK, StoreOK, CountsOK

LEMMA EntryTyped ==
    ASSUME TypeOK, NEW s \in Settings
    PROVE  Entry(s) \in SUBSET Minutes
  BY BackupAssumption DEF Entry, Settings

LEMMA MinuteTyped ==
    ASSUME TypeOK, NEW j \in Jobs
    PROVE  Minute(job[j].name) \in Minutes
  BY DEF TypeOK, Job, Minutes

LEMMA EverPast ==
    ASSUME TypeOK
    PROVE  now \in Nat /\ ever \in SUBSET (0..now) /\ ever \in SUBSET Seconds
  BY BackupAssumption DEF TypeOK

LEMMA EverPastNext ==
    ASSUME TypeOK'
    PROVE  now' \in Nat /\ ever' \in SUBSET (0..now')
<1>1. \A x \in Seconds : x \in Nat
  BY BackupAssumption
<1>2. now' \in Seconds /\ ever' \subseteq {x \in Seconds : x <= now'}
  BY DEF TypeOK
<1>3. QED
  BY <1>1, <1>2

\* A step that only moves a job, by one of the two lemmas above.
LEMMA OnlyJob ==
    ASSUME TypeOK, NEW j \in Jobs, NEW r, job' = [job EXCEPT ![j] = r],
           UNCHANGED now, ever \subseteq ever', JobOK(r, ever', now)
    PROVE  JobsOK'
  BY JobStep DEF JobsOK

LEMMA SameSchedule ==
    ASSUME TypeOK, UNCHANGED schedule
    PROVE  ScheduleOK'
  BY DEF TypeOK, ScheduleOK, schedule

LEMMA SameStore ==
    ASSUME TypeOK, UNCHANGED <<now, store>>
    PROVE  StoreOK'
  BY DEF TypeOK, StoreOK, store

LEMMA SameJobs ==
    ASSUME TypeOK, UNCHANGED <<now, ever, job>>
    PROVE  JobsOK'
  BY Parts DEF JobsOK

-----------------------------------------------------------------------------
LEMMA TickTyped == ASSUME TypeOK, Tick PROVE TypeOK'
<1>1. now \in Seconds /\ now' \in Seconds /\ now' \in Nat /\ now \in Nat /\ now <= now'
  BY BackupAssumption DEF TypeOK, Tick
<1>2. JobsOK'
  <2>1. \A j \in Jobs : JobOK(job[j], ever, now')
    BY <1>1, JobsTyped, JobOKLater
  <2>2. QED
    BY <2>1, JobsTyped DEF JobsOK, Tick, store
<1>3. ScheduleOK'
  <2>1. UNCHANGED schedule
    BY DEF Tick
  <2>2. QED
    BY <2>1, SameSchedule
<1>4. StoreOK'
  <2>1. \A x \in Seconds : x <= now => x <= now'
    <3>1. \A x \in Seconds : x \in Int
      BY BackupAssumption
    <3>2. QED
      BY <1>1, <3>1
  <2>2. QED
    BY <1>1, <2>1 DEF TypeOK, StoreOK, Tick, store
<1>5. CountsOK'
  BY DEF TypeOK, CountsOK, Tick
<1>6. QED
  BY <1>2, <1>3, <1>4, <1>5, PartsNext

LEMMA SaveSettingsTyped ==
    ASSUME TypeOK, NEW s \in Servers, NEW new \in Settings, SaveSettings(s, new)
    PROVE  TypeOK'
<1>1. JobsOK'
  BY SameJobs DEF SaveSettings, store
<1>2. ScheduleOK'
  <2>1. new.keep \in Keeps /\ leastKeep \in Keeps
    BY DEF TypeOK, Settings
  <2>2. new.keep \in Int /\ leastKeep \in Int
    <3>1. \A k \in Keeps : k \in 1..100
      BY BackupAssumption
    <3>2. QED
      BY <2>1, <3>1
  <2>3. leastKeep' \in Keeps /\ leastKeep' <= new.keep
    BY <2>1, <2>2 DEF SaveSettings
  <2>4. QED
    BY <2>3 DEF TypeOK, ScheduleOK, SaveSettings
<1>3. StoreOK'
  BY SameStore DEF SaveSettings
<1>4. CountsOK'
  BY BackupAssumption DEF TypeOK, CountsOK, SaveSettings
<1>5. QED
  BY <1>1, <1>2, <1>3, <1>4, PartsNext

LEMMA ReloadTyped ==
    ASSUME TypeOK, NEW s \in Servers, NEW new \in Settings, Reload(s, new)
    PROVE  TypeOK'
<1>1. JobsOK'
  BY SameJobs DEF Reload, store
<1>2. ScheduleOK'
  BY EntryTyped DEF TypeOK, ScheduleOK, Reload
<1>3. StoreOK'
  BY SameStore DEF Reload
<1>4. CountsOK'
  BY DEF TypeOK, CountsOK, Reload
<1>5. QED
  BY <1>1, <1>2, <1>3, <1>4, PartsNext

LEMMA RestartTyped ==
    ASSUME TypeOK, NEW s \in Servers, Restart(s)
    PROVE  TypeOK'
<1>1. JobsOK'
  <2>1. \A j \in Jobs : JobOK(job'[j], ever, now)
    BY JobsTyped, IdleOK DEF Restart
  <2>2. job' \in [Jobs -> Job]
    BY <2>1 DEF Restart, JobOK
  <2>3. QED
    BY <2>1, <2>2 DEF JobsOK, Restart, store
<1>2. ScheduleOK'
  <2>1. settings \in Settings
    BY DEF TypeOK
  <2>2. PICK e \in {Entry(settings), {}} : entry' = [entry EXCEPT ![s] = e]
    BY DEF Restart
  <2>3. e \in SUBSET Minutes
    BY <2>1, <2>2, EntryTyped
  <2>4. QED
    BY <2>2, <2>3 DEF TypeOK, ScheduleOK, Restart
<1>3. StoreOK'
  BY SameStore DEF Restart
<1>4. CountsOK'
  BY BackupAssumption DEF TypeOK, CountsOK, Restart
<1>5. QED
  BY <1>1, <1>2, <1>3, <1>4, PartsNext

LEMMA FireTyped ==
    ASSUME TypeOK, NEW s \in Servers, NEW j \in Jobs, Fire(s, j)
    PROVE  TypeOK'
<1>1. JobsOK'
  <2>1. JobOK([Idle EXCEPT !.phase = "due", !.on = s], ever, now)
    BY IdleOK, JobsTyped DEF Phases
  <2>2. QED
    BY <2>1, OnlyJob DEF Fire, store
<1>2. ScheduleOK'
  <2>1. {m \in entry[s] : m > Minute(now)} \in SUBSET Minutes
    BY DEF TypeOK
  <2>2. QED
    BY <2>1 DEF TypeOK, ScheduleOK, Fire
<1>3. StoreOK'
  BY SameStore DEF Fire
<1>4. CountsOK'
  BY BackupAssumption DEF TypeOK, CountsOK, Fire
<1>5. QED
  BY <1>1, <1>2, <1>3, <1>4, PartsNext

LEMMA AskTyped ==
    ASSUME TypeOK, NEW s \in Servers, NEW j \in Jobs, Ask(s, j)
    PROVE  TypeOK'
<1>1. JobsOK'
  <2>1. JobOK([Idle EXCEPT !.phase = "asked", !.on = s], ever, now)
    BY IdleOK, JobsTyped DEF Phases
  <2>2. QED
    BY <2>1, OnlyJob DEF Ask, store
<1>2. ScheduleOK' /\ StoreOK'
  BY SameSchedule, SameStore DEF Ask
<1>3. CountsOK'
  BY BackupAssumption DEF TypeOK, CountsOK, Ask
<1>4. QED
  BY <1>1, <1>2, <1>3, PartsNext

-----------------------------------------------------------------------------
LEMMA ReadClockTyped ==
    ASSUME TypeOK, NEW j \in Jobs, ReadClock(j)
    PROVE  TypeOK'
<1>1. JobsOK'
  <2>1. JobOK([job[j] EXCEPT !.phase = "timed", !.name = now], ever, now)
    BY GoesOn DEF ReadClock, Phases
  <2>2. QED
    BY <2>1, OnlyJob DEF ReadClock, store
<1>2. ScheduleOK' /\ StoreOK'
  BY SameSchedule, SameStore DEF ReadClock
<1>3. CountsOK'
  BY DEF TypeOK, CountsOK, ReadClock
<1>4. QED
  BY <1>1, <1>2, <1>3, PartsNext

LEMMA TakeTicketTyped ==
    ASSUME TypeOK, NEW j \in Jobs, TakeTicket(j)
    PROVE  TypeOK'
<1>1. JobsOK'
  <2>1. CASE job' = [job EXCEPT ![j] = Idle]
    BY <2>1, OnlyJob, IdleOK, JobsTyped DEF TakeTicket, store
  <2>2. CASE job' = [job EXCEPT ![j].phase = "asked", ![j].name = 0]
    <3>1. JobOK([job[j] EXCEPT !.phase = "asked", !.name = 0], ever, now)
      BY GoesOn DEF TakeTicket, Phases
    <3>2. job' = [job EXCEPT ![j] = [job[j] EXCEPT !.phase = "asked", !.name = 0]]
      BY <2>2, JobsTyped
    <3>3. QED
      BY <3>1, <3>2, OnlyJob DEF TakeTicket, store
  <2>3. QED
    BY <2>1, <2>2 DEF TakeTicket
<1>2. ScheduleOK' /\ StoreOK'
  BY SameSchedule, SameStore DEF TakeTicket
<1>3. CountsOK'
  <2>1. now + ScheduleLockTTL \in Nat
    BY JobsTyped, BackupAssumption DEF ScheduleLockTTL
  <2> DEFINE m == Minute(job[j].name)
  <2>2. m \in Minutes
    BY MinuteTyped
  <2> HIDE DEF m
  <2>3. tickets' = tickets \/ tickets' = [tickets EXCEPT ![m] = now + ScheduleLockTTL]
    BY DEF TakeTicket, m
  <2>4. scheduled' = scheduled \/ scheduled' = scheduled \cup {m}
    BY DEF TakeTicket, m
  <2>5. tickets' \in [Minutes -> Nat] /\ scheduled' \subseteq Minutes
    BY <2>1, <2>2, <2>3, <2>4 DEF TypeOK
  <2>6. UNCHANGED <<lock, slipped, used>>
    BY DEF TakeTicket
  <2>7. QED
    BY <2>5, <2>6 DEF TypeOK, CountsOK
<1>4. QED
  BY <1>1, <1>2, <1>3, PartsNext

LEMMA BuildNameTyped ==
    ASSUME TypeOK, NEW j \in Jobs, BuildName(j)
    PROVE  TypeOK'
<1>1. JobsOK'
  <2>1. JobOK([job[j] EXCEPT !.phase = "named", !.name = now], ever, now)
    BY GoesOn DEF BuildName, Phases
  <2>2. QED
    BY <2>1, OnlyJob DEF BuildName, store
<1>2. ScheduleOK' /\ StoreOK'
  BY SameSchedule, SameStore DEF BuildName
<1>3. CountsOK'
  BY DEF TypeOK, CountsOK, BuildName
<1>4. QED
  BY <1>1, <1>2, <1>3, PartsNext

LEMMA TakeLockTyped ==
    ASSUME TypeOK, NEW j \in Jobs, TakeLock(j)
    PROVE  TypeOK'
<1>1. JobsOK'
  BY OnlyJob, GoesOn DEF TakeLock, Phase, store, Phases
<1>2. ScheduleOK' /\ StoreOK'
  BY SameSchedule, SameStore DEF TakeLock
<1>3. CountsOK'
  BY DEF TypeOK, CountsOK, TakeLock
<1>4. QED
  BY <1>1, <1>2, <1>3, PartsNext

LEMMA LockRefusedTyped ==
    ASSUME TypeOK, NEW j \in Jobs, LockRefused(j)
    PROVE  TypeOK'
<1>1. JobsOK'
  BY OnlyJob, IdleOK, JobsTyped DEF LockRefused, store
<1>2. ScheduleOK' /\ StoreOK'
  BY SameSchedule, SameStore DEF LockRefused
<1>3. CountsOK'
  BY DEF TypeOK, CountsOK, LockRefused
<1>4. QED
  BY <1>1, <1>2, <1>3, PartsNext

LEMMA PutTyped ==
    ASSUME TypeOK, NEW j \in Jobs, Put(j)
    PROVE  TypeOK'
<1>1. now \in Nat /\ job[j].name \in {x \in Seconds : x <= now}
  <2>1. JobOK(job[j], ever, now) /\ now \in Nat
    BY JobsTyped
  <2>2. QED
    BY <2>1, BackupAssumption DEF JobOK, Job
<1>2. ever \subseteq ever' /\ now' = now
  BY DEF Put
<1>3. JobsOK'
  <2>1. JobOK([job[j] EXCEPT !.phase = "saved", !.name = 0], ever, now)
    BY GoesOn DEF Put, Phases
  <2>2. JobOK([job[j] EXCEPT !.phase = "saved", !.name = 0], ever', now)
    BY <1>1, <1>2, <2>1, JobOKLater
  <2>3. QED
    BY <1>2, <2>2, OnlyJob DEF Put
<1>4. ScheduleOK'
  BY SameSchedule DEF Put
<1>5. StoreOK'
  BY <1>1 DEF TypeOK, StoreOK, Put
<1>6. CountsOK'
  BY DEF TypeOK, CountsOK, Put
<1>7. QED
  BY <1>3, <1>4, <1>5, <1>6, PartsNext

LEMMA FailTyped ==
    ASSUME TypeOK, NEW j \in Jobs, Fail(j)
    PROVE  TypeOK'
<1>1. JobsOK'
  <2>0. job[j].on \in Servers /\ now \in Nat
    BY JobsTyped DEF Fail, JobOK, Job
  <2>1. JobOK([Idle EXCEPT !.phase = "leaving", !.on = job[j].on], ever, now)
    BY <2>0, IdleOK DEF Phases
  <2>2. QED
    BY <2>1, OnlyJob DEF Fail, store
<1>2. ScheduleOK' /\ StoreOK'
  BY SameSchedule, SameStore DEF Fail
<1>3. CountsOK'
  BY DEF TypeOK, CountsOK, Fail
<1>4. QED
  BY <1>1, <1>2, <1>3, PartsNext

LEMMA ReadKeepTyped ==
    ASSUME TypeOK, NEW j \in Jobs, ReadKeep(j)
    PROVE  TypeOK'
<1>1. JobsOK'
  <2>1. JobOK([job[j] EXCEPT !.phase = "listing", !.keep = settings.keep], ever, now)
    BY GoesOn DEF ReadKeep, Phases
  <2>2. QED
    BY <2>1, OnlyJob DEF ReadKeep, store
<1>2. ScheduleOK' /\ StoreOK'
  BY SameSchedule, SameStore DEF ReadKeep
<1>3. CountsOK'
  BY DEF TypeOK, CountsOK, ReadKeep
<1>4. QED
  BY <1>1, <1>2, <1>3, PartsNext

LEMMA ListStoreTyped ==
    ASSUME TypeOK, NEW j \in Jobs, ListStore(j)
    PROVE  TypeOK'
<1>1. JobsOK'
  <2>1. stored \ Kept(job[j].keep, stored) \in SUBSET ever
    BY DEF TypeOK
  <2>2. QED
    BY <2>1, PruneGoesOn, OnlyJob DEF ListStore, store
<1>2. ScheduleOK' /\ StoreOK'
  BY SameSchedule, SameStore DEF ListStore
<1>3. CountsOK'
  BY DEF TypeOK, CountsOK, ListStore
<1>4. QED
  BY <1>1, <1>2, <1>3, PartsNext

LEMMA PruneOneTyped ==
    ASSUME TypeOK, NEW j \in Jobs, PruneOne(j)
    PROVE  TypeOK'
<1>1. PICK x \in job[j].doomed :
        /\ stored' = stored \ {x}
        /\ job' = PruneRest(j, job[j].doomed \ {x})
  BY DEF PruneOne
<1>2. JobsOK'
  <2>1. job[j].phase # "idle" /\ job[j].doomed \ {x} \in SUBSET ever
    BY JobsTyped DEF JobOK
  <2>2. PICK r : job' = [job EXCEPT ![j] = r] /\ JobOK(r, ever, now)
    BY <1>1, <2>1, PruneGoesOn
  <2>3. UNCHANGED <<now, ever>>
    BY DEF PruneOne
  <2>4. QED
    BY <2>2, <2>3, OnlyJob
<1>3. ScheduleOK'
  BY SameSchedule DEF PruneOne
<1>4. StoreOK'
  BY <1>1 DEF TypeOK, StoreOK, PruneOne
<1>5. CountsOK'
  BY DEF TypeOK, CountsOK, PruneOne
<1>6. QED
  BY <1>2, <1>3, <1>4, <1>5, PartsNext

LEMMA UnlockTyped ==
    ASSUME TypeOK, NEW j \in Jobs, Unlock(j)
    PROVE  TypeOK'
<1>1. JobsOK'
  <2>1. CASE UNCHANGED job
    BY <2>1, SameJobs DEF Unlock, store
  <2>2. CASE job' = [job EXCEPT ![j] = Idle]
    BY <2>2, OnlyJob, IdleOK, JobsTyped DEF Unlock, store
  <2>3. QED
    BY <2>1, <2>2 DEF Unlock
<1>2. ScheduleOK' /\ StoreOK'
  BY SameSchedule, SameStore DEF Unlock
<1>3. CountsOK'
  BY DEF TypeOK, CountsOK, Unlock
<1>4. QED
  BY <1>1, <1>2, <1>3, PartsNext

LEMMA LockExpiresTyped == ASSUME TypeOK, LockExpires PROVE TypeOK'
<1>1. JobsOK'
  BY SameJobs DEF LockExpires, store
<1>2. ScheduleOK' /\ StoreOK'
  BY SameSchedule, SameStore DEF LockExpires
<1>3. CountsOK'
  BY DEF TypeOK, CountsOK, LockExpires, Working
<1>4. QED
  BY <1>1, <1>2, <1>3, PartsNext

LEMMA DeleteByHandTyped ==
    ASSUME TypeOK, NEW x \in stored, DeleteByHand(x)
    PROVE  TypeOK'
<1>1. JobsOK'
  BY SameJobs DEF DeleteByHand
<1>2. ScheduleOK'
  BY SameSchedule DEF DeleteByHand
<1>3. StoreOK'
  BY DEF TypeOK, StoreOK, DeleteByHand
<1>4. CountsOK'
  BY BackupAssumption DEF TypeOK, CountsOK, DeleteByHand
<1>5. QED
  BY <1>1, <1>2, <1>3, <1>4, PartsNext

LEMMA TypeStep == ASSUME TypeOK, [Next]_vars PROVE TypeOK'
<1>1. CASE Tick
  BY <1>1, TickTyped
<1>2. CASE LockExpires
  BY <1>2, LockExpiresTyped
<1>3. CASE \E x \in stored : DeleteByHand(x)
  BY <1>3, DeleteByHandTyped
<1>4. ASSUME NEW s \in Servers,
             \/ Restart(s)
             \/ \E new \in Settings : SaveSettings(s, new) \/ Reload(s, new)
             \/ \E j \in Jobs : Fire(s, j) \/ Ask(s, j)
      PROVE  TypeOK'
  BY <1>4, RestartTyped, SaveSettingsTyped, ReloadTyped, FireTyped, AskTyped
<1>5. ASSUME NEW j \in Jobs,
             \/ ReadClock(j) \/ TakeTicket(j)
             \/ BuildName(j) \/ TakeLock(j) \/ LockRefused(j)
             \/ Put(j) \/ Fail(j) \/ ReadKeep(j) \/ ListStore(j) \/ PruneOne(j)
             \/ Unlock(j)
      PROVE  TypeOK'
  BY <1>5, ReadClockTyped, TakeTicketTyped, BuildNameTyped, TakeLockTyped, LockRefusedTyped,
     PutTyped, FailTyped, ReadKeepTyped, ListStoreTyped, PruneOneTyped,
     UnlockTyped
<1>6. CASE UNCHANGED vars
  BY <1>6 DEF vars, TypeOK
<1>7. QED
  BY <1>1, <1>2, <1>3, <1>4, <1>5, <1>6 DEF Next

LEMMA InitTyped == Init => TypeOK
<1> SUFFICES ASSUME Init PROVE TypeOK
  OBVIOUS
<1>1. now \in Nat /\ now \in Seconds /\ Minute(now) \in Minutes
  BY BackupAssumption DEF Init, Minutes
<1>2. settings \in Settings /\ settings.keep \in Keeps
  BY DEF Init, Settings
<1>3. settings.keep \in Int
  <2>1. \A k \in Keeps : k \in 1..100
    BY BackupAssumption
  <2>2. QED
    BY <1>2, <2>1
<1>4. JobsOK
  <2>1. Idle \in Job
    BY IdleOK, <1>1 DEF JobOK
  <2>2. QED
    BY <1>1, <2>1, IdleOK DEF Init, JobsOK
<1>5. ScheduleOK
  <2>1. Entry(settings) \in SUBSET Minutes
    BY <1>2, BackupAssumption DEF Entry, Settings
  <2>2. QED
    BY <1>2, <1>3, <2>1 DEF Init, ScheduleOK
<1>6. StoreOK
  BY <1>1 DEF Init, StoreOK
<1>7. CountsOK
  <2>1. 0 \in 0..MaxRuns /\ 0 \in 0..MaxEvents
    BY BackupAssumption
  <2>2. used \in [runs : 0..MaxRuns, events : 0..MaxEvents]
    BY <2>1 DEF Init
  <2>3. tickets \in [Minutes -> Nat] /\ scheduled \subseteq Minutes
    BY DEF Init
  <2>4. QED
    BY <2>2, <2>3 DEF Init, CountsOK
<1>8. QED
  BY <1>4, <1>5, <1>6, <1>7, Parts

\* Type correctness: a job always has one of the phases of BackupNow, a server
\* exactly while it runs and something to delete exactly while Prune deletes;
\* what is in the store was stored, and the smallest limit was once saved.
THEOREM TypeCorrect == Spec => []TypeOK
<1>1. TypeOK /\ [Next]_vars => TypeOK'
  BY TypeStep
<1>2. QED
  BY <1>1, InitTyped, PTL DEF Spec

-----------------------------------------------------------------------------
(***************************************************************************)
(* The lock.                                                               *)
(***************************************************************************)
\* A step that gives no job work and leaves the lock alone.
LEMMA NoNewWorker ==
    ASSUME WorkerHoldsLock, UNCHANGED <<lock, slipped>>,
           \A i \in Jobs : Working(i)' => Working(i)
    PROVE  WorkerHoldsLock'
  BY DEF WorkerHoldsLock

\* A step after which one job alone may have begun or ended its work.
LEMMA OthersWork ==
    ASSUME TypeOK, NEW j \in Jobs, NEW r, job' = [job EXCEPT ![j] = r]
    PROVE  /\ \A i \in Jobs \ {j} : Working(i)' <=> Working(i)
           /\ Working(j)' <=> r.phase \in {"dumping", "saved", "listing",
                                           "pruning", "leaving"}
  BY JobsTyped DEF Working

LEMMA IdleRests == Idle.phase = "idle"
  BY DEF Idle

\* A step of one job from a phase to another.
LEMMA PhaseStep ==
    ASSUME TypeOK, NEW j \in Jobs, NEW p, NEW q, Phase(j, p, q)
    PROVE  /\ \A i \in Jobs \ {j} : Working(i)' <=> Working(i)
           /\ Working(j)' <=> q \in {"dumping", "saved", "listing",
                                     "pruning", "leaving"}
  BY JobsTyped DEF Working, Phase, Job

LEMMA LockStep ==
    ASSUME TypeOK, WorkerHoldsLock, [Next]_vars
    PROVE  WorkerHoldsLock'
<1>1. CASE LockExpires
  BY <1>1 DEF LockExpires, WorkerHoldsLock, Working, TypeOK
<1>2. ASSUME NEW j \in Jobs, TakeLock(j)
      PROVE  WorkerHoldsLock'
  <2>1. \A i \in Jobs \ {j} : Working(i)' <=> Working(i)
    BY <1>2, PhaseStep DEF TakeLock
  <2>2. lock = NoJob /\ lock' = j /\ slipped' = slipped
    BY <1>2 DEF TakeLock, Locked
  <2>3. slipped \/ \A i \in Jobs : ~Working(i)
    BY <2>2, BackupAssumption DEF WorkerHoldsLock
  <2>4. QED
    BY <2>1, <2>2, <2>3 DEF WorkerHoldsLock
<1>3. ASSUME NEW j \in Jobs, LockRefused(j)
      PROVE  WorkerHoldsLock'
  <2>1. \A i \in Jobs : Working(i)' => Working(i)
    BY <1>3, OthersWork, IdleRests DEF LockRefused
  <2>2. CASE UNCHANGED lock
    BY <1>3, <2>1, <2>2, NoNewWorker DEF LockRefused
  <2>3. CASE lock = NoJob /\ lock' = j
    <3>1. slipped \/ \A i \in Jobs : ~Working(i)
      BY <2>3, BackupAssumption DEF WorkerHoldsLock
    <3>2. QED
      BY <1>3, <2>1, <3>1 DEF WorkerHoldsLock, LockRefused
  <2>4. QED
    BY <1>3, <2>2, <2>3 DEF LockRefused, Locked
<1>4. ASSUME NEW j \in Jobs, Unlock(j)
      PROVE  WorkerHoldsLock'
  <2>1. Working(j)
    BY <1>4 DEF Unlock, Working
  <2>2. CASE slipped' = TRUE
    BY <2>2 DEF WorkerHoldsLock
  <2>3. CASE /\ lock' = NoJob \/ lock' = lock
             /\ job' = [job EXCEPT ![j] = Idle]
             /\ UNCHANGED slipped
    <3>1. \A i \in Jobs : Working(i)' => Working(i) /\ i # j
      BY <2>3, OthersWork, IdleRests
    <3>2. slipped \/ \A i \in Jobs \ {j} : ~Working(i)
      BY <2>1 DEF WorkerHoldsLock
    <3>3. QED
      BY <2>3, <3>1, <3>2 DEF WorkerHoldsLock
  <2>4. QED
    BY <1>4, <2>2, <2>3 DEF Unlock
<1>5. ASSUME NEW j \in Jobs,
             \/ ReadClock(j) \/ TakeTicket(j) \/ BuildName(j)
             \/ Put(j) \/ Fail(j) \/ ReadKeep(j) \/ ListStore(j) \/ PruneOne(j)
      PROVE  WorkerHoldsLock'
  <2>1. UNCHANGED <<lock, slipped>>
    BY <1>5 DEF ReadClock, TakeTicket, BuildName, Put, Fail, ReadKeep, ListStore,
                PruneOne
  <2>2. CASE ReadClock(j) \/ TakeTicket(j) \/ BuildName(j)
    <3>1. \A i \in Jobs : Working(i)' => Working(i)
      BY <2>2, JobsTyped, IdleRests DEF ReadClock, TakeTicket, BuildName, Working, Job
    <3>2. QED
      BY <2>1, <3>1, NoNewWorker
  <2>3. CASE Put(j) \/ Fail(j) \/ ReadKeep(j) \/ ListStore(j)
    <3>1. \A i \in Jobs : Working(i)' => Working(i)
      BY <2>3, JobsTyped DEF Put, Phase, Fail, ReadKeep, ListStore, PruneRest, Working, Job
    <3>2. QED
      BY <2>1, <3>1, NoNewWorker
  <2>4. CASE PruneOne(j)
    <3>1. Working(j)
      BY <2>4, JobsTyped DEF PruneOne, JobOK, Working
    <3>2. \A i \in Jobs : Working(i)' => Working(i)
      BY <2>4, <3>1, JobsTyped DEF PruneOne, PruneRest, Working, Job
    <3>3. QED
      BY <2>1, <3>2, NoNewWorker
  <2>5. QED
    BY <1>5, <2>2, <2>3, <2>4
<1>6. ASSUME NEW s \in Servers,
             \/ Restart(s)
             \/ \E new \in Settings : SaveSettings(s, new) \/ Reload(s, new)
             \/ \E j \in Jobs : Fire(s, j) \/ Ask(s, j)
      PROVE  WorkerHoldsLock'
  <2>1. UNCHANGED <<lock, slipped>>
    BY <1>6 DEF Restart, SaveSettings, Reload, Fire, Ask
  <2>2. CASE Restart(s)
    BY <2>1, <2>2, IdleRests, NoNewWorker DEF Restart, Working
  <2>3. CASE \E new \in Settings : SaveSettings(s, new) \/ Reload(s, new)
    BY <2>1, <2>3, NoNewWorker DEF SaveSettings, Reload, Working
  <2>4. ASSUME NEW j \in Jobs, Fire(s, j) \/ Ask(s, j)
        PROVE  WorkerHoldsLock'
    <3>1. PICK p \in {"due", "asked"} :
            job' = [job EXCEPT ![j] = [Idle EXCEPT !.phase = p, !.on = s]]
      BY <2>4 DEF Fire, Ask
    <3>2. [Idle EXCEPT !.phase = p, !.on = s].phase = p
      BY DEF Idle
    <3>3. \A i \in Jobs : Working(i)' => Working(i)
      BY <3>1, <3>2, OthersWork
    <3>4. QED
      BY <2>1, <3>3, NoNewWorker
  <2>5. QED
    BY <1>6, <2>2, <2>3, <2>4
<1>7. CASE Tick \/ (\E x \in stored : DeleteByHand(x)) \/ UNCHANGED vars
  BY <1>7, NoNewWorker DEF Tick, DeleteByHand, vars, Working
<1>8. QED
  BY <1>1, <1>2, <1>3, <1>4, <1>5, <1>6, <1>7 DEF Next

\* Two dumps run at once only after a lock expired under its job, or the
\* deletion of a lock was repeated.
THEOREM OneDump == Spec => []OneDumpAtATime
<1>1. Init => WorkerHoldsLock
  BY IdleRests DEF Init, WorkerHoldsLock, Working
<1>2. TypeOK /\ WorkerHoldsLock /\ [Next]_vars => WorkerHoldsLock'
  BY LockStep
<1>3. WorkerHoldsLock => OneDumpAtATime
  BY DEF WorkerHoldsLock, OneDumpAtATime
<1>4. QED
  BY <1>1, <1>2, <1>3, TypeCorrect, PTL DEF Spec

-----------------------------------------------------------------------------
(***************************************************************************)
(* The schedule.                                                           *)
(***************************************************************************)
\* A second lies in its minute.
LEMMA MinuteOf ==
    ASSUME NEW t \in Nat
    PROVE  LET m == Minute(t)
           IN /\ m \in Nat
              /\ m * MinuteLength <= t /\ t < m * MinuteLength + MinuteLength
<1>1. MinuteLength \in Nat /\ MinuteLength > 0
  BY BackupAssumption
<1>2. QED
  BY <1>1 DEF Minute

\* When a ticket is refused or not, by the minute it is for.
LEMMA TicketOf ==
    ASSUME TypeOK, NEW j \in Jobs
    PROVE  LET t == job[j].name
               m == Minute(t)
           IN /\ m \in Minutes /\ m * MinuteLength \in Nat /\ t \in Nat /\ now \in Nat
              /\ tickets[m] \in Nat /\ MinuteLength \in Nat /\ t <= now
              /\ m * MinuteLength <= t /\ t < m * MinuteLength + MinuteLength
<1> DEFINE t == job[j].name
           m == Minute(t)
<1>1. t \in Nat /\ t <= now /\ now \in Nat
  BY JobsTyped, BackupAssumption DEF JobOK, Job
<1>2. m \in Minutes
  BY MinuteTyped
<1>3. MinuteLength \in Nat
  BY BackupAssumption
<1> HIDE DEF t
<1>4. m \in Nat /\ m * MinuteLength <= t /\ t < m * MinuteLength + MinuteLength
  BY <1>1, MinuteOf
<1> HIDE DEF m
<1>5. m * MinuteLength \in Nat
  BY <1>3, <1>4
<1>6. tickets[m] \in Nat
  BY <1>2 DEF TypeOK
<1>7. QED
  BY <1>1, <1>2, <1>3, <1>4, <1>5, <1>6 DEF m, t

LEMMA TicketStep ==
    ASSUME TypeOK, TicketFirst, [Next]_vars
    PROVE  TicketFirst'
<1>1. CASE UNCHANGED <<scheduled, tickets>>
  BY <1>1 DEF TicketFirst, ScheduleLockTTL
<1>2. ASSUME NEW j \in Jobs, TakeTicket(j)
      PROVE  TicketFirst'
  <2> DEFINE t == job[j].name
             m == Minute(t)
             from == m * MinuteLength
             new == now + ScheduleLockTTL
  <2>1. CASE UNCHANGED <<scheduled, tickets>>
    BY <1>1, <2>1
  <2>2. CASE ~(now < tickets[m]) /\ tickets' = [tickets EXCEPT ![m] = new]
    <3>1. /\ m \in Minutes /\ from \in Nat /\ now \in Nat /\ from <= now
          /\ ScheduleLockTTL \in Nat
      <4>1. t \in Nat /\ t <= now /\ from <= t /\ now \in Nat /\ from \in Nat
            /\ m \in Minutes /\ MinuteLength \in Nat
        BY TicketOf
      <4>2. ScheduleLockTTL \in Nat
        BY <4>1 DEF ScheduleLockTTL
      <4> HIDE DEF from, t, m
      <4>3. QED
        BY <4>1, <4>2
    <3>2. scheduled' = scheduled \/ scheduled' = scheduled \cup {m}
      BY <1>2 DEF TakeTicket
    <3> HIDE DEF from, m, t
    <3>3. new >= from + ScheduleLockTTL
      BY <3>1
    <3> HIDE DEF new
    <3>4. ASSUME NEW i \in scheduled', i # m
          PROVE  tickets'[i] >= i * MinuteLength + ScheduleLockTTL
      <4>1. i \in scheduled /\ i \in Minutes
        BY <3>2, <3>4 DEF TypeOK
      <4>2. tickets'[i] = tickets[i]
        BY <2>2, <3>4, <4>1 DEF TypeOK
      <4>3. QED
        BY <4>1, <4>2 DEF TicketFirst
    <3>5. tickets'[m] = new
      BY <2>2, <3>1 DEF TypeOK
    <3>6. QED
      BY <3>3, <3>4, <3>5 DEF TicketFirst, from, ScheduleLockTTL
  <2>3. QED
    BY <1>2, <2>1, <2>2 DEF TakeTicket
<1>3. ASSUME NEW j \in Jobs,
             \/ ReadClock(j) \/ BuildName(j) \/ TakeLock(j) \/ LockRefused(j)
             \/ Put(j) \/ Fail(j) \/ ReadKeep(j) \/ ListStore(j) \/ PruneOne(j)
             \/ Unlock(j)
      PROVE  UNCHANGED <<scheduled, tickets>>
  BY <1>3 DEF ReadClock, BuildName, TakeLock, LockRefused, Put, Fail, ReadKeep,
              ListStore, PruneOne, Unlock
<1>4. ASSUME NEW s \in Servers,
             \/ Restart(s)
             \/ \E new \in Settings : SaveSettings(s, new) \/ Reload(s, new)
             \/ \E j \in Jobs : Fire(s, j) \/ Ask(s, j)
      PROVE  UNCHANGED <<scheduled, tickets>>
  BY <1>4 DEF Restart, SaveSettings, Reload, Fire, Ask
<1>5. CASE \/ Tick \/ LockExpires \/ (\E x \in stored : DeleteByHand(x))
           \/ UNCHANGED vars
  BY <1>5, <1>1 DEF Tick, LockExpires, DeleteByHand, vars
<1>6. QED
  BY <1>1, <1>2, <1>3, <1>4, <1>5 DEF Next

\* Only TakeTicket turns a job that has read the clock into one that backs up.
LEMMA AskedByTicket ==
    ASSUME TypeOK, [Next]_vars, NEW j \in Jobs, job[j].phase = "timed", job'[j].phase = "asked"
    PROVE  TakeTicket(j)
<1>1. ASSUME NEW i \in Jobs, TakeTicket(i)
      PROVE  i = j
  <2>1. \/ job' = [job EXCEPT ![i] = Idle]
        \/ job' = [job EXCEPT ![i].phase = "asked", ![i].name = 0]
    BY <1>1 DEF TakeTicket
  <2>2. i # j => job'[j] = job[j]
    BY <2>1, JobsTyped
  <2>3. QED
    BY <2>2
<1>2. ASSUME NEW i \in Jobs,
             \/ ReadClock(i) \/ BuildName(i) \/ TakeLock(i) \/ LockRefused(i)
             \/ Put(i) \/ Fail(i) \/ ReadKeep(i) \/ ListStore(i) \/ PruneOne(i)
             \/ Unlock(i)
      PROVE  FALSE
  <2>1. ~(LockRefused(i) \/ Fail(i) \/ Unlock(i))
    BY JobsTyped, IdleRests DEF LockRefused, Fail, Unlock, Idle
  <2>2. ~(BuildName(i) \/ TakeLock(i) \/ Put(i))
    BY JobsTyped DEF BuildName, TakeLock, Phase, Put, Job
  <2>3. ~(ListStore(i) \/ PruneOne(i))
    <3>1. ASSUME NEW rest, job' = PruneRest(i, rest)
          PROVE  FALSE
      BY <3>1, JobsTyped DEF PruneRest, Job
    <3>2. QED
      BY <3>1 DEF ListStore, PruneOne
  <2>4. ~(ReadClock(i) \/ ReadKeep(i))
    BY JobsTyped DEF ReadClock, ReadKeep, Job
  <2>5. QED
    BY <1>2, <2>1, <2>2, <2>3, <2>4
<1>3. ASSUME NEW s \in Servers,
             \/ Restart(s)
             \/ \E new \in Settings : SaveSettings(s, new) \/ Reload(s, new)
             \/ \E i \in Jobs : Fire(s, i) \/ Ask(s, i)
      PROVE  FALSE
  BY <1>3, JobsTyped, IdleRests DEF Restart, SaveSettings, Reload, Fire, Ask
<1>4. CASE \/ Tick \/ LockExpires \/ (\E x \in stored : DeleteByHand(x))
           \/ UNCHANGED vars
  BY <1>4 DEF Tick, LockExpires, DeleteByHand, vars
<1>5. QED
  BY <1>1, <1>2, <1>3, <1>4 DEF Next

\* A ticket that is asked for within a minute of reading the clock is asked
\* for within two of the minute's beginning.
LEMMA LateIsStopped ==
    ASSUME TypeOK, TicketFirst, NEW j \in Jobs, TakeTicket(j), job'[j].phase = "asked",
           Minute(job[j].name) \in scheduled
    PROVE  now - job[j].name > MinuteLength
<1> DEFINE t == job[j].name
           m == Minute(t)
           from == m * MinuteLength
<1>1. ~(now < tickets[m])
  BY JobsTyped, IdleRests DEF TakeTicket
<1>2. /\ from \in Nat /\ t \in Nat /\ now \in Nat /\ tickets[m] \in Nat
      /\ MinuteLength \in Nat /\ t < from + MinuteLength
  BY TicketOf
<1>3. tickets[m] >= from + 2 * MinuteLength
  BY DEF TicketFirst, ScheduleLockTTL
<1> HIDE DEF t, m, from
<1>4. now - t > MinuteLength
  BY <1>1, <1>2, <1>3
<1>5. QED
  BY <1>4 DEF t

\* However many servers fire in a minute, on time or late, whichever of them
\* restarts and whichever replies are lost: of those that find the minute on
\* the clock one begins its backup.  A second one had been stopped for more
\* than a minute before it asked; the ticket's two minutes cover all others.
THEOREM OneTicket == Spec => ScheduledOnce
<1>1. Init => TicketFirst
  BY DEF Init, TicketFirst
<1>2. TypeOK /\ TicketFirst /\ [Next]_vars => TicketFirst'
  BY TicketStep
<1>3. TypeOK /\ TicketFirst /\ [Next]_vars =>
        [\A j \in Jobs :
           /\ job[j].phase = "timed" /\ job'[j].phase = "asked"
           /\ Minute(job[j].name) \in scheduled
           => now - job[j].name > MinuteLength]_vars
  BY AskedByTicket, LateIsStopped
<1>4. QED
  BY <1>1, <1>2, <1>3, TypeCorrect, PTL DEF Spec, ScheduledOnce

-----------------------------------------------------------------------------
(***************************************************************************)
(* Pruning.                                                                *)
(***************************************************************************)
LEMMA FewerAbove ==
    ASSUME NEW S, IsFiniteSet(S), NEW T \in SUBSET S, NEW x
    PROVE  /\ Cardinality({y \in T : y > x}) \in Nat
           /\ Cardinality({y \in S : y > x}) \in Nat
           /\ Cardinality({y \in T : y > x}) <= Cardinality({y \in S : y > x})
<1> DEFINE A == {y \in S : y > x}
           B == {y \in T : y > x}
<1>1. A \in SUBSET S /\ B \in SUBSET A
  OBVIOUS
<1> HIDE DEF A, B
<1>2. IsFiniteSet(A)
  BY <1>1, FS_Subset
<1>3. IsFiniteSet(B) /\ Cardinality(B) <= Cardinality(A)
  BY <1>1, <1>2, FS_Subset
<1>4. Cardinality(A) \in Nat /\ Cardinality(B) \in Nat
  BY <1>2, <1>3, FS_CardinalityType
<1>5. QED
  BY <1>3, <1>4 DEF A, B

LEMMA EverFinite ==
    ASSUME TypeOK
    PROVE  IsFiniteSet(ever) /\ leastKeep \in Int /\ settings.keep \in Int
<1>1. now \in Int /\ ever \in SUBSET (0..now)
  BY EverPast
<1>2. IsFiniteSet(0..now)
  BY <1>1, FS_Interval
<1>3. IsFiniteSet(ever)
  BY <1>1, <1>2, FS_Subset
<1>4. \A k \in Keeps : k \in 1..100
  BY BackupAssumption
<1>5. QED
  BY <1>3, <1>4 DEF TypeOK, Settings

\* What is kept of a subset of the names ever stored: the rest has enough
\* names above it.
LEMMA RestIsOld ==
    ASSUME TypeOK, NEW k \in Int, k >= leastKeep,
           NEW x \in stored \ Kept(k, stored)
    PROVE  Cardinality(Above(x)) >= leastKeep
<1>1. stored \in SUBSET ever /\ IsFiniteSet(ever) /\ leastKeep \in Int
  BY EverFinite DEF TypeOK
<1>2. ~(Cardinality({y \in stored : y > x}) < k)
  BY DEF Kept, Newest
<1>3. /\ Cardinality({y \in stored : y > x}) \in Nat
      /\ Cardinality(Above(x)) \in Nat
      /\ Cardinality({y \in stored : y > x}) <= Cardinality(Above(x))
  BY <1>1, FewerAbove DEF Above
<1>4. QED
  BY <1>1, <1>2, <1>3

\* Names are only added, and the smallest limit only falls.
LEMMA StillOld ==
    ASSUME TypeOK, TypeOK', ever \subseteq ever', leastKeep' <= leastKeep,
           NEW x, Cardinality(Above(x)) >= leastKeep
    PROVE  Cardinality(Above(x)') >= leastKeep'
<1>1. IsFiniteSet(ever') /\ leastKeep' \in Int
  <2>1. now' \in Int /\ ever' \in SUBSET (0..now')
    BY EverPastNext
  <2>2. IsFiniteSet(0..now')
    BY <2>1, FS_Interval
  <2>3. IsFiniteSet(ever')
    BY <2>1, <2>2, FS_Subset
  <2>4. leastKeep' \in Keeps
    BY DEF TypeOK
  <2>5. \A k \in Keeps : k \in 1..100
    BY BackupAssumption
  <2>6. QED
    BY <2>3, <2>4, <2>5
<1>2. /\ Cardinality(Above(x)) \in Nat /\ Cardinality(Above(x)') \in Nat
      /\ Cardinality(Above(x)) <= Cardinality(Above(x)')
  BY <1>1, FewerAbove DEF Above
<1>3. leastKeep \in Int
  BY EverFinite
<1>4. QED
  BY <1>1, <1>2, <1>3

\* Ever grows and the smallest limit falls, in every step.
LEMMA OnlyMore ==
    ASSUME TypeOK, [Next]_vars
    PROVE  ever \subseteq ever' /\ leastKeep' <= leastKeep
<1>1. leastKeep \in Int
  BY EverFinite
<1>2. CASE UNCHANGED <<ever, leastKeep>>
  BY <1>1, <1>2
<1>3. ASSUME NEW j \in Jobs, Put(j)
      PROVE  ever \subseteq ever' /\ leastKeep' <= leastKeep
  BY <1>1, <1>3 DEF Put, schedule
<1>4. ASSUME NEW s \in Servers, NEW new \in Settings, SaveSettings(s, new)
      PROVE  ever \subseteq ever' /\ leastKeep' <= leastKeep
  <2>1. new.keep \in Int
    <3>1. \A k \in Keeps : k \in 1..100
      BY BackupAssumption
    <3>2. QED
      BY <3>1 DEF Settings
  <2>2. QED
    BY <1>1, <1>4, <2>1 DEF SaveSettings, store
<1>5. ASSUME NEW j \in Jobs,
             \/ ReadClock(j) \/ TakeTicket(j)
             \/ BuildName(j) \/ TakeLock(j) \/ LockRefused(j)
             \/ Fail(j) \/ ReadKeep(j) \/ ListStore(j) \/ PruneOne(j) \/ Unlock(j)
      PROVE  UNCHANGED <<ever, leastKeep>>
  BY <1>5 DEF ReadClock, TakeTicket, BuildName, TakeLock, LockRefused, Fail, ReadKeep,
              ListStore, PruneOne, Unlock, schedule, store
<1>6. ASSUME NEW s \in Servers,
             \/ Restart(s) \/ \E new \in Settings : Reload(s, new)
             \/ \E j \in Jobs : Fire(s, j) \/ Ask(s, j)
      PROVE  UNCHANGED <<ever, leastKeep>>
  BY <1>6 DEF Restart, Reload, Fire, Ask, schedule, store
<1>7. CASE \/ Tick \/ LockExpires \/ (\E x \in stored : DeleteByHand(x))
           \/ UNCHANGED vars
  BY <1>2, <1>7 DEF Tick, LockExpires, DeleteByHand, vars, schedule, store
<1>8. QED
  BY <1>2, <1>3, <1>4, <1>5, <1>6, <1>7 DEF Next

\* A step in which no job lists the store and none has more to delete.
LEMMA NoMoreDoomed ==
    ASSUME TypeOK, TypeOK', DoomedIsOld, [Next]_vars,
           NEW i \in Jobs, job'[i].doomed \subseteq job[i].doomed,
           job'[i].phase = "listing" => job[i].phase = "listing" /\ job'[i].keep = job[i].keep
    PROVE  /\ job'[i].phase = "listing" => job'[i].keep >= leastKeep'
           /\ \A x \in job'[i].doomed : Cardinality(Above(x)') >= leastKeep'
<1>1. leastKeep \in Int /\ leastKeep' \in Int /\ job[i].keep \in Int
  <2>1. \A k \in Keeps : k \in 1..100
    BY BackupAssumption
  <2>2. job[i].keep \in Keeps \cup {0}
    BY DEF TypeOK, Job
  <2>3. leastKeep \in Keeps /\ leastKeep' \in Keeps
    BY DEF TypeOK
  <2>4. QED
    BY <2>1, <2>2, <2>3
<1>2. ever \subseteq ever' /\ leastKeep' <= leastKeep
  BY OnlyMore
<1>3. job'[i].phase = "listing" => job'[i].keep >= leastKeep'
  BY <1>1, <1>2 DEF DoomedIsOld
<1>4. ASSUME NEW x \in job'[i].doomed
      PROVE  Cardinality(Above(x)') >= leastKeep'
  <2>1. Cardinality(Above(x)) >= leastKeep
    BY <1>4 DEF DoomedIsOld
  <2>2. QED
    BY <1>2, <2>1, StillOld
<1>5. QED
  BY <1>3, <1>4

LEMMA DoomedStep ==
    ASSUME TypeOK, TypeOK', DoomedIsOld, [Next]_vars
    PROVE  DoomedIsOld'
<1> DEFINE Less(i) ==
      /\ job'[i].doomed \subseteq job[i].doomed
      /\ job'[i].phase = "listing" =>
           job[i].phase = "listing" /\ job'[i].keep = job[i].keep
<1>1. CASE \A i \in Jobs : Less(i)
  BY <1>1, NoMoreDoomed DEF DoomedIsOld
<1>2. ASSUME NEW j \in Jobs, ReadKeep(j)
      PROVE  DoomedIsOld'
  <2>1. \A i \in Jobs \ {j} : Less(i)
    BY <1>2, JobsTyped DEF ReadKeep
  <2>2. job'[j].keep = settings.keep /\ job'[j].doomed = job[j].doomed
    BY <1>2, JobsTyped DEF ReadKeep, Job
  <2>3. settings.keep >= leastKeep
    BY EverFinite DEF TypeOK
  <2>4. leastKeep' = leastKeep /\ job[j].doomed = {}
    BY <1>2, JobsTyped DEF ReadKeep, schedule, JobOK
  <2>5. QED
    BY <2>1, <2>2, <2>3, <2>4, NoMoreDoomed DEF DoomedIsOld
<1>3. ASSUME NEW j \in Jobs, ListStore(j)
      PROVE  DoomedIsOld'
  <2> DEFINE rest == stored \ Kept(job[j].keep, stored)
  <2>1. \A i \in Jobs \ {j} : Less(i)
    BY <1>3, JobsTyped DEF ListStore, PruneRest
  <2>2. job'[j].doomed = rest /\ job'[j].phase # "listing"
    <3>1. rest \in SUBSET ever
      BY DEF TypeOK
    <3>2. QED
      BY <1>3, <3>1, PruneGoesOn DEF ListStore
  <2>3. \A x \in rest : Cardinality(Above(x)) >= leastKeep
    <3>1. job[j].keep >= leastKeep
      BY <1>3 DEF ListStore, DoomedIsOld
    <3>2. job[j].keep \in Int
      <4>1. \A k \in Keeps : k \in 1..100
        BY BackupAssumption
      <4>2. job[j].keep \in Keeps \cup {0}
        BY DEF TypeOK, Job
      <4>3. QED
        BY <4>1, <4>2
    <3>3. QED
      BY <3>1, <3>2, RestIsOld
  <2>4. UNCHANGED <<ever, leastKeep>>
    BY <1>3 DEF ListStore, schedule, store
  <2>5. \A x \in rest : Cardinality(Above(x)') >= leastKeep'
    BY <2>3, <2>4 DEF Above
  <2> HIDE DEF rest
  <2>6. QED
    BY <2>1, <2>2, <2>5, NoMoreDoomed DEF DoomedIsOld
<1>4. ASSUME NEW j \in Jobs, PruneOne(j)
      PROVE  \A i \in Jobs : Less(i)
  <2>1. PICK y \in job[j].doomed : job' = PruneRest(j, job[j].doomed \ {y})
    BY <1>4 DEF PruneOne
  <2>2. job[j].phase # "idle" /\ job[j].doomed \ {y} \in SUBSET ever
    BY <1>4, JobsTyped DEF PruneOne, JobOK
  <2>3. job'[j].doomed = job[j].doomed \ {y} /\ job'[j].phase # "listing"
    BY <2>1, <2>2, PruneGoesOn
  <2>4. \A i \in Jobs \ {j} : job'[i] = job[i]
    BY <2>1, JobsTyped DEF PruneRest
  <2>5. QED
    BY <2>3, <2>4
<1>5. ASSUME NEW j \in Jobs, TakeTicket(j) \/ LockRefused(j) \/ Unlock(j)
      PROVE  \A i \in Jobs : Less(i)
  <2>1. Idle.doomed = {} /\ Idle.phase = "idle"
    BY DEF Idle
  <2>2. CASE job' = [job EXCEPT ![j] = Idle]
    BY <2>1, <2>2, JobsTyped
  <2>3. CASE UNCHANGED job \/ job' = [job EXCEPT ![j].phase = "asked", ![j].name = 0]
    BY <2>3, JobsTyped DEF Job
  <2>4. QED
    BY <1>5, <2>2, <2>3 DEF TakeTicket, LockRefused, Unlock
<1>6. ASSUME NEW j \in Jobs,
             ReadClock(j) \/ BuildName(j) \/ TakeLock(j) \/ Put(j) \/ Fail(j)
      PROVE  \A i \in Jobs : Less(i)
  <2>1. PICK r : /\ job' = [job EXCEPT ![j] = r]
                 /\ r.doomed \subseteq job[j].doomed /\ r.phase # "listing"
    <3>1. ASSUME NEW p \in {"timed", "named", "dumping", "saved"}, NEW t,
                 \/ job' = [job EXCEPT ![j].phase = p]
                 \/ job' = [job EXCEPT ![j].phase = p, ![j].name = t]
          PROVE  \E r : /\ job' = [job EXCEPT ![j] = r]
                        /\ r.doomed \subseteq job[j].doomed /\ r.phase # "listing"
      <4> DEFINE q == [job[j] EXCEPT !.phase = p]
                 z == [job[j] EXCEPT !.phase = p, !.name = t]
      <4>1. job[j] \in Job
        BY JobsTyped
      <4>2. /\ q.doomed = job[j].doomed /\ q.phase = p
            /\ z.doomed = job[j].doomed /\ z.phase = p
        BY <4>1 DEF Job
      <4>3. job' = [job EXCEPT ![j] = q] \/ job' = [job EXCEPT ![j] = z]
        BY <3>1
      <4> HIDE DEF q, z
      <4>4. QED
        BY <4>2, <4>3
    <3>2. CASE ReadClock(j) \/ BuildName(j)
      BY <3>1, <3>2 DEF ReadClock, BuildName
    <3>3. CASE TakeLock(j)
      BY <3>1, <3>3 DEF TakeLock, Phase
    <3>4. CASE Put(j)
      BY <3>1, <3>4 DEF Put
    <3>5. CASE Fail(j)
      <4> DEFINE q == [Idle EXCEPT !.phase = "leaving", !.on = job[j].on]
      <4>1. q.doomed = {} /\ q.phase = "leaving"
        BY DEF Idle
      <4>2. job' = [job EXCEPT ![j] = q]
        BY <3>5 DEF Fail
      <4> HIDE DEF q
      <4>3. QED
        BY <4>1, <4>2
    <3>6. QED
      BY <1>6, <3>2, <3>3, <3>4, <3>5
  <2>2. QED
    BY <2>1, JobsTyped
<1>7. ASSUME NEW s \in Servers,
             \/ Restart(s)
             \/ \E new \in Settings : SaveSettings(s, new) \/ Reload(s, new)
             \/ \E j \in Jobs : Fire(s, j) \/ Ask(s, j)
      PROVE  \A i \in Jobs : Less(i)
  <2>1. Idle.doomed = {} /\ Idle.phase = "idle"
    BY DEF Idle
  <2>2. CASE Restart(s)
    BY <2>1, <2>2 DEF Restart
  <2>3. CASE \E new \in Settings : SaveSettings(s, new) \/ Reload(s, new)
    BY <2>3 DEF SaveSettings, Reload
  <2>4. ASSUME NEW j \in Jobs, Fire(s, j) \/ Ask(s, j)
        PROVE  \A i \in Jobs : Less(i)
    <3>1. PICK p \in {"due", "asked"} :
            job' = [job EXCEPT ![j] = [Idle EXCEPT !.phase = p, !.on = s]]
      BY <2>4 DEF Fire, Ask
    <3> DEFINE r == [Idle EXCEPT !.phase = p, !.on = s]
    <3>2. r.phase = p /\ r.doomed = {}
      BY DEF Idle
    <3>3. job' = [job EXCEPT ![j] = r]
      BY <3>1
    <3> HIDE DEF r
    <3>4. QED
      BY <3>2, <3>3, JobsTyped
  <2>5. QED
    BY <1>7, <2>2, <2>3, <2>4
<1>8. CASE \/ Tick \/ LockExpires \/ (\E x \in stored : DeleteByHand(x))
           \/ UNCHANGED vars
  <2>1. UNCHANGED job
    BY <1>8 DEF Tick, LockExpires, DeleteByHand, vars
  <2>2. QED
    BY <1>1, <2>1
<1>9. QED
  BY <1>1, <1>2, <1>3, <1>4, <1>5, <1>6, <1>7, <1>8 DEF Next

LEMMA KeepsStep ==
    ASSUME TypeOK, TypeOK', DoomedIsOld, KeepsTheNewest, [Next]_vars
    PROVE  KeepsTheNewest'
<1> SUFFICES ASSUME NEW x \in ever', Cardinality(Above(x)') < leastKeep'
             PROVE  x \in stored' \cup byHand'
  BY DEF KeepsTheNewest, Newest, Above
<1>1. /\ Cardinality(Above(x)) \in Nat /\ Cardinality(Above(x)') \in Nat
      /\ leastKeep \in Int /\ leastKeep' \in Int
  <2>1. IsFiniteSet(ever') /\ ever \in SUBSET ever'
    <3>1. now' \in Int /\ ever' \in SUBSET (0..now')
      BY EverPastNext
    <3>2. IsFiniteSet(0..now')
      BY <3>1, FS_Interval
    <3>3. QED
      BY <3>1, <3>2, FS_Subset, OnlyMore
  <2>2. Cardinality(Above(x)) \in Nat /\ Cardinality(Above(x)') \in Nat
    BY <2>1, FewerAbove DEF Above
  <2>3. leastKeep \in Keeps /\ leastKeep' \in Keeps
    BY DEF TypeOK
  <2>4. \A k \in Keeps : k \in 1..100
    BY BackupAssumption
  <2>5. QED
    BY <2>2, <2>3, <2>4
<1>2. Cardinality(Above(x)) < leastKeep
  BY <1>1, OnlyMore, StillOld
<1>3. x \in ever => x \in stored \cup byHand
  BY <1>2 DEF KeepsTheNewest, Newest, Above
<1>4. ASSUME NEW j \in Jobs, Put(j)
      PROVE  x \in stored' \cup byHand'
  BY <1>3, <1>4 DEF Put
<1>5. ASSUME NEW j \in Jobs, PruneOne(j)
      PROVE  x \in stored' \cup byHand'
  <2>1. PICK y \in job[j].doomed : stored' = stored \ {y}
    BY <1>5 DEF PruneOne
  <2>2. x # y
    BY <1>1, <1>2, <2>1 DEF DoomedIsOld
  <2>3. x \in ever /\ byHand' = byHand
    BY <1>5 DEF PruneOne
  <2>4. QED
    BY <1>3, <2>1, <2>2, <2>3
<1>6. ASSUME NEW y \in stored, DeleteByHand(y)
      PROVE  x \in stored' \cup byHand'
  BY <1>3, <1>6 DEF DeleteByHand
<1>7. CASE UNCHANGED store
  BY <1>3, <1>7 DEF store
<1>8. ASSUME NEW j \in Jobs,
             \/ ReadClock(j) \/ TakeTicket(j)
             \/ BuildName(j) \/ TakeLock(j) \/ LockRefused(j)
             \/ Fail(j) \/ ReadKeep(j) \/ ListStore(j) \/ Unlock(j)
      PROVE  UNCHANGED store
  BY <1>8 DEF ReadClock, TakeTicket, BuildName, TakeLock, LockRefused, Fail, ReadKeep,
              ListStore, Unlock
<1>9. ASSUME NEW s \in Servers,
             \/ Restart(s)
             \/ \E new \in Settings : SaveSettings(s, new) \/ Reload(s, new)
             \/ \E j \in Jobs : Fire(s, j) \/ Ask(s, j)
      PROVE  UNCHANGED store
  BY <1>9 DEF Restart, SaveSettings, Reload, Fire, Ask
<1>10. CASE Tick \/ LockExpires \/ UNCHANGED vars
  BY <1>7, <1>10 DEF Tick, LockExpires, vars, store
<1>11. QED
  BY <1>4, <1>5, <1>6, <1>7, <1>8, <1>9, <1>10 DEF Next

\* However old the listing and the limit that a Prune works with, and whatever
\* is pruned and deleted beside it: the newest backups ever made, as many as
\* the smallest limit ever saved, stay unless somebody deletes them by hand.
THEOREM NewestKept == Spec => []KeepsTheNewest
<1>1. Init => DoomedIsOld
  BY DEF Init, DoomedIsOld, Idle
<1>2. Init => KeepsTheNewest
  BY DEF Init, KeepsTheNewest, Newest
<1>3. TypeOK /\ TypeOK' /\ DoomedIsOld /\ [Next]_vars => DoomedIsOld'
  BY DoomedStep
<1>4. TypeOK /\ TypeOK' /\ DoomedIsOld /\ KeepsTheNewest /\ [Next]_vars => KeepsTheNewest'
  BY KeepsStep
<1>5. QED
  BY <1>1, <1>2, <1>3, <1>4, TypeCorrect, PTL DEF Spec
=============================================================================
