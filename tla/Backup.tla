------------------------------- MODULE Backup -------------------------------
(***************************************************************************)
(* Database backups: server/backup (BackupNow, Prune, the scheduler) and   *)
(* the administrator's handlers of server/api/admin/backups.go.  Several   *)
(* servers share one database, one Redis and one object store.             *)
(*                                                                         *)
(* A backup job takes the lock "backup:running" with SETNX, dumps, stores  *)
(* the dump under a name that is the second it was asked for, reads the    *)
(* settings, lists the store and deletes what lies beyond the keep newest, *)
(* one object at a time; whatever happened, it deletes the lock last.      *)
(* Scheduled jobs first take a ticket of the minute they find on the       *)
(* clock, with SETNX too; it expires after two minutes.                    *)
(*                                                                         *)
(* A dump's contents, its size and the database's name are left out; a job *)
(* forgets its dump's name and its limit when it needs them no more.  All  *)
(* servers read one clock (now, in seconds); the cron expression is the    *)
(* set of minutes it is due in.  The lock's expiry, 24 hours after it was  *)
(* taken, is an action of its own: a dump may take that long.              *)
(***************************************************************************)
EXTENDS Integers, FiniteSets

CONSTANTS Servers, Jobs, NoJob, NoServer,
          Keeps,         \* the values of backup_keep the administrators use
          Crons,         \* the cron expressions, as sets of minutes
          MinuteLength,  \* seconds of a minute
          Seconds,       \* bound: the seconds in which something happens
          MaxRuns,       \* bound: backups begun
          MaxEvents      \* bound: settings saved, restarts, deletions by hand

Minute(t) == t \div MinuteLength
Minutes == {Minute(t) : t \in Seconds}

ASSUME BackupAssumption ==
  /\ NoJob \notin Jobs /\ NoServer \notin Servers
  /\ Keeps \subseteq 1..100 /\ Keeps # {}
  /\ Crons \subseteq SUBSET Minutes
  /\ MinuteLength \in Nat \ {0}
  /\ Seconds \subseteq Nat /\ 0 \in Seconds
  /\ MaxRuns \in Nat /\ MaxEvents \in Nat

VARIABLES
  now,        \* the clock
  settings,   \* the rows backup_enabled, backup_keep, backup_cron
  pending,    \* saved updates whose Scheduler.Reload is still to come
  entry,      \* [server -> the minutes its cron entry is still due in; {}
              \*            without an entry]
  tickets,    \* [minute -> when its schedule lock expires, 0 if never taken]
  lock,       \* the job that set "backup:running", NoJob when unset
  job,        \* [job -> what BackupNow is doing]
  stored,     \* the names of the backups in the store
  ever,       \* history: the names ever stored
  byHand,     \* history: the names an administrator deleted since
  leastKeep,  \* history: the smallest backup_keep ever saved
  scheduled,  \* history: the minutes for which a scheduled backup was begun
  slipped,    \* history: a lock expired under its job, or was deleted twice
  used        \* [runs, events -> the bounded counters]

vars == <<now, settings, pending, entry, tickets, lock, job, stored,
          ever, byHand, leastKeep, scheduled, slipped, used>>
store == <<stored, ever, byHand>>
schedule == <<settings, pending, entry, leastKeep>>

\* Reload drops the old entry and adds one only when backups are enabled; the
\* cron library looks for its next due minute from the present one.
Entry(s) == IF s.enabled THEN {m \in s.cron : m > Minute(now)} ELSE {}

\* CleanSettings admits a keep between 1 and 100 (Keeps) and a valid cron.
Settings == [enabled : BOOLEAN, keep : Keeps, cron : Crons]

Phases == {"idle", "due", "timed", "asked", "named", "dumping", "saved",
           "listing", "pruning", "leaving"}
Idle == [phase |-> "idle", on |-> NoServer, name |-> 0, keep |-> 0,
         doomed |-> {}]

Job == [phase : Phases, on : Servers \cup {NoServer}, name : Seconds,
        keep : Keeps \cup {0}, doomed : SUBSET Seconds]

TypeOK ==
  /\ now \in Seconds
  /\ settings \in Settings
  /\ pending \subseteq Servers \X Settings
  /\ entry \in [Servers -> SUBSET Minutes]
  /\ tickets \in [Minutes -> Nat]
  /\ lock \in Jobs \cup {NoJob}
  /\ job \in [Jobs -> Job]
  /\ \A j \in Jobs :
       /\ (job[j].phase = "idle") <=> (job[j].on = NoServer)
       /\ (job[j].phase = "pruning") <=> (job[j].doomed # {})
       /\ job[j].doomed \subseteq ever /\ job[j].name <= now
  /\ stored \subseteq ever /\ byHand \subseteq ever \ stored
  /\ ever \subseteq {x \in Seconds : x <= now}
  /\ leastKeep \in Keeps /\ leastKeep <= settings.keep
  /\ scheduled \subseteq Minutes
  /\ slipped \in BOOLEAN
  /\ used \in [runs : 0..MaxRuns, events : 0..MaxEvents]

Init ==
  /\ now = 0
  /\ settings \in Settings
  /\ pending = {}
  /\ entry = [s \in Servers |-> Entry(settings)]
  /\ tickets = [m \in Minutes |-> 0] /\ lock = NoJob
  /\ job = [j \in Jobs |-> Idle]
  /\ stored = {} /\ ever = {} /\ byHand = {}
  /\ leastKeep = settings.keep
  /\ scheduled = {}
  /\ slipped = FALSE
  /\ used = [runs |-> 0, events |-> 0]

Tick ==
  /\ now' \in {t \in Seconds : t > now}
  /\ UNCHANGED <<schedule, tickets, lock, job, store, scheduled, slipped, used>>

-----------------------------------------------------------------------------
(* Settings and the schedule. *)

\* updateBackupSettings: the rows are saved in one transaction ...
SaveSettings(s, new) ==
  /\ used.events < MaxEvents
  /\ used' = [used EXCEPT !.events = @ + 1]
  /\ settings' = new
  /\ leastKeep' = IF new.keep < leastKeep THEN new.keep ELSE leastKeep
  /\ pending' = pending \cup {<<s, new>>}
  /\ UNCHANGED <<now, entry, tickets, lock, job, store, scheduled, slipped>>

\* ... and only the server that saved them reloads its scheduler, later.
Reload(s, new) ==
  /\ <<s, new>> \in pending
  /\ pending' = pending \ {<<s, new>>}
  /\ entry' = [entry EXCEPT ![s] = Entry(new)]
  /\ UNCHANGED <<now, settings, tickets, lock, job, store, leastKeep, scheduled,
                 slipped, used>>

\* A server restarts: its jobs and updates are gone, the lock stays, and
\* StartScheduler loads the saved settings (or fails to, and has no entry).
Restart(s) ==
  /\ used.events < MaxEvents
  /\ used' = [used EXCEPT !.events = @ + 1]
  /\ job' = [j \in Jobs |-> IF job[j].on = s THEN Idle ELSE job[j]]
  /\ pending' = {p \in pending : p[1] # s}
  /\ \E e \in {Entry(settings), {}} : entry' = [entry EXCEPT ![s] = e]
  /\ UNCHANGED <<now, settings, tickets, lock, store, leastKeep, scheduled,
                 slipped>>

\* The cron library runs a due entry once, late if it must, and then looks
\* for the next due minute from the present one, as Entry does.
Fire(s, j) ==
  /\ job[j].phase = "idle"
  /\ \E m \in entry[s] : m <= Minute(now)
  /\ used.runs < MaxRuns
  /\ used' = [used EXCEPT !.runs = @ + 1]
  /\ entry' = [entry EXCEPT ![s] = {m \in @ : m > Minute(now)}]
  /\ job' = [job EXCEPT ![j] = [Idle EXCEPT !.phase = "due", !.on = s]]
  /\ UNCHANGED <<now, settings, pending, tickets, lock, store, leastKeep,
                 scheduled, slipped>>

\* Mutant: a second for two minutes.
OneSecond == 1

ScheduleLockTTL == 2 * MinuteLength

\* The key is for the minute on the clock, which is read first ...
ReadClock(j) ==
  /\ job[j].phase = "due"
  /\ job' = [job EXCEPT ![j].phase = "timed", ![j].name = now]
  /\ UNCHANGED <<now, schedule, tickets, lock, store, scheduled, slipped, used>>

\* ... acquireScheduleLock: SETNX of the minute's key, whose reply may be lost.
TakeTicket(j) ==
  LET m == Minute(job[j].name)
  IN /\ job[j].phase = "timed"
     /\ \/ /\ now < tickets[m]
           /\ job' = [job EXCEPT ![j] = Idle]
           /\ UNCHANGED <<tickets, scheduled>>
        \/ /\ ~(now < tickets[m])
           /\ tickets' = [tickets EXCEPT ![m] = now + ScheduleLockTTL]
           /\ \/ /\ job' = [job EXCEPT ![j].phase = "asked", ![j].name = 0]
                 /\ scheduled' = scheduled \cup {m}
              \/ /\ job' = [job EXCEPT ![j] = Idle]
                 /\ UNCHANGED scheduled
     /\ UNCHANGED <<now, schedule, lock, store, slipped, used>>

\* createBackup: an administrator asks for a backup.
Ask(s, j) ==
  /\ job[j].phase = "idle"
  /\ used.runs < MaxRuns
  /\ used' = [used EXCEPT !.runs = @ + 1]
  /\ job' = [job EXCEPT ![j] = [Idle EXCEPT !.phase = "asked", !.on = s]]
  /\ UNCHANGED <<now, schedule, tickets, lock, store, scheduled, slipped>>

-----------------------------------------------------------------------------
(* BackupNow. *)

Phase(j, from, to) == /\ job[j].phase = from
                      /\ job' = [job EXCEPT ![j].phase = to]

\* The name is the second the job reads from the clock, before the lock.
BuildName(j) ==
  /\ job[j].phase = "asked"
  /\ job' = [job EXCEPT ![j].phase = "named", ![j].name = now]
  /\ UNCHANGED <<now, schedule, tickets, lock, store, scheduled, slipped, used>>

\* Mutant: SET in the place of SETNX.
LockedNever == FALSE

Locked == lock # NoJob

\* SETNX: the lock is set only when nobody holds it ...
TakeLock(j) ==
  /\ ~Locked
  /\ Phase(j, "named", "dumping")
  /\ lock' = j
  /\ UNCHANGED <<now, schedule, tickets, store, scheduled, slipped, used>>

\* ... else the job ends (ErrRunning), as it does when Redis does not answer.
\* Then the lock may have been set all the same, and nobody will delete it.
LockRefused(j) ==
  /\ job[j].phase = "named"
  /\ job' = [job EXCEPT ![j] = Idle]
  /\ \/ UNCHANGED lock
     \/ ~Locked /\ lock' = j
  /\ UNCHANGED <<now, schedule, tickets, store, scheduled, slipped, used>>

\* The dump ends and is put into the store, where it replaces what another
\* job stored under the same second.
Put(j) ==
  /\ job[j].phase = "dumping"
  /\ job' = [job EXCEPT ![j].phase = "saved", ![j].name = 0]
  /\ stored' = stored \cup {job[j].name}
  /\ ever' = ever \cup {job[j].name}
  /\ byHand' = byHand \ {job[j].name}
  /\ UNCHANGED <<now, schedule, tickets, lock, scheduled, slipped, used>>

\* pg_dump, the store or the settings fail, or the client went away: the rest
\* is skipped, and only the deferred deletion of the lock is left to do.
Fail(j) ==
  /\ job[j].phase \in {"dumping", "saved", "listing", "pruning"}
  /\ job' = [job EXCEPT ![j] = [Idle EXCEPT !.phase = "leaving", !.on = job[j].on]]
  /\ UNCHANGED <<now, schedule, tickets, lock, store, scheduled, slipped, used>>

\* ReadSettings, after the dump was stored.
ReadKeep(j) ==
  /\ job[j].phase = "saved"
  /\ job' = [job EXCEPT ![j].phase = "listing", ![j].keep = settings.keep]
  /\ UNCHANGED <<now, schedule, tickets, lock, store, scheduled, slipped, used>>

\* The n newest of a set of names.
Newest(n, names) == {x \in names : Cardinality({y \in names : y > x}) < n}

\* Mutant: the list is sorted the other way.
Oldest(n, names) ==
  {x \in names : Cardinality({y \in names : y < x}) < n}

\* sortItems and items[keep:] of Prune: what is kept.
Kept(n, names) == Newest(n, names)

\* Mutant: Prune does not return when keep covers the whole list.
PruneRestAlways(j, rest) ==
  [job EXCEPT ![j].phase = "pruning", ![j].keep = 0, ![j].doomed = rest]

\* Prune returns when nothing is left to delete.
PruneRest(j, rest) ==
  [job EXCEPT ![j].phase = IF rest = {} THEN "leaving" ELSE "pruning",
              ![j].keep = 0, ![j].doomed = rest]

\* Prune lists the store once ...
ListStore(j) ==
  /\ job[j].phase = "listing"
  /\ job' = PruneRest(j, stored \ Kept(job[j].keep, stored))
  /\ UNCHANGED <<now, schedule, tickets, lock, store, scheduled, slipped, used>>

\* ... and deletes the rest in order, whatever happened to it since.
PruneOne(j) ==
  /\ \E x \in job[j].doomed :
       /\ \A y \in job[j].doomed : y <= x
       /\ stored' = stored \ {x}
       /\ job' = PruneRest(j, job[j].doomed \ {x})
  /\ UNCHANGED <<now, schedule, tickets, lock, ever, byHand, scheduled, slipped,
                 used>>

\* The deferred cache.Delete takes the lock whoever holds it.  The Redis client
\* repeats a command whose reply it missed, and an error is ignored.
Unlock(j) ==
  /\ job[j].phase = "leaving"
  /\ \/ lock' = NoJob /\ job' = [job EXCEPT ![j] = Idle] /\ UNCHANGED slipped
     \/ lock' = NoJob /\ slipped' = TRUE /\ UNCHANGED job
     \/ job' = [job EXCEPT ![j] = Idle] /\ UNCHANGED <<lock, slipped>>
  /\ UNCHANGED <<now, schedule, tickets, store, scheduled, used>>

\* At work: between taking the lock and having deleted it.
Working(j) == job[j].phase \in {"dumping", "saved", "listing", "pruning",
                                "leaving"}

\* Redis drops the lock lockTTL after it was set.
LockExpires ==
  /\ lock # NoJob
  /\ lock' = NoJob
  /\ slipped' = (slipped \/ Working(lock))
  /\ UNCHANGED <<now, schedule, tickets, job, store, scheduled, used>>

\* deleteBackup.
DeleteByHand(x) ==
  /\ x \in stored
  /\ used.events < MaxEvents
  /\ used' = [used EXCEPT !.events = @ + 1]
  /\ stored' = stored \ {x}
  /\ byHand' = byHand \cup {x}
  /\ UNCHANGED <<now, schedule, tickets, lock, job, ever, scheduled, slipped>>

-----------------------------------------------------------------------------
Next ==
  \/ Tick
  \/ LockExpires
  \/ \E x \in stored : DeleteByHand(x)
  \/ \E s \in Servers :
       \/ Restart(s)
       \/ \E new \in Settings : SaveSettings(s, new) \/ Reload(s, new)
       \/ \E j \in Jobs : Fire(s, j) \/ Ask(s, j)
  \/ \E j \in Jobs :
       \/ ReadClock(j) \/ TakeTicket(j)
       \/ BuildName(j) \/ TakeLock(j) \/ LockRefused(j)
       \/ Put(j) \/ Fail(j) \/ ReadKeep(j) \/ ListStore(j) \/ PruneOne(j)
       \/ Unlock(j)

Spec == Init /\ [][Next]_vars

-----------------------------------------------------------------------------
(* Properties. *)

\* Two dumps run at once only after a lock expired under a job that was still
\* at work or the deletion of a lock was repeated: no crash, lost reply,
\* failing deletion or hand-over between servers lets a second job in.
OneDumpAtATime ==
  slipped \/ \A i, j \in Jobs : Working(i) /\ Working(j) => i = j

\* Prune works on a listing that may be old, with a keep that may be old, and
\* beside another job's Prune; still the newest backups ever made, as many as
\* the smallest keep ever set, are there unless somebody deleted them by hand.
KeepsTheNewest == Newest(leastKeep, ever) \subseteq stored \cup byHand

\* Every server's scheduler fires in a due minute, on time or late.  Of those
\* that find the same minute on the clock one begins a backup, though replies
\* are lost and the key expires: a second one had been stopped for more than a
\* minute between reading the clock and asking for the key.
ScheduledOnce ==
  [][\A j \in Jobs :
        /\ job[j].phase = "timed" /\ job'[j].phase = "asked"
        /\ Minute(job[j].name) \in scheduled
        => now - job[j].name > MinuteLength]_vars
=============================================================================
