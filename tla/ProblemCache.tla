---------------------------- MODULE ProblemCache ----------------------------
(***************************************************************************)
(* The judger's cache of extracted problem packages, shared by the worker  *)
(* loops of one judger process.                                            *)
(*                                                                         *)
(* An entry is a directory named by the package's hash.  It is extracted   *)
(* into a temporary directory next to it and renamed, and counts as valid  *)
(* as soon as it holds the file ".ready".  Locks striped by a hash of the  *)
(* path, seeded anew by each process, serialise an entry's users; whoever    *)
(* has downloaded a package trims the cache, unless somebody else is        *)
(* trimming: it removes directories until the rest fits, but for those      *)
(* whose lock it cannot have at once.                                      *)
(*                                                                         *)
(* Simplifications.  Every package has the same files and a task needs all *)
(* of them.  Sizes and modification times are left out: a trim comes upon  *)
(* the directories it has listed in any order and, each time, finds either *)
(* that the rest fits or that it does not.  That what is left of an unready *)
(* entry is removed just before the rename is part of Publish.             *)
(***************************************************************************)
EXTENDS Naturals, FiniteSets

CONSTANTS
    Packages,       \* packages, by problem and hash
    Files,          \* the files in a package's zip
    Judge,          \* the compiled custom judge, judge.bin
    Workers,        \* worker loops of the judger
    Temps,          \* names of temporary directories
    Stripes,        \* the locks
    Stripings,      \* the ways in which a seed may spread the entries over the locks
    Limited,        \* does the cache have a limit?
    MaxCrashes,     \* crashes of the judger
    NoDir, NoWorker, NoStripe

Dirs == Packages \cup Temps

Items == Files \cup {Judge}

ASSUME CacheAssumption ==
    /\ Packages \cap Temps = {}
    /\ NoDir \notin Dirs /\ NoWorker \notin Workers
    /\ NoStripe \notin Stripes
    /\ Stripings # {} /\ Stripings \subseteq [Packages -> Stripes]
    /\ Limited \in BOOLEAN /\ MaxCrashes \in Nat
    /\ Judge \notin Files

VARIABLES
    dir,        \* of each directory: does it exist, is ".ready" in it, what else
    stripe,     \* of each entry's path, its lock
    worker,     \* the loops: how far, for which package, the temporary directory
                \* and the files left to extract
    trim,       \* the trim that runs: whose, the directories it has left, the one it is
                \* removing, by name, under which lock, and what that directory is called
                \* by now
    torn,       \* history: the directories a removal has taken files from while a loop was
                \* extracting into them or after their renaming, or has left marked and
                \* without some of their files
    crashes

vars == <<dir, stripe, worker, trim, torn, crashes>>

NoDirectory == [exists |-> FALSE, ready |-> FALSE, items |-> {}]

Idle   == [step |-> "idle", want |-> NoDir, temp |-> NoDir, todo |-> {}]
NoTrim == [by |-> NoWorker, left |-> {}, doomed |-> NoDir, lock |-> NoStripe, open |-> NoDir]

(* Steps in which a loop extracts, and in which it holds its entry's lock. *)
Extracting == {"extracting", "marked"}
Inside == Extracting \cup {"hit", "miss", "copyHit", "copyNew", "trim", "sweep"}
Outside == {"waiting", "running", "compiled"}

Directory == [exists: BOOLEAN, ready: BOOLEAN, items: SUBSET Items]

(* Only a loop that extracts has a temporary directory.                    *)
Loop == {Idle} \cup
        [step: Extracting, want: Packages, temp: Temps, todo: SUBSET Files] \cup
        [step: Outside \cup (Inside \ Extracting), want: Packages, temp: {NoDir}, todo: {{}}]

TypeOK ==
    /\ dir \in [Dirs -> Directory]
    /\ stripe \in Stripings
    /\ worker \in [Workers -> Loop]
    /\ trim \in [by: Workers \cup {NoWorker}, left: SUBSET Dirs, doomed: Dirs \cup {NoDir},
                 lock: Stripes \cup {NoStripe}, open: Dirs \cup {NoDir}]
    /\ torn \subseteq Dirs
    /\ crashes \in 0..MaxCrashes

Init ==
    /\ dir = [d \in Dirs |-> NoDirectory]
    /\ stripe \in Stripings
    /\ worker = [w \in Workers |-> Idle]
    /\ trim = NoTrim
    /\ torn = {}
    /\ crashes = 0

Existing == {d \in Dirs : dir[d].exists}

(* Mutation of Free: nobody waits for anybody.                             *)
AlwaysFree(s) == TRUE

(* A lock is held by a loop for its entry, or by the trim for the directory *)
(* it is removing.                                                         *)
Free(s) ==
    /\ \A w \in Workers : worker[w].step \in Inside => stripe[worker[w].want] # s
    /\ trim.lock # s

Live(t) == \E w \in Workers : worker[w].temp = t

Goto(w, step) == worker' = [worker EXCEPT ![w].step = step]
Return(w)     == worker' = [worker EXCEPT ![w] = Idle]

-----------------------------------------------------------------------------
(***************************************************************************)
(* downloadProblemPackage.                                                 *)
(***************************************************************************)

TakeTask(w, p) ==
    /\ worker[w].step = "idle"
    /\ worker' = [worker EXCEPT ![w].step = "waiting", ![w].want = p]
    /\ UNCHANGED <<dir, stripe, trim, torn, crashes>>

(* The entry is asked about under its lock.                                *)
Acquire(w) ==
    /\ worker[w].step = "waiting"
    /\ Free(stripe[worker[w].want])
    /\ Goto(w, IF dir[worker[w].want].ready THEN "hit" ELSE "miss")
    /\ UNCHANGED <<dir, stripe, trim, torn, crashes>>

(* 304: the server lets the task use the entry.                            *)
NotModified(w) ==
    /\ worker[w].step = "hit"
    /\ Goto(w, "copyHit")
    /\ UNCHANGED <<dir, stripe, trim, torn, crashes>>

Unused(t) == ~dir[t].exists /\ ~Live(t) /\ t # trim.doomed /\ t \notin trim.left

(* 200: the zip has arrived and its hash is right.  Which unused name the   *)
(* temporary directory gets does not matter.                               *)
Download(w) ==
    /\ worker[w].step = "miss"
    /\ \E t \in Temps :
         /\ Unused(t) /\ t = CHOOSE u \in Temps : Unused(u)
         /\ dir' = [dir EXCEPT ![t] = [NoDirectory EXCEPT !.exists = TRUE]]
         /\ worker' = [worker EXCEPT ![w].step = "extracting", ![w].temp = t, ![w].todo = Files]
    /\ UNCHANGED <<stripe, trim, torn, crashes>>

(* Every file makes the directories it needs, should they be gone.         *)
Extract(w) ==
    /\ worker[w].step = "extracting"
    /\ \E f \in worker[w].todo :
         /\ worker' = [worker EXCEPT ![w].todo = @ \ {f}]
         /\ dir' = [dir EXCEPT ![worker[w].temp].exists = TRUE,
                               ![worker[w].temp].items = @ \cup {f}]
    /\ UNCHANGED <<stripe, trim, torn, crashes>>

(* Mutation of Mark: the mark is set before the last file is there.         *)
MarkEarly(w) ==
    /\ worker[w].step = "extracting" /\ Cardinality(worker[w].todo) <= 1
    /\ dir[worker[w].temp].exists
    /\ dir' = [dir EXCEPT ![worker[w].temp].ready = TRUE]
    /\ Goto(w, "marked")
    /\ UNCHANGED <<stripe, trim, torn, crashes>>

Mark(w) ==
    /\ worker[w].step = "extracting" /\ worker[w].todo = {}
    /\ dir[worker[w].temp].exists
    /\ dir' = [dir EXCEPT ![worker[w].temp].ready = TRUE]
    /\ Goto(w, "marked")
    /\ UNCHANGED <<stripe, trim, torn, crashes>>

(* What is left of an entry that was not ready makes way.  A removal that   *)
(* has the temporary directory open keeps it open, under its new name.     *)
Publish(w) ==
    /\ worker[w].step = "marked"
    /\ dir[worker[w].temp].exists
    /\ dir' = [dir EXCEPT ![worker[w].want] = dir[worker[w].temp],
                          ![worker[w].temp] = NoDirectory]
    /\ worker' = [worker EXCEPT ![w].step = "copyNew", ![w].temp = NoDir]
    /\ trim' = [trim EXCEPT !.open = CASE @ = worker[w].temp -> worker[w].want
                                       [] @ = worker[w].want -> NoDir
                                       [] OTHER -> @]
    /\ torn' = IF worker[w].temp \in torn THEN (torn \ {worker[w].temp}) \cup {worker[w].want}
               ELSE torn \ {worker[w].want}
    /\ UNCHANGED <<stripe, crashes>>

(* The task gets its copy, and the entry counts as just used.              *)
Copy(w) ==
    /\ worker[w].step \in {"copyHit", "copyNew"}
    /\ Files \subseteq dir[worker[w].want].items
    /\ Goto(w, IF worker[w].step = "copyNew" THEN "trim" ELSE "running")
    /\ UNCHANGED <<dir, stripe, trim, torn, crashes>>

(* Any error on the way: the temporary directory goes, the lock is freed.  *)
Fail(w) ==
    /\ worker[w].step \in Inside \ {"trim", "sweep"}
    /\ dir' = [d \in Dirs |-> IF d = worker[w].temp THEN NoDirectory ELSE dir[d]]
    /\ trim' = [trim EXCEPT !.open = IF @ = worker[w].temp THEN NoDir ELSE @]
    /\ torn' = torn \ {worker[w].temp}
    /\ Return(w)
    /\ UNCHANGED <<stripe, crashes>>

-----------------------------------------------------------------------------
(***************************************************************************)
(* trimProblemCache, still under the lock of the worker's own entry.       *)
(***************************************************************************)

SkipTrim(w) ==
    /\ worker[w].step = "trim"
    /\ ~Limited \/ trim.by # NoWorker
    /\ Goto(w, "running")
    /\ UNCHANGED <<dir, stripe, trim, torn, crashes>>

BeginTrim(w) ==
    /\ worker[w].step = "trim"
    /\ Limited /\ trim.by = NoWorker
    /\ trim' = [NoTrim EXCEPT !.by = w, !.left = Existing]
    /\ Goto(w, "sweep")
    /\ UNCHANGED <<dir, stripe, torn, crashes>>

Sweeping(w) == worker[w].step = "sweep" /\ trim.doomed = NoDir

(* The lock a directory's path is hashed to: any, for a temporary one.     *)
Locks(d) == {s \in Stripes : d \in Packages => s = stripe[d]}

(* Mutation of Spare: it waits for every lock, be it its own.               *)
SpareOwn(w) ==
    /\ Sweeping(w)
    /\ worker[w].want \in trim.left
    /\ trim' = [trim EXCEPT !.left = @ \ {worker[w].want}]
    /\ UNCHANGED <<dir, stripe, worker, torn, crashes>>

(* The worker's own entry stays, and what is locked: its own lock is, too.  *)
Spare(w) ==
    /\ Sweeping(w)
    /\ \E d \in trim.left :
         /\ d = worker[w].want \/ \E s \in Locks(d) : ~Free(s)
         /\ trim' = [trim EXCEPT !.left = @ \ {d}]
    /\ UNCHANGED <<dir, stripe, worker, torn, crashes>>

(* Mutation of Doom: it does not try the lock.                             *)
DoomAny(w) ==
    /\ Sweeping(w)
    /\ \E d \in trim.left \ {worker[w].want}, s \in Stripes :
         /\ s \in Locks(d)
         /\ trim' = [trim EXCEPT !.left = @ \ {d}, !.doomed = d, !.lock = s, !.open = d]
    /\ UNCHANGED <<dir, stripe, worker, torn, crashes>>

Doom(w) ==
    /\ Sweeping(w)
    /\ \E d \in trim.left \ {worker[w].want}, s \in Stripes :
         /\ s \in Locks(d) /\ Free(s)
         /\ trim' = [trim EXCEPT !.left = @ \ {d}, !.doomed = d, !.lock = s, !.open = d]
    /\ UNCHANGED <<dir, stripe, worker, torn, crashes>>

(* RemoveAll opens the directory and unlinks what it finds, in the file     *)
(* system's order and whatever the directory is called meanwhile.          *)
Unlink(w) ==
    /\ worker[w].step = "sweep" /\ trim.open # NoDir
    /\ LET d == trim.open
       IN \/ \E i \in dir[d].items :
               /\ dir' = [dir EXCEPT ![d].items = @ \ {i}]
               /\ torn' = IF i \in Files /\ (Live(d) \/ d # trim.doomed) THEN torn \cup {d} ELSE torn
          \/ /\ dir[d].ready
             /\ dir' = [dir EXCEPT ![d].ready = FALSE]
             /\ torn' = IF Live(d) \/ d # trim.doomed THEN torn ELSE torn \ {d}
    /\ UNCHANGED <<stripe, worker, trim, crashes>>

(* An entry whose removal ends too early.                                  *)
Halved == {p \in Packages : p = trim.doomed /\ dir[p].ready /\ ~(Files \subseteq dir[p].items)}

NextDirectory == trim' = [trim EXCEPT !.doomed = NoDir, !.lock = NoStripe, !.open = NoDir]

(* It ends by removing the name, if it is still there and has nothing in it. *)
Removed(w) ==
    /\ worker[w].step = "sweep" /\ trim.doomed # NoDir
    /\ dir[trim.doomed].items = {} /\ ~dir[trim.doomed].ready
    /\ dir' = [dir EXCEPT ![trim.doomed] = NoDirectory]
    /\ NextDirectory
    /\ UNCHANGED <<stripe, worker, torn, crashes>>

(* Something was extracted into the directory meanwhile, or an I/O error.  *)
RemoveFails(w) ==
    /\ worker[w].step = "sweep" /\ trim.doomed # NoDir
    /\ NextDirectory
    /\ torn' = torn \cup Halved
    /\ UNCHANGED <<dir, stripe, worker, crashes>>

(* The rest fits, or nothing is left.                                      *)
EndTrim(w) ==
    /\ Sweeping(w)
    /\ trim' = NoTrim
    /\ Goto(w, "running")
    /\ UNCHANGED <<dir, stripe, torn, crashes>>

-----------------------------------------------------------------------------
(***************************************************************************)
(* The compiled custom judge, kept in the entry.                           *)
(***************************************************************************)

FinishTask(w) ==
    /\ worker[w].step = "running"
    /\ Return(w)
    /\ UNCHANGED <<dir, stripe, trim, torn, crashes>>

(* The entry may have been trimmed or replaced since the download.         *)
LookForJudge(w) ==
    /\ worker[w].step = "running"
    /\ Free(stripe[worker[w].want])
    /\ IF Judge \in dir[worker[w].want].items THEN Return(w) ELSE Goto(w, "compiled")
    /\ UNCHANGED <<dir, stripe, trim, torn, crashes>>

(* Mutation of StoreJudge: whoever makes the directory marks it.           *)
StoreJudgeReady(w) ==
    /\ worker[w].step = "compiled"
    /\ Free(stripe[worker[w].want])
    /\ dir' = [dir EXCEPT ![worker[w].want].exists = TRUE,
                          ![worker[w].want].items = @ \cup {Judge},
                          ![worker[w].want].ready = TRUE]
    /\ Return(w)
    /\ UNCHANGED <<stripe, trim, torn, crashes>>

StoreJudge(w) ==
    /\ worker[w].step = "compiled"
    /\ Free(stripe[worker[w].want])
    /\ dir' = [dir EXCEPT ![worker[w].want].exists = TRUE,
                          ![worker[w].want].items = @ \cup {Judge}]
    /\ Return(w)
    /\ UNCHANGED <<stripe, trim, torn, crashes>>

(* The judger dies and is started again on the same directory.             *)
Crash ==
    /\ crashes < MaxCrashes
    /\ crashes' = crashes + 1
    /\ worker' = [w \in Workers |-> Idle]
    /\ trim' = NoTrim
    /\ torn' = (torn \cup Halved) \cap Packages
    /\ stripe' \in Stripings
    /\ UNCHANGED dir

-----------------------------------------------------------------------------

DownloadStep(w) ==
    \/ \E p \in Packages : TakeTask(w, p)
    \/ Acquire(w) \/ NotModified(w) \/ Download(w) \/ Extract(w) \/ Mark(w)
    \/ Publish(w) \/ Copy(w) \/ Fail(w)

TrimGoesOn(w) ==
    \/ SkipTrim(w) \/ BeginTrim(w) \/ Spare(w) \/ Doom(w) \/ Unlink(w)
    \/ Removed(w) \/ RemoveFails(w)

TrimStep(w) == TrimGoesOn(w) \/ EndTrim(w)

JudgeStep(w) == FinishTask(w) \/ LookForJudge(w) \/ StoreJudge(w)

Next == Crash \/ \E w \in Workers : DownloadStep(w) \/ TrimStep(w) \/ JudgeStep(w)

Spec == Init /\ [][Next]_vars

(* A Go mutex hands itself to whoever has waited for long (its starvation  *)
(* mode); everything else is ordinary progress of a goroutine, and requests *)
(* end by their timeout.  Nothing promises that the rest will ever fit, so  *)
(* a trim must get through all its directories.                            *)
Fairness ==
    \A w \in Workers :
        /\ SF_vars(Acquire(w))
        /\ WF_vars(NotModified(w) \/ Download(w) \/ Fail(w))
        /\ WF_vars(Extract(w) \/ Mark(w) \/ Publish(w) \/ Copy(w))
        /\ WF_vars(TrimGoesOn(w) \/ (trim.left = {} /\ EndTrim(w)))

FairSpec == Spec /\ Fairness

-----------------------------------------------------------------------------
(***************************************************************************)
(* Properties.                                                             *)
(***************************************************************************)

(* What is marked ready is whole, unless it is just being removed: crashes *)
(* while extracting, trims, and judges stored in an entry that is gone     *)
(* never leave a marked directory that lacks a file.  Only two things can: *)
(* a removal of the entry that broke off, and a removal that was begun     *)
(* while the directory was extracted and may go on after its publication.  *)
ReadyIsWhole ==
    \A p \in Packages \ torn : dir[p].ready /\ p # trim.doomed => Files \subseteq dir[p].items

(* A cached download succeeds: from the moment the entry was found ready   *)
(* until it is copied, no trim that finds the entry takes anything out of  *)
(* it, under whatever lock; only one that found it before it was an entry  *)
(* does.                                                                   *)
HitIsWhole ==
    \A w \in Workers :
        worker[w].step \in {"hit", "copyHit"} /\ worker[w].want \notin torn =>
            Files \subseteq dir[worker[w].want].items

(* Loops that need the same package share one download.                    *)
Fetching(w) == worker[w].step \in {"miss"} \cup Extracting

DownloadIsShared ==
    \A v, w \in Workers :
        Fetching(v) => /\ ~dir[worker[v].want].ready
                       /\ Fetching(w) /\ v # w => worker[v].want # worker[w].want

(***************************************************************************)
(* The inductive invariant behind ReadyIsWhole, HitIsWhole and             *)
(* DownloadIsShared.                                                       *)
(***************************************************************************)

(* A lock has one holder, loop or trim.                                    *)
LockedOnce ==
    /\ \A w \in Workers : worker[w].step \in Inside =>
         /\ \A v \in Workers : worker[v].step \in Inside /\ v # w =>
               stripe[worker[v].want] # stripe[worker[w].want]
         /\ trim.lock # stripe[worker[w].want]
    /\ trim.doomed \in Packages => trim.lock = stripe[trim.doomed]

(* A temporary directory has one owner, and fills up unless a trim is at   *)
(* it, which is noted.                                                     *)
TempsAreOwned ==
    \A w \in Workers : worker[w].temp # NoDir =>
        /\ \A v \in Workers : worker[v].temp = worker[w].temp => v = w
        /\ worker[w].temp \notin torn =>
              Files \ worker[w].todo \subseteq dir[worker[w].temp].items
        /\ worker[w].step = "marked" => worker[w].todo = {}

(* What was just published is whole, unless a trim was at it before.       *)
NewIsWhole ==
    \A w \in Workers :
        worker[w].step = "copyNew" /\ worker[w].want \notin torn => Files \subseteq dir[worker[w].want].items

(* The loop that sweeps owns the trim, and a removal has one directory open *)
(* at most: the one it removes, a temporary one that a loop has published   *)
(* since, or none.                                                         *)
OneSweeper ==
    /\ \A w \in Workers : worker[w].step = "sweep" <=> trim.by = w
    /\ trim.doomed # NoDir => trim.by # NoWorker
    /\ trim.open = trim.doomed \/ trim.open = NoDir \/ (trim.doomed \in Temps /\ trim.open \in Packages)

CacheInv ==
    /\ TypeOK
    /\ LockedOnce
    /\ TempsAreOwned
    /\ OneSweeper
    /\ ReadyIsWhole
    /\ HitIsWhole
    /\ NewIsWhole
    /\ DownloadIsShared

(* Nobody waits for ever for a package: neither locks nor trims block.     *)
Answered ==
    \A w \in Workers : worker[w].step = "waiting" ~> worker[w].step \in {"idle", "running"}

=============================================================================
