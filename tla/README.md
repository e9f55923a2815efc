# A formal model of DOJ

DOJ is an online judge: a Go server with a PostgreSQL database, a Redis cache
and an object store, and any number of judger processes that lease submissions
from it over HTTP, run them in containers and post verdicts. This directory
models the parts of it whose correctness depends on the order in which several
actors act, checks the models with TLC on small instances, and proves the most
important results for every instance with TLAPS.

Contents: [the system](#the-system) (components, state, hard behaviours),
[the plan](#the-plan), [the models](#the-models), [the runs](#the-runs),
[bounds](#bounds), [fairness](#fairness), [the proofs](#the-proofs),
[what is not modelled](#what-is-not-modelled), [findings](#findings),
[observations](#observations).

## The system

    browser ──HTTP──> server (Go, any number of processes)
       ^──events──────  │  ├── PostgreSQL   rows are the only authority
                        │  ├── Redis        sessions, progress, locks, counters
                        │  └── object store problem packages, images, backups
    judger (Go) ─HTTP──>┘
       └── worker loop × N ──socket──> runner in a container ──> user programs

| component | state it keeps | operations | hard behaviours | what makes it correct | module |
|---|---|---|---|---|---|
| judging queue: `server/api/worker/{lease,result,auth,package}.go`, `server/api/public/submissions.go` | `submissions` (status, attempt, judger_id, lease_until, score ...), `cases`, progress entries in Redis | submit, lease, build payload, serve package, heartbeat, result, rejudge one or all of a problem | concurrent leases with SKIP LOCKED, expired leases, late and lost requests, rejudge at any moment, cache writes after the commit, a failure after the lease has committed | the verdict shown is the current attempt's, given once, by the owner; case rows belong to the verdict; every live row is judged | `SubmissionLease`, `FencedQueue` |
| judger worker loop: `judger/worker*.go` | one task per loop | ask for a task, prepare, run, heartbeat, post the result | crash between lease and result, answers that never arrive | a task is answered at most once | `SubmissionLease` |
| problem packages: `server/api/public/problem_package_assets.go`, `server/problem/package.go` | `problems.package` (JSON with hash and file list), zip objects keyed by content hash | upload, delete files, change scores, download | two uploads and a score change race; object and row are written in two steps | the current row's object exists and has its content; no update is lost | `PackageStore`, `PackageEdits` |
| package garbage collection: `server/problem_gc.go` | objects | list, compare with rows, delete | rows and objects change between the listing and the delete | nothing in use is deleted | `PackageStore` |
| judger package cache: `judger/worker_cache.go`, `judger/custom.go` | `P<id>/<hash>/` directories with `.ready` and `.size`, striped locks, one global trim lock | download, replace, copy into a run, trim to the limit | workers share entries, TryLock in the trim, temporary directories | a run never sees a partial package | `ProblemCache` |
| runner protocol and case execution: `judger/container*.go`, `judger/docker.go`, `judger/pid.go`, `judger/runner/*.go` | the pending gates, one connection, the processes and cgroups of a case | hello, compile, run_case, release, wait, conclude | a release that crosses the time limit, programs that exit in any order, outlive their group or never end | the verdict follows from what the case's own programs did; the task always ends | `RunnerProtocol` |
| accounts: `server/auth/auth.go`, `server/api/public/auth.go`, `server/api/admin/users.go` | `users` (name, mail, auth hash, role), sessions | register, log in, update oneself, change or reset the password, change roles, delete | read-modify-write of whole rows, checks outside the transaction | a changed password ends sessions; there is always an administrator | `Accounts` |
| contests, assignments, rankings, visibility: `server/api/public/{contest*,assignment*,policy,problem_state,problem_query,users,home}.go` | contests, their link to problems, submissions with a context | CRUD, the pages computed from submissions | one rule written in Go, in SQL and in the progress table; contests that change under stored rows | no page depends on a secret result; pages agree; the ranking is that of the rules | `Contests` |
| backups: `server/backup/*.go`, `server/api/admin/backups.go` | settings, objects, a lock and per-minute keys in Redis | back up, prune, schedule, delete | several servers, a lock that expires under its holder, a clock that is read before its ticket is taken, stale listings | one backup at a time, one per scheduled minute; prune keeps the newest | `Backup` |
| events, long polling: `server/events/broker.go`, `server/api/worker/lease.go`, `server/api/public/system.go`, `web/components/live.tsx` | subscriber channels | publish, subscribe, wait | a wake-up between look and wait, full buffers | no poll sleeps through a submission, none is handed to two polls | `EventBroker`, `LeasePoll` |
| discussions, notifications: `server/api/public/{discussions,notifications}.go` | rows, the badge of a browser | CRUD, mentions and replies | edits and deletions that cross, events that are dropped | notices go with posts; badge equals rows | `Discussions` |
| settings and cache: `server/settings`, `server/cache` | key-value rows, Redis keys | get, update, SETNX, rate limit | increment and expiry in two steps | limits end | in part, in `Backup` and `SubmissionLease` |
| groups, members: `server/api/admin/{groups,members}.go` | rows | CRUD | none that spans two transactions | | not modelled |
| judger administration: `server/api/admin/judgers.go`, `server/judge/state.go` | `judgers` rows, last-seen marks | CRUD, touch | get-then-set | | not modelled |
| languages, images, media | rows, objects | CRUD, upload | quota checked before the write | | not modelled |
| assembly, OpenAPI, validation: `server/server.go`, `server/api/openapi.go`, `main.go` | none | wiring | | | not modelled |
| web frontend: `web/` | none that is authoritative | | | | its event stream only |

Interactions. Users put rows into the judging queue; worker loops take them out
through the worker API, sleeping in long polls that the event broker wakes;
administrators put them back. The payload of a task names a package hash, so the
queue depends on the package store: the object has to be there while a row is
being judged, which is what the garbage collector has to respect, and the
judger's package cache keeps copies of it by the same hash. The worker loop then
talks to a runner in a container about every case. Results end in `submissions`,
which the contest pages are computed from. The same broker that wakes polls tells
browsers about notices. Redis is never an authority for rows: each entry can
vanish at any time.

## The plan

In the order of importance; each module states its parameters as CONSTANTS with
named assumptions and has one action per operation, and no module declares a
RECURSIVE operator.

1. `FencedQueue`, `SubmissionLease`: modelled, checked, proved, refinement included.
2. `PackageEdits`, `PackageStore`: modelled, checked, proved, refinement included.
3. `ProblemCache`: modelled, checked, proved.
4. `Accounts`: modelled, checked, proved.
5. `RunnerProtocol`: modelled, checked, proved.
6. `Contests`: modelled, checked, proved.
7. `EventBroker`, `LeasePoll`, `Discussions`, composed in `LiveServer`: modelled, checked, proved.
8. `Backup`: modelled, checked, proved.

"Proved" is said of the safety properties; the three liveness properties are checked only. Left:
the quota of outstanding submissions and the rate limits of `server/cache`; registration.

## The models

### SubmissionLease, FencedQueue

`SubmissionLease` is the queue of submissions, the worker loops that drain it, the
network between them and the progress entries in Redis.

| state | in the code |
|---|---|
| `status`, `attempt`, `owner`, `lease` | columns of `models.Submission` (`models/models.go`), the lease against the clock |
| `scoredBy`, `cases` | which attempt's result filled the score columns and the case rows |
| `progress`, `effects` | the progress entry in Redis, and the writes a handler still makes to it after its commit |
| `phase`, `task` | the position of `RunOne` (`judger/worker.go`) in each worker loop |
| `beats`, `results` | requests in flight: sent, perhaps given up by the sender, not yet handled |
| `rejudge` | rejudge requests between their two statements |

A handler whose whole effect is one transaction under the row's `FOR UPDATE` lock is one
action, at its commit: `TryLease`, `HeartbeatTx`, `ResultTx`. `BuildPayloadFails` is the
reset after a failure behind the commit. A rejudge is two actions because its
`DELETE FROM cases` runs before its `UPDATE` takes the lock. What is written to Redis
after a commit is an effect that any later step may overtake. A direct loopback judger
(`LocalJudgers`) is not asked whether it owns a task; the other judgers are. Losing a
request is never handling it; a late one is handled at any later time.

`FencedQueue` is what the queue promises: every submission is a sequence of numbered
tickets, a ticket is handed out at most once, and only the newest one can be answered.
`ImplementsTickets` maps the rows to it.

### PackageStore, PackageEdits

`PackageStore` is the package of one problem: the JSON in `problems.package` (`row`), the
objects of the store keyed by their content, and every request that touches them. A package is
a set of files; input and answer of one name make a case, and the manifest (`row.files`,
`row.scores`) lists files and cases with their scores. An upload may bring half a case, a deletion take
one file or a section; a case goes from the manifest with either of its files, and the object stays as
long as any file is listed. `ManifestsFit` relates the two: the manifest lists no file its object lacks
and exactly the cases it has both files of. An edit
(`View`, `Request`, `Build`, `Put`, `Swap`, `Fail`) works on what it read and installs
it only if the row still is what it read. `ReadSettings`/`SaveSettings` are `updateProblem`
and `updateProblemVisibility`, which read the row and write all of it back. A collector
reads the rows, then the running submissions, then lists, then deletes one object at a time.
A submission takes the hash into its payload when leased and fetches the object later.
`PackageEdits` is the abstract editor: every visible change is one granted request applied
atomically to the package just before it, or such a save; `ImplementsEdits` says that
the store implements it.

An upload may put content that a collector has listed as garbage and not deleted yet. Then
the collector, which reads that nobody uses content A, deletes A although an editor has uploaded it
again and made it current. The grace period does not help, since it looks at the age
of the object in the listing. A save may also put back a row whose object has been collected.
`CurrentIsStored` and `PayloadIsStored` do not exclude these orders from the model: they name
them, by the history variable `overtaken` (the contents that were last put while a collector was deleting
them, until they are put again or are older than a day) and the step `reverted` of a save, and say that there
is no third way to lose an object. Without `overtaken` in it, TLC finds `CurrentIsStored` violated by the story above.

### ProblemCache

`ProblemCache` is the cache directory of one judger process, shared by its worker loops.
`dir` is the file system: which directories exist, whether `.ready` is in them, which files.
`worker` is the position of each loop in `downloadProblemPackage` and, later, in
`prepareCustomJudgePath`. `stripe` maps each entry to its lock; it is drawn from
`Stripings` when the process starts, as `maphash.MakeSeed` does, and two entries may have the same. A loop holds the
lock of its entry exactly in the positions `Inside`. `trim` is the one trim that can run: the directories it
has left, the one it is removing (`doomed`), under which lock, and what the directory that the removal has
open is called by now (`open`). Extraction and removal go file by file; anything may interleave with them.
A crash stops all loops and leaves the file system as it is.

`os.RemoveAll` works on the directory it has opened: `Publish`, a rename, does not end a removal of the
temporary directory but gives it a new name, and `Unlink` goes on in the published entry.

So the code lets an entry lose files in two ways. A trim may come upon a directory another loop is
extracting into: it takes the temporary directory for an entry and removes what is in it, before its
publication and after. And the removal of an entry may end, by a crash or an I/O error,
after files went and before `.ready` did; the entry then counts as a hit. Either way
later tasks of that package fail. The history variable `torn` marks these directories:
`Unlink` sets the mark on a directory that a loop is extracting into or that was published under the
removal, `RemoveFails` and `Crash` on an entry that is left half removed (`Halved`), and it goes with the contents when
the directory is published, replaced, unmarked or gone.
`ReadyIsWhole` and `HitIsWhole` are about all other entries: no crash while extracting, no trim that finds the entry as
an entry, no judge stored in a directory that was removed makes a ready one, or one in use, lack a
file. They promise nothing of a torn one; without `torn` in them TLC finds both violated.

### Accounts

`user` is the users table (row, password hash, role), `session` the sessions in
Redis, each with the hash it was made under, and `request` the handlers between reading a row and
writing it. A handler that reads and writes in two statements is two actions: `UpdateMe` and
`SaveProfile` (`updateMe` writes back every column), `UpdateUser` and `SaveRole`,
`UpdatePassword` and `SavePassword`, `ResetUserPassword` and `SaveReset`, `DeleteUser` and
`Delete`; `EnsureOtherAdmin` is the count of administrators in between. `Restart` is one server
process that stops and starts: it ends the requests that process served, any subset, and creates the
built-in administrator when no administrator is left.

The code does lose the last administrator and does bring ended sessions back to life; the two
properties say exactly when: only by a whole-row save, or a check, that another request
has overtaken. They rule out every other way.

### RunnerProtocol

One task between the judger (`judger/container_runner.go`) and the runner in its container
(`judger/runner/serve.go`). `toRunner` and `toJudger` are the two directions of
the connection; `stage`, `current`, `got` the judger's loop over cases; `local`, `pending`,
`released` the runner's goroutine per case and its gates; `user`, `child`, `judge`
the processes of a case, `waited` which of their ends were noticed, `expired` whether
the case's time limit is over; `cgroup` and `limit` the cgroup the judger makes
and what it reached. A case is held at the gate until the judger has put its pid
into the cgroup. Every action of the environment that fails counts against `MaxFaults`.

The verdict functions (`Judged`, `Limited`, the conclusions of the built-in checker and of
a custom judge) are translated with their order of precedence.

### Contests

One contest with one problem, an assignment with the same problem, and `rows`, the
submissions with their context, time and result. The clock runs; administrators
create, change and delete the contest; `FindContest` and `UpdateContest` are the two halves of an
update, which reads the row and saves it whole; `CheckSubmit` and `CreateSubmission` are the two
halves of `submit`, between which anything may change; rows are judged and rejudged.
Everything else is an operator that computes a page for a viewer as its handler does: `Shown`,
`ListWithStatus`, `ProblemSubmissionStats`, `UserStats`, `AssignmentDone`, `ProblemLabel`,
`ContestLabel`, `FilterFinds`, `Progress`, `HomeProblems`, `Standings`. Loops over
rows are folds over all submissions, in the order of the loop, whose step passes over those the
query does not find (`Mine`). `Tells` collects all that the pages tell a viewer, so that `NothingLeaks`
is non-interference: replacing a secret result by any other changes nothing the viewer sees.
`StandingsAreRight` compares the incremental ranking code with a definition by sets.

A cell of the assignment's table has a status and a score. The status does not depend on the order of the rows;
the score does, while a row waits to be judged, because a waiting row overwrites it.
`ViewsAgree` says what holds of each: the status is the problem's label in either order of the
rows, and the score is that of a judged row, no less than that of an accepted one, and the best of
all unless one waits. For an ICPC contest it says the same of label and standings: they
agree unless the standings say pending, and without a freeze they say so exactly when a row waits and none is
accepted.

### EventBroker, LeasePoll, Discussions, LiveServer

`EventBroker` has the channels and, for each kind, the changes that are committed and not
yet announced; a full channel drops the event. `LeasePoll` is `lease` from the subscription
to the answer, with SKIP LOCKED as jobs that a poll does not find while another holds
their row; `silent` has the jobs that became leasable since the last event in one of the ways
that raise none. `Discussions` is one discussion with comments and notices, handlers that work on
the row they have read, and browsers (`stream`, `shown`, `stale`). Deleting a discussion is two
steps, as its transaction has two statements and PostgreSQL's READ COMMITTED lets others commit in between:
`RemoveNotices` finds the notices and locks them, `DeleteDiscussion` marks the row and commits. A notice that an
edit or a comment commits in between, or a comment afterwards that was checked before, survives: the history
variable `late` has these notices, and `NoticesFollowPosts` is about all others. TLC reaches a late
notice of a deleted post. `LiveServer` composes
the two over one broker: events of either kind fill the same channels.

### Backup

`job` is the position of each `BackupNow`, `lock` the key `backup:running`, `tickets`
the keys of scheduled minutes, `entry` the cron entry of each server, `pending` the
settings saved and not yet loaded into the saver's scheduler, `stored` the names in the store.
The clock counts seconds. A scheduled job reads it (`ReadClock`, `scheduler.go:80`) and later asks
for the key of the minute it has read (`TakeTicket`, `:98`), which expires two minutes
after it was set; it may be stopped in between for any time, and a lost reply leaves the key. `ScheduledOnce`
says that of the jobs that read one minute only one begins a backup, unless another was stopped for more than a
minute between clock and key.
A listing (`doomed`) and a limit (`keep`) may be old by the time they are used. The lock may
expire, may be set although the reply was lost, and its deletion may fail or be repeated.
`OneDumpAtATime` leaves out what `slipped` records: a lock that expired under its job, or was
deleted twice. The history variables `ever`, `byHand`, `leastKeep`, `scheduled` and `slipped` exist for the
properties only and guard no action.

## The runs

| run | instance | what it shows |
|---|---|---|
| `lease_safety` | 1 submission, a local and a remote worker, 1 rejudge, faults below attempt 2, 1 heartbeat in flight | every safety property of the queue, its inductive invariant `IInv`, and the refinement of `FencedQueue`, against every interleaving of leasing, expiry, late requests, crash and rejudge |
| `lease_live` | 2 submissions, 1 worker, 1 rejudge, faults below attempt 2 | every waiting submission is judged; oldest-first leasing starves none |
| `rejudge_race` | as `lease_safety` | violated: case rows survive a rejudge |
| `package_gc` | 3 edits of a package with one case of two files and a score, 1 save of other settings, 1 collector, 1 submission | the store implements `PackageEdits`; manifests fit their objects through half uploads and partial deletions; but for the two named ways, what is current or being judged is kept |
| `package_save` | 2 edits, 1 save | violated: an edit is undone |
| `cache_safety` | 2 loops, 2 packages of 2 files whose locks differ or are the same, 1 crash | but for the two named ways, a ready entry is whole and stays so while it is copied; it is downloaded once; no lock keeps a loop waiting, not even a trim that meets its own |
| `accounts_safety` | an administrator and one more user, 2 handlers at once, 2 sessions, 3 hashes | ended sessions and the last administrator are at risk in the named races only |
| `runner` | 2 cases, either kind of judge, 1 fault | verdicts are earned, programs confined, failures caused; every task ends |
| `contests` | 2 contestants, 1 problem, 3 results, 2 rows, 3 minutes, 1 edit of the contest | nothing leaks, pages agree, the ranking is right |
| `contests_home` | as `contests` | violated: the home page tells a secret result |
| `events` | 2 polls, 1 submission, 1 browser, 2 users, 1 handler and 1 deletion at work, channels that hold 1 event | no submission for two polls, no lost wake-up; badge and notices are right |
| `backup` | 2 servers, 2 jobs, the seconds 0, 2, 3 and 6 of minutes of 2, 3 backups, 1 change, restart or deletion | one dump at a time, the newest are kept, one scheduled backup per minute of the clock |

`CHECK_DEADLOCK FALSE` stands where requests, edits or backups are finite and the system may stop;
`MCProblemCache` has no such bound and checks for deadlock.

## Bounds

- `lease_*`: `MaxAttempt` limits the attempt below which faults strike a row and
  `MaxInFlight` the heartbeats in flight. Two attempts suffice to have an outdated and a
  current one, and every guard compares a request with the current attempt only. `lease_live` has
  no heartbeats in flight: they only prolong leases, which the expiry at any moment undoes,
  and `lease_safety` checks what they may do.
- `package_*`: `Edits`, `Savers`, `Collectors`, `Tasks` are requests, each made once. Three edits
  are what it takes to return to a content while a collector holds a list made before. Two files make a case that
  can be there by half; uploads bring the pair or the input alone, deletions take one file or both
  (795,000 states).
- `cache_safety`: two loops are what a lock tells apart, two entries are what share one or do not, and with two files
  a removal or an extraction can be half done. Sizes and modification times are left out: a trim takes its directories
  in any order and finds at any time that the rest fits, which is every limit at once. A second crash
  meets only states the first one can also meet (340,000 states).
- `accounts_safety`: a race needs two handlers. `MaxHash` allows every user a password that was
  changed after a session was made (423,000 states).
- `runner`: with two cases what one leaves behind can reach the next; `MaxFaults` 1 shows that
  one error is handled, and 0 faults is part of it.
- `contests`: two rows are the least that have an order, and enough for a wrong answer before an
  accepted one, for two contestants, and for both contexts; the clock has a time before, in
  and after the freeze. `MaxEdits` 1 is a change after rows were stored, which may cross a deletion
  (1.5 million states).
- `events`: a channel of one event is full after one, as a channel of 16 is after 16. The
  constraint `OneSideAtATime` keeps the product of the two halves small: while people discuss no judger
  polls and the submission is being judged, its progress filling the same channel; of the two requests
  one deletes and the other goes on with what it read (1.5 million states). The halves meet in the channels alone,
  and `LiveServer_proofs` needs none of this.
- `backup`: two jobs overlap; three backups are what `keep` 2 has to prune. The clock jumps through
  `Seconds`: 2 and 3 are one minute, in which two servers fire, and 6 is past the expiry of a key set in it, so a
  job can come back when its minute's ticket is gone (3.9 million states). `MaxEvents` 1 is one change of settings, restart or
  deletion by hand, at any moment.

Every bound is a constant or a constraint of the instance; where a theorem states a property it
holds for all values.

## Fairness

- `EventuallyJudged`: worker loops keep going, handlers finish, leases expire; nothing is assumed
  of users, administrators or heartbeats. Leases are bounded by the clock (`lease.go`), handlers
  by the database, loops retry for ever (`worker_loop.go`). Faults are possible only below
  `MaxAttempt`, so they stop. A payload that can never be built is outside of this: such a row
  does keep every later one waiting.
- `Answered`: a goroutine that can go on does; a request ends by its timeout; and a Go mutex hands
  itself to a goroutine that has waited for a millisecond (the starvation mode of `sync.Mutex`),
  which is strong fairness of `Acquire`. A trim gets through its directories, whether or not the rest ever
  fits: its end counts as progress only when none is left.
- `Ends`: the judger's loop, the runner's loop, its goroutine of a case and the timer of the case
  go on (weak fairness). Programs need not end, and the end of one may go unnoticed while a process it
  left behind holds its output open.

## The proofs

Each `_proofs` module proves for every value of the constants what the runs check on an
instance: every invariant and every action property of the passing runs, and both refinements. It does so
by an invariant that is inductive, one lemma per action or group of actions with the
same footprint, and the properties as consequences. Each assumes the named ASSUMEs of its
module, which TLC evaluates on the instances.

- `SubmissionLease_proofs`. `VerdictIsCurrent` alone is not inductive: an old result must not
  fit a later state of its row, so `IInv` (`Bookkeeping`) says where attempt numbers are (on
  rows, with workers, in requests, in cache writes), that each was handed out once, and that a
  queued row waits under a number that is nowhere else. From it: `ShowsCurrentVerdict`,
  `ShowsOwnCases`, `Exclusive`, `ProgressIsOwned`, `QueuedHasNoLease`, the action properties
  `RecordsOwnersVerdict` and `KeepsVerdict`, and `Refinement`: every step is a step of
  `FencedQueue` or a stutter.
- `PackageStore_proofs`. All of it holds for all constants, without a hypothesis: any files, cases and
  sections. `TypeCorrect` and `ManifestAlwaysFits` need nothing of the collector; the latter is
  about every manifest in circulation, read, built or in force. The invariant `StoreInv` behind
  `CurrentCanBeOpened`, `PayloadCanBeOpened` and `YoungIsKept` says that what becomes needed
  after a collector looked is too recent for it to delete, or `overtaken`. `StoreImplementsEdits` is the
  refinement of `PackageEdits`, for all constants: by `EditsServe`, what an edit is about to
  install is what its request grants on the version it has read, so that a swap that finds the row as it
  was read is the abstract edit, and a save is the abstract `PutBack` of what was seen.
  Everything else stutters.
  `EditsAloneKeepPromise` is the stronger promise that the run `package_save` violates; without saves it holds.
- `ProblemCache_proofs`. All of it holds for all constants, without a hypothesis, with any number of crashes and
  failures and any sharing of locks. `CacheInv` says that a lock has one holder, loop or trim (`LockedOnce`); that a temporary
  directory has one owner and, unless `torn`, everything its loop has extracted (`TempsAreOwned`); that
  what was just published is whole (`NewIsWhole`); and that
  a removal has one directory open, under the name it was found by or the one it was published as
  (`OneSweeper`). `ReadyStaysWhole`, `HitStaysWhole` and `DownloadsAreShared` follow. The hard steps are the
  publication of a directory, which carries its mark and a removal under way with it, and the removal of one that a
  loop is filling meanwhile. None of it says that an entry stays whole through such a removal: it does not.
- `Accounts_proofs`. `HandlersAreInformed` is the inductive invariant `IInv`: what a handler goes on with was true
  of the row when it was read. `RevivalsAreStaleSaves` needs that hashes on rows and in sessions are among
  those made, so that a new one fits no old session; `LastAdminLossIsARace` that a check which still counts
  somebody has not been overtaken.
- `RunnerProtocol_proofs`. The four properties follow from one invariant, `RunnerInv`. `InTurn`: the
  judger's stage fits the case it is at, and what it asked, was told or brought is about that case
  only. For each case `CaseInv` says how far it is (`CourseOf`: a case before the current one is
  finished, one nobody asked for untouched), where its processes are (`ConfinementOf`: a program runs only in
  the current case, in a cgroup that is made, and none is let go or limited before that), how its gate stands
  (`GatesOf`: it is pending until it is released or its goroutine has ended, and a program behind it has
  done nothing), and which ends its answer may be made
  from (`VerdictsOf`). `AnswersEarned` carries that over the connection, `Booked` into the
  sums the judger keeps, `Causes` ties each error to a fault or to a limit that ended too early.
  `VerdictIsEarned` alone is not inductive: an answer in flight is read after the processes it
  is about are gone. TLC checked `RunnerInv` on the instance of the run before it was proved.
- `Contests_proofs`. The state invariant is short: `Sound`, types and `RowsArePast` (no row is younger
  than the clock, so a row from behind the freeze means that the freeze has begun). The work is in the pages,
  which are folds over any number of rows. What a fold computes needs induction, and the library's
  induction rules take a predicate, which the provers cannot instantiate. `LeastNumber`, `Climb` and
  `Descend` state induction of sets instead: the set of the indices at which a claim holds is a value.
  For the same reason the steps of each fold are written as a table (`LabelTable`, `IcpcTable` and so on), a fold is a run
  through its table (`LeftRun`, `RightRun`, and for instance `IcpcRuns`), and a table has one run (`OneLeftRun`).
  `PagesAgree`: the three forms of the rule agree on typed states (`RulesAgree`), and label, filter, progress and count are
  each the same `Summary` of the set of one's rows, which has no order; the score of a cell is followed row by row, in
  both orders, and the cell of the standings of an ICPC contest is compared with the label case by case. `SecretsAreKept`: with another
  secret result the submissions are `Alike`, and each list, count and table of steps is equal, so each page is.
  `StandingsFollowRules`: after k rows the line is what the rules say of the first k (`IcpcSays`, `OiSays`).
- `LiveServer_proofs`. `WakesUp` by `Attached`: a poll has its channel from before its first look to
  its answer, so what it did not find is announced into it or `silent`.
  `ClaimsAreExclusive` is inductive with the types: whoever changes a row another poll has claimed takes the claim
  with it (`BecomesClaims`, `PollClaims`).
  `NoticesGoWithPosts` by `RowsKept` and `DeletionsFind`: an edit works with a row that was kept when it was read,
  and a deletion under way has found every notice there is but for the late ones.
  `BadgeShowsUnread` by `SyncedOpen`: a browser that missed nothing has its stream open, so what
  changed since it asked is unannounced, in its channel, or makes it stale.
- `Backup_proofs`. `OneDump` by `WorkerHoldsLock`: whoever is at work holds the lock, until one slipped.
  `OneTicket` by `TicketFirst`: a minute for which a backup was begun has a ticket that expires two minutes after it was
  asked for, and the clock was in that minute or later then; so who finds the ticket gone has been stopped. `NewestKept`
  by `DoomedIsOld`: what a job is about to delete had enough newer names when it was listed, and
  names are only added and the smallest limit only falls, so it still has.

Only model-checked: liveness (`EventuallyJudged`, `Answered`, `Ends`), which is out of the prover's
reach. No theorem but `EditsAloneKeepPromise` (no savers) has a hypothesis beyond the ASSUMEs of its module.

## What is not modelled

- Time beyond order, except the minutes of `Contests` and `Backup`: a lease may expire at any moment, an
  object age at any moment that no upload or collection spans.
- The format of packages, zips and JSON; SHA-256 is injective, and bcrypt salts, so every password hash is new.
- Redis losing entries, except by expiry and by what the models delete.
- The limit of outstanding submissions (`submissions.go:176`): it is counted under a lock of the user's
  row, in the transaction that inserts. The rate limits of `cache.Allow` (`cache.go:90`), where a counter
  whose `EXPIRE` is lost never ends; the upload quota (`system.go:200`), which two uploads can pass together;
  the order of progress reports of one worker (`worker_progress.go:68`).
- Judger administration, languages, images and media, groups and members: row changes in one
  transaction each, and get-then-set marks that nothing depends on.
- In the cache: the race on the remembered `.size`, the removal of an invalid `judge.bin`, leftover
  `.package-*` files. In the runner: the comparison of outputs, the copying of files, compilers, the
  calls to Docker and the kernel, and the reuse of a container.
- In contests: paging, several problems, names; the visibility of problems and source code by group.
- Assembly, OpenAPI and validation, the frontend but for its event stream: no state of their own.

## Findings

Each is a run that must end in a violation; `PROJECT.json` quotes the sentence of the repository it contradicts.

- `rejudge_race`: a rejudge's `DELETE FROM cases` is outside the row lock, so case rows of the voided attempt can survive.
- `package_save`: saving a problem's title or visibility writes back the package it read, and undoes edits installed in between.
- `contests_home`: the home page leaves out problems the viewer has solved without asking whether the
  viewer may know; when an unfinished OI contest has lost the problem, it tells a hidden result.

## Observations

Behaviour met while modelling that contradicts no sentence of the repository.

- A cache entry may be marked ready and lack files, because a trim takes the directory another loop is extracting
  into for an entry, and `os.RemoveAll` goes on in it after the rename (`worker_cache.go:199`, `:266`); the
  entry stays a hit until it is trimmed.
- `CACHE_GB` is a target, not a maximum. A trim is skipped while another one runs, passes over
  entries whose lock is taken, and happens after downloads only.
- The list of submissions filtered by status finds a hidden row while it is queued and not when it is judged:
  it tells that a result is there, not which.
- `assignmentProgressResultHidden` never applies: a submission has one context, and the table is about
  those of the assignment. The score in the table depends on the order the rows come in while one of them waits.
- An update of a contest that crosses its deletion saves the row it read and brings the contest back.
- Rows stored after a contest's end, by a submit that was checked before, count in its
  ranking. The label of a problem in an ICPC contest follows the newest row.
- An event stream says `ready` before it subscribes, and a browser that reconnects asks for nothing;
  what is announced in between reaches its badge with the next announcement only.
- A comment whose discussion is deleted while it is being stored leaves notices that lead nowhere, as does an edit that
  commits between the two statements of the deletion; and an edit that crosses a deletion brings the discussion back, since `Save` inserts what it cannot update.
- A backup lock whose holder died, or whose `SETNX` lost its reply, blocks backups for 24 hours. One that
  expired under its job, or whose deletion the Redis client repeats, lets two run at once; a
  backup that ends deletes whatever lock is there.
- Only the server that saved new backup settings reloads its scheduler; the others keep the old schedule until
  they restart, and two updates may be loaded in the other order than they were saved.
- A server that fires a due minute so late that the clock shows the next one takes that minute's ticket, so a due minute
  can get two backups.
- Prune counts what is in the store: after deletions by hand beside a running prune, fewer than `keep` backups can remain.
