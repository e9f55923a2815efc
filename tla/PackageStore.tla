---------------------------- MODULE PackageStore ----------------------------
(***************************************************************************)
(* The package of one problem: a row in the database that names an object  *)
(* of the object store by the hash of its content, edited by concurrent    *)
(* requests, read by the judging queue, and cleaned up by collectors.      *)
(*                                                                         *)
(* An edit never locks the row while it works.  It reads the row, puts the *)
(* new object if the content changed, and installs the new row only if the *)
(* row still is what it read.  Objects that no row names are left to the   *)
(* collector, which spares what is current, what is less than a day old,   *)
(* and every object of a problem that is being judged.                     *)
(*                                                                         *)
(* A package is a set of files.  Input and answer of the same name make a  *)
(* test case; there may be others, such as the custom judge's sources.     *)
(*                                                                         *)
(* Simplifications.  The hash of a zip is the content it was built from:   *)
(* builds are deterministic and SHA-256 is taken to be injective.  No      *)
(* upload and no collection lasts a day, so objects put meanwhile do not   *)
(* age.  A problem shares nothing with others but the collector's run, so  *)
(* one is enough.                                                          *)
(***************************************************************************)
EXTENDS Naturals

CONSTANTS
    Files,          \* files a package may have
    Cases,          \* test cases it may have
    Needs,          \* of each case, its input and its answer
    Sections,       \* the files that are deleted at once
    Versions,       \* versions of a file
    Uploads,        \* what administrators upload: files, each in some version
    Scores,         \* explicit scores
    DefaultScore,   \* the score of a case that has none
    Edits,          \* edit requests administrators will make
    Savers,         \* saves of the problem's other settings they will make
    Collectors,     \* server processes, each runs a collector
    Tasks,          \* submissions to the problem
    NoHash

(***************************************************************************)
(* An object is a zip; its key is its hash, here its content.              *)
(***************************************************************************)
Contents == UNION {[F -> Versions] : F \in SUBSET Files}

ASSUME PackageAssumption ==
    /\ NoHash \notin Contents
    /\ Needs \in [Cases -> (SUBSET Files) \ {{}}]
    /\ Sections \subseteq SUBSET Files
    /\ Uploads \subseteq Contents

Points == Scores \cup {DefaultScore}

(* The row's manifest: the object it names, and the files and the cases it  *)
(* lists, each case with its score.                                        *)
Row == [hash: Contents \cup {NoHash}, files: SUBSET Files,
        scores: UNION {[C -> Points] : C \in SUBSET Cases}]

NoPackage == [hash |-> NoHash, files |-> {}, scores |-> [c \in {} |-> DefaultScore]]

Listed(r) == DOMAIN r.scores

Whole(files) == {c \in Cases : Needs[c] \subseteq files}

(* One file is deleted, or a section.                                      *)
Op == [kind: {"upload"}, files: Uploads] \cup
      [kind: {"delete"}, gone: Sections \cup {{f} : f \in Files}] \cup
      [kind: {"score"}, case: Cases, points: Points]

NoOp == [kind |-> "none"]

(* Only a worker that holds a payload has a package to fetch.              *)
Task == [status: {"queued", "leased", "fetched", "judged"}, hash: {NoHash}] \cup
        [status: {"holding"}, hash: Contents]

VARIABLES
    present,    \* the problem has not been deleted
    row,        \* problems.package
    object,     \* the object store: each content missing, less than a day old, or older
    overtaken,  \* history: the contents last put while a collector was deleting them
    edit,       \* the edit requests: how far, what, the row they read, the row to install
    saver,      \* the settings requests: how far, the row they read; whether the save
                \* changed the row is history
    gc,         \* the collectors: how far, what they keep, whether the problem is
                \* protected, what is left to delete
    task        \* the submissions: status, and the hash in the payload

vars == <<present, row, object, overtaken, edit, saver, gc, task>>

NewEdit  == [step |-> "idle", op |-> NoOp, seen |-> NoPackage, next |-> NoPackage]
NewSaver == [step |-> "idle", seen |-> NoPackage]
IdleGC   == [step |-> "idle", keep |-> {}, protected |-> FALSE, doomed |-> {}]
Queued   == [status |-> "queued", hash |-> NoHash]

TypeOK ==
    /\ present \in BOOLEAN
    /\ row \in Row
    /\ object \in [Contents -> {"missing", "recent", "old"}]
    /\ overtaken \subseteq Contents
    /\ edit \in [Edits -> [step: {"idle", "seen", "read", "built", "ready", "done"},
                           op: Op \cup {NoOp}, seen: Row, next: Row]]
    /\ saver \in [Savers -> [step: {"idle", "read", "done", "reverted"}, seen: Row]]
    /\ gc \in [Collectors -> [step: {"idle", "rows", "active", "deleting"},
                              keep: SUBSET Contents, protected: BOOLEAN,
                              doomed: SUBSET Contents]]
    /\ task \in [Tasks -> Task]

Init ==
    /\ present = TRUE
    /\ row = NoPackage
    /\ object = [h \in Contents |-> "missing"]
    /\ overtaken = {}
    /\ edit = [e \in Edits |-> NewEdit]
    /\ saver = [s \in Savers |-> NewSaver]
    /\ gc = [g \in Collectors |-> IdleGC]
    /\ task = [t \in Tasks |-> Queued]

Stored(h) == object[h] # "missing"

-----------------------------------------------------------------------------
(***************************************************************************)
(* Edits.                                                                  *)
(***************************************************************************)

Done(e) == edit' = [edit EXCEPT ![e] = [NewEdit EXCEPT !.step = "done"]]

(* The editor's page shows the package and its version.                    *)
View(e) ==
    /\ edit[e].step = "idle"
    /\ present
    /\ edit' = [edit EXCEPT ![e].step = "seen", ![e].seen = row]
    /\ UNCHANGED <<present, row, object, overtaken, saver, gc, task>>

(* Listed files are unpacked, the uploaded ones put over them, and the      *)
(* cases inferred from what is there; they keep the scores they had.       *)
Uploaded(r, files) ==
    LET new == [f \in r.files \cup DOMAIN files |->
                  IF f \in DOMAIN files THEN files[f] ELSE r.hash[f]]
    IN [hash |-> new, files |-> DOMAIN new,
        scores |-> [c \in Whole(DOMAIN new) |-> IF c \in Listed(r) THEN r.scores[c] ELSE DefaultScore]]

(* Mutation of Deleted: a case stays while any file of it stays.            *)
DeletedByHalves(r, gone) ==
    LET left == r.files \ gone
    IN IF left = {} THEN NoPackage
       ELSE [hash |-> r.hash, files |-> left,
             scores |-> [c \in {c \in Listed(r) : Needs[c] \cap left # {}} |-> r.scores[c]]]

(* Deleting a file only takes it off the manifest, and the case it belongs  *)
(* to: the object stays, and the row names it as long as it lists a file.  *)
Deleted(r, gone) ==
    LET left == r.files \ gone
    IN IF left = {} THEN NoPackage
       ELSE [hash |-> r.hash, files |-> left,
             scores |-> [c \in {c \in Listed(r) : Needs[c] \subseteq left} |-> r.scores[c]]]

Scored(r, c, points) == [r EXCEPT !.scores[c] = points]

(* What a request may ask of the package r: the other requests are          *)
(* answered with an error.                                                 *)
Valid(op, r) ==
    CASE op.kind = "upload" -> TRUE
      [] op.kind = "delete" -> op.gone \in Sections \/ op.gone \cap r.files # {}
      [] op.kind = "score"  -> op.case \in Listed(r)

(* If-Match: the request is refused unless the row still is what was seen.  *)
Request(e, op) ==
    /\ edit[e].step = "seen"
    /\ present /\ row = edit[e].seen
    /\ Valid(op, row)
    /\ edit' = [edit EXCEPT
          ![e].op = op,
          ![e].step = IF op.kind = "upload" THEN "read" ELSE "ready",
          ![e].next = CASE op.kind = "upload" -> NoPackage
                        [] op.kind = "delete" -> Deleted(row, op.gone)
                        [] op.kind = "score"  -> Scored(row, op.case, op.points)]
    /\ UNCHANGED <<present, row, object, overtaken, saver, gc, task>>

(* The old object is unpacked and the new zip built, both on local disk.   *)
Build(e) ==
    /\ edit[e].step = "read"
    /\ edit[e].seen.hash # NoHash => Stored(edit[e].seen.hash)
    /\ edit' = [edit EXCEPT ![e].step = "built",
                            ![e].next = Uploaded(edit[e].seen, edit[e].op.files)]
    /\ UNCHANGED <<present, row, object, overtaken, saver, gc, task>>

(* Mutation of Put: content that was ever put is taken to be there still.   *)
PutOnce(e) ==
    /\ edit[e].step = "built"
    /\ edit' = [edit EXCEPT ![e].step = "ready"]
    /\ object' = IF Stored(edit[e].next.hash) THEN object
                 ELSE [object EXCEPT ![edit[e].next.hash] = "recent"]
    /\ UNCHANGED <<present, row, overtaken, saver, gc, task>>

(* A collector that has listed the object deletes it whatever happens.     *)
Condemned(h) == \E g \in Collectors : h \in gc[g].doomed

(* Changed content is put even if the store has it already: its day begins  *)
(* anew.                                                                   *)
Put(e) ==
    /\ edit[e].step = "built"
    /\ edit' = [edit EXCEPT ![e].step = "ready"]
    /\ LET h == edit[e].next.hash
       IN IF h = edit[e].seen.hash THEN UNCHANGED <<object, overtaken>>
          ELSE /\ object' = [object EXCEPT ![h] = "recent"]
               /\ overtaken' = IF Condemned(h) THEN overtaken \cup {h} ELSE overtaken \ {h}
    /\ UNCHANGED <<present, row, saver, gc, task>>

(* Mutation of Swap: the version is not compared again under the lock.      *)
SwapBlindly(e) ==
    /\ edit[e].step = "ready"
    /\ row' = IF present THEN edit[e].next ELSE row
    /\ Done(e)
    /\ UNCHANGED <<present, object, overtaken, saver, gc, task>>

(* SELECT ... FOR UPDATE, compare, UPDATE in one transaction.              *)
Swap(e) ==
    /\ edit[e].step = "ready"
    /\ row' = IF present /\ row = edit[e].seen THEN edit[e].next ELSE row
    /\ Done(e)
    /\ UNCHANGED <<present, object, overtaken, saver, gc, task>>

(* The request is refused, breaks off or fails on the way.                 *)
Fail(e) ==
    /\ edit[e].step \notin {"idle", "done"}
    /\ Done(e)
    /\ UNCHANGED <<present, row, object, overtaken, saver, gc, task>>

(* updateProblem and updateProblemVisibility read the whole row and later   *)
(* write all of it back, package and deletion mark included.               *)
ReadSettings(s) ==
    /\ saver[s].step = "idle"
    /\ present
    /\ saver' = [saver EXCEPT ![s] = [step |-> "read", seen |-> row]]
    /\ UNCHANGED <<present, row, object, overtaken, edit, gc, task>>

SaveSettings(s) ==
    /\ saver[s].step = "read"
    /\ row' = saver[s].seen
    /\ present' = TRUE
    /\ saver' = [saver EXCEPT ![s] = [NewSaver EXCEPT
          !.step = IF present /\ row = saver[s].seen THEN "done" ELSE "reverted"]]
    /\ UNCHANGED <<object, overtaken, edit, gc, task>>

DeleteProblem ==
    /\ present
    /\ present' = FALSE
    /\ UNCHANGED <<row, object, overtaken, edit, saver, gc, task>>

-----------------------------------------------------------------------------
(***************************************************************************)
(* Submissions, as far as packages are concerned.  A submission is          *)
(* "judging" in the database from its lease to its result.                 *)
(***************************************************************************)

Judging(t) == task[t].status \in {"leased", "holding", "fetched"}

Lease(t) ==
    /\ task[t].status = "queued"
    /\ task' = [task EXCEPT ![t].status = "leased"]
    /\ UNCHANGED <<present, row, object, overtaken, edit, saver, gc>>

(* The payload names the current package; without one the lease is undone.  *)
BuildPayload(t) ==
    /\ task[t].status = "leased"
    /\ task' = [task EXCEPT ![t] =
          IF present /\ row.hash # NoHash /\ Listed(row) # {}
          THEN [status |-> "holding", hash |-> row.hash]
          ELSE Queued]
    /\ UNCHANGED <<present, row, object, overtaken, edit, saver, gc>>

(* The package endpoint opens the object named in the payload, whatever the *)
(* row says by now; a worker that finds none reports a system error.        *)
FetchPackage(t) ==
    /\ task[t].status = "holding"
    /\ task' = [task EXCEPT ![t] = [hash |-> NoHash,
          status |-> IF Stored(task[t].hash) THEN "fetched" ELSE "judged"]]
    /\ UNCHANGED <<present, row, object, overtaken, edit, saver, gc>>

FinishTask(t) ==
    /\ Judging(t)
    /\ task' = [task EXCEPT ![t] = [status |-> "judged", hash |-> NoHash]]
    /\ UNCHANGED <<present, row, object, overtaken, edit, saver, gc>>

(* A rejudge, or a lease taken over after it expired: the package endpoint  *)
(* refuses the worker that holds the old payload from now on.              *)
Requeue(t) ==
    /\ task[t].status # "queued"
    /\ \/ task' = [task EXCEPT ![t] = Queued]
       \/ Judging(t) /\ task' = [task EXCEPT ![t] = [status |-> "leased", hash |-> NoHash]]
    /\ UNCHANGED <<present, row, object, overtaken, edit, saver, gc>>

-----------------------------------------------------------------------------
(***************************************************************************)
(* The collector.                                                          *)
(***************************************************************************)

ReadRows(g) ==
    /\ gc[g].step = "idle"
    /\ gc' = [gc EXCEPT ![g].step = "rows",
                        ![g].keep = IF present THEN {row.hash} \ {NoHash} ELSE {}]
    /\ UNCHANGED <<present, row, object, overtaken, edit, saver, task>>

(* Mutation of ReadActive: only queued submissions protect their problem.   *)
ReadQueued(g) ==
    /\ gc[g].step = "rows"
    /\ gc' = [gc EXCEPT ![g].step = "active",
                        ![g].protected = \E t \in Tasks : task[t].status = "queued"]
    /\ UNCHANGED <<present, row, object, overtaken, edit, saver, task>>

ReadActive(g) ==
    /\ gc[g].step = "rows"
    /\ gc' = [gc EXCEPT ![g].step = "active", ![g].protected = \E t \in Tasks : Judging(t)]
    /\ UNCHANGED <<present, row, object, overtaken, edit, saver, task>>

(* Mutation of Garbage: no grace period.                                   *)
UnnamedObjects(keep) == {h \in Contents : Stored(h)} \ keep

Garbage(keep) == {h \in Contents : object[h] = "old"} \ keep

(* The list is all that the run goes by from now on.                       *)
List(g) ==
    /\ gc[g].step = "active"
    /\ gc' = [gc EXCEPT ![g] = [IdleGC EXCEPT !.step = "deleting",
                        !.doomed = IF gc[g].protected THEN {} ELSE Garbage(gc[g].keep)]]
    /\ UNCHANGED <<present, row, object, overtaken, edit, saver, task>>

(* Objects are deleted one by one; a failure leaves the object to the next  *)
(* run.                                                                    *)
Delete(g) ==
    /\ gc[g].step = "deleting"
    /\ \E h \in gc[g].doomed :
         /\ \/ object' = [object EXCEPT ![h] = "missing"]
            \/ UNCHANGED object
         /\ gc' = [gc EXCEPT ![g].doomed = @ \ {h}]
    /\ UNCHANGED <<present, row, overtaken, edit, saver, task>>

(* The run is over, or a query of it failed.                               *)
EndRun(g) ==
    /\ gc[g].step # "idle"
    /\ gc' = [gc EXCEPT ![g] = IdleGC]
    /\ UNCHANGED <<present, row, object, overtaken, edit, saver, task>>

(* A day passes.                                                           *)
Age(h) ==
    /\ object[h] = "recent"
    /\ \A e \in Edits : edit[e].step = "ready" => edit[e].next.hash # h
    /\ \A g \in Collectors : gc[g].step = "idle"
    /\ object' = [object EXCEPT ![h] = "old"]
    /\ overtaken' = overtaken \ {h}
    /\ UNCHANGED <<present, row, edit, saver, gc, task>>

-----------------------------------------------------------------------------

EditStep ==
    \/ \E e \in Edits :
         \/ View(e) \/ Build(e) \/ Put(e) \/ Swap(e) \/ Fail(e)
         \/ \E op \in Op : Request(e, op)
    \/ \E s \in Savers : ReadSettings(s) \/ SaveSettings(s)
    \/ DeleteProblem

TaskStep ==
    \E t \in Tasks :
        Lease(t) \/ BuildPayload(t) \/ FetchPackage(t) \/ FinishTask(t) \/ Requeue(t)

CollectorStep ==
    \/ \E g \in Collectors :
         ReadRows(g) \/ ReadActive(g) \/ List(g) \/ Delete(g) \/ EndRun(g)
    \/ \E h \in Contents : Age(h)

Next == EditStep \/ TaskStep \/ CollectorStep

Spec == Init /\ [][Next]_vars

-----------------------------------------------------------------------------
(***************************************************************************)
(* Properties.                                                             *)
(***************************************************************************)

(* The manifest lists only files that the object it names contains, and as  *)
(* cases just those it lists all files of, although deletions, of half a    *)
(* case too, and settings change the row without looking at the object.    *)
ManifestFits(r) ==
    /\ r.hash = NoHash => r.files = {}
    /\ r.hash # NoHash => r.files \subseteq DOMAIN r.hash
    /\ Listed(r) = Whole(r.files)

(* No save has undone an edit or a deletion.                               *)
Unreverted == \A s \in Savers : saver[s].step # "reverted"

(* The package a problem shows can always be opened: no order of uploads,  *)
(* refused uploads, deletions and collections removes its object.  There   *)
(* are two ways only to lose it: its content was put while a collector was *)
(* deleting it, or a save put back a row whose object may be gone.         *)
CurrentIsStored ==
    Unreverted /\ present /\ row.hash \notin {NoHash} \cup overtaken => Stored(row.hash)

(* The same of the package in the payload of a running task, which need    *)
(* not be the current one any more.                                        *)
PayloadIsStored ==
    Unreverted => \A t \in Tasks :
        task[t].status = "holding" /\ task[t].hash \notin overtaken => Stored(task[t].hash)

(* Whatever editors upload over what others have deleted, the manifest in   *)
(* force never lists a file its object lacks, nor a case without one of its *)
(* files: what a task is told of can be judged.                            *)
ManifestsFit == ManifestFits(row)

(* An object put within the last day is never deleted, unless a collector  *)
(* was at it already when it was put.                                      *)
RecentIsKept ==
    [][\A h \in Contents \ overtaken : object[h] = "recent" => object'[h] # "missing"]_vars

(***************************************************************************)
(* The package as its editors see it, and what they are asking for.        *)
(***************************************************************************)
Shown(r) == [files |-> [f \in r.files |-> r.hash[f]], scores |-> r.scores]

Promise == INSTANCE PackageEdits WITH
              package <- Shown(row), asked <- [e \in Edits |-> edit[e].op],
              held <- [s \in Savers |-> Shown(saver[s].seen)]

(* Every change of what editors see is one granted request applied to the  *)
(* package just before it, or a save that puts back what it has read: no   *)
(* edit is lost otherwise, no deleted file comes back.                     *)
ImplementsEdits == Promise!Spec

(* Editors are told that nothing but their requests changes a package.     *)
KeepsPromise == Promise!Promised

(***************************************************************************)
(* The inductive invariant behind the properties of the object store.      *)
(***************************************************************************)

(* Every manifest in circulation fits its object.                          *)
AllManifestsFit ==
    /\ ManifestFits(row)
    /\ \A e \in Edits : ManifestFits(edit[e].seen) /\ ManifestFits(edit[e].next)
    /\ \A s \in Savers : ManifestFits(saver[s].seen)

(* Only uploads build objects.                                             *)
OnlyUploadsBuild ==
    \A e \in Edits :
        /\ edit[e].step \in {"read", "built"} => edit[e].op.kind = "upload"
        /\ edit[e].step = "built" => edit[e].next.hash # NoHash

(* What an edit is about to install was put within the day, unless it is    *)
(* what the row it read named already.                                     *)
ReadyIsRecent ==
    \A e \in Edits :
        edit[e].step = "ready" /\ edit[e].next.hash \notin {NoHash, edit[e].seen.hash} \cup overtaken =>
            object[edit[e].next.hash] = "recent"

(* What a collector may still decide to delete.                            *)
Exposed(g, h) == object[h] # "recent" /\ h \notin gc[g].keep

(* A collector never comes to delete the current object ...                *)
CurrentIsSafe ==
    Unreverted /\ present /\ row.hash \notin {NoHash} \cup overtaken =>
        /\ Stored(row.hash)
        /\ \A g \in Collectors :
             /\ row.hash \notin gc[g].doomed
             /\ gc[g].step \in {"rows", "active"} => ~Exposed(g, row.hash)

(* ... nor one that a running task's payload names, because it sees the     *)
(* task after it has read the row.                                         *)
PayloadIsSafe ==
    Unreverted => \A t \in Tasks :
        task[t].status = "holding" /\ task[t].hash \notin overtaken =>
            /\ Stored(task[t].hash)
            /\ \A g \in Collectors :
                 /\ task[t].hash \notin gc[g].doomed
                 /\ gc[g].step = "active" /\ ~gc[g].protected => ~Exposed(g, task[t].hash)

(* Collectors delete nothing else that was put within the day.             *)
DoomedIsOld ==
    \A g \in Collectors :
        /\ gc[g].step # "deleting" => gc[g].doomed = {}
        /\ \A h \in gc[g].doomed \ overtaken : object[h] # "recent"

(* Collectors look before they list, and nothing young grows old meanwhile: *)
(* what becomes needed after a collector looked is still too recent for it.*)
StoreInv ==
    /\ TypeOK
    /\ AllManifestsFit
    /\ OnlyUploadsBuild
    /\ ReadyIsRecent
    /\ CurrentIsSafe
    /\ PayloadIsSafe
    /\ DoomedIsOld

=============================================================================
