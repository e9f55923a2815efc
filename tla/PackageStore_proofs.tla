------------------------ MODULE PackageStore_proofs ------------------------
(***************************************************************************)
(* Proofs about PackageStore: manifests fit their objects whatever happens *)
(* to the row; and what is current or in use is never deleted, but for     *)
(* contents last put while a collector was already deleting them, and for  *)
(* rows that a save of other settings has put back.                        *)
(***************************************************************************)
EXTENDS PackageStore, TLAPS

LEMMA Constants ==
    /\ NoHash \notin Contents
    /\ DefaultScore \in Points
    /\ Uploads \subseteq Contents
    /\ Whole({}) = {}
  BY PackageAssumption DEF Points, Whole

(***************************************************************************)
(* Manifests.                                                              *)
(***************************************************************************)

(* Functions on a set of files are contents.                               *)
LEMMA ContentsIntro ==
    ASSUME NEW F \in SUBSET Files, NEW h \in [F -> Versions] PROVE h \in Contents
  BY DEF Contents

LEMMA ContentsElim ==
    ASSUME NEW h \in Contents
    PROVE  DOMAIN h \subseteq Files /\ \A f \in DOMAIN h : h[f] \in Versions
  BY DEF Contents

LEMMA RowIntro ==
    ASSUME NEW h \in Contents \cup {NoHash}, NEW F \in SUBSET Files,
           NEW C \in SUBSET Cases, NEW s \in [C -> Points]
    PROVE  [hash |-> h, files |-> F, scores |-> s] \in Row
  BY DEF Row

LEMMA RowElim ==
    ASSUME NEW r \in Row
    PROVE  /\ r.hash \in Contents \cup {NoHash}
           /\ r.files \subseteq Files
           /\ Listed(r) \subseteq Cases
           /\ \A c \in Listed(r) : r.scores[c] \in Points
           /\ r = [hash |-> r.hash, files |-> r.files, scores |-> r.scores]
           /\ r.scores \in [Listed(r) -> Points]
  BY DEF Row, Listed

LEMMA NoPackageFits == NoPackage \in Row /\ ManifestFits(NoPackage)
<1>1. [c \in {} |-> DefaultScore] \in [{} -> Points]
  OBVIOUS
<1>2. NoPackage \in Row
  BY <1>1, RowIntro DEF NoPackage
<1>3. QED
  BY <1>2, Constants DEF NoPackage, ManifestFits, Listed

LEMMA UploadedFits ==
    ASSUME NEW r \in Row, ManifestFits(r), NEW files \in Contents
    PROVE  LET u == Uploaded(r, files) IN u \in Row /\ ManifestFits(u) /\ u.hash # NoHash
<1> DEFINE F == r.files \cup DOMAIN files
           new == [f \in F |-> IF f \in DOMAIN files THEN files[f] ELSE r.hash[f]]
           C == Whole(DOMAIN new)
           sc == [c \in C |-> IF c \in Listed(r) THEN r.scores[c] ELSE DefaultScore]
<1>1. F \in SUBSET Files
  BY RowElim, ContentsElim
<1>2. ASSUME NEW f \in F PROVE new[f] \in Versions
  <2>1. CASE f \in DOMAIN files
    BY <2>1, ContentsElim
  <2>2. CASE f \notin DOMAIN files
    <3>1. f \in r.files /\ r.hash # NoHash /\ f \in DOMAIN r.hash
      BY <2>2 DEF ManifestFits
    <3>2. r.hash \in Contents
      BY <3>1, RowElim
    <3>3. QED
      BY <2>2, <3>1, <3>2, ContentsElim
  <2>3. QED
    BY <2>1, <2>2
<1>3. new \in Contents
  <2>1. new \in [F -> Versions]
    BY <1>2
  <2>2. QED
    BY <1>1, <2>1, ContentsIntro
<1>4. sc \in [C -> Points] /\ C \in SUBSET Cases
  BY RowElim, Constants DEF Whole
<1>5. Uploaded(r, files) = [hash |-> new, files |-> DOMAIN new, scores |-> sc]
  BY DEF Uploaded
<1>6. DOMAIN new = F
  OBVIOUS
<1>7. Uploaded(r, files) \in Row
  BY <1>1, <1>3, <1>4, <1>5, <1>6, RowIntro
<1>8. new # NoHash /\ DOMAIN sc = C
  BY <1>3, Constants
<1> HIDE DEF new, sc, F
<1>9. QED
  BY <1>5, <1>7, <1>8 DEF ManifestFits, Listed

LEMMA DeletedFits ==
    ASSUME NEW r \in Row, ManifestFits(r), NEW gone
    PROVE  Deleted(r, gone) \in Row /\ ManifestFits(Deleted(r, gone))
<1> DEFINE left == r.files \ gone
           C == {c \in Listed(r) : Needs[c] \subseteq left}
           sc == [c \in C |-> r.scores[c]]
<1>1. CASE left = {}
  BY <1>1, NoPackageFits DEF Deleted
<1>2. CASE left # {}
  <2>1. /\ left \in SUBSET Files /\ C \in SUBSET Cases /\ sc \in [C -> Points]
        /\ r.hash \in Contents \cup {NoHash}
    BY RowElim
  <2>2. Deleted(r, gone) = [hash |-> r.hash, files |-> left, scores |-> sc]
    BY <1>2 DEF Deleted
  <2>3. Deleted(r, gone) \in Row
    BY <2>1, <2>2, RowIntro
  <2>4. DOMAIN sc = C /\ r.hash # NoHash /\ left \subseteq DOMAIN r.hash
    BY <1>2 DEF ManifestFits
  <2>5. C = Whole(left)
    BY DEF ManifestFits, Whole
  <2> HIDE DEF sc, C, left
  <2>6. QED
    BY <2>2, <2>3, <2>4, <2>5 DEF ManifestFits, Listed
<1>3. QED
  BY <1>1, <1>2

LEMMA ScoredFits ==
    ASSUME NEW r \in Row, ManifestFits(r), NEW c \in Listed(r), NEW points \in Points
    PROVE  Scored(r, c, points) \in Row /\ ManifestFits(Scored(r, c, points))
<1> DEFINE sc == [r.scores EXCEPT ![c] = points]
<1>1. /\ r.scores \in [Listed(r) -> Points] /\ Listed(r) \in SUBSET Cases
      /\ r.hash \in Contents \cup {NoHash} /\ r.files \in SUBSET Files
  BY RowElim
<1>2. sc \in [Listed(r) -> Points]
  BY <1>1
<1>3. Scored(r, c, points) = [hash |-> r.hash, files |-> r.files, scores |-> sc]
  BY RowElim DEF Scored
<1>4. Scored(r, c, points) \in Row
  BY <1>1, <1>2, <1>3, RowIntro
<1>5. DOMAIN sc = Listed(r)
  BY <1>2
<1> HIDE DEF sc
<1>6. QED
  BY <1>3, <1>4, <1>5 DEF ManifestFits, Listed

-----------------------------------------------------------------------------
(***************************************************************************)
(* Types and manifests are preserved by every action, whoever edits.       *)
(***************************************************************************)

Manifests == TypeOK /\ AllManifestsFit

EditRecord == [step: {"idle", "seen", "read", "built", "ready", "done"},
               op: Op \cup {NoOp}, seen: Row, next: Row]

LEMMA NewEditTyped == [NewEdit EXCEPT !.step = "done"] \in EditRecord /\ NewEdit \in EditRecord
  BY NoPackageFits DEF NewEdit, EditRecord

(* It is enough to look at the one edit that moved.                        *)
LEMMA EditMoves ==
    ASSUME Manifests, NEW e \in Edits, NEW new \in EditRecord,
           edit' = [edit EXCEPT ![e] = new],
           ManifestFits(new.seen), ManifestFits(new.next),
           UNCHANGED <<present, row, saver, gc, task>>,
           object' \in [Contents -> {"missing", "recent", "old"}], overtaken' \subseteq Contents
    PROVE  Manifests'
  BY DEF Manifests, TypeOK, AllManifestsFit, EditRecord, ManifestFits, Listed

LEMMA DoneManifests ==
    ASSUME Manifests, NEW e \in Edits, Done(e), row' = row \/ row' = edit[e].next,
           UNCHANGED <<present, object, overtaken, saver, gc, task>>
    PROVE  Manifests'
<1> DEFINE new == [NewEdit EXCEPT !.step = "done"]
<1>1. new \in EditRecord /\ ManifestFits(new.seen) /\ ManifestFits(new.next)
  BY NewEditTyped, NoPackageFits DEF NewEdit
<1>2. edit' = [edit EXCEPT ![e] = new]
  BY DEF Done
<1>3. edit[e].next \in Row /\ ManifestFits(edit[e].next)
  BY DEF Manifests, TypeOK, AllManifestsFit
<1>4. row' \in Row /\ ManifestFits(row)'
  BY <1>3 DEF Manifests, TypeOK, AllManifestsFit, ManifestFits, Listed
<1>5. QED
  BY <1>1, <1>2, <1>4 DEF Manifests, TypeOK, AllManifestsFit, EditRecord, ManifestFits, Listed

LEMMA ViewManifests ==
    ASSUME Manifests, NEW e \in Edits, View(e) PROVE Manifests'
<1> DEFINE new == [edit[e] EXCEPT !.step = "seen", !.seen = row]
<1>0. edit[e] \in EditRecord /\ edit \in [Edits -> EditRecord] /\ row \in Row
  BY DEF Manifests, TypeOK, EditRecord
<1>1. edit' = [edit EXCEPT ![e] = new] /\ new \in EditRecord
  <2>1. new \in EditRecord
    BY <1>0 DEF EditRecord
  <2>2. edit' = [edit EXCEPT ![e] = new]
    BY <1>0 DEF View
  <2>3. QED
    BY <2>1, <2>2
<1>2. ManifestFits(new.seen) /\ ManifestFits(new.next)
  BY DEF Manifests, TypeOK, AllManifestsFit
<1>3. QED
  BY <1>1, <1>2, EditMoves DEF View, Manifests, TypeOK

LEMMA RequestManifests ==
    ASSUME Manifests, NEW e \in Edits, NEW op \in Op, Request(e, op) PROVE Manifests'
<1> DEFINE nx == CASE op.kind = "upload" -> NoPackage
                   [] op.kind = "delete" -> Deleted(row, op.gone)
                   [] op.kind = "score"  -> Scored(row, op.case, op.points)
           st == IF op.kind = "upload" THEN "read" ELSE "ready"
           new == [edit[e] EXCEPT !.op = op, !.step = st, !.next = nx]
<1>0. row \in Row /\ ManifestFits(row)
  BY DEF Manifests, TypeOK, AllManifestsFit
<1>1. nx \in Row /\ ManifestFits(nx)
  <2>1. CASE op.kind = "upload"
    BY <2>1, NoPackageFits
  <2>2. CASE op.kind = "delete"
    BY <2>2, <1>0, DeletedFits
  <2>3. CASE op.kind = "score"
    <3>1. op.case \in Listed(row) /\ op.points \in Points
      BY <2>3 DEF Op, Request, Valid
    <3>2. QED
      BY <2>3, <3>1, <1>0, ScoredFits
  <2>4. QED
    BY <2>1, <2>2, <2>3 DEF Op
<1>2. edit' = [edit EXCEPT ![e] = new]
  BY DEF Request, Manifests, TypeOK
<1>3. edit[e] \in EditRecord /\ ManifestFits(edit[e].seen)
  BY DEF Manifests, TypeOK, AllManifestsFit, EditRecord
<1>4. new \in EditRecord
  BY <1>1, <1>3 DEF EditRecord
<1>5. new.seen = edit[e].seen /\ new.next = nx
  BY <1>3 DEF EditRecord
<1> HIDE DEF nx, st, new
<1>6. QED
  BY <1>1, <1>2, <1>3, <1>4, <1>5, EditMoves DEF Request, Manifests, TypeOK

LEMMA BuildManifests ==
    ASSUME Manifests, NEW e \in Edits, Build(e), edit[e].op.kind = "upload",
           edit[e].op.files \in Contents
    PROVE  Manifests'
<1> DEFINE nx == Uploaded(edit[e].seen, edit[e].op.files)
           new == [edit[e] EXCEPT !.step = "built", !.next = nx]
<1>1. edit[e] \in EditRecord /\ edit[e].seen \in Row /\ ManifestFits(edit[e].seen)
  BY DEF Manifests, TypeOK, AllManifestsFit, EditRecord
<1>2. nx \in Row /\ ManifestFits(nx)
  BY <1>1, UploadedFits
<1>3. edit' = [edit EXCEPT ![e] = new]
  BY DEF Build, Manifests, TypeOK
<1>4. new \in EditRecord /\ new.seen = edit[e].seen /\ new.next = nx
  BY <1>1, <1>2 DEF EditRecord
<1> HIDE DEF nx, new
<1>5. QED
  BY <1>1, <1>2, <1>3, <1>4, EditMoves DEF Build, Manifests, TypeOK

LEMMA PutManifests ==
    ASSUME Manifests, NEW e \in Edits, Put(e), edit[e].next.hash # NoHash PROVE Manifests'
<1> DEFINE new == [edit[e] EXCEPT !.step = "ready"]
<1>1. edit[e] \in EditRecord /\ ManifestFits(edit[e].seen) /\ ManifestFits(edit[e].next)
  BY DEF Manifests, TypeOK, AllManifestsFit, EditRecord
<1>2. edit' = [edit EXCEPT ![e] = new]
  BY DEF Put, Manifests, TypeOK
<1>3. new \in EditRecord /\ new.seen = edit[e].seen /\ new.next = edit[e].next
  BY <1>1 DEF EditRecord
<1>4. object' \in [Contents -> {"missing", "recent", "old"}] /\ overtaken' \subseteq Contents
  <2>1. edit[e].next.hash \in Contents
    BY RowElim DEF Manifests, TypeOK
  <2>2. QED
    BY <2>1 DEF Put, Manifests, TypeOK
<1> HIDE DEF new
<1>5. QED
  BY <1>1, <1>2, <1>3, <1>4, EditMoves DEF Put

LEMMA SaverManifests ==
    ASSUME Manifests, NEW s \in Savers, ReadSettings(s) \/ SaveSettings(s) PROVE Manifests'
<1>1. CASE ReadSettings(s)
  BY <1>1 DEF ReadSettings, Manifests, TypeOK, AllManifestsFit, ManifestFits, Listed
<1>2. CASE SaveSettings(s)
  <2>1. saver[s].seen \in Row /\ ManifestFits(saver[s].seen)
    BY DEF Manifests, TypeOK, AllManifestsFit
  <2>2. row' \in Row /\ ManifestFits(row)'
    BY <1>2, <2>1 DEF SaveSettings, ManifestFits, Listed
  <2>3. QED
    BY <1>2, <2>2, NoPackageFits
       DEF SaveSettings, NewSaver, Manifests, TypeOK, AllManifestsFit, ManifestFits, Listed
<1>3. QED
  BY <1>1, <1>2

LEMMA DeleteProblemManifests ==
    ASSUME Manifests, DeleteProblem PROVE Manifests'
  BY DEF DeleteProblem, Manifests, TypeOK, AllManifestsFit, ManifestFits, Listed

LEMMA TaskManifests ==
    ASSUME Manifests, TaskStep PROVE Manifests'
<1>1. PICK t \in Tasks : Lease(t) \/ BuildPayload(t) \/ FetchPackage(t) \/ FinishTask(t) \/ Requeue(t)
  BY DEF TaskStep
<1>2. UNCHANGED <<present, row, object, overtaken, edit, saver, gc>>
  BY <1>1 DEF Lease, BuildPayload, FetchPackage, FinishTask, Requeue
<1>3. task \in [Tasks -> Task] /\ row.hash \in Contents \cup {NoHash}
  BY RowElim DEF Manifests, TypeOK
<1>4. Queued \in Task
  BY DEF Queued, Task
<1>5. task' \in [Tasks -> Task]
  <2>1. CASE Lease(t)
    <3>1. [task[t] EXCEPT !.status = "leased"] \in Task
      BY <2>1, <1>3 DEF Lease, Task
    <3>2. QED
      BY <2>1, <3>1, <1>3 DEF Lease
  <2>2. CASE BuildPayload(t)
    BY <2>2, <1>3, <1>4 DEF BuildPayload, Task
  <2>3. CASE FetchPackage(t)
    BY <2>3, <1>3 DEF FetchPackage, Task
  <2>4. CASE FinishTask(t)
    BY <2>4, <1>3 DEF FinishTask, Task
  <2>5. CASE Requeue(t)
    BY <2>5, <1>3, <1>4 DEF Requeue, Task
  <2>6. QED
    BY <1>1, <2>1, <2>2, <2>3, <2>4, <2>5
<1>6. QED
  BY <1>2, <1>5 DEF Manifests, TypeOK, AllManifestsFit, ManifestFits, Listed

GCRecord == [step: {"idle", "rows", "active", "deleting"},
             keep: SUBSET Contents, protected: BOOLEAN, doomed: SUBSET Contents]

LEMMA RowsTyped ==
    ASSUME NEW c \in GCRecord, NEW kept \in SUBSET Contents
    PROVE  [c EXCEPT !.step = "rows", !.keep = kept] \in GCRecord
  BY DEF GCRecord

LEMMA ActiveTyped ==
    ASSUME NEW c \in GCRecord, NEW seen \in BOOLEAN
    PROVE  [c EXCEPT !.step = "active", !.protected = seen] \in GCRecord
  BY DEF GCRecord

LEMMA ListTyped ==
    ASSUME NEW found \in SUBSET Contents
    PROVE  [IdleGC EXCEPT !.step = "deleting", !.doomed = found] \in GCRecord
  BY DEF GCRecord, IdleGC

LEMMA DoomedTyped ==
    ASSUME NEW c \in GCRecord, NEW left \in SUBSET Contents
    PROVE  [c EXCEPT !.doomed = left] \in GCRecord
  BY DEF GCRecord

LEMMA CollectorManifests ==
    ASSUME Manifests, CollectorStep PROVE Manifests'
<1> USE DEF Manifests, TypeOK
<1>0. gc \in [Collectors -> GCRecord] /\ row.hash \in Contents \cup {NoHash}
  BY RowElim DEF GCRecord
<1>1. ASSUME NEW g \in Collectors, ReadRows(g) PROVE gc' \in [Collectors -> GCRecord]
  <2> DEFINE kept == IF present THEN {row.hash} \ {NoHash} ELSE {}
             new == [gc[g] EXCEPT !.step = "rows", !.keep = kept]
  <2>1. gc' = [gc EXCEPT ![g] = new] /\ kept \in SUBSET Contents
    BY <1>1, <1>0 DEF ReadRows
  <2> HIDE DEF kept
  <2>2. new \in GCRecord
    <3>1. gc[g] \in GCRecord
      BY <1>0
    <3>2. QED
      BY <3>1, <2>1, RowsTyped
  <2>3. QED
    BY <2>1, <2>2, <1>0
<1>2. ASSUME NEW g \in Collectors, ReadActive(g) PROVE gc' \in [Collectors -> GCRecord]
  <2> DEFINE seen == \E t \in Tasks : Judging(t)
             new == [gc[g] EXCEPT !.step = "active", !.protected = seen]
  <2>1. gc' = [gc EXCEPT ![g] = new]
    BY <1>2, <1>0 DEF ReadActive, GCRecord
  <2>2. seen \in BOOLEAN
    OBVIOUS
  <2> HIDE DEF seen
  <2>3. new \in GCRecord
    <3>1. gc[g] \in GCRecord
      BY <1>0
    <3>2. QED
      BY <3>1, <2>2, ActiveTyped
  <2>4. QED
    BY <2>1, <2>3, <1>0
<1>3. ASSUME NEW g \in Collectors, List(g) PROVE gc' \in [Collectors -> GCRecord]
  <2> DEFINE found == IF gc[g].protected THEN {} ELSE Garbage(gc[g].keep)
             new == [IdleGC EXCEPT !.step = "deleting", !.doomed = found]
  <2>1. gc' = [gc EXCEPT ![g] = new] /\ found \in SUBSET Contents
    BY <1>3, <1>0 DEF List, GCRecord, Garbage
  <2> HIDE DEF found
  <2>2. new \in GCRecord
    BY <2>1, ListTyped
  <2>3. QED
    BY <2>1, <2>2, <1>0
<1>4. ASSUME NEW g \in Collectors, Delete(g) PROVE gc' \in [Collectors -> GCRecord]
  <2>1. PICK h \in gc[g].doomed : gc' = [gc EXCEPT ![g].doomed = gc[g].doomed \ {h}]
    BY <1>4 DEF Delete
  <2> DEFINE new == [gc[g] EXCEPT !.doomed = gc[g].doomed \ {h}]
  <2>2. gc' = [gc EXCEPT ![g] = new]
    BY <2>1
  <2>3. new \in GCRecord
    <3>1. gc[g] \in GCRecord
      BY <1>0
    <3>2. gc[g].doomed \ {h} \in SUBSET Contents
      BY <3>1 DEF GCRecord
    <3>3. QED
      BY <3>1, <3>2, DoomedTyped
  <2>4. QED
    BY <2>2, <2>3, <1>0
<1>5. gc' \in [Collectors -> GCRecord]
  <2>1. IdleGC \in GCRecord
    BY DEF IdleGC, GCRecord
  <2>2. ASSUME NEW g \in Collectors, EndRun(g) PROVE gc' \in [Collectors -> GCRecord]
    BY <2>1, <2>2, <1>0 DEF EndRun
  <2>3. ASSUME NEW h \in Contents, Age(h) PROVE gc' \in [Collectors -> GCRecord]
    BY <2>3, <1>0 DEF Age
  <2>4. QED
    BY <1>1, <1>2, <1>3, <1>4, <2>2, <2>3 DEF CollectorStep
<1>6. object' \in [Contents -> {"missing", "recent", "old"}]
  <2>1. ASSUME NEW g \in Collectors, Delete(g) PROVE object' \in [Contents -> {"missing", "recent", "old"}]
    BY <2>1 DEF Delete
  <2>2. ASSUME NEW h \in Contents, Age(h) PROVE object' \in [Contents -> {"missing", "recent", "old"}]
    BY <2>2 DEF Age
  <2>3. ASSUME NEW g \in Collectors, ReadRows(g) \/ ReadActive(g) \/ List(g) \/ EndRun(g)
        PROVE  object' = object
    BY <2>3 DEF ReadRows, ReadActive, List, EndRun
  <2>4. QED
    BY <2>1, <2>2, <2>3 DEF CollectorStep
<1>7. UNCHANGED <<present, row, edit, saver, task>> /\ overtaken' \subseteq overtaken
  BY DEF CollectorStep, ReadRows, ReadActive, List, Delete, EndRun, Age
<1>8. QED
  BY <1>5, <1>6, <1>7 DEF AllManifestsFit, ManifestFits, Listed, GCRecord

(* The edit that is granted, refused or fails leaves nothing behind.       *)
LEMMA EndManifests ==
    ASSUME Manifests, NEW e \in Edits, Swap(e) \/ Fail(e) PROVE Manifests'
<1>1. Done(e) /\ (row' = row \/ row' = edit[e].next)
  BY DEF Swap, Fail
<1>2. UNCHANGED <<present, object, overtaken, saver, gc, task>>
  BY DEF Swap, Fail
<1>3. QED
  BY <1>1, <1>2, DoneManifests

EditsOk == Manifests /\ OnlyUploadsBuild

LEMMA OneEdit ==
    ASSUME TypeOK, EditStep
    PROVE  \/ \E e \in Edits : View(e)
           \/ \E e \in Edits, op \in Op : Request(e, op)
           \/ \E e \in Edits : Build(e)
           \/ \E e \in Edits : Put(e)
           \/ \E e \in Edits : Swap(e) \/ Fail(e)
           \/ \E s \in Savers : ReadSettings(s) \/ SaveSettings(s)
           \/ DeleteProblem
  BY DEF EditStep

LEMMA UploadInHand ==
    ASSUME EditsOk, NEW e \in Edits, edit[e].step \in {"read", "built"}
    PROVE  /\ edit[e].op.kind = "upload"
           /\ edit[e].op.files \in Contents
<1>1. edit[e].op \in Op \cup {NoOp} /\ edit[e].op.kind = "upload"
  BY DEF EditsOk, Manifests, TypeOK, OnlyUploadsBuild
<1>2. edit[e].op \in [kind: {"upload"}, files: Uploads]
  BY <1>1 DEF Op, NoOp
<1>3. QED
  BY <1>1, <1>2, Constants

(* What the next actions need of an edit that moves on.                    *)
LEMMA OnlyUploadsBuildStep ==
    ASSUME EditsOk, [Next]_vars PROVE OnlyUploadsBuild'
<1> USE DEF EditsOk, Manifests, TypeOK, OnlyUploadsBuild
<1>1. CASE UNCHANGED edit
  BY <1>1
<1>2. CASE \E e \in Edits : View(e) \/ Put(e)
  BY <1>2 DEF View, Put
<1>3. CASE \E e \in Edits, op \in Op : Request(e, op)
  BY <1>3 DEF Request, Valid
<1>4. CASE \E e \in Edits : Build(e)
  <2>1. PICK e \in Edits : Build(e)
    BY <1>4
  <2>2. edit[e].step = "read"
    BY <2>1 DEF Build
  <2>3. edit[e].op.files \in Contents /\ edit[e].op.kind = "upload"
    BY <2>2, UploadInHand
  <2> DEFINE nx == Uploaded(edit[e].seen, edit[e].op.files)
  <2>4. edit[e].seen \in Row /\ ManifestFits(edit[e].seen)
    BY DEF AllManifestsFit
  <2>5. nx.hash # NoHash
    BY <2>3, <2>4, UploadedFits
  <2> HIDE DEF nx
  <2>6. edit' = [edit EXCEPT ![e].step = "built", ![e].next = nx]
    BY <2>1 DEF Build, nx
  <2>7. QED
    BY <2>2, <2>3, <2>5, <2>6
<1>5. CASE \E e \in Edits : Done(e)
  BY <1>5 DEF Done, NewEdit
<1>6. QED
  <2>1. ASSUME NEW t \in Tasks, Lease(t) \/ BuildPayload(t) \/ FetchPackage(t) \/ FinishTask(t) \/ Requeue(t)
        PROVE  UNCHANGED edit
    BY <2>1 DEF Lease, BuildPayload, FetchPackage, FinishTask, Requeue
  <2>2. ASSUME CollectorStep PROVE UNCHANGED edit
    BY <2>2 DEF CollectorStep, ReadRows, ReadActive, List, Delete, EndRun, Age
  <2>3. ASSUME EditStep PROVE OnlyUploadsBuild'
    BY <1>1, <1>2, <1>3, <1>4, <1>5, <2>3, OneEdit
       DEF Swap, Fail, ReadSettings, SaveSettings, DeleteProblem
  <2>4. QED
    BY <1>1, <2>1, <2>2, <2>3 DEF Next, TaskStep, vars

LEMMA EditsOkInit == Init => EditsOk
<1> SUFFICES ASSUME Init PROVE EditsOk
  OBVIOUS
<1> USE DEF Init
<1>1. IdleGC \in GCRecord /\ Queued \in Task /\ NewEdit \in EditRecord
  BY NewEditTyped DEF IdleGC, GCRecord, Queued, Task
<1>2. NewSaver \in [step: {"idle", "read", "done", "reverted"}, seen: Row]
  BY NoPackageFits DEF NewSaver
<1>3. TypeOK
  BY <1>1, <1>2, NoPackageFits DEF TypeOK, GCRecord, EditRecord
<1>4. AllManifestsFit
  BY NoPackageFits DEF AllManifestsFit, NewEdit, NewSaver
<1>5. OnlyUploadsBuild
  BY DEF OnlyUploadsBuild, NewEdit
<1>6. QED
  BY <1>3, <1>4, <1>5 DEF EditsOk, Manifests

LEMMA EditsOkNext == EditsOk /\ [Next]_vars => EditsOk'
<1> SUFFICES ASSUME EditsOk, [Next]_vars PROVE EditsOk'
  OBVIOUS
<1>0. Manifests /\ OnlyUploadsBuild
  BY DEF EditsOk
<1>1. ASSUME EditStep PROVE Manifests'
  <2>1. ASSUME NEW e \in Edits, Build(e) PROVE Manifests'
    <3>1. edit[e].step = "read"
      BY <2>1 DEF Build
    <3>2. QED
      BY <3>1, <2>1, <1>0, UploadInHand, BuildManifests
  <2>2. ASSUME NEW e \in Edits, Put(e) PROVE Manifests'
    <3>1. edit[e].next.hash # NoHash
      BY <2>2, <1>0 DEF Put, OnlyUploadsBuild
    <3>2. QED
      BY <3>1, <2>2, <1>0, PutManifests
  <2>3. QED
    BY <1>0, <1>1, <2>1, <2>2, OneEdit, ViewManifests, RequestManifests, EndManifests,
       SaverManifests, DeleteProblemManifests DEF Manifests
<1>2. ASSUME TaskStep PROVE Manifests'
  BY <1>0, <1>2, TaskManifests
<1>3. ASSUME CollectorStep PROVE Manifests'
  BY <1>0, <1>3, CollectorManifests
<1>4. ASSUME UNCHANGED vars PROVE Manifests'
  <2> USE <1>0, <1>4 DEF vars, Manifests
  <2>1. TypeOK'
    BY DEF TypeOK
  <2>2. AllManifestsFit'
    BY DEF AllManifestsFit, ManifestFits, Listed
  <2>3. QED
    BY <2>1, <2>2
<1>5. Manifests'
  BY <1>1, <1>2, <1>3, <1>4 DEF Next
<1>6. QED
  BY <1>5, OnlyUploadsBuildStep DEF EditsOk

(* Types, for every set of cases, edits, saves, collectors and tasks.      *)
THEOREM TypeCorrect == Spec => []TypeOK
<1>1. EditsOk => TypeOK
  BY DEF EditsOk, Manifests
<1>2. QED
  BY <1>1, EditsOkInit, EditsOkNext, PTL DEF Spec

(* The manifest in force lists only files of the object it names, and as   *)
(* cases just those it has all files of, whatever                          *)
(* uploads, deletions, score changes and saves of the settings do.         *)
THEOREM ManifestAlwaysFits == Spec => []ManifestsFit
<1>1. EditsOk => ManifestsFit
  BY DEF EditsOk, Manifests, AllManifestsFit, ManifestsFit
<1>2. QED
  BY <1>1, EditsOkInit, EditsOkNext, PTL DEF Spec

-----------------------------------------------------------------------------
(***************************************************************************)
(* Nothing needed is deleted.                                              *)
(***************************************************************************)

Safe == ReadyIsRecent /\ CurrentIsSafe /\ PayloadIsSafe /\ DoomedIsOld

(* Steps that touch nothing but an edit that does not become ready.        *)
LEMMA QuietEditSafe ==
    ASSUME EditsOk, Safe, NEW e \in Edits, View(e) \/ Build(e) \/ Fail(e) PROVE Safe'
<1>1. UNCHANGED <<present, row, object, overtaken, saver, gc, task>>
  BY DEF View, Build, Fail
<1>2. \A d \in Edits : edit'[d] = edit[d] \/ edit'[d].step # "ready"
  BY DEF View, Build, Fail, Done, NewEdit, EditsOk, Manifests, TypeOK
<1>3. ReadyIsRecent'
  BY <1>1, <1>2 DEF Safe, ReadyIsRecent
<1>4. CurrentIsSafe' /\ PayloadIsSafe' /\ DoomedIsOld'
  BY <1>1 DEF Safe, CurrentIsSafe, PayloadIsSafe, DoomedIsOld, Stored, Exposed, Unreverted
<1>5. QED
  BY <1>3, <1>4 DEF Safe

(* Deletions and scores leave the object's name alone, or drop it.         *)
LEMMA RequestSafe ==
    ASSUME EditsOk, Safe, NEW e \in Edits, NEW op \in Op, Request(e, op) PROVE Safe'
<1>1. UNCHANGED <<present, row, object, overtaken, saver, gc, task>> /\ row = edit[e].seen
  BY DEF Request
<1>2. edit'[e].step = "ready" => edit'[e].next.hash \in {NoHash, edit'[e].seen.hash}
  <2> DEFINE nx == CASE op.kind = "upload" -> NoPackage
                     [] op.kind = "delete" -> Deleted(row, op.gone)
                     [] op.kind = "score"  -> Scored(row, op.case, op.points)
  <2>1. nx.hash \in {NoHash, row.hash}
    <3>1. CASE op.kind = "upload"
      BY <3>1 DEF NoPackage
    <3>2. CASE op.kind = "delete"
      BY <3>2 DEF NoPackage, Deleted
    <3>3. CASE op.kind = "score"
      <4>1. row \in Row
        BY DEF EditsOk, Manifests, TypeOK
      <4>2. Scored(row, op.case, op.points).hash = row.hash
        BY <4>1, RowElim DEF Scored
      <4>3. QED
        BY <4>2, <3>3
    <3>4. QED
      BY <3>1, <3>2, <3>3 DEF Op
  <2> HIDE DEF nx
  <2>2. edit'[e].next = nx /\ edit'[e].seen = edit[e].seen
    BY DEF Request, EditsOk, Manifests, TypeOK, nx
  <2>3. QED
    BY <2>1, <2>2, <1>1
<1>3. \A d \in Edits : d # e => edit'[d] = edit[d]
  BY DEF Request, EditsOk, Manifests, TypeOK
<1>4. ReadyIsRecent'
  BY <1>1, <1>2, <1>3 DEF Safe, ReadyIsRecent
<1>5. CurrentIsSafe' /\ PayloadIsSafe' /\ DoomedIsOld'
  BY <1>1 DEF Safe, CurrentIsSafe, PayloadIsSafe, DoomedIsOld, Stored, Exposed, Unreverted
<1>6. QED
  BY <1>4, <1>5 DEF Safe

(* Objects only get younger, and one a collector is deleting is noted.     *)
LEMMA PutSafe ==
    ASSUME EditsOk, Safe, NEW e \in Edits, Put(e) PROVE Safe'
<1> DEFINE h == edit[e].next.hash
<1>1. UNCHANGED <<present, row, saver, gc, task>>
  BY DEF Put
<1>2. \A d \in Edits : /\ edit'[d].next = edit[d].next /\ edit'[d].seen = edit[d].seen
                       /\ d # e => edit'[d] = edit[d]
  BY DEF Put, EditsOk, Manifests, TypeOK
<1>3. h \in Contents
  <2>1. h # NoHash /\ edit[e].next \in Row
    BY DEF Put, EditsOk, Manifests, TypeOK, OnlyUploadsBuild
  <2>2. QED
    BY <2>1, RowElim
<1>4. \A k \in Contents : object'[k] = object[k] \/ (k = h /\ object'[k] = "recent")
  <2>1. object \in [Contents -> {"missing", "recent", "old"}]
    BY DEF EditsOk, Manifests, TypeOK
  <2>2. object' = object \/ object' = [object EXCEPT ![h] = "recent"]
    BY DEF Put
  <2> HIDE DEF h
  <2>3. QED
    BY <2>1, <2>2, <1>3
<1>5. CASE h = edit[e].seen.hash
  <2>1. UNCHANGED <<object, overtaken>>
    BY <1>5 DEF Put
  <2>2. ReadyIsRecent'
    BY <2>1, <1>2, <1>5 DEF Safe, ReadyIsRecent
  <2>3. CurrentIsSafe' /\ PayloadIsSafe' /\ DoomedIsOld'
    BY <2>1, <1>1 DEF Safe, CurrentIsSafe, PayloadIsSafe, DoomedIsOld, Stored, Exposed, Unreverted
  <2>4. QED
    BY <2>2, <2>3 DEF Safe
<1>6. CASE h # edit[e].seen.hash
  <2>1. object'[h] = "recent" /\ (h \in overtaken' <=> Condemned(h))
        /\ \A k \in Contents : k # h => (k \in overtaken' <=> k \in overtaken)
    BY <1>3, <1>6 DEF Put, EditsOk, Manifests, TypeOK
  <2> HIDE DEF h
  <2>2. ReadyIsRecent'
    <3> SUFFICES ASSUME NEW d \in Edits, edit'[d].step = "ready",
                        edit'[d].next.hash \notin {NoHash, edit'[d].seen.hash} \cup overtaken'
                 PROVE  object'[edit'[d].next.hash] = "recent"
      BY DEF ReadyIsRecent
    <3> DEFINE k == edit[d].next.hash
    <3>1. edit'[d].next = edit[d].next /\ edit'[d].seen = edit[d].seen
      BY <1>2
    <3>2. k \in Contents
      BY <3>1, RowElim DEF EditsOk, Manifests, TypeOK
    <3>3. CASE k = h
      BY <2>1, <3>1, <3>3
    <3>4. CASE k # h
      <4>1. edit'[d] = edit[d] /\ k \notin {NoHash, edit[d].seen.hash} \cup overtaken
        BY <1>2, <2>1, <3>1, <3>2, <3>4 DEF h
      <4>2. object[k] = "recent"
        BY <4>1 DEF Safe, ReadyIsRecent
      <4>3. QED
        BY <4>2, <3>1, <3>2, <3>4, <1>4
    <3>5. QED
      BY <3>3, <3>4
  <2>3. CurrentIsSafe'
    <3>1. row.hash \in Contents \cup {NoHash}
      BY RowElim DEF EditsOk, Manifests, TypeOK
    <3>2. CASE row.hash = h
      BY <3>2, <2>1, <1>1 DEF CurrentIsSafe, Stored, Exposed, Condemned
    <3>3. CASE row.hash # h
      BY <3>1, <3>3, <2>1, <1>1, <1>4 DEF Safe, CurrentIsSafe, Stored, Exposed, Unreverted
    <3>4. QED
      BY <3>2, <3>3
  <2>4. PayloadIsSafe'
    <3> SUFFICES ASSUME Unreverted, NEW t \in Tasks, task[t].status = "holding",
                        task[t].hash \notin overtaken'
                 PROVE  /\ object'[task[t].hash] # "missing"
                        /\ \A g \in Collectors :
                             /\ task[t].hash \notin gc[g].doomed
                             /\ gc[g].step = "active" /\ ~gc[g].protected =>
                                   ~(object'[task[t].hash] # "recent" /\ task[t].hash \notin gc[g].keep)
      BY <1>1 DEF PayloadIsSafe, Stored, Exposed, Unreverted
    <3>1. task[t].hash \in Contents
      BY DEF EditsOk, Manifests, TypeOK, Task
    <3>2. CASE task[t].hash = h
      BY <3>2, <2>1 DEF Condemned
    <3>3. CASE task[t].hash # h
      BY <3>1, <3>3, <2>1, <1>4 DEF Safe, PayloadIsSafe, Stored, Exposed
    <3>4. QED
      BY <3>2, <3>3
  <2>5. DoomedIsOld'
    <3>1. \A g \in Collectors : gc[g].doomed \subseteq Contents
      BY DEF EditsOk, Manifests, TypeOK
    <3>2. \A g \in Collectors : \A k \in gc[g].doomed \ overtaken' : k # h
      BY <2>1 DEF Condemned
    <3>3. QED
      BY <3>1, <3>2, <2>1, <1>1, <1>4 DEF Safe, DoomedIsOld
  <2>6. QED
    BY <2>2, <2>3, <2>4, <2>5 DEF Safe
<1>7. QED
  BY <1>5, <1>6

(* What is installed was put within the day, or was current already.       *)
LEMMA SwapSafe ==
    ASSUME EditsOk, Safe, NEW e \in Edits, Swap(e) PROVE Safe'
<1>1. UNCHANGED <<present, object, overtaken, saver, gc, task>>
  BY DEF Swap
<1>2. \A d \in Edits : edit'[d] = edit[d] \/ edit'[d].step # "ready"
  BY DEF Swap, Done, NewEdit, EditsOk, Manifests, TypeOK
<1>3. ReadyIsRecent' /\ PayloadIsSafe' /\ DoomedIsOld'
  BY <1>1, <1>2 DEF Safe, ReadyIsRecent, PayloadIsSafe, DoomedIsOld, Stored, Exposed, Unreverted
<1>4. CurrentIsSafe'
  <2>1. CASE row'.hash = row.hash \/ ~present
    BY <2>1, <1>1 DEF Safe, CurrentIsSafe, Stored, Exposed, Unreverted
  <2>2. CASE row'.hash # row.hash /\ present /\ row'.hash \notin {NoHash} \cup overtaken
    <3>1. row' = edit[e].next /\ row = edit[e].seen /\ edit[e].step = "ready"
      BY <2>2 DEF Swap
    <3>2. object[row'.hash] = "recent"
      BY <2>2, <3>1 DEF Safe, ReadyIsRecent
    <3>3. \A g \in Collectors : row'.hash \notin gc[g].doomed
      BY <2>2, <3>2 DEF Safe, DoomedIsOld
    <3>4. QED
      BY <3>2, <3>3, <1>1 DEF CurrentIsSafe, Stored, Exposed, Unreverted
  <2>3. CASE row'.hash \in {NoHash} \cup overtaken
    <3>1. row'.hash \in {NoHash} \cup overtaken'
      BY <2>3, <1>1
    <3>2. QED
      BY <3>1 DEF CurrentIsSafe
  <2>4. QED
    BY <2>1, <2>2, <2>3
<1>5. QED
  BY <1>3, <1>4 DEF Safe

LEMMA DeleteProblemSafe ==
    ASSUME EditsOk, Safe, DeleteProblem PROVE Safe'
  BY DEF DeleteProblem, Safe, ReadyIsRecent, CurrentIsSafe, PayloadIsSafe, DoomedIsOld, Stored, Exposed, Unreverted

(* A payload takes over the safety of the current object.                  *)
LEMMA TaskSafe ==
    ASSUME EditsOk, Safe, TaskStep PROVE Safe'
<1>1. PICK t \in Tasks : Lease(t) \/ BuildPayload(t) \/ FetchPackage(t) \/ FinishTask(t) \/ Requeue(t)
  BY DEF TaskStep
<1>2. UNCHANGED <<present, row, object, overtaken, edit, saver, gc>>
  BY <1>1 DEF Lease, BuildPayload, FetchPackage, FinishTask, Requeue
<1>3. ReadyIsRecent' /\ CurrentIsSafe' /\ DoomedIsOld'
  BY <1>2 DEF Safe, ReadyIsRecent, CurrentIsSafe, DoomedIsOld, Stored, Exposed, Unreverted
<1>4. \A u \in Tasks : \/ task'[u] = task[u]
                       \/ task'[u].status # "holding"
                       \/ present /\ row.hash # NoHash /\ task'[u].hash = row.hash
  <2>0. task \in [Tasks -> Task]
    BY DEF EditsOk, Manifests, TypeOK
  <2>1. CASE Lease(t)
    BY <2>0, <2>1 DEF Lease, Task
  <2>2. CASE BuildPayload(t)
    BY <2>0, <2>2 DEF BuildPayload, Queued
  <2>3. CASE FetchPackage(t)
    BY <2>0, <2>3 DEF FetchPackage
  <2>4. CASE FinishTask(t)
    BY <2>0, <2>4 DEF FinishTask
  <2>5. CASE Requeue(t)
    BY <2>0, <2>5 DEF Requeue, Queued
  <2>6. QED
    BY <1>1, <2>1, <2>2, <2>3, <2>4, <2>5
<1>5. PayloadIsSafe'
  <2> SUFFICES ASSUME Unreverted, NEW u \in Tasks, task'[u].status = "holding",
                      task'[u].hash \notin overtaken
               PROVE  /\ Stored(task'[u].hash)
                      /\ \A g \in Collectors :
                           /\ task'[u].hash \notin gc[g].doomed
                           /\ gc[g].step = "active" /\ ~gc[g].protected => ~Exposed(g, task'[u].hash)
    BY <1>2 DEF PayloadIsSafe, Stored, Exposed, Unreverted
  <2>1. CASE task'[u] = task[u]
    BY <2>1 DEF Safe, PayloadIsSafe, Unreverted
  <2>2. CASE present /\ row.hash # NoHash /\ task'[u].hash = row.hash
    BY <2>2 DEF Safe, CurrentIsSafe, Unreverted
  <2>3. QED
    BY <1>4, <2>1, <2>2
<1>6. QED
  BY <1>3, <1>5 DEF Safe

(* A collector's moves, and the days that pass between its runs.           *)
LEMMA CollectorSafe ==
    ASSUME EditsOk, Safe, CollectorStep PROVE Safe'
<1>0. UNCHANGED <<present, row, edit, saver, task>>
  BY DEF CollectorStep, ReadRows, ReadActive, List, Delete, EndRun, Age
<1>g. gc \in [Collectors -> GCRecord] /\ object \in [Contents -> {"missing", "recent", "old"}]
  BY DEF EditsOk, Manifests, TypeOK, GCRecord
<1>h. /\ row.hash \in Contents \cup {NoHash}
      /\ \A t \in Tasks : task[t].status = "holding" => task[t].hash \in Contents
  BY RowElim DEF EditsOk, Manifests, TypeOK, Task
<1>1. ASSUME NEW g \in Collectors, ReadRows(g) PROVE Safe'
  <2>1. /\ \A f \in Collectors : gc'[f].doomed = gc[f].doomed /\ (f # g => gc'[f] = gc[f])
        /\ gc'[g].step = "rows" /\ (present /\ row.hash # NoHash => row.hash \in gc'[g].keep)
        /\ gc[g].step = "idle" /\ object' = object /\ overtaken' = overtaken
    BY <1>1, <1>g DEF ReadRows, GCRecord
  <2>2. ReadyIsRecent' /\ DoomedIsOld'
    BY <2>1, <1>0 DEF Safe, ReadyIsRecent, DoomedIsOld
  <2>3. CurrentIsSafe'
    BY <2>1, <1>0 DEF Safe, CurrentIsSafe, Stored, Exposed, Unreverted
  <2>4. PayloadIsSafe'
    BY <2>1, <1>0 DEF Safe, PayloadIsSafe, Stored, Exposed, Unreverted
  <2>5. QED
    BY <2>2, <2>3, <2>4 DEF Safe
<1>2. ASSUME NEW g \in Collectors, ReadActive(g) PROVE Safe'
  <2>1. /\ \A f \in Collectors : /\ gc'[f].doomed = gc[f].doomed /\ gc'[f].keep = gc[f].keep
                                 /\ (f # g => gc'[f] = gc[f])
        /\ gc[g].step = "rows" /\ gc'[g].step = "active" /\ object' = object /\ overtaken' = overtaken
    BY <1>2, <1>g DEF ReadActive, GCRecord
  <2>2. (\E t \in Tasks : task[t].status = "holding") => gc'[g].protected
    BY <1>2, <1>g DEF ReadActive, GCRecord, Judging
  <2>3. ReadyIsRecent' /\ DoomedIsOld'
    BY <2>1, <1>0 DEF Safe, ReadyIsRecent, DoomedIsOld
  <2>4. CurrentIsSafe'
    BY <2>1, <1>0 DEF Safe, CurrentIsSafe, Stored, Exposed, Unreverted
  <2>5. PayloadIsSafe'
    BY <2>1, <2>2, <1>0 DEF Safe, PayloadIsSafe, Stored, Exposed, Unreverted
  <2>6. QED
    BY <2>3, <2>4, <2>5 DEF Safe
<1>3. ASSUME NEW g \in Collectors, List(g) PROVE Safe'
  <2>1. /\ \A f \in Collectors : f # g => gc'[f] = gc[f]
        /\ gc[g].step = "active" /\ gc'[g].step = "deleting" /\ object' = object /\ overtaken' = overtaken
        /\ gc'[g].doomed = IF gc[g].protected THEN {} ELSE Garbage(gc[g].keep)
    BY <1>3, <1>g DEF List, IdleGC
  <2>2. \A h \in gc'[g].doomed : object[h] = "old" /\ Exposed(g, h) /\ ~gc[g].protected
    BY <2>1 DEF Garbage, Exposed
  <2>3. ReadyIsRecent' /\ DoomedIsOld'
    BY <2>1, <2>2, <1>0 DEF Safe, ReadyIsRecent, DoomedIsOld
  <2>4. CurrentIsSafe'
    BY <2>1, <2>2, <1>0 DEF Safe, CurrentIsSafe, Stored, Exposed, Unreverted
  <2>5. PayloadIsSafe'
    BY <2>1, <2>2, <1>0 DEF Safe, PayloadIsSafe, Stored, Exposed, Unreverted
  <2>6. QED
    BY <2>3, <2>4, <2>5 DEF Safe
<1>4. ASSUME NEW g \in Collectors, Delete(g) PROVE Safe'
  <2>1. PICK h \in gc[g].doomed : /\ object' = object \/ object' = [object EXCEPT ![h] = "missing"]
                                  /\ gc' = [gc EXCEPT ![g].doomed = gc[g].doomed \ {h}]
                                  /\ overtaken' = overtaken
    BY <1>4 DEF Delete
  <2>2. /\ \A f \in Collectors : /\ gc'[f].step = gc[f].step /\ gc'[f].keep = gc[f].keep
                                 /\ gc'[f].protected = gc[f].protected
                                 /\ gc'[f].doomed \subseteq gc[f].doomed
        /\ \A k \in Contents : k # h => object'[k] = object[k]
        /\ object'[h] # "recent" \/ object' = object
    BY <2>1, <1>g DEF GCRecord
  <2>3. (h \notin overtaken => object[h] # "recent") /\ h \in Contents
    BY <1>g DEF Safe, DoomedIsOld, GCRecord
  <2>4. \A k \in Contents \ overtaken : object[k] = "recent" => object'[k] = "recent"
    BY <2>2, <2>3
  <2>4a. \A k \in Contents : object'[k] = "recent" => object[k] = "recent"
    BY <2>2, <2>3
  <2>5. ReadyIsRecent'
    <3>1. \A e \in Edits : edit[e].next.hash \in Contents \cup {NoHash}
      BY RowElim DEF EditsOk, Manifests, TypeOK
    <3>2. QED
      BY <3>1, <2>1, <2>4, <1>0 DEF Safe, ReadyIsRecent
  <2>6. DoomedIsOld'
    BY <2>1, <2>2, <2>4a, <1>g DEF Safe, DoomedIsOld, GCRecord
  <2>7. CurrentIsSafe'
    <3> SUFFICES ASSUME Unreverted, present, row.hash \notin {NoHash} \cup overtaken
                 PROVE  /\ object'[row.hash] # "missing"
                        /\ \A f \in Collectors :
                             /\ row.hash \notin gc'[f].doomed
                             /\ gc'[f].step \in {"rows", "active"} =>
                                   ~(object'[row.hash] # "recent" /\ row.hash \notin gc'[f].keep)
      BY <2>1, <1>0 DEF CurrentIsSafe, Stored, Exposed, Unreverted
    <3>1. row.hash # h /\ row.hash \in Contents
      BY <1>h DEF Safe, CurrentIsSafe, Unreverted
    <3>2. QED
      BY <3>1, <2>2 DEF Safe, CurrentIsSafe, Stored, Exposed, Unreverted
  <2>8. PayloadIsSafe'
    <3> SUFFICES ASSUME Unreverted, NEW t \in Tasks, task[t].status = "holding",
                        task[t].hash \notin overtaken
                 PROVE  /\ object'[task[t].hash] # "missing"
                        /\ \A f \in Collectors :
                             /\ task[t].hash \notin gc'[f].doomed
                             /\ gc'[f].step = "active" /\ ~gc'[f].protected =>
                                   ~(object'[task[t].hash] # "recent" /\ task[t].hash \notin gc'[f].keep)
      BY <2>1, <1>0 DEF PayloadIsSafe, Stored, Exposed, Unreverted
    <3>1. task[t].hash # h /\ task[t].hash \in Contents
      BY <1>h DEF Safe, PayloadIsSafe, Unreverted
    <3>2. QED
      BY <3>1, <2>2 DEF Safe, PayloadIsSafe, Stored, Exposed, Unreverted
  <2>9. QED
    BY <2>5, <2>6, <2>7, <2>8 DEF Safe
<1>5. ASSUME NEW g \in Collectors, EndRun(g) PROVE Safe'
  <2>1. /\ \A f \in Collectors : f # g => gc'[f] = gc[f]
        /\ gc'[g].step = "idle" /\ gc'[g].doomed = {} /\ object' = object /\ overtaken' = overtaken
    BY <1>5, <1>g DEF EndRun, IdleGC
  <2>2. ReadyIsRecent' /\ DoomedIsOld'
    BY <2>1, <1>0 DEF Safe, ReadyIsRecent, DoomedIsOld
  <2>3. CurrentIsSafe' /\ PayloadIsSafe'
    BY <2>1, <1>0 DEF Safe, CurrentIsSafe, PayloadIsSafe, Stored, Exposed, Unreverted
  <2>4. QED
    BY <2>2, <2>3 DEF Safe
<1>6. ASSUME NEW h \in Contents, Age(h) PROVE Safe'
  <2>1. /\ gc' = gc /\ \A g \in Collectors : gc[g].step = "idle"
        /\ object'[h] = "old" /\ \A k \in Contents : k # h => object'[k] = object[k]
        /\ \A e \in Edits : edit[e].step = "ready" => edit[e].next.hash # h
        /\ overtaken' = overtaken \ {h}
    BY <1>6, <1>g DEF Age
  <2>1a. \A g \in Collectors : gc[g].doomed = {}
    BY <2>1 DEF Safe, DoomedIsOld
  <2>2. ReadyIsRecent'
    <3>1. \A e \in Edits : edit[e].next.hash \in Contents \cup {NoHash}
      BY RowElim DEF EditsOk, Manifests, TypeOK
    <3>2. QED
      BY <3>1, <2>1, <1>0 DEF Safe, ReadyIsRecent
  <2>3. DoomedIsOld'
    BY <2>1, <2>1a DEF DoomedIsOld
  <2>4. CurrentIsSafe'
    BY <2>1, <2>1a, <1>0, <1>h DEF Safe, CurrentIsSafe, Stored, Exposed, Unreverted
  <2>5. PayloadIsSafe'
    BY <2>1, <2>1a, <1>0, <1>h DEF Safe, PayloadIsSafe, Stored, Exposed, Unreverted
  <2>6. QED
    BY <2>2, <2>3, <2>4, <2>5 DEF Safe
<1>7. QED
  BY <1>1, <1>2, <1>3, <1>4, <1>5, <1>6 DEF CollectorStep

(* A save changes nothing, or ends the time in which none has changed any. *)
LEMMA SaverSafe ==
    ASSUME EditsOk, Safe, NEW s \in Savers, ReadSettings(s) \/ SaveSettings(s) PROVE Safe'
<1>0. saver \in [Savers -> [step: {"idle", "read", "done", "reverted"}, seen: Row]]
  BY DEF EditsOk, Manifests, TypeOK
<1>1. CASE ReadSettings(s)
  <2>1. UNCHANGED <<present, row, object, overtaken, edit, gc, task>> /\ (Unreverted' => Unreverted)
    BY <1>0, <1>1 DEF ReadSettings, Unreverted
  <2>2. ReadyIsRecent' /\ DoomedIsOld'
    BY <2>1 DEF Safe, ReadyIsRecent, DoomedIsOld
  <2>3. CurrentIsSafe' /\ PayloadIsSafe'
    BY <2>1 DEF Safe, CurrentIsSafe, PayloadIsSafe, Stored, Exposed
  <2>4. QED
    BY <2>2, <2>3 DEF Safe
<1>2. CASE SaveSettings(s)
  <2>1. UNCHANGED <<object, overtaken, edit, gc, task>>
    BY <1>2 DEF SaveSettings
  <2>2. ReadyIsRecent' /\ DoomedIsOld'
    BY <2>1 DEF Safe, ReadyIsRecent, DoomedIsOld
  <2>3. CurrentIsSafe' /\ PayloadIsSafe'
    <3>1. CASE present /\ row = saver[s].seen
      <4>1. UNCHANGED <<present, row>> /\ (Unreverted' => Unreverted)
        BY <1>0, <1>2, <3>1 DEF SaveSettings, Unreverted, NewSaver
      <4>2. QED
        BY <2>1, <4>1 DEF Safe, CurrentIsSafe, PayloadIsSafe, Stored, Exposed
    <3>2. CASE ~(present /\ row = saver[s].seen)
      <4>1. saver'[s].step = "reverted"
        BY <1>0, <1>2, <3>2 DEF SaveSettings, NewSaver
      <4>2. QED
        BY <4>1 DEF CurrentIsSafe, PayloadIsSafe, Unreverted
    <3>3. QED
      BY <3>1, <3>2
  <2>4. QED
    BY <2>2, <2>3 DEF Safe
<1>3. QED
  BY <1>1, <1>2

LEMMA SafeInit == Init => Safe
<1> SUFFICES ASSUME Init PROVE Safe
  OBVIOUS
<1>1. ReadyIsRecent
  BY DEF Init, NewEdit, ReadyIsRecent
<1>2. CurrentIsSafe
  BY DEF Init, NoPackage, CurrentIsSafe, Unreverted
<1>3. PayloadIsSafe
  BY DEF Init, Queued, PayloadIsSafe, Unreverted
<1>4. DoomedIsOld
  BY DEF Init, IdleGC, DoomedIsOld
<1>5. QED
  BY <1>1, <1>2, <1>3, <1>4 DEF Safe

LEMMA EditStepSafe ==
    ASSUME EditsOk, Safe, EditStep PROVE Safe'
<1>1. CASE \E e \in Edits : View(e) \/ Build(e) \/ Fail(e)
  BY <1>1, QuietEditSafe
<1>2. CASE \E e \in Edits, op \in Op : Request(e, op)
  BY <1>2, RequestSafe
<1>3. CASE \E e \in Edits : Put(e)
  BY <1>3, PutSafe
<1>4. CASE \E e \in Edits : Swap(e)
  BY <1>4, SwapSafe
<1>5. CASE DeleteProblem
  BY <1>5, DeleteProblemSafe
<1>6. CASE \E s \in Savers : ReadSettings(s) \/ SaveSettings(s)
  BY <1>6, SaverSafe
<1>7. QED
  BY <1>1, <1>2, <1>3, <1>4, <1>5, <1>6 DEF EditStep

LEMMA SafeNext ==
    ASSUME EditsOk, Safe, [Next]_vars PROVE Safe'
<1>1. CASE UNCHANGED vars
  BY <1>1 DEF vars, Safe, ReadyIsRecent, CurrentIsSafe, PayloadIsSafe, DoomedIsOld, Stored, Exposed, Unreverted
<1>2. CASE EditStep
  BY <1>2, EditStepSafe
<1>3. CASE TaskStep
  BY <1>3, TaskSafe
<1>4. CASE CollectorStep
  BY <1>4, CollectorSafe
<1>5. QED
  BY <1>1, <1>2, <1>3, <1>4 DEF Next

(* Collectors and editors keep out of each other's way, for every number   *)
(* of either.                                                              *)
THEOREM StoreIsSafe == Spec => []StoreInv
<1>1. Init => EditsOk /\ Safe
  BY EditsOkInit, SafeInit
<1>2. EditsOk /\ Safe /\ [Next]_vars => EditsOk' /\ Safe'
  BY EditsOkNext, SafeNext
<1>3. EditsOk /\ Safe => StoreInv
  BY DEF EditsOk, Manifests, Safe, StoreInv
<1>4. QED
  BY <1>1, <1>2, <1>3, PTL DEF Spec

(* The package a problem shows can always be opened.                       *)
THEOREM CurrentCanBeOpened == Spec => []CurrentIsStored
<1>1. StoreInv => CurrentIsStored
  BY DEF StoreInv, CurrentIsSafe, CurrentIsStored, Unreverted
<1>2. QED
  BY <1>1, StoreIsSafe, PTL

(* So can the package that a running task was told to fetch.               *)
THEOREM PayloadCanBeOpened == Spec => []PayloadIsStored
<1>1. StoreInv => PayloadIsStored
  BY DEF StoreInv, PayloadIsSafe, PayloadIsStored, Unreverted
<1>2. QED
  BY <1>1, StoreIsSafe, PTL

(* No collector deletes what was put within the day.                       *)
THEOREM YoungIsKept == Spec => RecentIsKept
<1> DEFINE Kept == \A h \in Contents \ overtaken : object[h] = "recent" => object'[h] # "missing"
<1>1. StoreInv /\ [Next]_vars => [Kept]_vars
  <2> SUFFICES ASSUME StoreInv, Next PROVE Kept
    BY DEF vars
  <2>0. object \in [Contents -> {"missing", "recent", "old"}]
    BY DEF StoreInv, TypeOK
  <2>1. ASSUME NEW e \in Edits, Put(e) PROVE Kept
    BY <2>0, <2>1 DEF Put
  <2>2. ASSUME NEW g \in Collectors, Delete(g) PROVE Kept
    <3>1. PICK h \in gc[g].doomed : object' = object \/ object' = [object EXCEPT ![h] = "missing"]
      BY <2>2 DEF Delete
    <3>2. h \notin overtaken => object[h] # "recent"
      BY DEF StoreInv, DoomedIsOld
    <3>3. QED
      BY <2>0, <3>1, <3>2
  <2>3. ASSUME NEW h \in Contents, Age(h) PROVE Kept
    BY <2>0, <2>3 DEF Age
  <2>4. ASSUME UNCHANGED object PROVE Kept
    BY <2>0, <2>4
  <2>5. CASE EditStep
    <3>1. TypeOK
      BY DEF StoreInv
    <3>2. QED
      BY <2>1, <2>4, <2>5, <3>1, OneEdit
         DEF View, Request, Build, Swap, Fail, ReadSettings, SaveSettings, DeleteProblem
  <2>6. CASE TaskStep
    BY <2>4, <2>6 DEF TaskStep, Lease, BuildPayload, FetchPackage, FinishTask, Requeue
  <2>7. CASE CollectorStep
    BY <2>2, <2>3, <2>4, <2>7 DEF CollectorStep, ReadRows, ReadActive, List, EndRun
  <2>8. QED
    BY <2>5, <2>6, <2>7 DEF Next
<1>2. QED
  BY <1>1, StoreIsSafe, PTL DEF Spec, RecentIsKept

-----------------------------------------------------------------------------
(***************************************************************************)
(* Editors get what PackageEdits promises.                                 *)
(***************************************************************************)

(* What a request makes of the row it read.                                *)
Granted(op, r) ==
    CASE op.kind = "upload" -> Uploaded(r, op.files)
      [] op.kind = "delete" -> Deleted(r, op.gone)
      [] op.kind = "score"  -> Scored(r, op.case, op.points)

(* An edit asks from its request to its end, of a package it can be asked  *)
(* of; what it is about to install is what it asked for.                   *)
Serves(e) ==
    /\ edit[e].step \in {"idle", "seen", "done"} => edit[e].op = NoOp
    /\ edit[e].step \in {"read", "built", "ready"} =>
          edit[e].op \in Op /\ Valid(edit[e].op, edit[e].seen)
    /\ edit[e].step \in {"built", "ready"} =>
          edit[e].next = Granted(edit[e].op, edit[e].seen)
    /\ edit[e].step = "read" => edit[e].op.kind = "upload"

EditsServe == \A e \in Edits : Serves(e)

LEMMA ServesInit == Init => EditsServe
  BY DEF Init, NewEdit, EditsServe, Serves

LEMMA EndServes ==
    ASSUME TypeOK, EditsServe, NEW e \in Edits, Done(e) PROVE EditsServe'
<1>1. \A d \in Edits : IF d = e THEN edit'[d] = [NewEdit EXCEPT !.step = "done"] ELSE edit'[d] = edit[d]
  BY DEF Done, TypeOK
<1>2. edit'[e].step = "done" /\ edit'[e].op = NoOp
  BY <1>1 DEF NewEdit
<1>3. QED
  BY <1>1, <1>2 DEF EditsServe, Serves

LEMMA ViewServes ==
    ASSUME TypeOK, EditsServe, NEW e \in Edits, View(e) PROVE EditsServe'
<1>1. /\ \A d \in Edits : d # e => edit'[d] = edit[d]
      /\ edit'[e].step = "seen" /\ edit'[e].op = edit[e].op /\ edit[e].step = "idle"
  BY DEF View, TypeOK
<1>2. QED
  BY <1>1 DEF EditsServe, Serves

LEMMA RequestServes ==
    ASSUME TypeOK, EditsServe, NEW e \in Edits, NEW op \in Op, Request(e, op) PROVE EditsServe'
<1> DEFINE nx == CASE op.kind = "upload" -> NoPackage
                   [] op.kind = "delete" -> Deleted(row, op.gone)
                   [] op.kind = "score"  -> Scored(row, op.case, op.points)
           st == IF op.kind = "upload" THEN "read" ELSE "ready"
<1>1. op.kind # "upload" => nx = Granted(op, row)
  BY DEF Granted, Op
<1>2. row = edit[e].seen /\ Valid(op, row)
  BY DEF Request
<1>3. edit' = [edit EXCEPT ![e].op = op, ![e].step = st, ![e].next = nx]
  BY DEF Request
<1>4. st \in {"read", "ready"} /\ (st = "read" <=> op.kind = "upload")
  OBVIOUS
<1> HIDE DEF nx, st
<1>5. /\ \A d \in Edits : d # e => edit'[d] = edit[d]
      /\ edit'[e].step = st /\ edit'[e].op = op /\ edit'[e].seen = edit[e].seen /\ edit'[e].next = nx
  BY <1>3 DEF TypeOK
<1>6. Serves(e)'
  BY <1>1, <1>2, <1>4, <1>5 DEF Serves
<1>7. QED
  BY <1>5, <1>6 DEF EditsServe, Serves

LEMMA BuildServes ==
    ASSUME TypeOK, EditsServe, NEW e \in Edits, Build(e) PROVE EditsServe'
<1> DEFINE nx == Uploaded(edit[e].seen, edit[e].op.files)
<1>1. edit[e].op.kind = "upload" /\ edit[e].op \in Op /\ Valid(edit[e].op, edit[e].seen)
  BY DEF Build, EditsServe, Serves
<1>2. nx = Granted(edit[e].op, edit[e].seen)
  BY <1>1 DEF Granted
<1>3. edit' = [edit EXCEPT ![e].step = "built", ![e].next = nx]
  BY DEF Build
<1> HIDE DEF nx
<1>4. /\ \A d \in Edits : d # e => edit'[d] = edit[d]
      /\ edit'[e].step = "built" /\ edit'[e].op = edit[e].op /\ edit'[e].seen = edit[e].seen /\ edit'[e].next = nx
  BY <1>3 DEF TypeOK
<1>5. Serves(e)'
  BY <1>1, <1>2, <1>4 DEF Serves
<1>6. QED
  BY <1>4, <1>5 DEF EditsServe, Serves

LEMMA PutServes ==
    ASSUME TypeOK, EditsServe, NEW e \in Edits, Put(e) PROVE EditsServe'
<1>1. /\ \A d \in Edits : d # e => edit'[d] = edit[d]
      /\ edit'[e].step = "ready" /\ edit'[e].op = edit[e].op /\ edit'[e].seen = edit[e].seen
      /\ edit'[e].next = edit[e].next /\ edit[e].step = "built"
  BY DEF Put, TypeOK
<1>2. QED
  BY <1>1 DEF EditsServe, Serves

(* Whoever is not an editor leaves the edits alone.                        *)
LEMMA OthersLeaveEdits ==
    ASSUME TaskStep \/ CollectorStep PROVE UNCHANGED <<present, row, edit, saver>>
<1>1. CASE TaskStep
  BY <1>1 DEF TaskStep, Lease, BuildPayload, FetchPackage, FinishTask, Requeue
<1>2. CASE CollectorStep
  BY <1>2 DEF CollectorStep, ReadRows, ReadActive, List, Delete, EndRun, Age
<1>3. QED
  BY <1>1, <1>2

LEMMA ServesNext ==
    ASSUME TypeOK, EditsServe, [Next]_vars PROVE EditsServe'
<1>1. CASE UNCHANGED edit
  BY <1>1 DEF EditsServe, Serves
<1>2. CASE EditStep
  <2>1. ASSUME NEW e \in Edits, Swap(e) \/ Fail(e) PROVE EditsServe'
    <3>1. Done(e)
      BY <2>1 DEF Swap, Fail
    <3>2. QED
      BY <3>1, EndServes
  <2>2. ASSUME DeleteProblem \/ \E s \in Savers : ReadSettings(s) \/ SaveSettings(s)
        PROVE  UNCHANGED edit
    BY <2>2 DEF DeleteProblem, ReadSettings, SaveSettings
  <2>3. QED
    BY <1>1, <1>2, <2>1, <2>2, OneEdit, ViewServes, RequestServes, BuildServes, PutServes
<1>3. QED
  BY <1>1, <1>2, OthersLeaveEdits DEF Next, vars

(***************************************************************************)
(* The three kinds of request, as the editors see them.                    *)
(***************************************************************************)

LEMMA ShownNothing == Shown(NoPackage) = Promise!Nothing
<1>1. NoPackage.files = {} /\ NoPackage.scores = [c \in {} |-> DefaultScore]
  BY DEF NoPackage
<1>2. [f \in NoPackage.files |-> NoPackage.hash[f]] = [f \in {} |-> 0]
  BY <1>1
<1>3. QED
  BY <1>1, <1>2 DEF Shown, Promise!Nothing

LEMMA ShownUploaded ==
    ASSUME NEW files PROVE Shown(Uploaded(row, files)) = Promise!Upload(files)
<1> DEFINE F == row.files \cup DOMAIN files
           new == [f \in F |-> IF f \in DOMAIN files THEN files[f] ELSE row.hash[f]]
           sc == [c \in Whole(F) |-> IF c \in Listed(row) THEN row.scores[c] ELSE DefaultScore]
           given == [f \in F |-> IF f \in DOMAIN files THEN files[f] ELSE Shown(row).files[f]]
<1>1. Uploaded(row, files) = [hash |-> new, files |-> F, scores |-> sc]
  BY DEF Uploaded
<1>2. Shown(Uploaded(row, files)) = [files |-> [f \in F |-> new[f]], scores |-> sc]
  BY <1>1 DEF Shown
<1>3. /\ DOMAIN Shown(row).files = row.files /\ Shown(row).scores = row.scores
      /\ \A f \in row.files : Shown(row).files[f] = row.hash[f]
  BY DEF Shown
<1>4. [f \in F |-> new[f]] = given
  BY <1>3
<1>5. Promise!Upload(files) = [files |-> given, scores |-> sc]
  BY <1>3 DEF Promise!Upload, Promise!Has, Whole, Listed
<1> HIDE DEF new, sc, given, F
<1>6. QED
  BY <1>2, <1>4, <1>5

LEMMA ShownDeleted ==
    ASSUME row \in Row, NEW gone PROVE Shown(Deleted(row, gone)) = Promise!Delete(gone)
<1> DEFINE left == row.files \ gone
           C == {c \in Listed(row) : Needs[c] \subseteq left}
           sc == [c \in C |-> row.scores[c]]
           kept == [f \in left |-> row.hash[f]]
<1>1. /\ DOMAIN Shown(row).files = row.files /\ Shown(row).scores = row.scores
      /\ \A f \in row.files : Shown(row).files[f] = row.hash[f]
  BY DEF Shown
<1>2. Promise!Delete(gone) = [files |-> [f \in left |-> Shown(row).files[f]], scores |-> sc]
  BY <1>1 DEF Promise!Delete, Promise!Has, Listed
<1>3. [f \in left |-> Shown(row).files[f]] = kept
  BY <1>1
<1>4. CASE left = {}
  <2>1. C = {}
    BY <1>4, RowElim, PackageAssumption
  <2>2. Deleted(row, gone) = NoPackage
    BY <1>4 DEF Deleted
  <2>3. sc = [c \in {} |-> DefaultScore]
    BY <2>1
  <2>4. kept = [f \in {} |-> 0]
    BY <1>4
  <2>5. Shown(NoPackage) = [files |-> [f \in {} |-> 0], scores |-> [c \in {} |-> DefaultScore]]
    BY ShownNothing DEF Promise!Nothing
  <2> HIDE DEF kept, sc
  <2>6. QED
    BY <1>2, <1>3, <2>2, <2>3, <2>4, <2>5
<1>5. CASE left # {}
  <2>1. Deleted(row, gone) = [hash |-> row.hash, files |-> left, scores |-> sc]
    BY <1>5 DEF Deleted
  <2>2. Shown(Deleted(row, gone)) = [files |-> kept, scores |-> sc]
    BY <2>1 DEF Shown
  <2> HIDE DEF kept, sc
  <2>3. QED
    BY <1>2, <1>3, <2>2
<1>6. QED
  BY <1>4, <1>5

LEMMA ShownScored ==
    ASSUME row \in Row, NEW c \in Listed(row), NEW points
    PROVE  Shown(Scored(row, c, points)) = Promise!Score(c, points)
<1> DEFINE sc == [row.scores EXCEPT ![c] = points]
           kept == [f \in row.files |-> row.hash[f]]
<1>1. Scored(row, c, points) = [hash |-> row.hash, files |-> row.files, scores |-> sc]
  BY RowElim DEF Scored
<1>2. Shown(Scored(row, c, points)) = [files |-> kept, scores |-> sc]
  BY <1>1 DEF Shown
<1>3. Shown(row) = [files |-> kept, scores |-> row.scores]
  BY DEF Shown
<1>4. Promise!Score(c, points) = [Shown(row) EXCEPT !.scores = sc]
  BY <1>3 DEF Promise!Score
<1> HIDE DEF kept, sc
<1>5. QED
  BY <1>2, <1>3, <1>4

(***************************************************************************)
(* Every step is a step of the editors, of a saver, or none.               *)
(***************************************************************************)

asked == [e \in Edits |-> edit[e].op]
held  == [s \in Savers |-> Shown(saver[s].seen)]

LEMMA PromiseInit == Init => Promise!Init
<1> SUFFICES ASSUME Init PROVE Promise!Init
  OBVIOUS
<1>1. Shown(row) = Promise!Nothing
  BY ShownNothing DEF Init
<1>2. asked = [e \in Edits |-> NoOp]
  BY DEF Init, NewEdit, asked
<1>3. held = [s \in Savers |-> Promise!Nothing]
  BY ShownNothing DEF Init, NewSaver, held
<1>4. QED
  BY <1>1, <1>2, <1>3 DEF Promise!Init, asked, held

LEMMA ViewHides ==
    ASSUME TypeOK, NEW e \in Edits, View(e) \/ Build(e) \/ Put(e)
    PROVE  UNCHANGED <<row, asked, saver>>
<1>1. \A d \in Edits : edit'[d].op = edit[d].op
  <2>1. CASE View(e)
    BY <2>1 DEF View, TypeOK
  <2>2. CASE Build(e)
    <3> DEFINE nx == Uploaded(edit[e].seen, edit[e].op.files)
    <3>1. edit' = [edit EXCEPT ![e].step = "built", ![e].next = nx]
      BY <2>2 DEF Build
    <3> HIDE DEF nx
    <3>2. QED
      BY <3>1 DEF TypeOK
  <2>3. CASE Put(e)
    BY <2>3 DEF Put, TypeOK
  <2>4. QED
    BY <2>1, <2>2, <2>3
<1>2. QED
  BY <1>1 DEF asked, View, Build, Put

LEMMA AskedAfterEnd ==
    ASSUME TypeOK, NEW e \in Edits, Done(e) PROVE asked' = [asked EXCEPT ![e] = NoOp]
<1>1. \A d \in Edits : edit'[d].op = IF d = e THEN NoOp ELSE edit[d].op
  BY DEF Done, NewEdit, TypeOK
<1>2. QED
  BY <1>1 DEF asked

LEMMA RequestIsAsked ==
    ASSUME TypeOK, EditsServe, NEW e \in Edits, NEW op \in Op, Request(e, op)
    PROVE  Promise!Ask(e, op)
<1>1. asked[e] = NoOp
  BY DEF Request, EditsServe, Serves, asked
<1>2. \A d \in Edits : edit'[d].op = IF d = e THEN op ELSE edit[d].op
  BY DEF Request, TypeOK
<1>3. asked' = [asked EXCEPT ![e] = op]
  BY <1>2 DEF asked
<1>4. UNCHANGED <<row, saver>>
  BY DEF Request
<1>5. UNCHANGED <<Shown(row), held>>
  BY <1>4 DEF held, Shown, Listed
<1>6. QED
  BY <1>1, <1>3, <1>5 DEF Promise!Ask, asked, held

LEMMA EndIsAnswer ==
    ASSUME TypeOK, EditsServe, NEW e \in Edits, Swap(e) \/ Fail(e)
    PROVE  Promise!Grant(e) \/ Promise!Refuse(e)
<1>1. asked' = [asked EXCEPT ![e] = NoOp] /\ UNCHANGED saver
  BY AskedAfterEnd DEF Swap, Fail
<1>2. UNCHANGED held
  BY <1>1 DEF held, Shown, Listed
<1>3. CASE row' = row
  <2>1. UNCHANGED Shown(row)
    BY <1>3 DEF Shown, Listed
  <2>2. Promise!Refuse(e)
    BY <1>1, <1>2, <2>1 DEF Promise!Refuse, asked, held
  <2>3. QED
    BY <2>2
<1>4. CASE row' # row
  <2> DEFINE op == edit[e].op
  <2>1. edit[e].step = "ready" /\ row = edit[e].seen /\ row' = edit[e].next
    BY <1>4 DEF Swap, Fail
  <2>2. op \in Op /\ Valid(op, row) /\ row' = Granted(op, row)
    BY <2>1 DEF EditsServe, Serves
  <2>3. asked[e] = op /\ op # NoOp
    BY <2>2 DEF asked, Op, NoOp
  <2>4. row \in Row
    BY DEF TypeOK
  <2>5. Shown(row)' = Shown(Granted(op, row))
    BY <2>2 DEF Shown, Listed
  <2> HIDE DEF op
  <2>6. Shown(row)' = CASE op.kind = "upload" -> Promise!Upload(op.files)
                        [] op.kind = "delete" -> Promise!Delete(op.gone)
                        [] op.kind = "score"  -> Promise!Score(op.case, op.points)
    <3>1. CASE op.kind = "upload"
      BY <2>5, <3>1, ShownUploaded DEF Granted
    <3>2. CASE op.kind = "delete"
      BY <2>4, <2>5, <3>2, ShownDeleted DEF Granted
    <3>3. CASE op.kind = "score"
      <4>1. op.case \in Listed(row)
        BY <2>2, <3>3 DEF Valid
      <4>2. QED
        BY <2>4, <2>5, <3>3, <4>1, ShownScored DEF Granted
    <3>4. QED
      BY <2>2, <3>1, <3>2, <3>3 DEF Op
  <2>7. Promise!Grant(e)
    BY <1>1, <1>2, <2>3, <2>6 DEF Promise!Grant, asked, held
  <2>8. QED
    BY <2>7
<1>5. QED
  BY <1>3, <1>4

LEMMA ReadIsSeen ==
    ASSUME TypeOK, NEW s \in Savers, ReadSettings(s) PROVE Promise!See(s)
<1>1. UNCHANGED <<row, edit>> /\ \A t \in Savers : saver'[t].seen = IF t = s THEN row ELSE saver[t].seen
  BY DEF ReadSettings, TypeOK
<1>2. held' = [held EXCEPT ![s] = Shown(row)]
  BY <1>1 DEF held, Shown, Listed
<1>3. UNCHANGED <<Shown(row), asked>>
  BY <1>1 DEF asked, Shown, Listed
<1>4. QED
  BY <1>2, <1>3 DEF Promise!See, asked, held

LEMMA SaveIsPutBack ==
    ASSUME TypeOK, NEW s \in Savers, SaveSettings(s) PROVE Promise!PutBack(s)
<1>1. /\ UNCHANGED edit /\ row' = saver[s].seen
      /\ \A t \in Savers : saver'[t].seen = IF t = s THEN NoPackage ELSE saver[t].seen
  BY DEF SaveSettings, NewSaver, TypeOK
<1>2. Shown(NoPackage) = Promise!Nothing
  BY ShownNothing
<1>3. held' = [held EXCEPT ![s] = Promise!Nothing]
  BY <1>1, <1>2 DEF held, Shown
<1>4. Shown(row)' = held[s] /\ UNCHANGED asked
  BY <1>1 DEF asked, held, Shown, Listed
<1>5. QED
  BY <1>3, <1>4 DEF Promise!PutBack, Promise!Forget, asked, held

LEMMA NothingShown ==
    ASSUME UNCHANGED <<row, asked, saver>> PROVE UNCHANGED Promise!vars
<1>1. UNCHANGED <<Shown(row), held>>
  BY DEF Shown, Listed, held
<1>2. QED
  BY <1>1 DEF Promise!vars, asked, held

LEMMA EveryStepIsPromised ==
    ASSUME TypeOK, EditsServe, [Next]_vars
    PROVE  \/ Promise!Edit
           \/ \E s \in Savers : ReadSettings(s) /\ Promise!See(s)
           \/ \E s \in Savers : SaveSettings(s) /\ Promise!PutBack(s)
           \/ UNCHANGED Promise!vars
<1>1. CASE UNCHANGED <<row, edit, saver>>
  BY <1>1, NothingShown DEF asked
<1>2. CASE EditStep
  <2>1. ASSUME NEW e \in Edits, NEW op \in Op, Request(e, op) PROVE Promise!Edit
    <3>1. op \in Promise!Op
      BY Constants, PackageAssumption DEF Op, Contents, Promise!Op, Promise!Contents
    <3>2. QED
      BY <2>1, <3>1, RequestIsAsked DEF Promise!Edit
  <2>2. ASSUME NEW e \in Edits, Swap(e) \/ Fail(e) PROVE Promise!Edit
    BY <2>2, EndIsAnswer DEF Promise!Edit
  <2>3. ASSUME NEW e \in Edits, View(e) \/ Build(e) \/ Put(e) PROVE UNCHANGED Promise!vars
    BY <2>3, ViewHides, NothingShown
  <2>4. CASE DeleteProblem
    BY <1>1, <2>4 DEF DeleteProblem
  <2>5. QED
    BY <1>2, <2>1, <2>2, <2>3, <2>4, OneEdit, ReadIsSeen, SaveIsPutBack
<1>3. QED
  BY <1>1, <1>2, OthersLeaveEdits DEF Next, vars

(* Every change of what editors see is one granted request, applied to the *)
(* package just before it, or a save of other settings that puts back what *)
(* it has read: swaps that compare the row lose no edit, for every number  *)
(* of edits, saves, collectors and tasks, and though uploads overtake the  *)
(* collector.                                                              *)
THEOREM StoreImplementsEdits == Spec => ImplementsEdits
<1> DEFINE Step == Promise!Edit \/ \E s \in Savers : Promise!See(s) \/ Promise!PutBack(s)
<1>1. TypeOK /\ EditsServe /\ [Next]_vars => [Step]_Promise!vars
  BY EveryStepIsPromised
<1>2. TypeOK /\ EditsServe /\ [Next]_vars => EditsServe'
  BY ServesNext
<1>3. QED
  BY <1>1, <1>2, PromiseInit, ServesInit, TypeCorrect, PTL DEF Spec, ImplementsEdits, Promise!Spec

(* Without such saves editors get all they are told.                       *)
THEOREM EditsAloneKeepPromise ==
    ASSUME Savers = {} PROVE Spec => KeepsPromise
<1> DEFINE Step == \/ Promise!Edit
                   \/ \E s \in Savers : Promise!See(s) \/ (Promise!Forget(s) /\ UNCHANGED Shown(row))
<1>1. TypeOK /\ EditsServe /\ [Next]_vars => [Step]_Promise!vars
  BY EveryStepIsPromised
<1>2. TypeOK /\ EditsServe /\ [Next]_vars => EditsServe'
  BY ServesNext
<1>3. QED
  BY <1>1, <1>2, PromiseInit, ServesInit, TypeCorrect, PTL DEF Spec, KeepsPromise, Promise!Promised

=============================================================================
