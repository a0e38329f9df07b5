--------------------------- MODULE MemoryStoreProofs --------------------------
(***************************************************************************)
(* Proofs about MemoryStore, for any memories, any coroutines and any      *)
(* number of operations and ends of the process: the cache serves nothing  *)
(* that delete_memory removed, a content nobody asked to delete keeps a    *)
(* version, and a memory no coroutine works on is found by both routes.    *)
(*                                                                         *)
(* The inductive invariant StoreInv has four parts.  StoreTypes holds the  *)
(* types, the records of the coroutines included.  CacheInv relates the    *)
(* generation of a search under way to the deletes that have ended.        *)
(* Versions says which version survives: an update in progress either      *)
(* still has a firm version of its content beside its own (FirmVersion),   *)
(* or a later one that its delete leaves (NextVersion), and no two updates *)
(* made the same memory (OwnVersion).  Known says why a vector or graph    *)
(* entries may be missing.                                                 *)
(*                                                                         *)
(* The steps fall into classes.  A calm step (CalmStep) removes nothing    *)
(* and begins nothing that could: the metadata writers, tasks, patches and *)
(* the graph rebuild.  A still step (StillStep) is calm but for the cache: *)
(* it covers the searches too.  What is left are the steps that make,      *)
(* replace and remove memories, and the crash.                             *)
(***************************************************************************)
EXTENDS MemoryStore, TLAPS

-----------------------------------------------------------------------------
(* The types of the store, with those of the coroutines' records.          *)
Snaps == UNION {[D -> Meta] : D \in SUBSET Docs}
CalmPcs == {"none", "reading", "writing", "computed", "committed", "merging", "patching",
            "indexing", "marking", "migrating", "migrated", "adding", "listed"}
SearchPcs == {"retrieving", "ranked"}
Pcs == CalmPcs \cup SearchPcs
       \cup {"added", "deleting", "undoing", "deleted", "scanned", "clearing", "cleared", "embedding"}
JobRec == [op : Ops \cup {"none"}, pc : Pcs, doc : 0 .. Last, new : 0 .. Last,
           snap : Snaps, ids : SUBSET Docs, gen : Nat]
Rows == Meta \cup {Unborn, Deleted}
JobFits(r) ==
    /\ r.pc \in {"merging", "patching", "indexing", "embedding", "deleting", "undoing"} => r.doc \in Docs
    /\ r.pc \in {"added", "undoing"} \/ (r.pc = "deleting" /\ r.op = "content") => r.new \in Docs
    /\ r.pc = "adding" /\ r.op = "content" => r.doc \in Docs /\ r.snap \in [{r.doc} -> Meta]
    /\ r.pc = "added" /\ r.op = "content" => r.doc \in Docs
JobsTyped == job \in [Jobs -> JobRec] /\ \A j \in Jobs : JobFits(job[j])
DataTyped ==
    /\ row \in [Docs -> Rows]
    /\ vec \subseteq Docs /\ graph \subseteq Docs /\ lost \subseteq Docs
    /\ gen \in Nat /\ cache \subseteq [gen : 0 .. gen, docs : SUBSET Docs]
    /\ due \subseteq Tasks
    /\ fact \in [Docs -> Docs]
    /\ crashes \in Nat
StoreTypes == DataTyped /\ JobsTyped

LEMMA RowKinds ==
    Unborn \notin Meta /\ Deleted \notin Meta /\ Unborn # Deleted /\ NewMeta \in Meta
  BY DEF Unborn, Deleted, Meta, NewMeta

LEMMA EmptySnap == <<>> \in Snaps
  <1>1. <<>> \in [{} -> Meta]
    OBVIOUS
  <1>2. QED
    BY <1>1 DEF Snaps

LEMMA SnapshotType ==
    ASSUME NEW D \in SUBSET Alive
    PROVE  Snapshot(D) \in [D -> Meta] /\ Snapshot(D) \in Snaps
  <1>1. D \in SUBSET Docs /\ Snapshot(D) \in [D -> Meta]
    BY DEF Alive, Snapshot
  <1>2. QED
    BY <1>1 DEF Snaps

LEMMA SnapValue ==
    ASSUME NEW s \in Snaps
    PROVE  DOMAIN s \subseteq Docs /\ \A d \in DOMAIN s : s[d] \in Meta
  BY DEF Snaps

LEMMA IdleType == Idle \in JobRec /\ Idle.pc = "none"
  BY EmptySnap, StoreAssumption DEF Idle, JobRec, Pcs, CalmPcs, Docs

LEMMA AccessTasks ==
    ASSUME NEW D \in SUBSET Docs
    PROVE  Accesses(D) \subseteq Tasks
  BY DEF Accesses, Tasks

LEMMA DocsInRange == Docs \subseteq 0 .. Last /\ 0 \in 0 .. Last /\ 1 \in Docs
  BY StoreAssumption DEF Docs

-----------------------------------------------------------------------------
(* Calm steps: what is there stays there.                                  *)
RowKept ==
    /\ row' \in [Docs -> Rows]
    /\ \A d \in Docs : IF row[d] \in Meta THEN row'[d] \in Meta ELSE row'[d] = row[d]
Calm ==
    /\ RowKept
    /\ graph \subseteq graph' /\ graph' \subseteq Docs
    /\ due' \subseteq Tasks
    /\ UNCHANGED <<vec, fact, unwanted, gone, lost, crashes>>
CalmRec(r) ==
    /\ r \in JobRec /\ r.pc \in CalmPcs
    /\ r.pc \in {"merging", "patching", "indexing"} => r.doc \in Docs
    /\ r.pc = "adding" => r.op # "content"
CalmJob(j) ==
    /\ job[j].pc \notin {"added", "embedding"}
    /\ \E r : CalmRec(r) /\ job' = [job EXCEPT ![j] = r]
SameCache == Keep \/ Invalidate
StillRec(r) == /\ r \in JobRec /\ r.pc \in CalmPcs \cup SearchPcs
               /\ r.pc \in {"merging", "patching", "indexing"} => r.doc \in Docs
               /\ r.pc = "adding" => r.op # "content"
StillJob(j) ==
    /\ job[j].pc \notin {"added", "embedding"}
    /\ \E r : StillRec(r) /\ job' = [job EXCEPT ![j] = r]
StillStep == Calm /\ (job' = job \/ \E j \in Jobs : StillJob(j))
CalmStep == Calm /\ SameCache /\ (job' = job \/ \E j \in Jobs : CalmJob(j))

LEMMA WrittenKept ==
    ASSUME row \in [Docs -> Rows], NEW new, \A d \in DOMAIN new : new[d] \in Meta, row' = Written(new)
    PROVE  RowKept
  BY DEF Written, RowKept, Alive, Rows

(* The writers of metadata change rows that are there, and leave rows.     *)
RowWriter(j) == AccessWrite(j) \/ DecayWrite(j) \/ PatchWrite(j) \/ SupersedeWrite(j) \/ MigrateWrite(j)
Edits(m) ==
    /\ [m EXCEPT !.acc = 1] \in Meta /\ Decayed(m) \in Meta
    /\ \A i \in 0 .. 1 : [m EXCEPT !.imp = i] \in Meta
    /\ [m EXCEPT !.mark = TRUE, !.imp = 0] \in Meta
    /\ [m EXCEPT !.old = FALSE] \in Meta
LEMMA ImportanceEdit == \A m \in Meta, i \in 0 .. 1 : [m EXCEPT !.imp = i] \in Meta
  BY DEF Meta
LEMMA EditsOfMeta == \A m \in Meta : Edits(m)
  <1> SUFFICES ASSUME NEW m \in Meta
               PROVE  Edits(m)
    OBVIOUS
  <1>1. [m EXCEPT !.acc = 1] \in Meta
    BY DEF Meta
  <1>2. Decayed(m) \in Meta
    <2>1. [m EXCEPT !.imp = 0] \in Meta
      BY DEF Meta
    <2>2. [[m EXCEPT !.imp = 0] EXCEPT !.acc = 0] \in Meta
      BY <2>1 DEF Meta
    <2>3. QED
      BY <2>2 DEF Decayed
  <1>3. ASSUME NEW i \in 0 .. 1
        PROVE  [m EXCEPT !.imp = i] \in Meta
    BY ImportanceEdit
  <1>4. [m EXCEPT !.mark = TRUE, !.imp = 0] \in Meta
    <2>1. [m EXCEPT !.mark = TRUE] \in Meta
      BY DEF Meta
    <2>2. [[m EXCEPT !.mark = TRUE] EXCEPT !.imp = 0] \in Meta
      BY <2>1, ImportanceEdit, 0 \in 0 .. 1, Zenon
    <2>3. QED
      BY <2>2
  <1>5. [m EXCEPT !.old = FALSE] \in Meta
    BY DEF Meta
  <1>6. QED
    BY <1>1, <1>2, <1>3, <1>4, <1>5 DEF Edits
LEMMA RowsKept ==
    ASSUME StoreTypes, NEW j \in Jobs, RowWriter(j)
    PROVE  RowKept
  <1> USE DEF StoreTypes, DataTyped, JobsTyped
  <1> DEFINE s == job[j].snap
  <1>0. s \in Snaps
    BY DEF JobRec
  <1>1. DOMAIN s \subseteq Docs /\ \A d \in DOMAIN s : s[d] \in Meta
    BY <1>0, SnapValue
  <1>2. \A d \in DOMAIN s : Edits(s[d])
    BY <1>1, EditsOfMeta
  <1>3. row' = row => RowKept
    BY DEF RowKept
  <1>4. CASE AccessWrite(j)
    BY <1>2, <1>3, <1>4, WrittenKept DEF Edits, AccessWrite
  <1>5. CASE DecayWrite(j)
    BY <1>2, <1>3, <1>5, WrittenKept DEF Edits, DecayWrite
  <1>6. CASE PatchWrite(j)
    BY <1>2, <1>3, <1>6, WrittenKept DEF Edits, PatchWrite
  <1>7. CASE SupersedeWrite(j)
    BY <1>2, <1>3, <1>7, WrittenKept DEF Edits, SupersedeWrite
  <1>8. CASE MigrateWrite(j)
    BY <1>2, <1>3, <1>8, WrittenKept DEF Edits, MigrateWrite
  <1>9. QED
    BY <1>4, <1>5, <1>6, <1>7, <1>8 DEF RowWriter

LEMMA SameRows ==
    ASSUME row \in [Docs -> Rows], row' = row
    PROVE  RowKept
  BY DEF RowKept

(* The records of calm coroutines.                                         *)
LEMMA CalmRecs ==
    ASSUME NEW r \in JobRec, r.pc \notin {"added", "embedding"}
    PROVE  /\ CalmRec(Idle)
           /\ \A pc \in CalmPcs \ {"adding", "merging", "patching", "indexing"} :
                CalmRec([r EXCEPT !.pc = pc])
           /\ \A pc \in {"merging", "patching", "indexing"} : r.doc \in Docs =>
                CalmRec([r EXCEPT !.pc = pc])
  BY IdleType DEF CalmRec, JobRec, CalmPcs, Pcs
LEMMA ReadRecs ==
    ASSUME NEW r \in JobRec, NEW s \in Snaps
    PROVE  /\ \A pc \in CalmPcs \ {"adding", "merging", "patching", "indexing"} :
                CalmRec([r EXCEPT !.pc = pc, !.snap = s])
           /\ r.doc \in Docs => CalmRec([r EXCEPT !.pc = "patching", !.snap = s])
  BY DEF CalmRec, JobRec, CalmPcs, Pcs
LEMMA BegunRecs ==
    ASSUME NEW op \in Ops, NEW pc \in CalmPcs, pc # "adding" \/ op # "content",
           NEW d \in Docs
    PROVE  /\ CalmRec([Idle EXCEPT !.op = op, !.pc = pc, !.doc = d])
           /\ pc \notin {"merging", "patching", "indexing"} =>
                /\ CalmRec([Idle EXCEPT !.op = op, !.pc = pc])
                /\ \A s \in Snaps : CalmRec([Idle EXCEPT !.op = op, !.pc = pc, !.snap = s])
                /\ \A D \in SUBSET Docs : CalmRec([Idle EXCEPT !.op = op, !.pc = pc, !.ids = D])
  <1>0. Idle \in JobRec /\ pc \in Pcs /\ op \in Ops \cup {"none"} /\ d \in 0 .. Last
    BY IdleType, DocsInRange DEF Pcs
  <1>1. CalmRec([Idle EXCEPT !.op = op, !.pc = pc, !.doc = d])
    BY <1>0 DEF CalmRec, JobRec
  <1>2. ASSUME pc \notin {"merging", "patching", "indexing"}
        PROVE  CalmRec([Idle EXCEPT !.op = op, !.pc = pc])
    BY <1>0, <1>2 DEF CalmRec, JobRec
  <1>3. ASSUME pc \notin {"merging", "patching", "indexing"}, NEW s \in Snaps
        PROVE  CalmRec([Idle EXCEPT !.op = op, !.pc = pc, !.snap = s])
    BY <1>0, <1>3 DEF CalmRec, JobRec
  <1>4. ASSUME pc \notin {"merging", "patching", "indexing"}, NEW D \in SUBSET Docs
        PROVE  CalmRec([Idle EXCEPT !.op = op, !.pc = pc, !.ids = D])
    BY <1>0, <1>4 DEF CalmRec, JobRec
  <1>5. QED
    BY <1>1, <1>2, <1>3, <1>4

LEMMA CalmSteps ==
    ASSUME StoreTypes, NEW j \in Jobs,
           \/ RunTask(j) \/ SearchHit(j)
           \/ AccessRead(j) \/ AccessWrite(j) \/ DecayStart(j) \/ DecayWrite(j)
           \/ PatchRead(j) \/ PatchWrite(j) \/ PatchIndex(j) \/ WriterEnd(j)
           \/ SupersedeRead(j) \/ SupersedeWrite(j)
           \/ MigrateRead(j) \/ MigrateWrite(j) \/ MigrateMark(j)
           \/ AddStart(j) \/ RegraphStart(j) \/ RegraphIndex(j)
           \/ \E d \in Docs : PatchStart(j, d)
    PROVE  CalmStep
  <1> DEFINE r == job[j]
  <1> USE DocsInRange DEF StoreTypes, DataTyped, JobsTyped
  <1>0. r \in JobRec /\ JobFits(r)
    OBVIOUS
  <1>f. r.doc \in 0 .. Last /\ r.ids \in SUBSET Docs
    BY <1>0 DEF JobRec
  <1>a. Alive \subseteq Docs
    BY DEF Alive
  <1>e. r.pc \notin {"added", "embedding"} /\ End(j) => CalmJob(j)
    BY <1>0, CalmRecs DEF End, CalmJob
  <1>g. ASSUME NEW pc \in CalmPcs \ {"adding", "merging", "patching", "indexing"}, Go(j, pc),
               r.pc \notin {"added", "embedding"}
        PROVE  CalmJob(j)
    <2>1. job' = [job EXCEPT ![j] = [job[j] EXCEPT !.pc = pc]]
      BY <1>g DEF Go
    <2>2. QED
      BY <2>1, <1>0, <1>g, CalmRecs DEF CalmJob
  <1>s. ASSUME NEW D \in SUBSET Alive, r.pc \notin {"added", "embedding"},
               NEW pc \in (CalmPcs \ {"adding", "merging", "indexing"}), pc = "patching" => r.doc \in Docs,
               job' = [job EXCEPT ![j].pc = pc, ![j].snap = Snapshot(D)]
        PROVE  CalmJob(j)
    <2>1. job' = [job EXCEPT ![j] = [job[j] EXCEPT !.pc = pc, !.snap = Snapshot(D)]]
      BY <1>s
    <2>2. Snapshot(D) \in Snaps
      BY <1>s, SnapshotType
    <2>3. CalmRec([job[j] EXCEPT !.pc = pc, !.snap = Snapshot(D)])
      BY <2>2, <1>0, <1>s, ReadRecs
    <2>4. QED
      BY <2>1, <2>3, <1>s DEF CalmJob
  <1>b. ASSUME NEW x, CalmRec(x), Begin(j, x)
        PROVE  CalmJob(j)
    BY <1>b DEF Begin, At, CalmJob
  <1> USE DEF At, CalmStep, Calm, SameCache, Keep
  <1>1. CASE RunTask(j)
    <2>1. PICK t \in due : /\ due' = due \ {t}
                           /\ job' = [job EXCEPT ![j] = [Idle EXCEPT !.op = t.op, !.pc = "reading", !.doc = t.doc]]
      BY <1>1 DEF RunTask
    <2>2. t.op \in Ops /\ t.op # "content" /\ t.doc \in Docs
      BY DEF Tasks, Ops
    <2>3. CalmRec([Idle EXCEPT !.op = t.op, !.pc = "reading", !.doc = t.doc])
      BY <2>2, BegunRecs DEF CalmPcs
    <2>4. CalmJob(j)
      BY <1>1, <2>1, <2>3 DEF CalmJob, RunTask
    <2>5. QED
      BY <1>1, <2>1, <2>4, SameRows DEF RunTask
  <1>2. CASE SearchHit(j)
    <2>1. \A e \in Hits : Accesses(e.docs) \subseteq Tasks
      BY AccessTasks DEF Hits
    <2>2. QED
      BY <1>2, <2>1, SameRows DEF SearchHit
  <1>3. CASE AccessRead(j)
    <2>1. CalmJob(j)
      <3>1. CASE r.doc \in Alive
        <4>1. /\ {r.doc} \in SUBSET Alive
              /\ job' = [job EXCEPT ![j].pc = "writing", ![j].snap = Snapshot({r.doc})]
          BY <1>3, <3>1 DEF AccessRead
        <4>2. "writing" \in CalmPcs \ {"adding", "merging", "indexing"} /\ r.pc = "reading"
          BY <1>3 DEF CalmPcs, AccessRead
        <4>3. QED
          BY <4>1, <4>2, <1>s
      <3>2. CASE r.doc \notin Alive
        BY <1>3, <3>2, <1>e DEF AccessRead
      <3>3. QED
        BY <3>1, <3>2
    <2>2. QED
      BY <1>3, <2>1, SameRows DEF AccessRead
  <1>4. CASE AccessWrite(j)
    <2>1. CalmJob(j)
      BY <1>4, <1>e DEF AccessWrite
    <2>2. QED
      BY <1>4, <2>1, RowsKept DEF AccessWrite, RowWriter
  <1>5. CASE DecayStart(j)
    <2>1. CalmRec([Idle EXCEPT !.op = "decay", !.pc = "computed", !.snap = Snapshot(Alive)])
      BY SnapshotType, BegunRecs DEF CalmPcs, Ops
    <2>2. CalmJob(j)
      BY <1>5, <1>b, <2>1 DEF DecayStart
    <2>3. QED
      BY <1>5, <2>2, SameRows DEF DecayStart
  <1>6. CASE DecayWrite(j)
    <2>1. CalmJob(j)
      BY <1>6, <1>e, <1>g DEF DecayWrite, CalmPcs
    <2>2. RowKept
      BY <1>6, RowsKept DEF RowWriter
    <2>3. QED
      BY <1>6, <2>1, <2>2 DEF DecayWrite
  <1>7. CASE PatchRead(j)
    <2>1. CalmJob(j)
      <3>1. CASE r.doc \in Alive
        <4>1. /\ {r.doc} \in SUBSET Alive /\ r.doc \in Docs
              /\ job' = [job EXCEPT ![j].pc = "patching", ![j].snap = Snapshot({r.doc})]
          BY <1>7, <3>1, <1>a DEF PatchRead
        <4>2. "patching" \in CalmPcs \ {"adding", "merging", "indexing"} /\ r.pc = "merging"
          BY <1>7 DEF CalmPcs, PatchRead
        <4>3. QED
          BY <4>1, <4>2, <1>s
      <3>2. CASE r.doc \notin Alive
        BY <1>7, <3>2, <1>e DEF PatchRead
      <3>3. QED
        BY <3>1, <3>2
    <2>2. QED
      BY <1>7, <2>1, SameRows DEF PatchRead
  <1>8. CASE PatchWrite(j)
    <2>1. job' = [job EXCEPT ![j] = [job[j] EXCEPT !.pc = "indexing"]] /\ r.pc = "patching"
      BY <1>8 DEF PatchWrite, Go
    <2>2. CalmJob(j)
      BY <2>1, <1>0, CalmRecs DEF CalmJob, JobFits
    <2>3. RowKept
      BY <1>8, RowsKept DEF RowWriter
    <2>4. QED
      BY <1>8, <2>2, <2>3 DEF PatchWrite
  <1>9. CASE PatchIndex(j)
    <2>1. CalmJob(j)
      BY <1>9, <1>e, <1>g DEF PatchIndex, CalmPcs
    <2>2. r.doc \in Docs
      BY <1>9, <1>0 DEF PatchIndex, JobFits
    <2>3. QED
      BY <1>9, <2>1, <2>2, SameRows DEF PatchIndex
  <1>10. CASE WriterEnd(j)
    <2>1. CalmJob(j)
      BY <1>10, <1>e DEF WriterEnd
    <2>2. QED
      BY <1>10, <2>1, SameRows DEF WriterEnd
  <1>11. CASE SupersedeRead(j)
    <2>1. PICK D \in SUBSET {d \in Alive : d < job[j].doc /\ ~row[d].mark} :
             IF D = {} THEN End(j)
             ELSE job' = [job EXCEPT ![j].pc = "marking", ![j].snap = Snapshot(D)]
      BY <1>11 DEF SupersedeRead
    <2>2. CalmJob(j)
      <3>1. CASE D = {}
        BY <1>11, <2>1, <3>1, <1>e DEF SupersedeRead
      <3>2. CASE D # {}
        <4>1. /\ D \in SUBSET Alive
              /\ job' = [job EXCEPT ![j].pc = "marking", ![j].snap = Snapshot(D)]
          BY <2>1, <3>2
        <4>2. "marking" \in CalmPcs \ {"adding", "merging", "indexing"} /\ r.pc = "reading"
          BY <1>11 DEF CalmPcs, SupersedeRead
        <4>3. QED
          BY <4>1, <4>2, <1>s
      <3>3. QED
        BY <3>1, <3>2
    <2>3. QED
      BY <1>11, <2>2, SameRows DEF SupersedeRead
  <1>12. CASE SupersedeWrite(j)
    <2>1. CalmJob(j)
      BY <1>12, <1>e DEF SupersedeWrite
    <2>2. RowKept
      BY <1>12, RowsKept DEF RowWriter
    <2>3. QED
      BY <1>12, <2>1, <2>2 DEF SupersedeWrite
  <1>13. CASE MigrateRead(j)
    <2>1. CalmJob(j)
      <3>1. CASE migrated
        BY <1>13, <3>1, <1>e DEF MigrateRead
      <3>2. CASE ~migrated
        <4>1. /\ {d \in Alive : row[d].old} \in SUBSET Alive
              /\ job' = [job EXCEPT ![j].pc = "migrating", ![j].snap = Snapshot({d \in Alive : row[d].old})]
          BY <1>13, <3>2 DEF MigrateRead
        <4>2. "migrating" \in CalmPcs \ {"adding", "merging", "indexing"} /\ r.pc = "reading"
          BY <1>13 DEF CalmPcs, MigrateRead
        <4>3. QED
          BY <4>1, <4>2, <1>s
      <3>3. QED
        BY <3>1, <3>2
    <2>2. QED
      BY <1>13, <2>1, SameRows DEF MigrateRead
  <1>14. CASE MigrateWrite(j)
    <2>1. CalmJob(j)
      BY <1>14, <1>e, <1>g DEF MigrateWrite, CalmPcs
    <2>2. RowKept
      BY <1>14, RowsKept DEF RowWriter
    <2>3. QED
      BY <1>14, <2>1, <2>2 DEF MigrateWrite
  <1>15. CASE MigrateMark(j)
    <2>1. CalmJob(j)
      BY <1>15, <1>e DEF MigrateMark
    <2>2. QED
      BY <1>15, <2>1, SameRows DEF MigrateMark
  <1>16. CASE AddStart(j)
    <2>1. CalmRec([Idle EXCEPT !.op = "add", !.pc = "adding"])
      <3>1. "add" \in Ops /\ "adding" \in CalmPcs /\ 1 \in Docs
        BY DEF CalmPcs, Ops
      <3>2. QED
        BY <3>1, BegunRecs
    <2>2. CalmJob(j)
      BY <1>16, <1>b, <2>1 DEF AddStart, Request
    <2>3. QED
      BY <1>16, <2>2, SameRows DEF AddStart
  <1>17. CASE RegraphStart(j)
    <2>1. CalmRec([Idle EXCEPT !.op = "regraph", !.pc = "listed", !.ids = Alive])
      BY <1>a, BegunRecs DEF CalmPcs, Ops
    <2>2. CalmJob(j)
      BY <1>17, <1>b, <2>1 DEF RegraphStart
    <2>3. QED
      BY <1>17, <2>2, SameRows DEF RegraphStart
  <1>18. CASE RegraphIndex(j)
    <2>1. CASE r.ids = {}
      <3>1. CalmJob(j)
        BY <1>18, <2>1, <1>g DEF RegraphIndex, CalmPcs
      <3>2. QED
        BY <1>18, <2>1, <3>1, SameRows DEF RegraphIndex
    <2>2. CASE r.ids # {}
      <3>1. PICK d \in r.ids : graph' = graph \cup {d} /\ job' = [job EXCEPT ![j].ids = @ \ {d}]
        BY <1>18, <2>2 DEF RegraphIndex
      <3>2. job' = [job EXCEPT ![j] = [job[j] EXCEPT !.ids = @ \ {d}]]
        BY <3>1
      <3>3. CalmRec([job[j] EXCEPT !.ids = @ \ {d}])
        BY <1>18, <1>0 DEF RegraphIndex, CalmRec, JobRec, CalmPcs
      <3>4. CalmJob(j)
        BY <1>18, <3>2, <3>3 DEF RegraphIndex, CalmJob
      <3>5. QED
        BY <1>18, <1>f, <3>1, <3>4, SameRows DEF RegraphIndex
    <2>3. QED
      BY <2>1, <2>2
  <1>19. ASSUME NEW d \in Docs, PatchStart(j, d)
         PROVE  CalmStep
    <2>1. CalmRec([Idle EXCEPT !.op = "patch", !.pc = "merging", !.doc = d])
      BY BegunRecs DEF CalmPcs, Ops
    <2>2. CalmJob(j)
      BY <1>19, <1>b, <2>1 DEF PatchStart, RequestOn
    <2>3. QED
      BY <1>19, <2>2, SameRows DEF PatchStart
  <1>20. QED
    BY <1>1, <1>2, <1>3, <1>4, <1>5, <1>6, <1>7, <1>8, <1>9, <1>10, <1>11, <1>12, <1>13,
       <1>14, <1>15, <1>16, <1>17, <1>18, <1>19

LEMMA CalmIsStill == CalmStep => StillStep
  BY DEF CalmStep, StillStep, CalmJob, StillJob, CalmRec, StillRec

LEMMA SearchSteps ==
    ASSUME StoreTypes, NEW j \in Jobs, SearchMiss(j) \/ SearchRetrieve(j) \/ SearchEnd(j)
    PROVE  StillStep
  <1> USE DocsInRange DEF StoreTypes, DataTyped, JobsTyped
  <1> USE DEF At, StillStep, Calm
  <1>0. job[j] \in JobRec
    OBVIOUS
  <1>1. CASE SearchMiss(j)
    <2>1. StillRec([Idle EXCEPT !.op = "search", !.pc = "retrieving", !.gen = gen])
      BY IdleType DEF StillRec, JobRec, Pcs, SearchPcs, Ops
    <2>2. StillJob(j)
      BY <1>1, <2>1 DEF StillJob, SearchMiss, Begin
    <2>3. {[op |-> "migrate", doc |-> 1]} \subseteq Tasks
      BY DEF Tasks
    <2>4. QED
      BY <1>1, <2>2, <2>3, SameRows DEF SearchMiss
  <1>2. CASE SearchRetrieve(j)
    <2>1. PICK found \in SUBSET Alive : job' = [job EXCEPT ![j] = [job[j] EXCEPT !.pc = "ranked", !.ids = found]]
      BY <1>2 DEF SearchRetrieve
    <2>2. found \in SUBSET Docs
      BY DEF Alive
    <2>3. StillRec([job[j] EXCEPT !.pc = "ranked", !.ids = found])
      BY <2>2, <1>0 DEF StillRec, JobRec, Pcs, SearchPcs
    <2>4. StillJob(j)
      BY <1>2, <2>1, <2>3 DEF StillJob, SearchRetrieve
    <2>5. QED
      BY <1>2, <2>4, SameRows DEF SearchRetrieve
  <1>3. CASE SearchEnd(j)
    <2>1. StillRec(Idle)
      BY IdleType DEF StillRec, CalmPcs
    <2>2. StillJob(j)
      BY <1>3, <2>1 DEF SearchEnd, StillJob, End
    <2>3. Eligible(job[j].ids) \in SUBSET Docs
      BY <1>0 DEF JobRec, Eligible
    <2>4. Accesses(Eligible(job[j].ids)) \subseteq Tasks
      BY <2>3, AccessTasks
    <2>5. QED
      BY <1>3, <2>2, <2>4, SameRows DEF SearchEnd
  <1>4. QED
    BY <1>1, <1>2, <1>3

-----------------------------------------------------------------------------
(* The types.                                                              *)
LEMMA OneJob ==
    ASSUME JobsTyped, NEW j \in Jobs, NEW r \in JobRec, JobFits(r), job' = [job EXCEPT ![j] = r]
    PROVE  JobsTyped'
  BY DEF JobsTyped

LEMMA StillJobsTyped ==
    ASSUME JobsTyped, StillStep
    PROVE  JobsTyped'
  <1>1. CASE job' = job
    BY <1>1 DEF JobsTyped
  <1>2. ASSUME NEW j \in Jobs, StillJob(j)
        PROVE  JobsTyped'
    <2>1. PICK r : StillRec(r) /\ job' = [job EXCEPT ![j] = r]
      BY <1>2 DEF StillJob
    <2>2. r \in JobRec /\ JobFits(r)
      BY <2>1 DEF StillRec, JobFits, CalmPcs, SearchPcs
    <2>3. QED
      BY <2>1, <2>2, OneJob
  <1>3. QED
    BY <1>1, <1>2 DEF StillStep

LEMMA CalmTypes ==
    ASSUME StoreTypes, CalmStep
    PROVE  StoreTypes'
  <1>1. JobsTyped'
    BY CalmIsStill, StillJobsTyped DEF StoreTypes
  <1>2. DataTyped'
    BY DEF StoreTypes, DataTyped, CalmStep, Calm, SameCache, Keep, Invalidate, RowKept
  <1>3. QED
    BY <1>1, <1>2 DEF StoreTypes

LEMMA SearchTypes ==
    ASSUME StoreTypes, NEW j \in Jobs, SearchMiss(j) \/ SearchRetrieve(j) \/ SearchEnd(j), job[j].pc \in SearchPcs => job[j].gen <= gen
    PROVE  StoreTypes'
  <1>0. StillStep
    BY SearchSteps
  <1>1. JobsTyped'
    BY <1>0, StillJobsTyped DEF StoreTypes
  <1>2. gen' = gen /\ cache' \subseteq [gen : 0 .. gen, docs : SUBSET Docs]
    <2>1. job[j].ids \in SUBSET Docs /\ job[j].gen \in Nat
      BY DEF StoreTypes, JobsTyped, JobRec
    <2>2. SearchEnd(j) => [gen |-> job[j].gen, docs |-> Eligible(job[j].ids)] \in [gen : 0 .. gen, docs : SUBSET Docs]
      BY <2>1 DEF SearchEnd, At, Eligible, SearchPcs, StoreTypes, DataTyped
    <2>3. QED
      BY <2>2 DEF SearchMiss, SearchRetrieve, SearchEnd, StoreTypes, DataTyped
  <1>3. DataTyped'
    BY <1>0, <1>2 DEF StoreTypes, DataTyped, StillStep, Calm, RowKept
  <1>4. QED
    BY <1>1, <1>3 DEF StoreTypes

-----------------------------------------------------------------------------
(* The cache.                                                              *)
Finished(j) == job[j].pc \in {"deleted", "cleared"} => \A d \in job[j].ids : row[d] = Deleted
SearchFresh(j) ==
    /\ job[j].pc \in SearchPcs => job[j].gen <= gen
    /\ job[j].pc = "ranked" /\ job[j].gen = gen => job[j].ids \cap gone = {}
CacheInv ==
    /\ \A d \in gone : d \in Docs /\ row[d] = Deleted
    /\ \A j \in Jobs : Finished(j) /\ SearchFresh(j)
    /\ CacheFresh

LEMMA CalmCache ==
    ASSUME StoreTypes, CacheInv, CalmStep
    PROVE  CacheInv'
  <1> USE RowKinds DEF StoreTypes, DataTyped, JobsTyped
  <1>0. gone' = gone /\ \A d \in Docs : row[d] = Deleted => row'[d] = Deleted
    BY DEF CalmStep, Calm, RowKept
  <1>1. \A d \in gone' : d \in Docs /\ row'[d] = Deleted
    BY <1>0 DEF CacheInv
  <1>2. \/ gen' = gen /\ cache' = cache
        \/ gen' = gen + 1 /\ cache' = {}
    BY DEF CalmStep, SameCache, Keep, Invalidate
  <1>3. CacheFresh'
    BY <1>0, <1>2 DEF CacheInv, CacheFresh, Hits
  <1>4. ASSUME NEW k \in Jobs
        PROVE  (Finished(k) /\ SearchFresh(k))'
    <2>1. CASE job'[k] = job[k]
      <3>1. job[k].ids \subseteq Docs /\ job[k].gen \in Nat
        BY DEF JobRec
      <3>2. Finished(k)'
        BY <2>1, <3>1, <1>0 DEF CacheInv, Finished
      <3>3. SearchFresh(k)'
        <4>1. CASE gen' = gen
          <5>1. SearchFresh(k)
            BY DEF CacheInv
          <5>2. QED
            BY <2>1, <4>1, <1>0, <5>1 DEF SearchFresh
        <4>2. CASE gen' = gen + 1
          <5>1. SearchFresh(k)
            BY DEF CacheInv
          <5>2. QED
            BY <2>1, <3>1, <4>2, <5>1 DEF SearchFresh, SearchPcs
        <4>3. QED
          BY <1>2, <4>1, <4>2
      <3>4. QED
        BY <3>2, <3>3
    <2>2. CASE job'[k] # job[k]
      <3>0. PICK j \in Jobs : \E r : CalmRec(r) /\ job' = [job EXCEPT ![j] = r]
        BY <2>2 DEF CalmStep, CalmJob
      <3>1. PICK r : CalmRec(r) /\ job' = [job EXCEPT ![j] = r]
        BY <3>0
      <3>2. job'[k] = r
        BY <2>2, <3>1
      <3>3. QED
        BY <3>1, <3>2 DEF CalmRec, CalmPcs, SearchPcs, Finished, SearchFresh
    <2>3. QED
      BY <2>1, <2>2
  <1>5. QED
    BY <1>1, <1>3, <1>4 DEF CacheInv

-----------------------------------------------------------------------------
(* What the steps that make, replace and remove memories do.               *)
Moved(j, pc) == job' = [job EXCEPT ![j] = [job[j] EXCEPT !.pc = pc]]
Ended(j) == job' = [job EXCEPT ![j] = Idle]
Added(j, n, v, f) ==
    /\ job[j].pc = "adding" /\ n \in NextId
    /\ row' = [row EXCEPT ![n] = v] /\ v \in Meta
    /\ fact' = [fact EXCEPT ![n] = f] /\ f \in Docs
    /\ IF job[j].op = "content" THEN job[j].doc \in Docs /\ f = fact[job[j].doc] ELSE f = n
    /\ job' = [job EXCEPT ![j] = [job[j] EXCEPT !.pc = "added", !.new = n]]
    /\ vec' = vec \cup {n}
    /\ UNCHANGED <<graph, gen, cache, due, crashes, unwanted, gone, lost>>
Removed(j, d) ==
    /\ job[j].pc \in {"deleting", "undoing"} /\ d = Target(j) /\ d \in Docs
    /\ row' = [row EXCEPT ![d] = Deleted]
    /\ vec' = vec \ {d}
    /\ job' = [job EXCEPT ![j] = [job[j] EXCEPT !.pc = "deleted", !.ids = {d}]]
    /\ UNCHANGED <<graph, gen, cache, due, crashes, fact, unwanted, gone, lost>>
Undoing(j) ==
    /\ job[j].op = "content" /\ job[j].pc = "deleting" /\ Moved(j, "undoing")
    /\ UNCHANGED <<row, vec, graph, gen, cache, due, crashes, fact, unwanted, gone, lost>>

LEMMA AddDocumentDoes ==
    ASSUME StoreTypes, NEW j \in Jobs, AddDocument(j)
    PROVE  CalmStep \/ \E n \in Docs, v \in Meta, f \in Docs : Added(j, n, v, f)
  <1> USE DEF StoreTypes, DataTyped, JobsTyped
  <1>0. job[j] \in JobRec /\ JobFits(job[j]) /\ job[j].pc = "adding"
    BY DEF AddDocument, At
  <1>1. CASE UNCHANGED <<row, vec, fact>> /\ End(j)
    <2>1. CalmJob(j)
      BY <1>0, <1>1, IdleType DEF CalmJob, CalmRec, End, CalmPcs
    <2>2. QED
      BY <1>1, <2>1, SameRows DEF AddDocument, CalmStep, Calm, SameCache, Keep
  <1>2. CASE ~(UNCHANGED <<row, vec, fact>> /\ End(j))
    <2>1. PICK n \in NextId :
            /\ row' = [row EXCEPT ![n] = IF job[j].op = "content" THEN job[j].snap[job[j].doc] ELSE NewMeta]
            /\ vec' = vec \cup {n}
            /\ fact' = [fact EXCEPT ![n] = IF job[j].op = "content" THEN fact[job[j].doc] ELSE n]
            /\ job' = [job EXCEPT ![j].pc = "added", ![j].new = n]
      BY <1>2 DEF AddDocument
    <2>2. n \in Docs
      BY DEF NextId
    <2>3. job[j].op = "content" =>
             job[j].doc \in Docs /\ job[j].snap[job[j].doc] \in Meta /\ fact[job[j].doc] \in Docs
      BY <1>0 DEF JobFits
    <2>4. Added(j, n, IF job[j].op = "content" THEN job[j].snap[job[j].doc] ELSE NewMeta,
                      IF job[j].op = "content" THEN fact[job[j].doc] ELSE n)
      BY <1>0, <2>1, <2>2, <2>3, RowKinds DEF Added, AddDocument
    <2>5. QED
      BY <2>2, <2>3, <2>4, RowKinds
  <1>3. QED
    BY <1>1, <1>2

LEMMA DeleteDocumentDoes ==
    ASSUME StoreTypes, NEW j \in Jobs, DeleteDocument(j)
    PROVE  CalmStep \/ Removed(j, Target(j)) \/ Undoing(j)
  <1> USE DEF StoreTypes, DataTyped, JobsTyped
  <1>0. job[j] \in JobRec /\ JobFits(job[j]) /\ job[j].pc \in {"deleting", "undoing"}
    BY DEF DeleteDocument
  <1>1. Target(j) \in Docs
    BY <1>0 DEF Target, JobFits, At
  <1>2. CASE UNCHANGED <<row, vec>> /\ End(j)
    <2>1. CalmJob(j)
      BY <1>0, <1>2, IdleType DEF CalmJob, CalmRec, End, CalmPcs
    <2>2. QED
      BY <1>2, <2>1, SameRows DEF DeleteDocument, CalmStep, Calm, SameCache, Keep
  <1>3. CASE UNCHANGED <<row, vec>> /\ ~End(j)
    <2>1. row' # [row EXCEPT ![Target(j)] = Deleted] \/ Undoing(j) \/ Removed(j, Target(j))
      BY <1>0, <1>1, <1>3 DEF DeleteDocument, Undoing, Moved, Go, At, Removed
    <2>2. row' # [row EXCEPT ![Target(j)] = Deleted] => Undoing(j)
      BY <1>0, <1>1, <1>3 DEF DeleteDocument, Undoing, Moved, Go, At
    <2>3. QED
      BY <2>1, <2>2
  <1>4. CASE ~UNCHANGED <<row, vec>>
    BY <1>0, <1>1, <1>4 DEF DeleteDocument, Removed
  <1>5. QED
    BY <1>2, <1>3, <1>4

LEMMA AddEndDoes ==
    ASSUME StoreTypes, NEW j \in Jobs, AddEnd(j)
    PROVE  /\ job[j].pc = "added" /\ job[j].new \in Docs
           /\ graph' = graph \cup {job[j].new} /\ Invalidate
           /\ due' \subseteq Tasks
           /\ IF job[j].op = "content" THEN Moved(j, "deleting") ELSE Ended(j)
           /\ UNCHANGED <<row, vec, crashes, fact, unwanted, gone, lost>>
  <1>1. job[j].pc = "added" /\ job[j].new \in Docs
    BY DEF AddEnd, At, StoreTypes, JobsTyped, JobFits
  <1>2. due' \subseteq Tasks
    BY <1>1 DEF AddEnd, Tasks, StoreTypes, DataTyped
  <1>3. QED
    BY <1>1, <1>2 DEF AddEnd, Moved, Ended, Go, End

LEMMA InvalidateTypes ==
    ASSUME DataTyped, Invalidate
    PROVE  gen' \in Nat /\ cache' \subseteq [gen : 0 .. gen', docs : SUBSET Docs]
  BY DEF Invalidate, DataTyped
LEMMA SpecialTypes ==
    ASSUME StoreTypes, NEW j \in Jobs,
           \/ AddDocument(j) \/ AddEnd(j) \/ DeleteDocument(j) \/ DeleteEnd(j)
           \/ CleanupScan(j) \/ BatchStart(j) \/ BatchDelete(j) \/ BatchEnd(j) \/ ReembedEnd(j)
           \/ \E d \in Docs : ContentStart(j, d) \/ DeleteStart(j, d) \/ ReembedStart(j, d)
    PROVE  StoreTypes'
  <1> USE IdleType, DocsInRange DEF StoreTypes
  <1>0. job[j] \in JobRec /\ JobFits(job[j])
    BY DEF JobsTyped
  <1>i. JobFits(Idle)
    BY DEF JobFits
  <1>e. ASSUME End(j)
        PROVE  JobsTyped'
    BY <1>e, <1>i, OneJob DEF End
  <1>g. ASSUME NEW pc \in Pcs, job' = [job EXCEPT ![j].pc = pc],
               pc \notin {"merging", "patching", "indexing", "embedding", "deleting", "undoing", "added", "adding"}
        PROVE  JobsTyped'
    <2>1. job' = [job EXCEPT ![j] = [job[j] EXCEPT !.pc = pc]]
      BY <1>g
    <2>2. [job[j] EXCEPT !.pc = pc] \in JobRec /\ JobFits([job[j] EXCEPT !.pc = pc])
      BY <1>0, <1>g DEF JobRec, JobFits
    <2>3. QED
      BY <2>1, <2>2, OneJob
  <1>1. CASE AddDocument(j)
    <2>1. ASSUME NEW n \in Docs, NEW v \in Meta, NEW f \in Docs, Added(j, n, v, f)
          PROVE  StoreTypes'
      <3>1. [job[j] EXCEPT !.pc = "added", !.new = n] \in JobRec
        BY <1>0 DEF JobRec, Pcs
      <3>2. JobFits([job[j] EXCEPT !.pc = "added", !.new = n])
        BY <1>0, <2>1 DEF JobFits, Added, JobRec
      <3>3. JobsTyped'
        BY <2>1, <3>1, <3>2, OneJob DEF Added
      <3>4. QED
        BY <2>1, <3>3 DEF Added, DataTyped, Rows
    <2>2. QED
      BY <1>1, <2>1, AddDocumentDoes, CalmTypes
  <1>2. CASE AddEnd(j)
    <2>1. CASE job[j].op = "content"
      <3>1. /\ [job[j] EXCEPT !.pc = "deleting"] \in JobRec
            /\ JobFits([job[j] EXCEPT !.pc = "deleting"])
        BY <1>0, <1>2, <2>1, AddEndDoes DEF JobRec, Pcs, JobFits
      <3>2. JobsTyped'
        BY <1>2, <2>1, <3>1, AddEndDoes, OneJob DEF Moved
      <3>3. QED
        BY <1>2, <3>2, AddEndDoes, InvalidateTypes DEF DataTyped
    <2>2. CASE job[j].op # "content"
      <3>1. JobsTyped'
        BY <1>2, <2>2, <1>e DEF AddEnd
      <3>2. QED
        BY <1>2, <3>1, AddEndDoes, InvalidateTypes DEF DataTyped
    <2>3. QED
      BY <2>1, <2>2
  <1>3. CASE DeleteDocument(j)
    <2>1. CASE Removed(j, Target(j))
      <3>1. /\ [job[j] EXCEPT !.pc = "deleted", !.ids = {Target(j)}] \in JobRec
            /\ JobFits([job[j] EXCEPT !.pc = "deleted", !.ids = {Target(j)}])
        BY <1>0, <2>1 DEF JobRec, Pcs, JobFits, Removed
      <3>2. JobsTyped'
        BY <2>1, <3>1, OneJob DEF Removed
      <3>3. QED
        BY <2>1, <3>2 DEF DataTyped, Removed, Rows
    <2>2. CASE Undoing(j)
      <3>1. /\ [job[j] EXCEPT !.pc = "undoing"] \in JobRec
            /\ JobFits([job[j] EXCEPT !.pc = "undoing"])
        BY <1>0, <2>2 DEF JobRec, Pcs, JobFits, Undoing
      <3>2. JobsTyped'
        BY <2>2, <3>1, OneJob DEF Undoing, Moved
      <3>3. QED
        BY <2>2, <3>2 DEF DataTyped, Undoing
    <2>3. QED
      BY <1>3, <2>1, <2>2, DeleteDocumentDoes, CalmTypes
  <1>4. CASE DeleteEnd(j)
    <2>1. JobsTyped'
      BY <1>4, <1>e DEF DeleteEnd
    <2>2. QED
      BY <1>4, <2>1, InvalidateTypes DEF DataTyped, DeleteEnd
  <1>5. CASE CleanupScan(j)
    <2>1. {d \in Alive : row[d].imp = 0} \in SUBSET Docs
      BY DEF Alive
    <2>2. /\ [Idle EXCEPT !.op = "batch", !.pc = "scanned", !.ids = {d \in Alive : row[d].imp = 0}] \in JobRec
          /\ JobFits([Idle EXCEPT !.op = "batch", !.pc = "scanned", !.ids = {d \in Alive : row[d].imp = 0}])
      BY <2>1 DEF JobRec, Pcs, Ops, JobFits
    <2>3. JobsTyped'
      BY <1>5, <2>2, OneJob DEF CleanupScan, Begin
    <2>4. QED
      BY <1>5, <2>3 DEF DataTyped, CleanupScan
  <1>6. CASE BatchStart(j)
    <2>1. JobsTyped'
      <3>1. ASSUME NEW D \in SUBSET Alive, Begin(j, [Idle EXCEPT !.op = "batch", !.pc = "clearing", !.ids = D])
            PROVE  JobsTyped'
        <4>1. D \in SUBSET Docs
          BY DEF Alive
        <4>2. /\ [Idle EXCEPT !.op = "batch", !.pc = "clearing", !.ids = D] \in JobRec
              /\ JobFits([Idle EXCEPT !.op = "batch", !.pc = "clearing", !.ids = D])
          BY <4>1 DEF JobRec, Pcs, Ops, JobFits
        <4>3. QED
          BY <3>1, <4>2, OneJob DEF Begin
      <3>2. ASSUME Go(j, "clearing")
            PROVE  JobsTyped'
        BY <3>2, <1>g DEF Go, Pcs
      <3>3. QED
        BY <1>6, <3>1, <3>2 DEF BatchStart
    <2>2. QED
      BY <1>6, <2>1, InvalidateTypes DEF DataTyped, BatchStart
  <1>7. CASE BatchDelete(j)
    <2>1. JobsTyped'
      BY <1>7, <1>g DEF BatchDelete, Go, Pcs
    <2>2. row' \in [Docs -> Rows] /\ vec' \subseteq Docs
      BY <1>7 DEF BatchDelete, DataTyped, Rows
    <2>3. QED
      BY <1>7, <2>1, <2>2 DEF DataTyped, BatchDelete
  <1>8. CASE BatchEnd(j)
    <2>1. JobsTyped'
      BY <1>8, <1>e DEF BatchEnd
    <2>2. QED
      BY <1>8, <2>1 DEF DataTyped, BatchEnd
  <1>9. CASE ReembedEnd(j)
    <2>1. JobsTyped' /\ job[j].doc \in Docs
      BY <1>0, <1>9, <1>e DEF ReembedEnd, JobFits, At
    <2>2. QED
      BY <1>9, <2>1 DEF DataTyped, ReembedEnd
  <1>10. ASSUME NEW d \in Docs, ContentStart(j, d)
         PROVE  StoreTypes'
    <2>1. Snapshot({d}) \in [{d} -> Meta] /\ Snapshot({d}) \in Snaps
      BY <1>10, SnapshotType DEF ContentStart
    <2>2. /\ [Idle EXCEPT !.op = "content", !.pc = "adding", !.doc = d, !.snap = Snapshot({d})] \in JobRec
          /\ JobFits([Idle EXCEPT !.op = "content", !.pc = "adding", !.doc = d, !.snap = Snapshot({d})])
      BY <2>1 DEF JobRec, Pcs, CalmPcs, Ops, JobFits
    <2>3. JobsTyped'
      BY <1>10, <2>2, OneJob DEF ContentStart, Begin
    <2>4. QED
      BY <1>10, <2>3 DEF DataTyped, ContentStart
  <1>11. ASSUME NEW d \in Docs, DeleteStart(j, d)
         PROVE  StoreTypes'
    <2>1. /\ [Idle EXCEPT !.op = "delete", !.pc = "deleting", !.doc = d] \in JobRec
          /\ JobFits([Idle EXCEPT !.op = "delete", !.pc = "deleting", !.doc = d])
      BY DEF JobRec, Pcs, Ops, JobFits
    <2>2. JobsTyped'
      BY <1>11, <2>1, OneJob DEF DeleteStart, RequestOn, Begin
    <2>3. QED
      BY <1>11, <2>2 DEF DataTyped, DeleteStart
  <1>12. ASSUME NEW d \in Docs, ReembedStart(j, d)
         PROVE  StoreTypes'
    <2>1. /\ [Idle EXCEPT !.op = "reembed", !.pc = "embedding", !.doc = d] \in JobRec
          /\ JobFits([Idle EXCEPT !.op = "reembed", !.pc = "embedding", !.doc = d])
      BY DEF JobRec, Pcs, Ops, JobFits
    <2>2. JobsTyped'
      BY <1>12, <2>1, OneJob DEF ReembedStart, RequestOn, Begin
    <2>3. QED
      BY <1>12, <2>2 DEF DataTyped, ReembedStart
  <1>13. QED
    BY <1>1, <1>2, <1>3, <1>4, <1>5, <1>6, <1>7, <1>8, <1>9, <1>10, <1>11, <1>12

LEMMA CrashTypes ==
    ASSUME StoreTypes, Crash
    PROVE  StoreTypes'
  <1>1. JobsTyped'
    BY IdleType DEF Crash, JobsTyped, JobFits
  <1>2. {job[j].doc : j \in {k \in Jobs : At(k, "embedding")}} \subseteq Docs
    BY DEF StoreTypes, JobsTyped, JobFits, At
  <1>3. DataTyped'
    BY <1>2 DEF Crash, StoreTypes, DataTyped
  <1>4. QED
    BY <1>1, <1>3 DEF StoreTypes
LEMMA EligibilityIsCalm ==
    ASSUME StoreTypes, LoseEligibility
    PROVE  CalmStep
  <1>1. \A m \in Meta : [m EXCEPT !.elig = FALSE] \in Meta
    BY DEF Meta
  <1>2. RowKept
    BY <1>1 DEF LoseEligibility, RowKept, Alive, StoreTypes, DataTyped, Rows
  <1>3. QED
    BY <1>2 DEF LoseEligibility, CalmStep, Calm, SameCache, Keep, StoreTypes, DataTyped
LEMMA StutterIsCalm ==
    ASSUME StoreTypes, UNCHANGED vars
    PROVE  CalmStep
  BY SameRows DEF vars, CalmStep, Calm, SameCache, Keep, StoreTypes, DataTyped
-----------------------------------------------------------------------------
(* The cache, at the other steps.                                          *)
Others(j) == \A k \in Jobs \ {j} : job'[k] = job[k]
Fits(j) ==
    /\ job'[j].pc \in {"deleted", "cleared"} => \A d \in job'[j].ids : row'[d] = Deleted
    /\ job'[j].pc \notin SearchPcs
StayDeleted == \A d \in Docs : row[d] = Deleted => row'[d] = Deleted
GoneSafely == gone' = gone \/ (Invalidate /\ \A d \in gone' : d \in Docs /\ row'[d] = Deleted)

LEMMA CacheStep ==
    ASSUME StoreTypes, CacheInv, NEW j \in Jobs,
           Others(j), Fits(j), StayDeleted, SameCache, GoneSafely
    PROVE  CacheInv'
  <1> USE DEF StoreTypes, DataTyped, JobsTyped
  <1>1. \A d \in gone' : d \in Docs /\ row'[d] = Deleted
    BY DEF CacheInv, GoneSafely, StayDeleted
  <1>2. \/ gen' = gen /\ cache' = cache /\ gone' = gone
        \/ gen' = gen + 1 /\ cache' = {}
    BY DEF SameCache, Keep, Invalidate, GoneSafely
  <1>3. CacheFresh'
    BY <1>2 DEF CacheInv, CacheFresh, Hits
  <1>4. ASSUME NEW k \in Jobs
        PROVE  (Finished(k) /\ SearchFresh(k))'
    <2>1. CASE k = j
      BY <2>1 DEF Fits, Finished, SearchFresh, SearchPcs
    <2>2. CASE k # j
      <3>1. job[k].ids \subseteq Docs /\ job[k].gen \in Nat /\ job'[k] = job[k]
        BY <2>2 DEF JobRec, Others
      <3>2. Finished(k) /\ SearchFresh(k)
        BY DEF CacheInv
      <3>3. Finished(k)'
        BY <3>1, <3>2 DEF Finished, StayDeleted
      <3>4. SearchFresh(k)'
        <4>1. CASE gen' = gen /\ gone' = gone
          BY <3>1, <3>2, <4>1 DEF SearchFresh
        <4>2. CASE gen' = gen + 1
          BY <3>1, <3>2, <4>2 DEF SearchFresh, SearchPcs
        <4>3. QED
          BY <1>2, <4>1, <4>2
      <3>5. QED
        BY <3>3, <3>4
    <2>3. QED
      BY <2>1, <2>2
  <1>5. QED
    BY <1>1, <1>3, <1>4 DEF CacheInv

LEMMA SpecialCache ==
    ASSUME StoreTypes, CacheInv, NEW j \in Jobs,
           \/ AddDocument(j) \/ AddEnd(j) \/ DeleteDocument(j) \/ DeleteEnd(j)
           \/ CleanupScan(j) \/ BatchStart(j) \/ BatchDelete(j) \/ BatchEnd(j) \/ ReembedEnd(j)
           \/ \E d \in Docs : ContentStart(j, d) \/ DeleteStart(j, d) \/ ReembedStart(j, d)
    PROVE  CacheInv'
  <1>0. job \in [Jobs -> JobRec] /\ row \in [Docs -> Rows]
    BY DEF StoreTypes, JobsTyped, DataTyped
  <1>a. job[j] \in JobRec
    BY <1>0
  <1>e. End(j) => Fits(j) /\ Others(j)
    BY <1>0 DEF Idle, End, Fits, Others, SearchPcs
  <1>b. ASSUME NEW x, Begin(j, x), x.pc \notin {"deleted", "cleared", "retrieving", "ranked"}
        PROVE  Fits(j) /\ Others(j)
    BY <1>b, <1>0 DEF Begin, Fits, Others, SearchPcs
  <1>m. ASSUME NEW pc \in Pcs, pc \notin {"deleted", "cleared", "retrieving", "ranked"},
               job' = [job EXCEPT ![j] = [job[j] EXCEPT !.pc = pc]]
        PROVE  Fits(j) /\ Others(j)
    BY <1>0, <1>a, <1>m DEF JobRec, Fits, Others, SearchPcs
  <1>p. {"deleting", "undoing", "clearing"} \subseteq Pcs \ {"deleted", "cleared", "retrieving", "ranked"}
    BY DEF Pcs
  <1>i. Idle \in JobRec
    BY IdleType
  <1>r. UNCHANGED row => StayDeleted
    BY DEF StayDeleted
  <1>k. UNCHANGED <<gen, cache>> \/ Invalidate => SameCache
    BY DEF SameCache, Keep
  <1>u. UNCHANGED gone => GoneSafely
    BY DEF GoneSafely
  <1>s. ASSUME Fits(j), Others(j), UNCHANGED <<row, gone>>, UNCHANGED <<gen, cache>> \/ Invalidate
        PROVE  CacheInv'
    BY <1>s, <1>r, <1>k, <1>u, CacheStep
  <1>1. CASE AddDocument(j)
    <2>1. ASSUME NEW n \in Docs, NEW v \in Meta, NEW f \in Docs, Added(j, n, v, f)
          PROVE  CacheInv'
      <3>1. Fits(j) /\ Others(j)
        BY <1>0, <1>a, <2>1 DEF Added, Fits, Others, SearchPcs, JobRec
      <3>2. StayDeleted
        BY <1>0, <2>1, RowKinds DEF Added, NextId, StayDeleted
      <3>3. SameCache /\ GoneSafely
        BY <2>1, <1>k, <1>u DEF Added
      <3>4. QED
        BY <3>1, <3>2, <3>3, CacheStep
    <2>2. QED
      BY <1>1, <2>1, AddDocumentDoes, CalmCache
  <1>2. CASE AddEnd(j)
    <2>1. Fits(j) /\ Others(j)
      <3>1. CASE job[j].op = "content"
        BY <1>2, <3>1, <1>m, <1>p, AddEndDoes DEF Moved
      <3>2. CASE job[j].op # "content"
        BY <1>2, <3>2, <1>e DEF AddEnd
      <3>3. QED
        BY <3>1, <3>2
    <2>2. QED
      BY <1>2, <2>1, <1>s DEF AddEnd
  <1>3. CASE DeleteDocument(j)
    <2>1. CASE Removed(j, Target(j))
      <3>1. Fits(j) /\ Others(j)
        BY <1>0, <1>a, <2>1 DEF Removed, Fits, Others, SearchPcs, JobRec
      <3>2. StayDeleted
        BY <1>0, <2>1 DEF Removed, StayDeleted
      <3>3. SameCache /\ GoneSafely
        BY <2>1, <1>k, <1>u DEF Removed
      <3>4. QED
        BY <3>1, <3>2, <3>3, CacheStep
    <2>2. CASE Undoing(j)
      <3>1. Fits(j) /\ Others(j)
        BY <2>2, <1>m, <1>p DEF Undoing, Moved
      <3>2. QED
        BY <2>2, <3>1, <1>s DEF Undoing
    <2>3. QED
      BY <1>3, <2>1, <2>2, DeleteDocumentDoes, CalmCache
  <1>4. CASE DeleteEnd(j)
    <2>1. \A d \in job[j].ids : d \in Docs /\ row[d] = Deleted
      BY <1>4, <1>a DEF DeleteEnd, At, CacheInv, Finished, JobRec
    <2>2. \A d \in gone' : d \in Docs /\ row'[d] = Deleted
      BY <1>4, <2>1 DEF DeleteEnd, CacheInv
    <2>3. GoneSafely /\ SameCache /\ StayDeleted
      BY <1>4, <2>2, <1>k, <1>r DEF DeleteEnd, GoneSafely
    <2>4. Fits(j) /\ Others(j)
      BY <1>4, <1>e DEF DeleteEnd
    <2>5. QED
      BY <2>3, <2>4, CacheStep
  <1>5. CASE CleanupScan(j)
    <2>1. Fits(j) /\ Others(j)
      <3>1. Begin(j, [Idle EXCEPT !.op = "batch", !.pc = "scanned", !.ids = {d \in Alive : row[d].imp = 0}])
        BY <1>5 DEF CleanupScan
      <3>2. [Idle EXCEPT !.op = "batch", !.pc = "scanned", !.ids = {d \in Alive : row[d].imp = 0}].pc = "scanned"
        BY <1>i DEF JobRec
      <3>3. QED
        BY <3>1, <3>2, <1>b
    <2>2. QED
      BY <1>5, <2>1, <1>s DEF CleanupScan
  <1>6. CASE BatchStart(j)
    <2>1. Fits(j) /\ Others(j)
      <3>1. ASSUME NEW D \in SUBSET Alive, Begin(j, [Idle EXCEPT !.op = "batch", !.pc = "clearing", !.ids = D])
            PROVE  Fits(j) /\ Others(j)
        <4>1. [Idle EXCEPT !.op = "batch", !.pc = "clearing", !.ids = D].pc = "clearing"
          BY <1>i DEF JobRec
        <4>2. QED
          BY <3>1, <4>1, <1>b
      <3>2. ASSUME Go(j, "clearing")
            PROVE  Fits(j) /\ Others(j)
        BY <3>2, <1>m, <1>p DEF Go
      <3>3. QED
        BY <1>6, <3>1, <3>2 DEF BatchStart
    <2>2. QED
      BY <1>6, <2>1, <1>s DEF BatchStart
  <1>7. CASE BatchDelete(j)
    <2>1. job'[j].ids = job[j].ids /\ job'[j].pc = "cleared" /\ Others(j)
      BY <1>7, <1>0, <1>a DEF BatchDelete, Go, JobRec, Others
    <2>2. \A d \in job[j].ids : row'[d] = Deleted
      BY <1>7, <1>a DEF BatchDelete, JobRec
    <2>3. StayDeleted
      BY <1>7 DEF BatchDelete, StayDeleted
    <2>4. Fits(j)
      BY <2>1, <2>2 DEF Fits, SearchPcs
    <2>5. SameCache /\ GoneSafely
      BY <1>7, <1>k, <1>u DEF BatchDelete
    <2>6. QED
      BY <2>1, <2>3, <2>4, <2>5, CacheStep
  <1>8. CASE BatchEnd(j)
    BY <1>8, <1>e, <1>s DEF BatchEnd
  <1>9. CASE ReembedEnd(j)
    BY <1>9, <1>e, <1>s DEF ReembedEnd
  <1>10. ASSUME NEW d \in Docs, ContentStart(j, d)
         PROVE  CacheInv'
    <2>1. Fits(j) /\ Others(j)
      <3>1. Begin(j, [Idle EXCEPT !.op = "content", !.pc = "adding", !.doc = d, !.snap = Snapshot({d})])
        BY <1>10 DEF ContentStart
      <3>2. [Idle EXCEPT !.op = "content", !.pc = "adding", !.doc = d, !.snap = Snapshot({d})].pc = "adding"
        BY <1>i DEF JobRec
      <3>3. QED
        BY <3>1, <3>2, <1>b
    <2>2. QED
      BY <1>10, <2>1, <1>s DEF ContentStart
  <1>11. ASSUME NEW d \in Docs, DeleteStart(j, d)
         PROVE  CacheInv'
    <2>1. Fits(j) /\ Others(j)
      <3>1. Begin(j, [Idle EXCEPT !.op = "delete", !.pc = "deleting", !.doc = d])
        BY <1>11 DEF DeleteStart, RequestOn
      <3>2. [Idle EXCEPT !.op = "delete", !.pc = "deleting", !.doc = d].pc = "deleting"
        BY <1>i DEF JobRec
      <3>3. QED
        BY <3>1, <3>2, <1>b
    <2>2. QED
      BY <1>11, <2>1, <1>s DEF DeleteStart
  <1>12. ASSUME NEW d \in Docs, ReembedStart(j, d)
         PROVE  CacheInv'
    <2>1. Fits(j) /\ Others(j)
      <3>1. Begin(j, [Idle EXCEPT !.op = "reembed", !.pc = "embedding", !.doc = d])
        BY <1>12 DEF ReembedStart, RequestOn
      <3>2. [Idle EXCEPT !.op = "reembed", !.pc = "embedding", !.doc = d].pc = "embedding"
        BY <1>i DEF JobRec
      <3>3. QED
        BY <3>1, <3>2, <1>b
    <2>2. QED
      BY <1>12, <2>1, <1>s DEF ReembedStart
  <1>13. QED
    BY <1>1, <1>2, <1>3, <1>4, <1>5, <1>6, <1>7, <1>8, <1>9, <1>10, <1>11, <1>12

LEMMA SearchCache ==
    ASSUME StoreTypes, CacheInv, NEW j \in Jobs, SearchMiss(j) \/ SearchRetrieve(j) \/ SearchEnd(j)
    PROVE  CacheInv'
  <1>0. /\ job \in [Jobs -> JobRec] /\ row \in [Docs -> Rows] /\ gen \in Nat
        /\ gen' = gen /\ gone' = gone /\ row' = row
    BY DEF StoreTypes, JobsTyped, DataTyped, SearchMiss, SearchRetrieve, SearchEnd
  <1>1. job[j] \in JobRec /\ SearchFresh(j) /\ Finished(j)
    BY <1>0 DEF CacheInv
  <1>2. \A d \in gone' : d \in Docs /\ row'[d] = Deleted
    BY <1>0 DEF CacheInv
  <1>3. \A k \in Jobs \ {j} : job'[k] = job[k]
    BY <1>0 DEF SearchMiss, SearchRetrieve, SearchEnd, Begin, End
  <1>4. Finished(j)'
    <2>1. job'[j].pc \in {"retrieving", "ranked", "none"}
      <3>1. CASE SearchMiss(j)
        BY <1>0, <3>1 DEF SearchMiss, Begin, Idle
      <3>2. CASE SearchRetrieve(j)
        BY <1>0, <1>1, <3>2 DEF SearchRetrieve, JobRec
      <3>3. CASE SearchEnd(j)
        BY <1>0, <3>3 DEF SearchEnd, End, Idle
      <3>4. QED
        BY <3>1, <3>2, <3>3
    <2>2. QED
      BY <2>1 DEF Finished
  <1>5. SearchFresh(j)'
    <2>1. CASE SearchMiss(j)
      BY <1>0, <2>1 DEF SearchMiss, Begin, Idle, SearchFresh
    <2>2. CASE SearchRetrieve(j)
      <3>1. PICK found \in SUBSET Alive : job' = [job EXCEPT ![j].pc = "ranked", ![j].ids = found]
        BY <2>2 DEF SearchRetrieve
      <3>2. found \cap gone = {}
        BY RowKinds DEF CacheInv, Alive
      <3>3. job'[j].gen = job[j].gen /\ job'[j].ids = found /\ job[j].gen <= gen
        BY <1>0, <1>1, <2>2, <3>1 DEF JobRec, SearchFresh, SearchPcs, SearchRetrieve, At
      <3>4. QED
        BY <1>0, <3>2, <3>3 DEF SearchFresh
    <2>3. CASE SearchEnd(j)
      BY <1>0, <2>3 DEF SearchEnd, End, Idle, SearchFresh, SearchPcs
    <2>4. QED
      BY <2>1, <2>2, <2>3
  <1>6. \A k \in Jobs : (Finished(k) /\ SearchFresh(k))'
    BY <1>0, <1>3, <1>4, <1>5 DEF CacheInv, Finished, SearchFresh
  <1>7. CacheFresh'
    <2>1. CASE SearchEnd(j)
      <3>1. Eligible(job[j].ids) \subseteq job[j].ids
        BY DEF Eligible
      <3>2. job[j].gen = gen => Eligible(job[j].ids) \cap gone = {}
        BY <1>1, <2>1, <3>1 DEF SearchFresh, SearchEnd, At
      <3>3. \A e \in cache' : e \in cache \/ e = [gen |-> job[j].gen, docs |-> Eligible(job[j].ids)]
        BY <2>1 DEF SearchEnd
      <3>4. QED
        BY <1>0, <3>2, <3>3 DEF CacheInv, CacheFresh, Hits
    <2>2. CASE ~SearchEnd(j)
      <3>1. cache' \subseteq cache
        BY <2>2 DEF SearchMiss, SearchRetrieve
      <3>2. QED
        BY <1>0, <3>1 DEF CacheInv, CacheFresh, Hits
    <2>3. QED
      BY <2>1, <2>2
  <1>8. QED
    BY <1>2, <1>6, <1>7 DEF CacheInv

LEMMA CrashCache ==
    ASSUME StoreTypes, CacheInv, Crash
    PROVE  CacheInv'
  <1>1. CacheFresh'
    BY DEF Crash, CacheFresh, Hits
  <1>2. \A k \in Jobs : (Finished(k) /\ SearchFresh(k))'
    BY DEF Crash, Idle, Finished, SearchFresh, SearchPcs
  <1>3. QED
    BY <1>1, <1>2 DEF Crash, CacheInv


-----------------------------------------------------------------------------
(* The versions of a content.  A version is firm when no update that may   *)
(* still be rolled back made it.                                           *)
Born(d) == d \in Docs /\ row[d] # Unborn
Updating(j) == job[j].op = "content" /\ job[j].pc \in {"added", "deleting", "undoing"}
Firm(e) == e \in Alive /\ \A j \in Jobs : Updating(j) => job[j].new # e
JobSound(j) ==
    /\ job[j].pc = "adding" /\ job[j].op = "content" => Born(job[j].doc)
    /\ job[j].pc = "added" => Born(job[j].new)
    /\ Updating(j) => /\ Born(job[j].doc) /\ Born(job[j].new)
                      /\ job[j].doc < job[j].new /\ fact[job[j].new] = fact[job[j].doc]
    /\ job[j].pc = "deleting" => job[j].op \in {"content", "delete"}
    /\ job[j].pc = "deleting" /\ job[j].op = "delete" => Born(job[j].doc) /\ fact[job[j].doc] \in unwanted
    /\ job[j].pc = "undoing" => job[j].op = "content"
    /\ job[j].pc = "scanned" => \A d \in job[j].ids : Born(d)
    /\ job[j].pc = "clearing" => \A d \in job[j].ids : Born(d) /\ fact[d] \in unwanted
BornPrefix == \A d, e \in Docs : d < e /\ row[d] = Unborn => row[e] = Unborn
OwnVersion == \A j, k \in Jobs : Updating(j) /\ Updating(k) /\ j # k => job[j].new # job[k].new
FirmVersion ==
    \A d \in Docs : Born(d) /\ fact[d] \notin unwanted => \E e \in Docs : Firm(e) /\ fact[e] = fact[d]
NextVersion ==
    \A j \in Jobs : Updating(j) /\ job[j].pc # "undoing" /\ fact[job[j].doc] \notin unwanted
        => \E e \in Alive : /\ e > job[j].doc /\ fact[e] = fact[job[j].doc]
                           /\ (e = job[j].new \/ Firm(e))
Versions == (\A j \in Jobs : JobSound(j)) /\ BornPrefix /\ OwnVersion /\ FirmVersion /\ NextVersion

(* What no step undoes.                                                    *)
Grows ==
    /\ \A d \in Docs : row[d] # Unborn => row'[d] # Unborn /\ fact'[d] = fact[d]
    /\ unwanted \subseteq unwanted'

LEMMA JobSoundKept ==
    ASSUME Grows, NEW k \in Jobs, JobSound(k), job'[k] = job[k]
    PROVE  JobSound(k)'
  <1>1. \A d : Born(d) => Born(d)' /\ fact'[d] = fact[d]
    BY DEF Grows, Born
  <1>2. Updating(k)' <=> Updating(k)
    BY DEF Updating
  <1>3. Updating(k) => (/\ Born(job[k].doc) /\ Born(job[k].new)
                        /\ job[k].doc < job[k].new /\ fact[job[k].new] = fact[job[k].doc])'
    BY <1>1 DEF JobSound
  <1>4. \A x : x \in unwanted => x \in unwanted'
    BY DEF Grows
  <1>5. job[k].pc = "clearing" => \A d \in job[k].ids : Born(d)' /\ fact'[d] \in unwanted'
    BY <1>1, <1>4 DEF JobSound
  <1>6. job[k].pc = "deleting" /\ job[k].op = "delete" => Born(job[k].doc)' /\ fact'[job[k].doc] \in unwanted'
    BY <1>1, <1>4 DEF JobSound
  <1>7. QED
    BY <1>1, <1>2, <1>3, <1>5, <1>6 DEF JobSound

(* A step that changes no kind of row and begins no update.                *)
Quiet ==
    /\ \A d \in Docs : (row'[d] = Unborn <=> row[d] = Unborn) /\ (row'[d] \in Meta <=> row[d] \in Meta)
    /\ fact' = fact /\ unwanted \subseteq unwanted'
NoNewUpdate ==
    \A k \in Jobs : Updating(k)' =>
        /\ Updating(k) /\ job'[k].new = job[k].new /\ job'[k].doc = job[k].doc
        /\ job[k].pc = "undoing" => job'[k].pc = "undoing"

LEMMA QuietVersions ==
    ASSUME Versions, Quiet, NoNewUpdate, \A j \in Jobs : JobSound(j)'
    PROVE  Versions'
  <1>1. Alive' = Alive /\ \A d : Born(d)' <=> Born(d)
    BY DEF Quiet, Alive, Born
  <1>2. \A e : Firm(e) => Firm(e)'
    BY <1>1 DEF NoNewUpdate, Firm
  <1>3. BornPrefix'
    BY DEF Versions, BornPrefix, Quiet
  <1>4. OwnVersion'
    BY DEF Versions, OwnVersion, NoNewUpdate
  <1>5. FirmVersion'
    BY <1>1, <1>2 DEF Versions, FirmVersion, Quiet
  <1>6. NextVersion'
    <2> SUFFICES ASSUME NEW j \in Jobs, (Updating(j) /\ job[j].pc # "undoing" /\ fact[job[j].doc] \notin unwanted)'
                 PROVE  (\E e \in Alive : /\ e > job[j].doc /\ fact[e] = fact[job[j].doc]
                                          /\ (e = job[j].new \/ Firm(e)))'
      BY DEF NextVersion
    <2>1. /\ Updating(j) /\ job[j].pc # "undoing" /\ fact[job[j].doc] \notin unwanted
          /\ job'[j].new = job[j].new /\ job'[j].doc = job[j].doc
      BY DEF NoNewUpdate, Quiet
    <2>2. PICK e \in Alive : /\ e > job[j].doc /\ fact[e] = fact[job[j].doc]
                             /\ (e = job[j].new \/ Firm(e))
      BY <2>1 DEF Versions, NextVersion
    <2>3. QED
      BY <1>1, <1>2, <2>1, <2>2 DEF Quiet
  <1>7. QED
    BY <1>3, <1>4, <1>5, <1>6 DEF Versions

(* A step that deletes memories and ends or leaves every update: versions  *)
(* that were firm and are not deleted stay firm.                           *)
Drops(D) ==
    /\ D \subseteq Docs /\ \A d \in D : row[d] # Unborn
    /\ row \in [Docs -> Rows] /\ row' = [d \in Docs |-> IF d \in D THEN Deleted ELSE row[d]]
    /\ fact' = fact /\ unwanted' = unwanted

LEMMA DropsKeep ==
    ASSUME NEW D, Drops(D), NoNewUpdate
    PROVE  /\ Grows /\ \A d : Born(d)' <=> Born(d)
           /\ Alive' = Alive \ D
           /\ \A e : Firm(e) /\ e \notin D => Firm(e)'
  <1>1. /\ Grows /\ (\A d : Born(d)' <=> Born(d)) /\ Alive' = Alive \ D
    BY RowKinds DEF Drops, Grows, Born, Alive
  <1>2. \A e : Firm(e) /\ e \notin D => Firm(e)'
    BY <1>1 DEF NoNewUpdate, Firm
  <1>3. QED
    BY <1>1, <1>2

LEMMA DropVersions ==
    ASSUME Versions, NEW D, Drops(D), NoNewUpdate, \A j \in Jobs : JobSound(j)',
           \A d \in D : fact[d] \notin unwanted =>
                \E e \in Docs : e > d /\ fact[e] = fact[d] /\ Firm(e)'
    PROVE  BornPrefix' /\ OwnVersion' /\ FirmVersion'
  <1>1. Alive' = Alive \ D /\ (\A d : Born(d)' <=> Born(d)) /\ (\A e : Firm(e) /\ e \notin D => Firm(e)')
    BY DropsKeep
  <1>2. BornPrefix'
    BY RowKinds DEF Versions, BornPrefix, Drops
  <1>3. OwnVersion'
    BY DEF Versions, OwnVersion, NoNewUpdate
  <1>4. FirmVersion'
    <2> SUFFICES ASSUME NEW d \in Docs, Born(d)', (fact[d] \notin unwanted)'
                 PROVE  \E e \in Docs : Firm(e)' /\ fact'[e] = fact'[d]
      BY DEF FirmVersion
    <2>1. PICK e \in Docs : Firm(e) /\ fact[e] = fact[d]
      BY <1>1 DEF Drops, Versions, FirmVersion
    <2>2. CASE e \notin D
      BY <1>1, <2>1, <2>2 DEF Drops
    <2>3. CASE e \in D
      <3>1. fact[e] \notin unwanted
        BY <2>1 DEF Drops
      <3>2. PICK f \in Docs : f > e /\ fact[f] = fact[e] /\ Firm(f)'
        BY <2>3, <3>1
      <3>3. QED
        BY <2>1, <3>2 DEF Drops
    <2>4. QED
      BY <2>2, <2>3
  <1>5. QED
    BY <1>2, <1>3, <1>4


LEMMA NoNew ==
    ASSUME JobsTyped, NEW j \in Jobs, NEW r, job' = [job EXCEPT ![j] = r],
           r.op = "content" => r.pc \notin {"added", "deleting", "undoing"}
    PROVE  NoNewUpdate /\ \A k \in Jobs \ {j} : job'[k] = job[k]
  <1>1. job'[j] = r /\ \A k \in Jobs \ {j} : job'[k] = job[k]
    BY DEF JobsTyped
  <1>2. ~Updating(j)'
    BY <1>1 DEF Updating
  <1>3. \A k \in Jobs \ {j} : Updating(k)' => Updating(k)
    BY <1>1 DEF Updating
  <1>4. QED
    BY <1>1, <1>2, <1>3 DEF NoNewUpdate

LEMMA AllSound ==
    ASSUME Versions, Grows, NEW j \in Jobs, \A k \in Jobs \ {j} : job'[k] = job[k], JobSound(j)'
    PROVE  \A k \in Jobs : JobSound(k)'
  BY JobSoundKept DEF Versions

LEMMA QuietGrows == ASSUME Quiet PROVE Grows
  BY DEF Quiet, Grows

LEMMA KeptQuiet == ASSUME row \in [Docs -> Rows], RowKept, fact' = fact, unwanted' = unwanted PROVE Quiet
  BY RowKinds DEF RowKept, Quiet

LEMMA StillVersions ==
    ASSUME StoreTypes, Versions, StillStep
    PROVE  Versions'
  <1>1. Quiet
    BY KeptQuiet DEF StillStep, Calm, StoreTypes, DataTyped
  <1>2. CASE job' = job
    <2>1. \A k \in Jobs : JobSound(k)'
      BY <1>1, <1>2, QuietGrows, JobSoundKept DEF Versions
    <2>2. NoNewUpdate
      BY <1>2 DEF NoNewUpdate, Updating
    <2>3. QED
      BY <1>1, <2>1, <2>2, QuietVersions
  <1>3. ASSUME NEW j \in Jobs, StillJob(j)
        PROVE  Versions'
    <2>1. PICK r : StillRec(r) /\ job' = [job EXCEPT ![j] = r]
      BY <1>3 DEF StillJob
    <2>2. NoNewUpdate /\ \A k \in Jobs \ {j} : job'[k] = job[k]
      BY <2>1, NoNew DEF StillRec, CalmPcs, SearchPcs, StoreTypes
    <2>3. job'[j] = r
      BY <2>1 DEF StoreTypes, JobsTyped
    <2>4. JobSound(j)'
      BY <2>1, <2>3 DEF StillRec, CalmPcs, SearchPcs, JobSound, Updating
    <2>5. QED
      BY <1>1, <2>2, <2>4, QuietGrows, AllSound, QuietVersions
  <1>4. QED
    BY <1>2, <1>3 DEF StillStep

LEMMA AddedVersions ==
    ASSUME StoreTypes, Versions, NEW j \in Jobs, NEW n \in Docs, NEW v \in Meta, NEW f \in Docs, Added(j, n, v, f)
    PROVE  Versions'
  <1>0. /\ row \in [Docs -> Rows] /\ fact \in [Docs -> Docs] /\ job \in [Jobs -> JobRec]
        /\ job[j] \in JobRec /\ job[j].pc = "adding" /\ JobSound(j)
    BY DEF StoreTypes, DataTyped, JobsTyped, Versions, Added
  <1>1. /\ row[n] = Unborn /\ \A e \in Docs : e < n => row[e] # Unborn
        /\ row'[n] = v /\ v # Unborn /\ \A d \in Docs \ {n} : row'[d] = row[d]
        /\ fact'[n] = f /\ (\A d \in Docs \ {n} : fact'[d] = fact[d]) /\ unwanted' = unwanted
    BY <1>0, RowKinds DEF Added, NextId, Docs
  <1>2. Grows /\ (\A d : Born(d)' <=> Born(d) \/ d = n) /\ ~Born(n) /\ Alive' = Alive \cup {n}
    BY <1>0, <1>1, RowKinds DEF Grows, Born, Alive
  <1>3. /\ job'[j].pc = "added" /\ job'[j].new = n /\ job'[j].op = job[j].op /\ job'[j].doc = job[j].doc
        /\ \A k \in Jobs \ {j} : job'[k] = job[k]
    BY <1>0 DEF Added, JobRec
  <1>4. \A k \in Jobs \ {j} : Updating(k)' <=> Updating(k)
    BY <1>3 DEF Updating
  <1>5. \A k \in Jobs : Updating(k) => Born(job[k].new) /\ Born(job[k].doc)
    BY DEF Versions, JobSound
  <1>6. job[j].op = "content" => /\ Born(job[j].doc) /\ job[j].doc < n
                                 /\ fact'[n] = fact[job[j].doc] /\ fact'[job[j].doc] = fact[job[j].doc]
    <2> SUFFICES ASSUME job[j].op = "content"
                 PROVE  /\ Born(job[j].doc) /\ job[j].doc < n
                        /\ fact'[n] = fact[job[j].doc] /\ fact'[job[j].doc] = fact[job[j].doc]
      OBVIOUS
    <2>1. Born(job[j].doc) /\ f = fact[job[j].doc]
      BY <1>0 DEF JobSound, Added
    <2>2. job[j].doc \in Docs /\ job[j].doc # n /\ row[job[j].doc] # Unborn
      BY <2>1, <1>1 DEF Born
    <2>3. job[j].doc < n
      BY <2>2, <1>1 DEF Versions, BornPrefix, Docs
    <2>4. QED
      BY <2>1, <2>2, <2>3, <1>1
  <1>8. \A e : Firm(e) => Firm(e)' /\ e \in Docs /\ fact'[e] = fact[e]
    <2> SUFFICES ASSUME NEW e, Firm(e)
                 PROVE  Firm(e)' /\ e \in Docs /\ fact'[e] = fact[e]
      OBVIOUS
    <2>1. e \in Docs /\ e # n /\ e \in Alive'
      BY <1>1, <1>2, RowKinds DEF Firm, Alive
    <2>2. \A k \in Jobs : Updating(k)' => job'[k].new # e
      BY <1>3, <1>4, <2>1 DEF Firm
    <2>3. QED
      BY <1>1, <2>1, <2>2 DEF Firm
  <1>9. BornPrefix'
    BY <1>1 DEF Versions, BornPrefix, Docs
  <1>10. OwnVersion'
    <2> SUFFICES ASSUME NEW k \in Jobs, NEW l \in Jobs, Updating(k)', Updating(l)', k # l
                 PROVE  job'[k].new # job'[l].new
      BY DEF OwnVersion
    <2>1. CASE k # j /\ l # j
      BY <2>1, <1>3, <1>4 DEF Versions, OwnVersion
    <2>2. CASE k = j
      BY <2>2, <1>2, <1>3, <1>4, <1>5
    <2>3. CASE l = j
      BY <2>3, <1>2, <1>3, <1>4, <1>5
    <2>4. QED
      BY <2>1, <2>2, <2>3
  <1>11. FirmVersion'
    <2> SUFFICES ASSUME NEW d \in Docs, Born(d)', (fact[d] \notin unwanted)'
                 PROVE  \E e \in Docs : Firm(e)' /\ fact'[e] = fact'[d]
      BY DEF FirmVersion
    <2>1. ASSUME NEW c \in Docs, Born(c), fact[c] = fact'[d]
          PROVE  \E e \in Docs : Firm(e)' /\ fact'[e] = fact'[d]
      <3>1. PICK e \in Docs : Firm(e) /\ fact[e] = fact[c]
        BY <1>1, <2>1 DEF Versions, FirmVersion
      <3>2. QED
        BY <1>8, <2>1, <3>1
    <2>2. CASE d # n
      BY <1>1, <1>2, <2>1, <2>2
    <2>3. CASE d = n /\ job[j].op = "content"
      BY <1>6, <2>1, <2>3 DEF Born
    <2>4. CASE d = n /\ job[j].op # "content"
      <3>1. \A k \in Jobs : Updating(k)' => job'[k].new # n
        BY <1>2, <1>3, <1>4, <1>5, <2>4 DEF Updating
      <3>2. Firm(n)'
        BY <1>2, <3>1 DEF Firm
      <3>3. QED
        BY <2>4, <3>2
    <2>5. QED
      BY <2>2, <2>3, <2>4
  <1>12. NextVersion'
    <2> SUFFICES ASSUME NEW k \in Jobs, (Updating(k) /\ job[k].pc # "undoing" /\ fact[job[k].doc] \notin unwanted)'
                 PROVE  \E e \in Alive' : /\ e > job'[k].doc /\ fact'[e] = fact'[job'[k].doc]
                                          /\ (e = job'[k].new \/ Firm(e)')
      BY DEF NextVersion
    <2>1. CASE k = j
      BY <1>2, <1>3, <1>6, <2>1 DEF Updating, Docs, Born
    <2>2. CASE k # j
      <3>1. Updating(k) /\ job'[k] = job[k] /\ job[k].doc # n /\ job[k].doc \in Docs
        BY <1>2, <1>3, <1>4, <1>5, <2>2 DEF Born
      <3>2. PICK e \in Alive : /\ e > job[k].doc /\ fact[e] = fact[job[k].doc]
                               /\ (e = job[k].new \/ Firm(e))
        BY <1>1, <3>1 DEF Versions, NextVersion
      <3>3. e \in Docs /\ e # n
        BY <1>1, <3>2, RowKinds DEF Alive
      <3>4. QED
        BY <1>1, <1>2, <1>8, <3>1, <3>2, <3>3
    <2>3. QED
      BY <2>1, <2>2
  <1>13. JobSound(j)'
    <2>1. Born(n)' /\ (job[j].op = "content" => Born(job[j].doc)')
      BY <1>2, <1>3, <1>6
    <2>2. QED
      BY <1>3, <1>6, <2>1 DEF JobSound, Updating
  <1>14. QED
    BY <1>2, <1>3, <1>9, <1>10, <1>11, <1>12, <1>13, AllSound DEF Versions


LEMMA RemovedVersions ==
    ASSUME StoreTypes, Versions, NEW j \in Jobs, Removed(j, Target(j))
    PROVE  Versions'
  <1> DEFINE d == Target(j)
  <1>0. /\ row \in [Docs -> Rows] /\ job \in [Jobs -> JobRec] /\ JobsTyped
        /\ job[j] \in JobRec /\ job[j].pc \in {"deleting", "undoing"} /\ JobSound(j)
    BY DEF StoreTypes, DataTyped, JobsTyped, Versions, Removed
  <1>1. /\ job[j].op = "content" => Updating(j)
        /\ job[j].pc = "undoing" => Updating(j) /\ d = job[j].new
        /\ job[j].pc = "deleting" => d = job[j].doc
        /\ job[j].pc = "deleting" /\ ~Updating(j) => Born(d) /\ fact[d] \in unwanted
    BY <1>0 DEF JobSound, Updating, Target, At
  <1>2. Born(d) /\ d \in Docs
    BY <1>0, <1>1 DEF JobSound, Born
  <1>3. Drops({d})
    BY <1>0, <1>2 DEF Drops, Removed, Born
  <1>4. NoNewUpdate /\ (\A k \in Jobs \ {j} : job'[k] = job[k]) /\ job'[j].pc = "deleted"
    <2>1. [job[j] EXCEPT !.pc = "deleted", !.ids = {d}].pc = "deleted"
      BY <1>0 DEF JobRec
    <2>2. job' = [job EXCEPT ![j] = [job[j] EXCEPT !.pc = "deleted", !.ids = {d}]]
      BY DEF Removed
    <2>3. QED
      BY <1>0, <2>1, <2>2, NoNew
  <1>5. /\ Grows /\ (\A e : Firm(e) /\ e # d => Firm(e)') /\ Alive' = Alive \ {d}
        /\ fact' = fact /\ unwanted' = unwanted
    <2>1. /\ Grows /\ (\A e : Firm(e) /\ e \notin {d} => Firm(e)') /\ Alive' = Alive \ {d}
      BY <1>3, <1>4, DropsKeep
    <2>2. QED
      BY <1>3, <2>1 DEF Drops
  <1>6. JobSound(j)' /\ ~Updating(j)'
    BY <1>4 DEF JobSound, Updating
  <1>7. \A k \in Jobs : JobSound(k)'
    BY <1>4, <1>5, <1>6, AllSound
  <1>8. \A k \in Jobs \ {j} : Updating(k)' => Updating(k) /\ (Updating(j) => job[k].new # job[j].new)
    BY <1>4 DEF Updating, Versions, OwnVersion
  <1>9. ASSUME Updating(j), job[j].pc = "deleting", fact[d] \notin unwanted
        PROVE  \E e \in Alive' : e > d /\ fact[e] = fact[d] /\ Firm(e)'
    <2>1. PICK e \in Alive : e > d /\ fact[e] = fact[d] /\ (e = job[j].new \/ Firm(e))
      BY <1>1, <1>9 DEF Versions, NextVersion
    <2>2. e # d /\ e \in Alive'
      BY <1>2, <1>5, <2>1 DEF Alive, Docs
    <2>3. CASE e = job[j].new
      BY <1>4, <1>6, <1>8, <1>9, <2>1, <2>2, <2>3 DEF Firm
    <2>4. CASE Firm(e)
      BY <1>5, <2>1, <2>2, <2>4
    <2>5. QED
      BY <2>1, <2>3, <2>4
  <1>10. job[j].pc = "undoing" => ~Firm(d)
    BY <1>1 DEF Firm
  <1>11. FirmVersion'
    <2> SUFFICES ASSUME NEW x \in Docs, Born(x)', (fact[x] \notin unwanted)'
                 PROVE  \E e \in Docs : Firm(e)' /\ fact'[e] = fact'[x]
      BY DEF FirmVersion
    <2>1. Born(x)
      BY <1>3, <1>4, DropsKeep
    <2>2. PICK e \in Docs : Firm(e) /\ fact[e] = fact[x]
      BY <1>5, <2>1 DEF Versions, FirmVersion
    <2>3. CASE e # d
      BY <1>5, <2>2, <2>3
    <2>4. CASE e = d
      <3>1. Updating(j) /\ job[j].pc = "deleting" /\ fact[d] \notin unwanted
        BY <1>0, <1>1, <1>5, <1>10, <2>2, <2>4
      <3>2. PICK g \in Alive' : g > d /\ fact[g] = fact[d] /\ Firm(g)'
        BY <1>9, <3>1
      <3>3. QED
        BY <1>5, <2>2, <2>4, <3>2 DEF Alive
    <2>5. QED
      BY <2>3, <2>4
  <1>12. NextVersion'
    <2> SUFFICES ASSUME NEW k \in Jobs, (Updating(k) /\ job[k].pc # "undoing" /\ fact[job[k].doc] \notin unwanted)'
                 PROVE  \E e \in Alive' : /\ e > job'[k].doc /\ fact'[e] = fact'[job'[k].doc]
                                          /\ (e = job'[k].new \/ Firm(e)')
      BY DEF NextVersion
    <2>1. k # j /\ job'[k] = job[k] /\ Updating(k) /\ (Updating(j) => job[k].new # job[j].new)
      BY <1>4, <1>6, <1>8
    <2>2. PICK e \in Alive : /\ e > job[k].doc /\ fact[e] = fact[job[k].doc]
                             /\ (e = job[k].new \/ Firm(e))
      BY <1>5, <2>1 DEF Versions, NextVersion
    <2>3. CASE e # d
      BY <1>5, <2>1, <2>2, <2>3
    <2>4. CASE e = d
      <3>1. fact[d] \notin unwanted
        BY <1>5, <2>1, <2>2, <2>4
      <3>2. job[j].pc = "deleting" /\ Updating(j)
        BY <1>0, <1>1, <1>10, <2>1, <2>2, <2>4, <3>1
      <3>3. PICK g \in Alive' : g > d /\ fact[g] = fact[d] /\ Firm(g)'
        BY <1>9, <3>1, <3>2
      <3>4. job[k].doc \in Docs /\ g \in Docs
        BY <2>1, <1>5, <3>3 DEF Versions, JobSound, Born, Alive
      <3>5. g > job[k].doc
        BY <1>2, <2>2, <2>4, <3>3, <3>4 DEF Docs
      <3>6. QED
        BY <1>5, <2>1, <2>2, <2>4, <3>3, <3>5
    <2>5. QED
      BY <2>3, <2>4
  <1>13. BornPrefix'
    BY <1>3, RowKinds DEF Versions, BornPrefix, Drops
  <1>14. OwnVersion'
    BY <1>4 DEF Versions, OwnVersion, NoNewUpdate
  <1>15. QED
    BY <1>7, <1>11, <1>12, <1>13, <1>14 DEF Versions

LEMMA ClearedVersions ==
    ASSUME StoreTypes, Versions, NEW j \in Jobs, BatchDelete(j)
    PROVE  Versions'
  <1> DEFINE D == job[j].ids
  <1>0. /\ row \in [Docs -> Rows] /\ job \in [Jobs -> JobRec] /\ JobsTyped
        /\ job[j] \in JobRec /\ job[j].pc = "clearing" /\ JobSound(j)
    BY DEF StoreTypes, DataTyped, JobsTyped, Versions, BatchDelete, At
  <1>1. \A d \in D : Born(d) /\ fact[d] \in unwanted
    BY <1>0 DEF JobSound
  <1>2. Drops(D)
    BY <1>0, <1>1 DEF Drops, BatchDelete, Born
  <1>3. NoNewUpdate /\ (\A k \in Jobs \ {j} : job'[k] = job[k]) /\ job'[j].pc = "cleared"
    <2>1. [job[j] EXCEPT !.pc = "cleared"].pc = "cleared"
      BY <1>0 DEF JobRec
    <2>2. job' = [job EXCEPT ![j] = [job[j] EXCEPT !.pc = "cleared"]]
      BY DEF BatchDelete, Go
    <2>3. QED
      BY <1>0, <2>1, <2>2, NoNew
  <1>4. /\ Grows /\ (\A e : Firm(e) /\ e \notin D => Firm(e)') /\ Alive' = Alive \ D
        /\ (\A d : Born(d)' <=> Born(d)) /\ fact' = fact /\ unwanted' = unwanted
    BY <1>2, <1>3, DropsKeep DEF Drops
  <1>5. JobSound(j)'
    BY <1>3 DEF JobSound, Updating
  <1>6. \A k \in Jobs : JobSound(k)'
    BY <1>3, <1>4, <1>5, AllSound
  <1>7. BornPrefix' /\ OwnVersion' /\ FirmVersion'
    BY <1>1, <1>2, <1>3, <1>6, DropVersions
  <1>8. NextVersion'
    <2> SUFFICES ASSUME NEW k \in Jobs, (Updating(k) /\ job[k].pc # "undoing" /\ fact[job[k].doc] \notin unwanted)'
                 PROVE  \E e \in Alive' : /\ e > job'[k].doc /\ fact'[e] = fact'[job'[k].doc]
                                          /\ (e = job'[k].new \/ Firm(e)')
      BY DEF NextVersion
    <2>1. job'[k].doc = job[k].doc /\ job'[k].new = job[k].new /\ Updating(k) /\ job[k].pc # "undoing"
      BY <1>3 DEF NoNewUpdate
    <2>2. PICK e \in Alive : /\ e > job[k].doc /\ fact[e] = fact[job[k].doc]
                             /\ (e = job[k].new \/ Firm(e))
      BY <1>4, <2>1 DEF Versions, NextVersion
    <2>3. e \notin D
      BY <1>1, <1>4, <2>1, <2>2
    <2>4. QED
      BY <1>4, <2>1, <2>2, <2>3
  <1>9. QED
    BY <1>6, <1>7, <1>8 DEF Versions

LEMMA CrashVersions ==
    ASSUME StoreTypes, Versions, Crash
    PROVE  Versions'
  <1>1. Quiet
    BY DEF Crash, Quiet
  <1>2. \A j \in Jobs : ~Updating(j)' /\ JobSound(j)'
    BY DEF Crash, Idle, Updating, JobSound
  <1>3. NoNewUpdate
    BY <1>2 DEF NoNewUpdate
  <1>4. QED
    BY <1>1, <1>2, <1>3, QuietVersions


LEMMA OneQuiet ==
    ASSUME StoreTypes, Versions, NEW j \in Jobs, NEW r, job' = [job EXCEPT ![j] = r],
           r.op = "content" => r.pc \notin {"added", "deleting", "undoing"},
           UNCHANGED <<row, fact>>, unwanted \subseteq unwanted', JobSound(j)'
    PROVE  Versions'
  <1>1. Quiet
    BY DEF Quiet
  <1>2. NoNewUpdate /\ \A k \in Jobs \ {j} : job'[k] = job[k]
    BY NoNew DEF StoreTypes
  <1>3. QED
    BY <1>1, <1>2, QuietGrows, AllSound, QuietVersions

LEMMA EndVersions ==
    ASSUME StoreTypes, Versions, NEW j \in Jobs, End(j), UNCHANGED <<row, fact, unwanted>>
    PROVE  Versions'
  <1>1. job'[j] = Idle
    BY DEF End, StoreTypes, JobsTyped
  <1>2. JobSound(j)' /\ Idle.op = "none"
    BY <1>1 DEF Idle, JobSound, Updating
  <1>3. QED
    BY <1>2, OneQuiet DEF End

(* An update goes on: from made to deleting, from deleting to undoing.     *)
LEMMA UpdateGoesOn ==
    ASSUME StoreTypes, Versions, NEW j \in Jobs, Updating(j), NEW pc \in {"deleting", "undoing"},
           Moved(j, pc), job[j].pc # "undoing", UNCHANGED <<row, fact, unwanted>>
    PROVE  Versions'
  <1>0. job \in [Jobs -> JobRec] /\ job[j] \in JobRec /\ JobSound(j)
    BY DEF StoreTypes, JobsTyped, Versions
  <1>1. /\ job'[j].pc = pc /\ job'[j].new = job[j].new /\ job'[j].op = job[j].op /\ job'[j].doc = job[j].doc
        /\ \A k \in Jobs \ {j} : job'[k] = job[k]
    BY <1>0 DEF Moved, JobRec
  <1>2. Quiet
    BY DEF Quiet
  <1>3. \A k \in Jobs \ {j} : Updating(k)' <=> Updating(k)
    BY <1>1 DEF Updating
  <1>4. NoNewUpdate
    BY <1>1, <1>3 DEF NoNewUpdate
  <1>5. Grows
    BY <1>2, QuietGrows
  <1>6. (/\ Born(job[j].doc) /\ Born(job[j].new)
         /\ job[j].doc < job[j].new /\ fact[job[j].new] = fact[job[j].doc])'
    <2>1. /\ Born(job[j].doc) /\ Born(job[j].new)
          /\ job[j].doc < job[j].new /\ fact[job[j].new] = fact[job[j].doc]
      BY <1>0 DEF JobSound
    <2>2. QED
      BY <1>1, <2>1 DEF Born
  <1>7. JobSound(j)'
    BY <1>1, <1>6 DEF JobSound, Updating
  <1>8. QED
    BY <1>1, <1>2, <1>4, <1>5, <1>7, AllSound, QuietVersions

LEMMA SpecialVersions ==
    ASSUME StoreTypes, Versions, NEW j \in Jobs,
           \/ AddDocument(j) \/ AddEnd(j) \/ DeleteDocument(j) \/ DeleteEnd(j)
           \/ CleanupScan(j) \/ BatchStart(j) \/ BatchDelete(j) \/ BatchEnd(j) \/ ReembedEnd(j)
           \/ \E d \in Docs : ContentStart(j, d) \/ DeleteStart(j, d) \/ ReembedStart(j, d)
    PROVE  Versions'
  <1>0. job \in [Jobs -> JobRec] /\ job[j] \in JobRec /\ JobSound(j) /\ Idle \in JobRec
    BY IdleType DEF StoreTypes, JobsTyped, Versions
  <1>a. \A d \in Alive : Born(d)
    BY RowKinds DEF Alive, Born
  <1>1. CASE AddDocument(j)
    BY <1>1, AddDocumentDoes, CalmIsStill, StillVersions, AddedVersions
  <1>2. CASE AddEnd(j)
    <2>1. CASE job[j].op = "content"
      <3>1. Updating(j) /\ Moved(j, "deleting") /\ job[j].pc # "undoing"
        BY <1>2, <2>1, AddEndDoes DEF Updating
      <3>2. QED
        BY <1>2, <3>1, UpdateGoesOn DEF AddEnd
    <2>2. CASE job[j].op # "content"
      BY <1>2, <2>2, EndVersions DEF AddEnd
    <2>3. QED
      BY <2>1, <2>2
  <1>3. CASE DeleteDocument(j)
    <2>1. CASE Undoing(j)
      <3>1. Updating(j) /\ Moved(j, "undoing") /\ job[j].pc # "undoing"
        BY <2>1 DEF Undoing, Updating
      <3>2. QED
        BY <2>1, <3>1, UpdateGoesOn DEF Undoing
    <2>2. QED
      BY <1>3, <2>1, DeleteDocumentDoes, CalmIsStill, StillVersions, RemovedVersions
  <1>4. CASE DeleteEnd(j)
    BY <1>4, EndVersions DEF DeleteEnd
  <1>5. CASE CleanupScan(j)
    <2> DEFINE x == [Idle EXCEPT !.op = "batch", !.pc = "scanned", !.ids = {d \in Alive : row[d].imp = 0}]
    <2>1. x.op = "batch" /\ x.pc = "scanned" /\ x.ids = {d \in Alive : row[d].imp = 0}
      BY <1>0 DEF JobRec
    <2>2. job' = [job EXCEPT ![j] = x] /\ UNCHANGED <<row, fact, unwanted>>
      BY <1>5 DEF CleanupScan, Begin
    <2> HIDE DEF x
    <2>3. JobSound(j)'
      <3>1. job'[j] = x
        BY <1>0, <2>2
      <3>2. \A d \in x.ids : Born(d)'
        BY <1>a, <2>1, <2>2 DEF Born
      <3>3. QED
        BY <2>1, <3>1, <3>2 DEF JobSound, Updating
    <2>4. QED
      BY <2>1, <2>2, <2>3, OneQuiet
  <1>6. CASE BatchStart(j)
    <2>1. PICK x : /\ job' = [job EXCEPT ![j] = x]
                   /\ x.pc = "clearing" /\ \A d \in x.ids : Born(d)
      <3>1. ASSUME NEW D \in SUBSET Alive, Begin(j, [Idle EXCEPT !.op = "batch", !.pc = "clearing", !.ids = D])
            PROVE  \E x : /\ job' = [job EXCEPT ![j] = x]
                          /\ x.pc = "clearing" /\ \A d \in x.ids : Born(d)
        <4> DEFINE x == [Idle EXCEPT !.op = "batch", !.pc = "clearing", !.ids = D]
        <4>1. x.pc = "clearing" /\ x.ids = D /\ job' = [job EXCEPT ![j] = x]
          BY <1>0, <3>1 DEF JobRec, Begin
        <4> HIDE DEF x
        <4>2. QED
          BY <1>a, <4>1
      <3>2. ASSUME At(j, "scanned"), Go(j, "clearing")
            PROVE  \E x : /\ job' = [job EXCEPT ![j] = x]
                          /\ x.pc = "clearing" /\ \A d \in x.ids : Born(d)
        <4> DEFINE x == [job[j] EXCEPT !.pc = "clearing"]
        <4>1. x.pc = "clearing" /\ x.ids = job[j].ids /\ job' = [job EXCEPT ![j] = x]
          BY <1>0, <3>2 DEF JobRec, Go
        <4>2. \A d \in job[j].ids : Born(d)
          BY <1>0, <3>2 DEF JobSound, At
        <4> HIDE DEF x
        <4>3. QED
          BY <4>1, <4>2
      <3>3. QED
        BY <1>6, <3>1, <3>2 DEF BatchStart
    <2>2. job'[j] = x
      BY <1>0, <2>1
    <2>3. UNCHANGED <<row, fact>> /\ unwanted' = unwanted \cup {fact[d] : d \in x.ids}
      BY <1>6, <2>2 DEF BatchStart
    <2>4. JobSound(j)'
      <3>1. \A d \in x.ids : Born(d)' /\ fact'[d] \in unwanted'
        BY <2>1, <2>3 DEF Born
      <3>2. QED
        BY <2>1, <2>2, <3>1 DEF JobSound, Updating
    <2>5. QED
      BY <2>1, <2>3, <2>4, OneQuiet
  <1>7. CASE BatchDelete(j)
    BY <1>7, ClearedVersions
  <1>8. CASE BatchEnd(j)
    BY <1>8, EndVersions DEF BatchEnd
  <1>9. CASE ReembedEnd(j)
    BY <1>9, EndVersions DEF ReembedEnd
  <1>10. ASSUME NEW d \in Docs, ContentStart(j, d)
         PROVE  Versions'
    <2> DEFINE x == [Idle EXCEPT !.op = "content", !.pc = "adding", !.doc = d, !.snap = Snapshot({d})]
    <2>1. x.op = "content" /\ x.pc = "adding" /\ x.doc = d
      BY <1>0 DEF JobRec
    <2>2. job' = [job EXCEPT ![j] = x] /\ UNCHANGED <<row, fact, unwanted>> /\ d \in Alive
      BY <1>10 DEF ContentStart, Begin
    <2> HIDE DEF x
    <2>3. JobSound(j)'
      <3>1. job'[j] = x /\ Born(d)'
        BY <1>0, <1>a, <2>2 DEF Born
      <3>2. QED
        BY <2>1, <3>1 DEF JobSound, Updating
    <2>4. QED
      BY <2>1, <2>2, <2>3, OneQuiet
  <1>11. ASSUME NEW d \in Docs, DeleteStart(j, d)
         PROVE  Versions'
    <2> DEFINE x == [Idle EXCEPT !.op = "delete", !.pc = "deleting", !.doc = d]
    <2>1. x.op = "delete" /\ x.pc = "deleting" /\ x.doc = d
      BY <1>0 DEF JobRec
    <2>2. /\ job' = [job EXCEPT ![j] = x] /\ UNCHANGED <<row, fact>>
          /\ unwanted' = unwanted \cup {fact[d]} /\ row[d] # Unborn
      BY <1>11 DEF DeleteStart, RequestOn, Begin
    <2> HIDE DEF x
    <2>3. JobSound(j)'
      <3>1. job'[j] = x /\ Born(d)' /\ fact'[d] \in unwanted'
        BY <1>0, <2>2 DEF Born
      <3>2. QED
        BY <2>1, <3>1 DEF JobSound, Updating
    <2>4. QED
      BY <2>1, <2>2, <2>3, OneQuiet
  <1>12. ASSUME NEW d \in Docs, ReembedStart(j, d)
         PROVE  Versions'
    <2> DEFINE x == [Idle EXCEPT !.op = "reembed", !.pc = "embedding", !.doc = d]
    <2>1. x.op = "reembed" /\ x.pc = "embedding"
      BY <1>0 DEF JobRec
    <2>2. job' = [job EXCEPT ![j] = x] /\ UNCHANGED <<row, fact, unwanted>>
      BY <1>12 DEF ReembedStart, RequestOn, Begin
    <2> HIDE DEF x
    <2>3. job'[j] = x
      BY <1>0, <2>2
    <2>4. JobSound(j)'
      BY <2>1, <2>3 DEF JobSound, Updating
    <2>5. QED
      BY <2>1, <2>2, <2>4, OneQuiet
  <1>13. QED
    BY <1>1, <1>2, <1>3, <1>4, <1>5, <1>6, <1>7, <1>8, <1>9, <1>10, <1>11, <1>12


-----------------------------------------------------------------------------
(* What can be found.                                                      *)
VecKnown == \A d \in Alive : d \in vec \cup lost \/ \E j \in Jobs : At(j, "embedding") /\ job[j].doc = d
GraphKnown == \A d \in Alive : d \in graph \/ crashes > 0 \/ \E j \in Jobs : At(j, "added") /\ job[j].new = d
Known == VecKnown /\ GraphKnown

LEMMA KnownKept ==
    ASSUME Known, NEW j \in Jobs, \A k \in Jobs \ {j} : job'[k] = job[k], Alive' \subseteq Alive, crashes' = crashes,
           \A d \in Alive' : /\ d \in vec \cup lost => d \in vec' \cup lost'
                             /\ d \in graph => d \in graph',
           job[j].pc = "embedding" => job[j].doc \in vec' \cup lost',
           job[j].pc = "added" => job[j].new \in graph'
    PROVE  Known'
  <1>1. ASSUME NEW d \in Alive'
        PROVE  (d \in vec \cup lost \/ \E k \in Jobs : At(k, "embedding") /\ job[k].doc = d)'
    <2>1. d \in Alive
      OBVIOUS
    <2>2. CASE d \in vec \cup lost
      BY <2>2
    <2>3. CASE d \notin vec \cup lost
      <3>1. PICK k \in Jobs : At(k, "embedding") /\ job[k].doc = d
        BY <2>1, <2>3 DEF Known, VecKnown
      <3>2. QED
        BY <3>1 DEF At
    <2>4. QED
      BY <2>2, <2>3
  <1>2. ASSUME NEW d \in Alive'
        PROVE  (d \in graph \/ crashes > 0 \/ \E k \in Jobs : At(k, "added") /\ job[k].new = d)'
    <2>1. d \in graph \/ crashes > 0 \/ \E k \in Jobs : At(k, "added") /\ job[k].new = d
      BY DEF Known, GraphKnown
    <2>2. QED
      BY <2>1 DEF At
  <1>3. QED
    BY <1>1, <1>2 DEF Known, VecKnown, GraphKnown

LEMMA StillKnown ==
    ASSUME StoreTypes, Known, StillStep
    PROVE  Known'
  <1>1. /\ Alive' = Alive /\ vec' = vec /\ lost' = lost /\ crashes' = crashes /\ graph \subseteq graph'
    BY KeptQuiet DEF StillStep, Calm, StoreTypes, DataTyped, Quiet, Alive
  <1>2. CASE job' = job
    BY <1>1, <1>2 DEF Known, VecKnown, GraphKnown, At
  <1>3. ASSUME NEW j \in Jobs, StillJob(j)
        PROVE  Known'
    <2>1. \A k \in Jobs \ {j} : job'[k] = job[k]
      BY <1>3 DEF StillJob, StoreTypes, JobsTyped
    <2>2. QED
      BY <1>1, <1>3, <2>1, KnownKept DEF StillJob
  <1>4. QED
    BY <1>2, <1>3 DEF StillStep

LEMMA AddedKnown ==
    ASSUME StoreTypes, Known, NEW j \in Jobs, NEW n \in Docs, NEW v \in Meta, NEW f \in Docs, Added(j, n, v, f)
    PROVE  Known'
  <1>1. /\ job'[j].pc = "added" /\ job'[j].new = n /\ job[j].pc = "adding"
        /\ \A k \in Jobs \ {j} : job'[k] = job[k]
    BY DEF Added, StoreTypes, JobsTyped, JobRec
  <1>2. Alive' \subseteq Alive \cup {n} /\ vec' = vec \cup {n} /\ UNCHANGED <<graph, lost, crashes>>
    BY DEF Added, StoreTypes, DataTyped, Alive
  <1>3. ASSUME NEW k \in Jobs, At(k, "embedding") \/ At(k, "added")
        PROVE  job'[k] = job[k]
    BY <1>1, <1>3 DEF At
  <1>4. VecKnown'
    BY <1>2, <1>3 DEF Known, VecKnown, At
  <1>5. GraphKnown'
    <2> SUFFICES ASSUME NEW d \in Alive'
                 PROVE  (d \in graph \/ crashes > 0 \/ \E k \in Jobs : At(k, "added") /\ job[k].new = d)'
      BY DEF GraphKnown
    <2>1. CASE d = n
      BY <1>1, <2>1 DEF At
    <2>2. CASE d # n
      <3>1. d \in graph \/ crashes > 0 \/ \E k \in Jobs : At(k, "added") /\ job[k].new = d
        BY <1>2, <2>2 DEF Known, GraphKnown
      <3>2. QED
        BY <1>2, <1>3, <3>1 DEF At
    <2>3. QED
      BY <2>1, <2>2
  <1>6. QED
    BY <1>4, <1>5 DEF Known

LEMMA SpecialKnown ==
    ASSUME StoreTypes, CacheInv, Known, NEW j \in Jobs,
           \/ AddDocument(j) \/ AddEnd(j) \/ DeleteDocument(j) \/ DeleteEnd(j)
           \/ CleanupScan(j) \/ BatchStart(j) \/ BatchDelete(j) \/ BatchEnd(j) \/ ReembedEnd(j)
           \/ \E d \in Docs : ContentStart(j, d) \/ DeleteStart(j, d) \/ ReembedStart(j, d)
    PROVE  Known'
  <1>0. job \in [Jobs -> JobRec] /\ job[j] \in JobRec /\ Idle \in JobRec /\ row \in [Docs -> Rows]
    BY IdleType DEF StoreTypes, JobsTyped, DataTyped
  <1>r. UNCHANGED row => Alive' \subseteq Alive
    BY DEF Alive
  <1>f. job[j].pc \in {"deleted", "cleared"} => job[j].ids \cap Alive = {}
    BY RowKinds DEF CacheInv, Finished, Alive
  <1>e. End(j) => \A k \in Jobs \ {j} : job'[k] = job[k]
    BY <1>0 DEF End
  <1>1. CASE AddDocument(j)
    BY <1>1, AddDocumentDoes, CalmIsStill, StillKnown, AddedKnown
  <1>2. CASE AddEnd(j)
    <2>1. \A k \in Jobs \ {j} : job'[k] = job[k]
      BY <1>0, <1>2 DEF AddEnd, Go, End
    <2>2. /\ job[j].pc = "added" /\ graph' = graph \cup {job[j].new}
          /\ UNCHANGED <<row, vec, crashes, lost>>
      BY <1>2, AddEndDoes
    <2>3. QED
      BY <1>r, <2>1, <2>2, KnownKept
  <1>3. CASE DeleteDocument(j)
    <2>1. CASE Undoing(j)
      <3>1. \A k \in Jobs \ {j} : job'[k] = job[k]
        BY <1>0, <2>1 DEF Undoing, Moved
      <3>2. job[j].pc = "deleting" /\ UNCHANGED <<row, vec, graph, lost, crashes>>
        BY <2>1 DEF Undoing
      <3>3. QED
        BY <1>r, <3>1, <3>2, KnownKept
    <2>2. CASE Removed(j, Target(j))
      <3>1. \A k \in Jobs \ {j} : job'[k] = job[k]
        BY <1>0, <2>2 DEF Removed
      <3>2. /\ job[j].pc \in {"deleting", "undoing"}
            /\ Alive' = Alive \ {Target(j)} /\ vec' = vec \ {Target(j)} /\ UNCHANGED <<graph, lost, crashes>>
        BY <1>0, <2>2, RowKinds DEF Removed, Alive
      <3>3. QED
        BY <3>1, <3>2, KnownKept
    <2>3. QED
      BY <1>3, <2>1, <2>2, DeleteDocumentDoes, CalmIsStill, StillKnown
  <1>4. CASE DeleteEnd(j)
    <2>1. /\ job[j].pc = "deleted" /\ graph' = graph \ job[j].ids
          /\ UNCHANGED <<row, vec, lost, crashes>>
          /\ \A k \in Jobs \ {j} : job'[k] = job[k]
      BY <1>4, <1>e DEF DeleteEnd, At
    <2>2. QED
      BY <1>r, <1>f, <2>1, KnownKept
  <1>5. CASE CleanupScan(j)
    <2>1. /\ job[j].pc = "none" /\ UNCHANGED <<row, vec, graph, lost, crashes>>
          /\ \A k \in Jobs \ {j} : job'[k] = job[k]
      BY <1>0, <1>5 DEF CleanupScan, Begin, At
    <2>2. QED
      BY <1>r, <2>1, KnownKept
  <1>6. CASE BatchStart(j)
    <2>1. /\ job[j].pc \in {"none", "scanned"} /\ UNCHANGED <<row, vec, graph, lost, crashes>>
          /\ \A k \in Jobs \ {j} : job'[k] = job[k]
      BY <1>0, <1>6 DEF BatchStart, Begin, Go, At
    <2>2. QED
      BY <1>r, <2>1, KnownKept
  <1>7. CASE BatchDelete(j)
    <2>1. /\ job[j].pc = "clearing" /\ Alive' = Alive \ job[j].ids /\ vec' = vec \ job[j].ids
          /\ UNCHANGED <<graph, lost, crashes>>
          /\ \A k \in Jobs \ {j} : job'[k] = job[k]
      BY <1>0, <1>7, RowKinds DEF BatchDelete, Go, At, Alive
    <2>2. QED
      BY <2>1, KnownKept
  <1>8. CASE BatchEnd(j)
    <2>1. /\ job[j].pc = "cleared" /\ graph' = graph \ job[j].ids
          /\ UNCHANGED <<row, vec, lost, crashes>>
          /\ \A k \in Jobs \ {j} : job'[k] = job[k]
      BY <1>8, <1>e DEF BatchEnd, At
    <2>2. QED
      BY <1>r, <1>f, <2>1, KnownKept
  <1>9. CASE ReembedEnd(j)
    <2>1. /\ job[j].pc = "embedding" /\ job[j].doc \in vec' \cup lost'
          /\ \A d \in vec \cup lost : d \in vec' \cup lost'
          /\ UNCHANGED <<row, graph, crashes>>
          /\ \A k \in Jobs \ {j} : job'[k] = job[k]
      BY <1>9, <1>e DEF ReembedEnd, At
    <2>2. QED
      BY <1>r, <2>1, KnownKept
  <1>10. ASSUME NEW d \in Docs, ContentStart(j, d) \/ DeleteStart(j, d)
         PROVE  Known'
    <2>1. /\ job[j].pc = "none" /\ UNCHANGED <<row, vec, graph, lost, crashes>>
          /\ \A k \in Jobs \ {j} : job'[k] = job[k]
      BY <1>0, <1>10 DEF ContentStart, DeleteStart, RequestOn, Begin, At
    <2>2. QED
      BY <1>r, <2>1, KnownKept
  <1>11. ASSUME NEW d \in Docs, ReembedStart(j, d)
         PROVE  Known'
    <2>1. /\ job[j].pc = "none" /\ vec' = vec \ {d} /\ UNCHANGED <<row, graph, lost, crashes>>
          /\ job' = [job EXCEPT ![j] = [Idle EXCEPT !.op = "reembed", !.pc = "embedding", !.doc = d]]
      BY <1>11 DEF ReembedStart, RequestOn, Begin, At
    <2>2. job'[j].pc = "embedding" /\ job'[j].doc = d /\ \A k \in Jobs \ {j} : job'[k] = job[k]
      BY <1>0, <2>1 DEF JobRec
    <2>3. \A k \in Jobs : At(k, "embedding") \/ At(k, "added") => job'[k] = job[k]
      BY <2>1, <2>2 DEF At
    <2>4. Alive' \subseteq Alive
      BY <1>r, <2>1
    <2>5. VecKnown'
      BY <2>1, <2>2, <2>3, <2>4 DEF Known, VecKnown, At
    <2>6. GraphKnown'
      BY <2>1, <2>3, <2>4 DEF Known, GraphKnown, At
    <2>7. QED
      BY <2>5, <2>6 DEF Known
  <1>12. QED
    BY <1>1, <1>2, <1>3, <1>4, <1>5, <1>6, <1>7, <1>8, <1>9, <1>10, <1>11

LEMMA CrashKnown ==
    ASSUME StoreTypes, Known, Crash
    PROVE  Known'
  <1>1. Alive' = Alive /\ vec' = vec /\ crashes' > 0
    BY DEF Crash, Alive, StoreTypes, DataTyped
  <1>2. \A d \in Alive : d \in vec \cup lost'
    <2> SUFFICES ASSUME NEW d \in Alive, d \notin vec \cup lost
                 PROVE  d \in lost'
      BY DEF Crash
    <2>1. PICK j \in Jobs : At(j, "embedding") /\ job[j].doc = d
      BY DEF Known, VecKnown
    <2>2. QED
      BY <2>1 DEF Crash
  <1>3. QED
    BY <1>1, <1>2 DEF Known, VecKnown, GraphKnown

-----------------------------------------------------------------------------
(* The inductive invariant of the store.                                   *)
StoreInv == StoreTypes /\ CacheInv /\ Versions /\ Known

LEMMA StoreInit == Init => StoreInv
  <1> SUFFICES ASSUME Init
               PROVE  StoreInv
    OBVIOUS
  <1> USE DEF Init
  <1>1. [NewMeta EXCEPT !.imp = 0, !.old = TRUE] \in Meta
    <2>1. [NewMeta EXCEPT !.imp = 0] \in Meta
      BY RowKinds, ImportanceEdit, 0 \in 0 .. 1, Zenon
    <2>2. \A m \in Meta : [m EXCEPT !.old = TRUE] \in Meta
      BY DEF Meta
    <2>3. [[NewMeta EXCEPT !.imp = 0] EXCEPT !.old = TRUE] \in Meta
      BY <2>1, <2>2, Zenon
    <2>4. QED
      BY <2>3
  <1>2. \A d \in Docs : (d <= First => row[d] \in Meta) /\ (~(d <= First) => row[d] = Unborn)
    BY <1>1, RowKinds
  <1>3. \A j \in Jobs : job[j] = Idle /\ job[j].pc = "none" /\ job[j].op = "none"
    BY DEF Idle
  <1>4. StoreTypes
    <2>1. JobsTyped
      BY <1>3, IdleType DEF JobsTyped, JobFits
    <2>2. row \in [Docs -> Rows]
      BY <1>2 DEF Rows
    <2>3. Alive \subseteq Docs
      BY DEF Alive
    <2>4. DataTyped
      BY <2>2, <2>3 DEF DataTyped, Docs
    <2>5. QED
      BY <2>1, <2>4 DEF StoreTypes
  <1>5. CacheInv
    BY <1>3 DEF CacheInv, Finished, SearchFresh, SearchPcs, CacheFresh, Hits
  <1>6. Versions
    <2>1. \A j \in Jobs : JobSound(j) /\ ~Updating(j)
      BY <1>3 DEF JobSound, Updating
    <2>2. BornPrefix
      BY <1>2, StoreAssumption, RowKinds DEF BornPrefix, Docs
    <2>3. \A d \in Docs : Born(d) => Firm(d)
      BY <1>2, <2>1, RowKinds DEF Born, Firm, Alive
    <2>4. QED
      BY <2>1, <2>2, <2>3 DEF Versions, OwnVersion, FirmVersion, NextVersion
  <1>7. Known
    BY DEF Known, VecKnown, GraphKnown
  <1>8. QED
    BY <1>4, <1>5, <1>6, <1>7 DEF StoreInv

LEMMA CalmKeeps ==
    ASSUME StoreInv, CalmStep
    PROVE  StoreInv'
  BY CalmTypes, CalmCache, CalmIsStill, StillVersions, StillKnown DEF StoreInv

LEMMA StoreNext == StoreInv /\ [Next]_vars => StoreInv'
  <1> SUFFICES ASSUME StoreInv, [Next]_vars
               PROVE  StoreInv'
    OBVIOUS
  <1>0. StoreTypes /\ CacheInv /\ Versions /\ Known
    BY DEF StoreInv
  <1>1. ASSUME NEW j \in Jobs, JobStep(j)
        PROVE  StoreInv'
    <2>1. CASE \/ RunTask(j) \/ SearchHit(j)
               \/ AccessRead(j) \/ AccessWrite(j) \/ DecayStart(j) \/ DecayWrite(j)
               \/ PatchRead(j) \/ PatchWrite(j) \/ PatchIndex(j) \/ WriterEnd(j)
               \/ SupersedeRead(j) \/ SupersedeWrite(j)
               \/ MigrateRead(j) \/ MigrateWrite(j) \/ MigrateMark(j)
               \/ AddStart(j) \/ RegraphStart(j) \/ RegraphIndex(j)
               \/ \E d \in Docs : PatchStart(j, d)
      BY <1>0, <2>1, CalmSteps, CalmKeeps
    <2>2. CASE SearchMiss(j) \/ SearchRetrieve(j) \/ SearchEnd(j)
      <3>1. job[j].pc \in SearchPcs => job[j].gen <= gen
        BY <1>0 DEF CacheInv, SearchFresh
      <3>2. QED
        BY <1>0, <2>2, <3>1, SearchTypes, SearchCache, SearchSteps, StillVersions, StillKnown DEF StoreInv
    <2>3. CASE \/ AddDocument(j) \/ AddEnd(j) \/ DeleteDocument(j) \/ DeleteEnd(j)
               \/ CleanupScan(j) \/ BatchStart(j) \/ BatchDelete(j) \/ BatchEnd(j) \/ ReembedEnd(j)
               \/ \E d \in Docs : ContentStart(j, d) \/ DeleteStart(j, d) \/ ReembedStart(j, d)
      BY <1>0, <2>3, SpecialTypes, SpecialCache, SpecialVersions, SpecialKnown DEF StoreInv
    <2>4. QED
      BY <1>1, <2>1, <2>2, <2>3 DEF JobStep
  <1>2. CASE LoseEligibility
    BY <1>0, <1>2, EligibilityIsCalm, CalmKeeps
  <1>3. CASE Crash
    BY <1>0, <1>3, CrashTypes, CrashCache, CrashVersions, CrashKnown DEF StoreInv
  <1>4. CASE UNCHANGED vars
    BY <1>0, <1>4, StutterIsCalm, CalmKeeps
  <1>5. QED
    BY <1>1, <1>2, <1>3, <1>4 DEF Next

LEMMA StoreInvariance == Spec => []StoreInv
  BY StoreInit, StoreNext, PTL DEF Spec

(* No search is answered from the cache with a memory whose delete_memory  *)
(* had returned, whatever coroutines overlap and wherever the process ends.*)
THEOREM NoStaleHit == Spec => []CacheFresh
  <1>1. StoreInv => CacheFresh
    BY DEF StoreInv, CacheInv
  <1>2. QED
    BY <1>1, StoreInvariance, PTL

(* A memory nobody asked to delete keeps at least one version.             *)
THEOREM VersionKept == Spec => []VersionsSound
  <1>1. StoreInv => TypeOK
    BY DEF StoreInv, StoreTypes, DataTyped, Rows, TypeOK
  <1>2. StoreInv => OneVersion
    BY DEF StoreInv, Versions, FirmVersion, Firm, OneVersion, Born, Alive
  <1>3. QED
    BY <1>1, <1>2, StoreInvariance, PTL DEF VersionsSound

(* A memory no coroutine is working on can be found by both routes.        *)
THEOREM MemoriesFindable == Spec => []Findable
  <1>1. StoreInv => Findable
    <2> SUFFICES ASSUME StoreInv, \A j \in Jobs : job[j] = Idle, NEW d \in Alive
                 PROVE  (d \in vec \/ d \in lost) /\ (d \in graph \/ crashes > 0)
      BY DEF Findable
    <2>1. \A j \in Jobs : ~At(j, "embedding") /\ ~At(j, "added")
      BY DEF At, Idle
    <2>2. QED
      BY <2>1 DEF StoreInv, Known, VecKnown, GraphKnown
  <1>2. QED
    BY <1>1, StoreInvariance, PTL

=============================================================================
