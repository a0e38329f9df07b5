----------------------------- MODULE WriteOpSaga -----------------------------
(***************************************************************************)
(* A memory lives in five stores that no transaction spans: the documents  *)
(* table, the FAISS vectors, the BM25 index, the memory graph and the atom *)
(* table.  MemoryEngine (core/managers/memory_engine.py) writes them one   *)
(* after the other, records the operation in memory_write_ops before the   *)
(* first and after each, and replays unfinished operations when it starts. *)
(*                                                                         *)
(* A row of the log is durable, the coroutine that writes it is not.  A    *)
(* log write that changes nothing but the row's `step' text is not a step. *)
(* The stores are sets of memories; the atoms of a memory are counted, and *)
(* the graph knows which atoms its nodes and edges were made of.           *)
(***************************************************************************)
EXTENDS Integers, FiniteSets, FiniteSetsExt

CONSTANTS
  Mems,          \* memory ids; each is given out once, as SQLite row ids are
  Atoms,         \* the atoms the extractor finds in a memory
  Ops,           \* rows of memory_write_ops; an operation uses one
  MaxRetries,    \* write_op_max_retries
  RepairLimit,   \* LIMIT of the repair query, 25
  DeleteInFlight,\* a memory may be deleted while another operation is at it
  MaxCrashes,    \* bound: crashes and restarts
  MaxFailures,   \* bound: exceptions raised by a store
  MaxCancels     \* bound: cancelled callers

ASSUME SagaAssumption ==
  /\ MaxRetries \in Nat \ {0} /\ RepairLimit \in Nat \ {0}
  /\ MaxCrashes \in Nat /\ MaxFailures \in Nat /\ MaxCancels \in Nat
  /\ DeleteInFlight \in BOOLEAN
  /\ IsFiniteSet(Ops) /\ IsFiniteSet(Mems) /\ IsFiniteSet(Atoms)

VARIABLES
  docs, vec, bm25,  \* memories in documents, FAISS and BM25
  graph, gatoms,    \* memories in the graph, and the atoms indexed for each
  atoms,            \* [Mems -> [Atoms -> Nat]], rows of memory_atoms
  used,             \* memory ids given out so far
  row,              \* [Ops -> row of memory_write_ops]
  co,               \* [Ops -> coroutine]
  engine,           \* starting: before the repair; repairing; ready
  queue,            \* rows the repair query returned and not yet replayed
  rep,              \* the row being replayed
  crashes, failures, cancels

stores == <<docs, vec, bm25, graph, gatoms, atoms>>
bounds == <<crashes, failures, cancels>>
repair == <<engine, queue, rep>>
vars   == <<docs, vec, bm25, graph, gatoms, atoms, used, row, co, engine, queue,
            rep, crashes, failures, cancels>>

Settled    == {"completed", "failed"}
Unsettled  == {"pending", "needs_repair"}
NoRow      == [type |-> "none", mems |-> {}, status |-> "absent", retries |-> 0,
               failed |-> {}, cancelled |-> FALSE]
NoCo       == [pc |-> "idle", mems |-> {}, logged |-> FALSE, todo |-> {},
               failed |-> {}, backup |-> {}, bad |-> FALSE]
NoRepair   == [pc |-> "idle", ops |-> {}]
NoAtoms    == [a \in Atoms |-> 0]

Init ==
  /\ docs = {} /\ vec = {} /\ bm25 = {} /\ graph = {}
  /\ gatoms = [m \in Mems |-> {}] /\ atoms = [m \in Mems |-> NoAtoms]
  /\ used = {}
  /\ row = [o \in Ops |-> NoRow] /\ co = [o \in Ops |-> NoCo]
  /\ engine = "ready" /\ queue = {} /\ rep = NoRepair
  /\ crashes = 0 /\ failures = 0 /\ cancels = 0

-----------------------------------------------------------------------------
(* The log                                                                 *)

\* _start_write_op: when the INSERT fails the operation goes on without a row
\* (`absent'; what it was asked to do is kept as history).
StartOp(o, type, known, ms, pc) ==
  /\ engine = "ready" /\ row[o] = NoRow /\ co[o] = NoCo
  /\ \/ /\ row' = [row EXCEPT ![o].type = type, ![o].mems = known,
                              ![o].status = "pending"]
        /\ co' = [co EXCEPT ![o] = [NoCo EXCEPT !.pc = pc, !.mems = ms, !.logged = TRUE]]
        /\ UNCHANGED failures
     \/ /\ failures < MaxFailures /\ failures' = failures + 1
        /\ co' = [co EXCEPT ![o] = [NoCo EXCEPT !.pc = pc, !.mems = ms]]
        /\ row' = [row EXCEPT ![o].type = type, ![o].mems = known]
  /\ UNCHANGED <<stores, repair, crashes, cancels>>

\* The row r after _advance_write_op(status, error); an error counts a retry.
Logged(r, status, error) ==
  [r EXCEPT !.status = status,
            !.retries = IF error /\ status # "completed" THEN @ + 1 ELSE @]

\* op_id None: nothing is recorded.
Log(o, r) == row' = IF co[o].logged THEN [row EXCEPT ![o] = r] ELSE row

Step(o, from) == co[o].pc = from /\ UNCHANGED <<used, repair, crashes, cancels>>

Goto(o, to)   == co' = [co EXCEPT ![o].pc = to]
Finish(o)     == co' = [co EXCEPT ![o] = NoCo]
Fails         == failures < MaxFailures /\ failures' = failures + 1

-----------------------------------------------------------------------------
(* add_memory                                                              *)

StartAdd(o) ==
  \E m \in Mems \ used :
    /\ used' = used \cup {m}
    /\ StartOp(o, "add", {}, {m}, "doc")

\* faiss_db.insert: the document row, then the vector; then BM25.
AddDoc(o) ==
  /\ Step(o, "doc") /\ docs' = docs \cup co[o].mems /\ Goto(o, "vec")
  /\ UNCHANGED <<vec, bm25, graph, gatoms, atoms, row, failures>>

AddVec(o) ==
  /\ Step(o, "vec") /\ vec' = vec \cup co[o].mems /\ Goto(o, "bm25")
  /\ UNCHANGED <<docs, bm25, graph, gatoms, atoms, row, failures>>

AddBM25(o) ==
  /\ Step(o, "bm25") /\ bm25' = bm25 \cup co[o].mems /\ Goto(o, "logId")
  /\ UNCHANGED <<docs, vec, graph, gatoms, atoms, row, failures>>

\* One of them raises: the row is given up, whatever was written stays.
AddDocFails(o) ==
  /\ \E pc \in {"doc", "vec", "bm25"} : Step(o, pc)
  /\ Fails
  /\ Log(o, Logged(row[o], "failed", TRUE))
  /\ Finish(o)
  /\ UNCHANGED stores

\* "document_indexed": only now does the row know the memory's id.
AddLogId(o) ==
  /\ Step(o, "logId")
  /\ Log(o, [Logged(row[o], "pending", FALSE) EXCEPT !.mems = co[o].mems])
  /\ Goto(o, "atoms")
  /\ UNCHANGED <<stores, failures>>

\* insert_many is one transaction.
AddAtoms(o) ==
  /\ Step(o, "atoms")
  /\ atoms' = [m \in Mems |-> IF m \in co[o].mems
                              THEN [a \in Atoms |-> atoms[m][a] + 1] ELSE atoms[m]]
  /\ Goto(o, "graph")
  /\ UNCHANGED <<docs, vec, bm25, graph, gatoms, row, failures>>

\* It fails: the atoms are inserted one by one, each in its own transaction.
AddAtomsFails(o) ==
  /\ Step(o, "atoms") /\ Atoms # {} /\ Fails
  /\ co' = [co EXCEPT ![o].pc = "single", ![o].todo = Atoms]
  /\ UNCHANGED <<stores, row>>

AddSingle(o, a, ok) ==
  /\ Step(o, "single") /\ a \in co[o].todo
  /\ co' = [co EXCEPT ![o].todo = @ \ {a},
                      ![o].failed = IF ok THEN @ ELSE @ \cup {a}]
  /\ IF ok THEN /\ atoms' = [m \in Mems |-> IF m \in co[o].mems
                               THEN [atoms[m] EXCEPT ![a] = @ + 1] ELSE atoms[m]]
                /\ UNCHANGED failures
           ELSE Fails /\ UNCHANGED atoms
  /\ UNCHANGED <<docs, vec, bm25, graph, gatoms, row>>

\* "atoms_indexed", or "atoms_partial" with the atoms that are missing.
AddSinglesLog(o) ==
  /\ Step(o, "single") /\ co[o].todo = {}
  /\ Log(o, IF co[o].failed = {} THEN Logged(row[o], "pending", FALSE)
            ELSE [Logged(row[o], "needs_repair", TRUE) EXCEPT !.failed = co[o].failed])
  /\ co' = [co EXCEPT ![o].pc = "graph", ![o].bad = co[o].failed # {}]
  /\ UNCHANGED <<stores, failures>>

\* index_memory, whose first act is to delete what the graph has of the memory.
Indexed(ms, as) ==
  /\ graph' = graph \cup ms
  /\ gatoms' = [m \in Mems |-> IF m \in ms THEN as ELSE gatoms[m]]

Unindexed(ms) ==
  /\ graph' = graph \ ms
  /\ gatoms' = [m \in Mems |-> IF m \in ms THEN {} ELSE gatoms[m]]

AddGraph(o) ==
  /\ Step(o, "graph")
  /\ Indexed(co[o].mems, Atoms)
  /\ Log(o, Logged(row[o], IF co[o].bad THEN "needs_repair" ELSE "pending", FALSE))
  /\ Goto(o, "end")
  /\ UNCHANGED <<docs, vec, bm25, atoms, failures>>

\* Mutant: the failure is logged but nothing remembers it.
AddGraphFails_Forgotten(o) ==
  /\ Step(o, "graph") /\ Fails
  /\ Unindexed(co[o].mems)
  /\ Log(o, Logged(row[o], "needs_repair", TRUE))
  /\ Goto(o, "end")
  /\ UNCHANGED <<docs, vec, bm25, atoms>>

\* Both attempts raise, before or after the entries were inserted.
AddGraphFails(o) ==
  /\ Step(o, "graph") /\ Fails
  /\ Unindexed(co[o].mems) \/ Indexed(co[o].mems, Atoms)
  /\ Log(o, Logged(row[o], "needs_repair", TRUE))
  /\ co' = [co EXCEPT ![o].pc = "end", ![o].bad = TRUE]
  /\ UNCHANGED <<docs, vec, bm25, atoms>>

AddEnd(o) ==
  /\ Step(o, "end")
  /\ IF co[o].bad THEN UNCHANGED row ELSE Log(o, Logged(row[o], "completed", FALSE))
  /\ Finish(o)
  /\ UNCHANGED <<stores, failures>>

\* The caller is cancelled while the document is indexed or its id is logged.
AddCancelled(o) ==
  /\ co[o].pc \in {"doc", "vec", "bm25", "logId"}
  /\ cancels < MaxCancels /\ cancels' = cancels + 1
  /\ Log(o, [Logged(row[o], "failed", TRUE) EXCEPT !.cancelled = TRUE,
               !.mems = IF co[o].pc = "logId" THEN co[o].mems ELSE @])
  /\ Finish(o)
  /\ UNCHANGED <<stores, used, repair, crashes, failures>>

\* Anywhere else the exception is passed on and the row stays as it is.
Cancelled(o) ==
  /\ co[o].pc \notin {"idle", "doc", "vec", "bm25", "logId"}
  /\ cancels < MaxCancels /\ cancels' = cancels + 1
  /\ Finish(o)
  /\ UNCHANGED <<stores, used, row, repair, crashes, failures>>

Add(o) ==
  \/ StartAdd(o) \/ AddDoc(o) \/ AddVec(o) \/ AddBM25(o) \/ AddDocFails(o)
  \/ AddLogId(o) \/ AddAtoms(o) \/ AddAtomsFails(o)
  \/ \E a \in Atoms, ok \in BOOLEAN : AddSingle(o, a, ok)
  \/ AddSinglesLog(o) \/ AddGraph(o) \/ AddGraphFails(o) \/ AddEnd(o)
  \/ AddCancelled(o)

-----------------------------------------------------------------------------
(* delete_memory                                                           *)

Deletable == {m \in docs : DeleteInFlight \/ \A o \in Ops : m \notin co[o].mems}

StartDelete(o) ==
  \E m \in Deletable :
    StartOp(o, "delete", {m}, {m}, "backup") /\ UNCHANGED used

\* hybrid_retriever.delete_memory keeps the text, if the document is there and
\* can be read; otherwise there is nothing to roll BM25 back with.
DelBackup(o) ==
  /\ Step(o, "backup")
  /\ \E ok \in BOOLEAN :
       /\ IF ok THEN UNCHANGED failures ELSE Fails
       /\ co' = [co EXCEPT ![o].pc = "delBM25",
                           ![o].backup = IF ok THEN co[o].mems \cap docs ELSE {}]
  /\ UNCHANGED <<stores, row>>

DelBM25(o) ==
  /\ Step(o, "delBM25") /\ bm25' = bm25 \ co[o].mems /\ Goto(o, "delDoc")
  /\ UNCHANGED <<docs, vec, graph, gatoms, atoms, row, failures>>

DelBM25Fails(o) ==
  /\ Step(o, "delBM25") /\ Fails
  /\ Log(o, Logged(row[o], "failed", TRUE)) /\ Finish(o)
  /\ UNCHANGED stores

\* faiss_db.delete removes the document row and the vector.
DelDoc(o) ==
  /\ Step(o, "delDoc") /\ co[o].mems \subseteq docs
  /\ docs' = docs \ co[o].mems /\ vec' = vec \ co[o].mems
  /\ Goto(o, "delGraph")
  /\ UNCHANGED <<bm25, graph, gatoms, atoms, row, failures>>

\* Gone already, or the vector store raises: BM25 is restored from the backup,
\* and the row is given up.
DelDocFails(o) ==
  /\ Step(o, "delDoc")
  /\ IF co[o].mems \subseteq docs THEN Fails ELSE UNCHANGED failures
  /\ bm25' = bm25 \cup co[o].backup
  /\ Log(o, Logged(row[o], "failed", TRUE))
  /\ Finish(o)
  /\ UNCHANGED <<docs, vec, graph, gatoms, atoms>>

DelGraph(o, ok) ==
  /\ Step(o, "delGraph")
  /\ IF ok THEN /\ Unindexed(co[o].mems)
                /\ Log(o, Logged(row[o], "pending", FALSE))
                /\ Goto(o, "delAtoms") /\ UNCHANGED failures
           ELSE /\ Fails
                /\ UNCHANGED <<graph, gatoms>> \/ Unindexed(co[o].mems)
                /\ Log(o, Logged(row[o], "needs_repair", TRUE))
                /\ co' = [co EXCEPT ![o].pc = "delAtoms", ![o].bad = TRUE]
  /\ UNCHANGED <<docs, vec, bm25, atoms>>


WithoutAtoms(ms) == atoms' = [m \in Mems |-> IF m \in ms THEN NoAtoms ELSE atoms[m]]

\* Success writes status "pending" even after the graph failed.
DelAtoms(o, ok) ==
  /\ Step(o, "delAtoms")
  /\ IF ok THEN /\ WithoutAtoms(co[o].mems)
                /\ Log(o, Logged(row[o], "pending", FALSE))
                /\ Goto(o, "delEnd") /\ UNCHANGED failures
           ELSE /\ Fails /\ UNCHANGED atoms
                /\ Log(o, Logged(row[o], "needs_repair", TRUE))
                /\ co' = [co EXCEPT ![o].pc = "delEnd", ![o].bad = TRUE]
  /\ UNCHANGED <<docs, vec, bm25, graph, gatoms>>

\* Mutant: the row is completed although a store failed.
DelEnd_Always(o) ==
  /\ Step(o, "delEnd")
  /\ Log(o, Logged(row[o], "completed", FALSE))
  /\ Finish(o)
  /\ UNCHANGED <<stores, failures>>

DelEnd(o) ==
  /\ Step(o, "delEnd")
  /\ IF co[o].bad THEN UNCHANGED row ELSE Log(o, Logged(row[o], "completed", FALSE))
  /\ Finish(o)
  /\ UNCHANGED <<stores, failures>>

Delete(o) ==
  \/ StartDelete(o) \/ DelBackup(o) \/ DelBM25(o) \/ DelBM25Fails(o)
  \/ DelDoc(o) \/ DelDocFails(o)
  \/ \E ok \in BOOLEAN : DelGraph(o, ok) \/ DelAtoms(o, ok)
  \/ DelEnd(o)

-----------------------------------------------------------------------------
(* batch_delete_memories: one batch                                        *)

StartBatch(o) ==
  \E ms \in SUBSET Deletable \ {{}} :
    StartOp(o, "batch", ms, ms, "batBM25") /\ UNCHANGED used

BatBM25(o) ==
  /\ Step(o, "batBM25") /\ bm25' = bm25 \ co[o].mems /\ Goto(o, "batVec")
  /\ UNCHANGED <<docs, vec, graph, gatoms, atoms, row, failures>>

\* faiss_db.delete, for each document that is there; a failure is only logged.
BatVec(o) ==
  LET found == co[o].mems \cap docs
  IN /\ Step(o, "batVec")
     /\ \E left \in SUBSET found :
          /\ IF left = {} THEN UNCHANGED failures ELSE Fails
          /\ vec' = vec \ (found \ left) /\ docs' = docs \ (found \ left)
     /\ Goto(o, "batDoc")
     /\ UNCHANGED <<bm25, graph, gatoms, atoms, row>>

BatDoc(o) ==
  /\ Step(o, "batDoc") /\ docs' = docs \ co[o].mems /\ Goto(o, "batGraph")
  /\ UNCHANGED <<vec, bm25, graph, gatoms, atoms, row, failures>>

BatGraph(o) ==
  /\ Step(o, "batGraph") /\ Unindexed(co[o].mems) /\ Goto(o, "batAtoms")
  /\ UNCHANGED <<docs, vec, bm25, atoms, row, failures>>

BatAtoms(o) ==
  /\ Step(o, "batAtoms") /\ WithoutAtoms(co[o].mems)
  /\ Log(o, Logged(row[o], "completed", FALSE))
  /\ Finish(o)
  /\ UNCHANGED <<docs, vec, bm25, graph, gatoms, failures>>

BatFails(o) ==
  /\ \E pc \in {"batBM25", "batVec", "batDoc", "batGraph", "batAtoms"} : Step(o, pc)
  /\ Fails
  /\ Log(o, Logged(row[o], "needs_repair", TRUE))
  /\ Finish(o)
  /\ UNCHANGED stores

Batch(o) ==
  \/ StartBatch(o) \/ BatBM25(o) \/ BatVec(o) \/ BatDoc(o) \/ BatGraph(o)
  \/ BatAtoms(o) \/ BatFails(o)

-----------------------------------------------------------------------------
(* Crash, start and the replay of unfinished operations                    *)

\* The process dies; the stores and the log keep what was committed.
Crash ==
  /\ crashes < MaxCrashes /\ crashes' = crashes + 1
  /\ co' = [o \in Ops |-> NoCo] /\ engine' = "starting"
  /\ queue' = {} /\ rep' = NoRepair
  /\ UNCHANGED <<stores, used, row, failures, cancels>>

\* Mutant: only rows that an exception marked are replayed, not interrupted ones.
Repairable_OnlyMarked ==
  {o \in Ops : row[o].status = "needs_repair" /\ row[o].retries < MaxRetries}

Repairable == {o \in Ops : row[o].status \in Unsettled /\ row[o].retries < MaxRetries}

\* The SELECT of _repair_incomplete_write_ops.
RepairQuery ==
  /\ engine = "starting" /\ engine' = "repairing"
  /\ \E q \in SUBSET Repairable :
       /\ Cardinality(q) <= RepairLimit
       /\ Cardinality(q) = RepairLimit \/ q = Repairable
       /\ queue' = q
  /\ UNCHANGED <<stores, used, row, co, rep, bounds>>

\* Rows that can never be replayed are given up: an add without an id, or
\* whose document is gone.
Unrepairable(o) == row[o].type = "add" /\ (row[o].mems = {} \/ ~(row[o].mems \subseteq docs))

RepairGiveUp ==
  /\ engine = "repairing" /\ rep.pc = "idle"
  /\ \E o \in queue : /\ Unrepairable(o)
                      /\ row' = [row EXCEPT ![o] = Logged(row[o], "failed", TRUE)]
                      /\ queue' = queue \ {o}
  /\ UNCHANGED <<stores, used, co, engine, rep, bounds>>

RepairTake ==
  /\ engine = "repairing" /\ rep.pc = "idle"
  /\ \E o \in queue :
       /\ ~Unrepairable(o)
       /\ rep' = [pc |-> CASE row[o].type = "add"    -> "addAtoms"
                           [] row[o].type = "delete" -> "delGraph"
                           [] row[o].type = "batch"  -> "batDocs",
                  ops |-> {o}]
       /\ queue' = queue \ {o}
  /\ UNCHANGED <<stores, used, row, co, engine, bounds>>

RepairStep(o, from, to) ==
  /\ rep = [pc |-> from, ops |-> {o}]
  /\ rep' = [rep EXCEPT !.pc = to]
  /\ UNCHANGED <<used, co, engine, queue, bounds>>

\* The atoms the row asks to be replayed: those that failed, or all of them.
ReplayAtoms(o) == IF row[o].failed # {} THEN row[o].failed ELSE Atoms

\* Mutant: the failed atoms are inserted without a look at what is there.
RepairAddAtoms_Blind(o) ==
  /\ RepairStep(o, "addAtoms", "addGraph")
  /\ atoms' = [m \in Mems |-> IF m \in row[o].mems
                 THEN [a \in Atoms |-> IF a \in ReplayAtoms(o) THEN atoms[m][a] + 1
                                                               ELSE atoms[m][a]]
                 ELSE atoms[m]]
  /\ row' = [row EXCEPT ![o] = Logged(row[o], "pending", FALSE)]
  /\ UNCHANGED <<docs, vec, bm25, graph, gatoms>>

\* Failed atoms are inserted unless they are there; all of them only when the
\* memory has none.
RepairAddAtoms(o) ==
  LET missing(m) == IF row[o].failed # {}
                    THEN {a \in row[o].failed : atoms[m][a] = 0}
                    ELSE IF atoms[m] = NoAtoms THEN Atoms ELSE {}
  IN /\ RepairStep(o, "addAtoms", "addGraph")
     /\ atoms' = [m \in Mems |-> IF m \in row[o].mems
                    THEN [a \in Atoms |-> IF a \in missing(m) THEN atoms[m][a] + 1
                                                              ELSE atoms[m][a]]
                    ELSE atoms[m]]
     /\ row' = [row EXCEPT ![o] = Logged(row[o], "pending", FALSE)]
     /\ UNCHANGED <<docs, vec, bm25, graph, gatoms>>

RepairAddGraph(o) ==
  /\ RepairStep(o, "addGraph", "end")
  /\ Indexed(row[o].mems, ReplayAtoms(o))
  /\ row' = [row EXCEPT ![o] = Logged(row[o], "pending", FALSE)]
  /\ UNCHANGED <<docs, vec, bm25, atoms>>


\* As in the batch itself: only a document that is there leads to its vector.
RepairBatchDocs(o) ==
  LET found == row[o].mems \cap docs
  IN /\ rep = [pc |-> "batDocs", ops |-> {o}]
     /\ rep' = [rep EXCEPT !.pc = "delGraph"]
     /\ \E left \in SUBSET found :
          /\ IF left = {} THEN UNCHANGED failures ELSE Fails
          /\ vec' = vec \ (found \ left)
     /\ docs' = docs \ row[o].mems /\ bm25' = bm25 \ row[o].mems
     /\ UNCHANGED <<graph, gatoms, atoms, row, used, co, engine, queue, crashes, cancels>>

\* A delete is replayed on the graph and the atoms only.
RepairDelGraph(o) ==
  /\ RepairStep(o, "delGraph", "delAtoms")
  /\ Unindexed(row[o].mems)
  /\ UNCHANGED <<docs, vec, bm25, atoms, row>>

RepairDelAtoms(o) ==
  /\ RepairStep(o, "delAtoms", "end")
  /\ WithoutAtoms(row[o].mems)
  /\ UNCHANGED <<docs, vec, bm25, graph, gatoms, row>>

RepairEnd(o) ==
  /\ rep = [pc |-> "end", ops |-> {o}] /\ rep' = NoRepair
  /\ row' = [row EXCEPT ![o] = Logged(row[o], "completed", FALSE)]
  /\ UNCHANGED <<stores, used, co, engine, queue, bounds>>

\* A replay raises, in the graph before or after what it deletes there: one
\* more retry is counted and the next row is taken.
RepairFails(o) ==
  /\ rep.pc \notin {"idle", "end"} /\ rep.ops = {o} /\ rep' = NoRepair
  /\ Fails
  /\ \/ UNCHANGED <<graph, gatoms>>
     \/ rep.pc \in {"addGraph", "delGraph"} /\ Unindexed(row[o].mems)
  /\ row' = [row EXCEPT ![o] = Logged(row[o], "needs_repair", TRUE)]
  /\ UNCHANGED <<docs, vec, bm25, atoms, used, co, engine, queue, crashes, cancels>>

Ready ==
  /\ engine = "repairing" /\ queue = {} /\ rep.pc = "idle"
  /\ engine' = "ready"
  /\ UNCHANGED <<stores, used, row, co, queue, rep, bounds>>

Repair ==
  \/ RepairQuery \/ RepairGiveUp \/ RepairTake \/ Ready
  \/ \E o \in Ops : \/ RepairAddAtoms(o) \/ RepairAddGraph(o) \/ RepairBatchDocs(o)
                    \/ RepairDelGraph(o) \/ RepairDelAtoms(o) \/ RepairEnd(o)
                    \/ RepairFails(o)

Operation(o) == Add(o) \/ Delete(o) \/ Batch(o)

Next == (\E o \in Ops : Operation(o) \/ Cancelled(o)) \/ Crash \/ Repair

Spec == Init /\ [][Next]_vars

-----------------------------------------------------------------------------
(* Properties                                                              *)

Gone(m)     == /\ m \notin docs \cup bm25 \cup graph
               /\ atoms[m] = NoAtoms
DeleteAsked(m) == \E o \in Ops : row[o].type \in {"delete", "batch"} /\ m \in row[o].mems
Live(m)     == \E o \in Ops : m \in co[o].mems
InLog(m)  == \E o \in Ops : m \in row[o].mems /\ row[o].status \in Unsettled \cup {"absent"}

RowType == [type : {"none", "add", "delete", "batch"}, mems : SUBSET Mems,
            status : {"absent"} \cup Settled \cup Unsettled, retries : Nat,
            failed : SUBSET Atoms, cancelled : BOOLEAN]
CoType  == [pc : {"idle", "doc", "vec", "bm25", "logId", "atoms", "single", "graph",
                  "end", "backup", "delBM25", "delDoc", "delGraph", "delAtoms", "delEnd",
                  "batBM25", "batVec", "batDoc", "batGraph", "batAtoms"},
            mems : SUBSET Mems, logged : BOOLEAN, todo : SUBSET Atoms,
            failed : SUBSET Atoms, backup : SUBSET Mems, bad : BOOLEAN]

\* The shape of the state; a memory is only in a store once its id was given.
TypeOK ==
  /\ docs \subseteq used /\ vec \subseteq used /\ bm25 \subseteq used
  /\ graph \subseteq used /\ used \subseteq Mems
  /\ gatoms \in [Mems -> SUBSET Atoms] /\ atoms \in [Mems -> [Atoms -> Nat]]
  /\ row \in [Ops -> RowType] /\ co \in [Ops -> CoType]
  /\ engine \in {"starting", "repairing", "ready"} /\ queue \subseteq Ops
  /\ rep \in [pc : {"idle", "addAtoms", "addGraph", "batDocs", "delGraph", "delAtoms", "end"},
              ops : SUBSET Ops]
  /\ crashes \in 0..MaxCrashes /\ failures \in 0..MaxFailures /\ cancels \in 0..MaxCancels

\* An add recorded as completed, by the call or by its replay after a crash, has
\* the memory in the document table, both indexes and the graph, until somebody
\* asks for its deletion; and the graph was built from all its atoms, except when
\* single atoms had failed: their replay indexes the graph from those alone.
CompletedAddWhole ==
  \A o \in Ops : row[o].type = "add" /\ row[o].status = "completed" =>
    \A m \in row[o].mems :
      \/ DeleteAsked(m)
      \/ /\ m \in docs \cap vec \cap bm25 \cap graph
         /\ gatoms[m] = Atoms \/ row[o].failed # {}

\* A batch delete recorded as completed has left nothing of its memories in the
\* document table, the text index, the graph or the atoms, whatever failed,
\* crashed or was replayed on the way.
BatchDeleteWhole ==
  \A o \in Ops : row[o].type = "batch" /\ row[o].status = "completed" =>
    \A m \in row[o].mems : Gone(m)

\* An add that completed left a whole memory and a batch delete removes whole
\* ones, over crashes and repairs, and no variable leaves its type.
OpsWhole == TypeOK /\ CompletedAddWhole /\ BatchDeleteWhole

\* Singles that failed, replays and crashes never store an atom twice.
NoDuplicateAtoms == \A m \in Mems, a \in Atoms : atoms[m][a] <= 1

\* Graph entries or atoms of a memory whose document is gone belong to an
\* operation that is still running or that the log still holds for a replay
\* (or that could not be logged at all).
OrphansAreLogged ==
  \A m \in used \ docs :
    (m \in graph \/ atoms[m] # NoAtoms) => Live(m) \/ InLog(m)

\* A start of the engine leaves an unfinished row that it did not replay at least
\* once only if it replayed as many others as the query returns.
Untouched == {o \in Ops : row[o].status \in Unsettled /\ row[o].retries = 0}
NothingForgotten ==
  [][engine = "repairing" /\ engine' = "ready" =>
       \/ Untouched = {}
       \/ Cardinality({o \in Ops \ Untouched : row[o].type # "none"}) >= RepairLimit]_vars

\* A single delete recorded as completed has left nothing of its memory
\* (docs/en/architecture.md: `Transactional deletion of related records'). TLC refutes it: a crash between the
\* rows and the index leaves what the replay does not look for.
DeleteWhole ==
  \A o \in Ops : row[o].type = "delete" /\ row[o].status = "completed" =>
    \A m \in row[o].mems : Gone(m)

\* The start of the engine cleans up what a cancelled add left, as the comment
\* in add_memory says of the row it writes. TLC refutes it: the row is `failed'.
CancelledCleanedUp ==
  [][engine = "repairing" /\ engine' = "ready" =>
       \A o \in Ops : row[o].cancelled => row[o].mems \cap docs = {}]_vars
=============================================================================
