--------------------------- MODULE WriteOpSagaProofs --------------------------
(***************************************************************************)
(* Proofs about WriteOpSaga, for any memories, atoms, operations, crashes, *)
(* failures and cancellations.  Two invariants, one on top of the other.   *)
(*                                                                         *)
(* BaseInv holds whatever overlaps: what a coroutine is at and what its    *)
(* row says agree (Shape), two adds never have a memory in common (OwnInv),*)
(* no coroutine runs while the log is replayed (EngineInv), and an add     *)
(* finds no atom of its memory where it is about to insert one (AtomsInv). *)
(*                                                                         *)
(* SafeInv needs that no memory is deleted while another operation is at   *)
(* it (ExclInv): then where a coroutine has come to says what the stores   *)
(* have of its memories (StageInv), and where a replay has come to as well *)
(* (RepInv).  Orphans have a delete in the log that is not settled         *)
(* (OrphanInv), which is more than OrphansAreLogged says.                  *)
(*                                                                         *)
(* NothingForgotten is about a step: it needs that while the log is        *)
(* replayed the rows without a replay are at hand, or that these and the   *)
(* replayed ones are as many as the query returns (CoveredInv).            *)
(***************************************************************************)
EXTENDS WriteOpSaga, FiniteSetTheorems, TLAPS

BeforeAtoms == {"doc", "vec", "bm25", "logId", "atoms"}
AddPc == BeforeAtoms \cup {"single", "graph", "end"}
DelPc == {"backup", "delBM25", "delDoc", "delGraph", "delAtoms", "delEnd"}
BatPc == {"batBM25", "batVec", "batDoc", "batGraph", "batAtoms"}

\* A coroutine and its row.
Shape(c, r) ==
    /\ r.type = "none" => r = NoRow /\ c.pc = "idle"
    /\ c.pc = "idle" => c = NoCo
    /\ c.pc # "idle" => r.status \in (IF c.logged THEN Unsettled ELSE {"absent"})
    /\ c.pc \in AddPc => r.type = "add" /\ r.mems \subseteq c.mems
    /\ c.pc \in BeforeAtoms \ {"atoms"} => r.mems = {}
    /\ c.pc \in DelPc => r.type = "delete" /\ r.mems = c.mems
    /\ c.pc \in BatPc => r.type = "batch" /\ r.mems = c.mems
ShapeInv == \A o \in Ops : Shape(co[o], row[o])

UsedInv ==
    /\ \A o \in Ops : /\ co[o].mems \subseteq used /\ row[o].mems \subseteq used
                       /\ co[o].backup \subseteq co[o].mems
    /\ \A m \in Mems \ used : atoms[m] = NoAtoms

Has(o) == co[o].mems \cup row[o].mems
OwnInv == \A o, p \in Ops : o # p /\ row[o].type = "add" /\ row[p].type = "add" => Has(o) \cap Has(p) = {}

EngineInv ==
    /\ engine # "ready" => \A o \in Ops : co[o] = NoCo
    /\ engine # "repairing" => queue = {} /\ rep = NoRepair
    /\ rep.pc = "idle" => rep = NoRepair
    /\ \A o \in queue \cup rep.ops : row[o].type # "none"

AtomsOf(o) ==
    \A m \in co[o].mems :
        /\ co[o].pc \in BeforeAtoms => atoms[m] = NoAtoms
        /\ co[o].pc = "single" => \A a \in co[o].todo : atoms[m][a] = 0
AtomsInv == \A o \in Ops : AtomsOf(o)

BaseInv == /\ TypeOK /\ ShapeInv /\ UsedInv /\ OwnInv /\ EngineInv /\ AtomsInv /\ NoDuplicateAtoms

-----------------------------------------------------------------------------
(* Lemmas about rows and coroutines.                                       *)

LEMMA NullsTyped == NoRow \in RowType /\ NoCo \in CoType /\ NoAtoms \in [Atoms -> Nat] /\ Shape(NoCo, NoRow)
  BY DEF NoRow, RowType, NoCo, CoType, NoAtoms, Shape, AddPc, BeforeAtoms, DelPc, BatPc

LEMMA LoggedType ==
  ASSUME NEW r \in RowType, NEW status \in Settled \cup Unsettled, NEW error \in BOOLEAN
  PROVE /\ Logged(r, status, error) \in RowType
        /\ Logged(r, status, error).status = status
        /\ Logged(r, status, error).type = r.type
        /\ Logged(r, status, error).mems = r.mems
        /\ Logged(r, status, error).failed = r.failed
<1> DEFINE n == IF error /\ status # "completed" THEN r.retries + 1 ELSE r.retries
<1>1. n \in Nat
  BY DEF RowType
<1>2. Logged(r, status, error) = [r EXCEPT !.status = status, !.retries = n]
  BY DEF Logged
<1> HIDE DEF n
<1> QED  BY <1>1, <1>2 DEF RowType, Settled, Unsettled

\* Stores and counts have their types after a step.
StoresTyped ==
    /\ docs \subseteq used /\ vec \subseteq used /\ bm25 \subseteq used /\ graph \subseteq used
    /\ used \subseteq Mems
    /\ gatoms \in [Mems -> SUBSET Atoms] /\ atoms \in [Mems -> [Atoms -> Nat]]
BoundsTyped == crashes \in 0 .. MaxCrashes /\ failures \in 0 .. MaxFailures /\ cancels \in 0 .. MaxCancels

LEMMA BaseInit == Init => BaseInv
<1> SUFFICES ASSUME Init PROVE BaseInv
  OBVIOUS
<1>1. TypeOK
  BY NullsTyped, SagaAssumption DEF Init, TypeOK, NoRepair
<1>2. \A o \in Ops : co[o] = NoCo /\ row[o] = NoRow
  BY DEF Init
<1>3. ShapeInv /\ UsedInv /\ OwnInv
  BY <1>2, NullsTyped DEF Init, ShapeInv, UsedInv, OwnInv, Has, NoCo, NoRow
<1>4. EngineInv
  BY DEF Init, EngineInv, NoRepair
<1>5. AtomsInv /\ NoDuplicateAtoms
  BY <1>2 DEF Init, AtomsInv, AtomsOf, NoCo, NoDuplicateAtoms, NoAtoms
<1> QED  BY <1>1, <1>3, <1>4, <1>5 DEF BaseInv

-----------------------------------------------------------------------------
(* What the steps of one coroutine have in common.                         *)
Moves(o) ==
    /\ co' \in [Ops -> CoType] /\ row' \in [Ops -> RowType]
    /\ \A p \in Ops \ {o} : co'[p] = co[p] /\ row'[p] = row[p]
    /\ UNCHANGED <<used, engine, queue, rep>>
    /\ co'[o].mems \in {co[o].mems, {}} /\ co'[o].backup \subseteq co'[o].mems
    /\ row'[o].type = row[o].type /\ row'[o].mems \subseteq Has(o)
    /\ Shape(co'[o], row'[o])

\* The stores have their types, and no atom of another memory is touched.
StoresMove(o) ==
    /\ StoresTyped' /\ BoundsTyped'
    /\ \A m \in Mems \ co[o].mems : atoms'[m] = atoms[m]
    /\ row[o].type # "add" => \A m \in Mems : atoms'[m] \in {atoms[m], NoAtoms}
    /\ \A m \in co[o].mems, a \in Atoms : atoms'[m][a] <= 1

LEMMA BaseMoves ==
  ASSUME BaseInv, NEW o \in Ops, co[o].pc # "idle", Moves(o), StoresMove(o), AtomsOf(o)'
  PROVE BaseInv'
<1>0. /\ co \in [Ops -> CoType] /\ row \in [Ops -> RowType] /\ used \subseteq Mems
      /\ atoms \in [Mems -> [Atoms -> Nat]]
  BY DEF BaseInv, TypeOK
<1>1. /\ co' \in [Ops -> CoType] /\ row' \in [Ops -> RowType]
      /\ \A p \in Ops : p # o => co'[p] = co[p] /\ row'[p] = row[p]
  BY DEF Moves
<1>2. TypeOK'
  BY <1>1 DEF BaseInv, TypeOK, StoresTyped, BoundsTyped, StoresMove, Moves
<1>3. ShapeInv'
  BY <1>1 DEF BaseInv, ShapeInv, Moves
<1>4. UsedInv'
  BY <1>1 DEF BaseInv, UsedInv, Has, Moves, StoresMove
<1>5. OwnInv'
  <2>1. \A p \in Ops : Has(p)' \subseteq Has(p) /\ row'[p].type = row[p].type
    BY <1>1 DEF Has, Moves
  <2> QED  BY <2>1 DEF BaseInv, OwnInv
<1>6. EngineInv'
  <2>1. engine = "ready" /\ UNCHANGED <<engine, queue, rep>>
    BY DEF BaseInv, EngineInv, NoCo, Moves
  <2> QED  BY <2>1 DEF BaseInv, EngineInv, NoRepair
<1>7. AtomsInv'
  <2> SUFFICES ASSUME NEW p \in Ops, p # o PROVE AtomsOf(p)'
    BY DEF AtomsInv
  <2>1. co'[p] = co[p] /\ AtomsOf(p) /\ co[p].mems \subseteq Mems /\ co[p].todo \subseteq Atoms
    BY <1>0, <1>1 DEF BaseInv, AtomsInv, CoType
  <2>2. CASE row[o].type # "add"
    <3>1. \A m \in co[p].mems : atoms'[m] \in {atoms[m], NoAtoms}
      BY <2>1, <2>2 DEF StoresMove
    <3> QED  BY <2>1, <3>1 DEF AtomsOf, NoAtoms
  <2>3. CASE row[o].type = "add" /\ co[p].pc \in AddPc
    <3>1. co[p].mems \cap co[o].mems = {}
      BY <2>3 DEF BaseInv, OwnInv, Has, ShapeInv, Shape
    <3> QED  BY <2>1, <3>1 DEF AtomsOf, StoresMove
  <2>4. CASE co[p].pc \notin AddPc
    BY <2>1, <2>4 DEF AtomsOf, AddPc
  <2> QED  BY <2>2, <2>3, <2>4
<1>8. NoDuplicateAtoms'
  BY <1>0 DEF BaseInv, NoDuplicateAtoms, StoresMove
<1> QED  BY <1>2, <1>3, <1>4, <1>5, <1>6, <1>7, <1>8 DEF BaseInv

-----------------------------------------------------------------------------
(* What is true when no memory is deleted while another operation is at it.*)
ExclInv == \A o, p \in Ops : o # p => co[o].mems \cap co[p].mems = {}

\* A memory being added is new to everybody else.
UnaskedInv == \A o \in Ops : co[o].pc \in AddPc => \A m \in co[o].mems : ~DeleteAsked(m)

\* What the stores have of a memory, by where its coroutine is.
Stage(o, m) ==
    /\ co[o].pc \in AddPc =>
          /\ co[o].pc # "doc" => m \in docs
          /\ co[o].pc \notin {"doc", "vec"} => m \in vec
          /\ co[o].pc \notin {"doc", "vec", "bm25"} => m \in bm25
          /\ co[o].pc = "doc" => m \notin graph
          /\ co[o].pc = "end" /\ ~co[o].bad => m \in graph /\ gatoms[m] = Atoms
    /\ co[o].pc \in {"backup", "delBM25", "delDoc"} => m \in docs
    /\ co[o].pc \in {"delGraph", "delAtoms", "delEnd", "batGraph", "batAtoms"} => m \notin docs
    /\ co[o].pc \in {"delAtoms", "delEnd"} /\ ~co[o].bad => m \notin graph
    /\ co[o].pc = "delEnd" /\ ~co[o].bad => atoms[m] = NoAtoms
    /\ co[o].pc \in BatPc \ {"batBM25"} => m \notin bm25
    /\ co[o].pc = "batAtoms" => m \notin graph
StageInv == \A o \in Ops : \A m \in co[o].mems : Stage(o, m)

Indexes(m) == m \in docs /\ m \in vec /\ m \in bm25
RowInv == \A o \in Ops : row[o].type = "add" => \A m \in row[o].mems : DeleteAsked(m) \/ Indexes(m)

InGraph(o, m) == m \in graph /\ (gatoms[m] = Atoms \/ row[o].failed # {})
Entries(m) == m \in graph \/ atoms[m] # NoAtoms

\* The row that is replayed, and how far the replay has come.
Replay(o, pc) ==
    /\ row[o].status \in Unsettled
    /\ pc \in {"addAtoms", "addGraph"} => row[o].type = "add"
    /\ pc = "batDocs" => row[o].type = "batch"
    /\ pc \in {"delGraph", "delAtoms"} => row[o].type \in {"delete", "batch"}
    /\ row[o].type # "none"
    /\ \A m \in row[o].mems :
          /\ row[o].type = "add" => m \in docs
          /\ row[o].type = "add" /\ pc = "end" => InGraph(o, m)
          /\ row[o].type = "batch" /\ pc # "batDocs" => m \notin docs /\ m \notin bm25
          /\ row[o].type \in {"delete", "batch"} /\ pc \in {"delAtoms", "end"} => m \notin graph
          /\ row[o].type \in {"delete", "batch"} /\ pc = "end" => atoms[m] = NoAtoms
RepInv ==
    /\ \A o \in queue : row[o].status \in Unsettled /\ row[o].type # "none"
    /\ rep.pc # "idle" => \E o \in Ops : rep.ops = {o} /\ o \notin queue /\ Replay(o, rep.pc)

\* A delete that is not over, or could not be logged.
Held(m) == \E o \in Ops : /\ row[o].type \in {"delete", "batch"} /\ m \in row[o].mems
                          /\ row[o].status \in Unsettled \cup {"absent"}
OrphanInv == \A m \in used \ docs : Entries(m) => Held(m)

SafeInv == /\ ExclInv /\ UnaskedInv /\ StageInv /\ RowInv /\ RepInv /\ OrphanInv
           /\ CompletedAddWhole /\ BatchDeleteWhole

IInv == BaseInv /\ (~DeleteInFlight => SafeInv)

\* What the stores have of a memory does not change.
SameStores(m) ==
    /\ m \in docs <=> m \in docs'
    /\ m \in vec <=> m \in vec'
    /\ m \in bm25 <=> m \in bm25'
    /\ m \in graph <=> m \in graph'
    /\ gatoms'[m] = gatoms[m] /\ atoms'[m] = atoms[m]

\* Whose deletion was asked depends on the rows of deletes alone.
LEMMA AskedSame ==
  ASSUME NEW o \in Ops, \A p \in Ops \ {o} : row'[p] = row[p],
         row'[o].type = row[o].type,
         row[o].type \in {"delete", "batch"} => row'[o].mems = row[o].mems
  PROVE \A m : DeleteAsked(m)' <=> DeleteAsked(m)
  BY DEF DeleteAsked

\* A step of an add changes what the stores have of its own memory.
LEMMA AddMoves ==
  ASSUME BaseInv, SafeInv, NEW o \in Ops, co[o].pc \in AddPc, Moves(o),
         \A m \in Mems \ co[o].mems : SameStores(m),
         \A m \in co'[o].mems : Stage(o, m)',
         \A m \in row'[o].mems : Indexes(m)',
         row'[o].status = "completed" => \A m \in row'[o].mems : InGraph(o, m)',
         \A m \in co[o].mems : Entries(m)' => m \in docs'
  PROVE SafeInv'
<1>0. /\ row[o].type = "add" /\ row'[o].type = "add" /\ row'[o].mems \subseteq co[o].mems
      /\ \A p \in Ops \ {o} : co'[p] = co[p] /\ row'[p] = row[p]
      /\ co'[o].mems \subseteq co[o].mems /\ UNCHANGED <<used, engine, queue, rep>>
      /\ used \subseteq Mems
      /\ \A p \in Ops : co[p].mems \subseteq used /\ row[p].mems \subseteq used
  BY DEF BaseInv, ShapeInv, Shape, Moves, Has, TypeOK, UsedInv
<1>1. \A m : DeleteAsked(m)' <=> DeleteAsked(m)
  BY <1>0, AskedSame
<1>2. ExclInv'
  BY <1>0 DEF SafeInv, ExclInv
<1>3. UnaskedInv'
  BY <1>0, <1>1 DEF SafeInv, UnaskedInv
<1>4. StageInv'
  <2> SUFFICES ASSUME NEW p \in Ops, p # o, NEW m \in co[p].mems PROVE Stage(p, m)'
    BY <1>0 DEF StageInv
  <2>1. Stage(p, m) /\ SameStores(m)
    BY <1>0 DEF SafeInv, StageInv, ExclInv
  <2> QED  BY <1>0, <2>1 DEF Stage, SameStores
<1>5. \A p \in Ops \ {o} : row[p].type = "add" => \A m \in row[p].mems : SameStores(m)
  BY <1>0 DEF BaseInv, OwnInv, Has
<1>6. RowInv'
  BY <1>0, <1>1, <1>5 DEF SafeInv, RowInv, Indexes, SameStores
<1>7. CompletedAddWhole'
  <2>1. \A m \in row'[o].mems : row'[o].status = "completed" =>
           m \in (docs \cap vec \cap bm25 \cap graph)' /\ (gatoms'[m] = Atoms \/ row'[o].failed # {})
    BY DEF Indexes, InGraph
  <2> QED  BY <1>0, <1>1, <1>5, <2>1 DEF SafeInv, CompletedAddWhole, SameStores
<1>8. BatchDeleteWhole'
  <2> SUFFICES ASSUME NEW p \in Ops, row'[p].type = "batch", row'[p].status = "completed", NEW m \in row'[p].mems
               PROVE Gone(m)'
    BY DEF BatchDeleteWhole
  <2>1. p # o /\ row'[p] = row[p]
    BY <1>0
  <2>2. DeleteAsked(m) /\ Gone(m)
    BY <2>1 DEF DeleteAsked, SafeInv, BatchDeleteWhole
  <2>3. SameStores(m)
    BY <1>0, <2>1, <2>2 DEF SafeInv, UnaskedInv
  <2> QED  BY <2>2, <2>3 DEF Gone, SameStores
<1>9. OrphanInv'
  <2> SUFFICES ASSUME NEW m \in used, m \notin docs', Entries(m)' PROVE Held(m)'
    BY <1>0 DEF OrphanInv
  <2>1. SameStores(m)
    BY <1>0
  <2>2. Held(m)
    BY <2>1 DEF SafeInv, OrphanInv, Entries, SameStores
  <2> QED  BY <1>0, <2>2 DEF Held
<1>10. RepInv'
  <2>1. queue = {} /\ rep = NoRepair
    BY DEF BaseInv, EngineInv, NoCo, AddPc, BeforeAtoms
  <2> QED  BY <1>0, <2>1 DEF RepInv, NoRepair
<1> QED  BY <1>2, <1>3, <1>4, <1>6, <1>7, <1>8, <1>9, <1>10 DEF SafeInv

\* So does a step of a delete or a batch, or of its replay, and takes away.
LEMMA DelMoves ==
  ASSUME BaseInv, SafeInv, NEW o \in Ops, row[o].type \in {"delete", "batch"},
         \A p \in Ops \ {o} : co'[p] = co[p] /\ row'[p] = row[p] /\ co[p].mems \cap row[o].mems = {},
         row'[o].type = row[o].type, row'[o].mems = row[o].mems, used' = used,
         co'[o].mems \subseteq row[o].mems, co'[o].pc \notin AddPc,
         \A m \in Mems \ row[o].mems : SameStores(m),
         \A m \in row[o].mems :
            /\ m \in docs' => m \in docs
            /\ m \in graph' => m \in graph
            /\ m \in bm25' => m \in bm25 \/ m \in docs
            /\ atoms'[m] \in {atoms[m], NoAtoms}
            /\ m \notin docs' /\ Entries(m)' => row'[o].status \in Unsettled \cup {"absent"}
            /\ row[o].type = "batch" /\ row'[o].status = "completed" => Gone(m)',
         \A m \in co'[o].mems : Stage(o, m)',
         RepInv'
  PROVE SafeInv'
<1>0. used \subseteq Mems /\ (\A p \in Ops : co[p].mems \subseteq used /\ row[p].mems \subseteq used)
  BY DEF BaseInv, TypeOK, UsedInv
<1>1. \A m : DeleteAsked(m)' <=> DeleteAsked(m)
  BY AskedSame
<1>2. \A m \in row[o].mems : DeleteAsked(m)
  BY DEF DeleteAsked
<1>3. ExclInv'
  BY DEF SafeInv, ExclInv
<1>4. UnaskedInv'
  BY <1>1 DEF SafeInv, UnaskedInv
<1>5. StageInv'
  <2> SUFFICES ASSUME NEW p \in Ops, p # o, NEW m \in co[p].mems PROVE Stage(p, m)'
    BY DEF StageInv
  <2>1. Stage(p, m) /\ SameStores(m)
    BY <1>0 DEF SafeInv, StageInv
  <2> QED  BY <2>1 DEF Stage, SameStores
<1>6. RowInv'
  BY <1>0, <1>1, <1>2 DEF SafeInv, RowInv, Indexes, SameStores
<1>7. CompletedAddWhole'
  BY <1>0, <1>1, <1>2 DEF SafeInv, CompletedAddWhole, SameStores
<1>8. BatchDeleteWhole'
  <2> SUFFICES ASSUME NEW p \in Ops, row'[p].type = "batch", row'[p].status = "completed", NEW m \in row'[p].mems
               PROVE Gone(m)'
    BY DEF BatchDeleteWhole
  <2>1. CASE p = o
    BY <2>1
  <2>2. CASE p # o
    <3>1. Gone(m) /\ m \in Mems
      BY <1>0, <2>2 DEF SafeInv, BatchDeleteWhole
    <3> QED  BY <3>1 DEF Gone, SameStores
  <2> QED  BY <2>1, <2>2
<1>9. OrphanInv'
  <2> SUFFICES ASSUME NEW m \in used, m \notin docs', Entries(m)' PROVE Held(m)'
    BY DEF OrphanInv
  <2>1. CASE m \in row[o].mems
    BY <2>1 DEF Held
  <2>2. CASE m \notin row[o].mems
    <3>1. SameStores(m)
      BY <1>0, <2>2
    <3>2. Held(m)
      BY <3>1 DEF SafeInv, OrphanInv, Entries, SameStores
    <3> QED  BY <2>2, <3>2 DEF Held
  <2> QED  BY <2>1, <2>2
<1> QED  BY <1>3, <1>4, <1>5, <1>6, <1>7, <1>8, <1>9 DEF SafeInv

\* The replay of an add finds its memory in the document table and only adds.
LEMMA ReplayAddMoves ==
  ASSUME BaseInv, SafeInv, NEW o \in Ops, row[o].type = "add", engine # "ready", UNCHANGED co,
         \A p \in Ops \ {o} : row'[p] = row[p],
         row'[o].type = "add", row'[o].mems = row[o].mems, UNCHANGED <<used, docs, vec, bm25>>,
         \A m \in Mems \ row[o].mems : SameStores(m),
         row[o].mems \subseteq docs \/ UNCHANGED <<graph, gatoms, atoms>>,
         row'[o].status = "completed" => \A m \in row[o].mems : m \in docs /\ InGraph(o, m)',
         RepInv'
  PROVE SafeInv'
<1>0. /\ used \subseteq Mems /\ (\A p \in Ops : row[p].mems \subseteq used)
      /\ \A p \in Ops : co[p] = NoCo
  BY DEF BaseInv, TypeOK, UsedInv, EngineInv
<1>1. \A m : DeleteAsked(m)' <=> DeleteAsked(m)
  BY AskedSame
<1>2. ExclInv' /\ UnaskedInv' /\ StageInv'
  BY <1>0 DEF ExclInv, UnaskedInv, StageInv, NoCo
<1>3. RowInv'
  BY <1>1 DEF SafeInv, RowInv, Indexes
<1>4. \A p \in Ops \ {o} : row[p].type = "add" => \A m \in row[p].mems : SameStores(m)
  BY <1>0 DEF BaseInv, OwnInv, Has
<1>5. CompletedAddWhole'
  <2> SUFFICES ASSUME NEW p \in Ops, row'[p].type = "add", row'[p].status = "completed", NEW m \in row'[p].mems,
                      ~DeleteAsked(m)
               PROVE /\ m \in docs \cap vec \cap bm25 \cap graph'
                     /\ gatoms'[m] = Atoms \/ row'[p].failed # {}
    BY <1>1 DEF CompletedAddWhole
  <2>1. CASE p = o
    BY <2>1 DEF SafeInv, RowInv, Indexes, InGraph
  <2>2. CASE p # o
    BY <1>4, <2>2 DEF SafeInv, CompletedAddWhole, SameStores
  <2> QED  BY <2>1, <2>2
<1>6. BatchDeleteWhole'
  <2> SUFFICES ASSUME NEW p \in Ops, row'[p].type = "batch", row'[p].status = "completed", NEW m \in row'[p].mems
               PROVE Gone(m)'
    BY DEF BatchDeleteWhole
  <2>1. Gone(m) /\ m \in Mems /\ m \notin docs
    BY <1>0 DEF SafeInv, BatchDeleteWhole, Gone
  <2> QED  BY <2>1 DEF Gone, SameStores
<1>7. OrphanInv'
  <2> SUFFICES ASSUME NEW m \in used, m \notin docs, Entries(m)' PROVE Held(m)'
    BY DEF OrphanInv
  <2>1. Held(m)
    BY <1>0 DEF SafeInv, OrphanInv, Entries, SameStores
  <2> QED  BY <2>1 DEF Held
<1> QED  BY <1>2, <1>3, <1>5, <1>6, <1>7 DEF SafeInv

-----------------------------------------------------------------------------
(* What the helpers of the actions do.                                     *)
Pcs == {"idle"} \cup AddPc \cup DelPc \cup BatPc

LEMMA GotoFacts ==
  ASSUME BaseInv, NEW o \in Ops, NEW to \in Pcs, Goto(o, to)
  PROVE /\ co' \in [Ops -> CoType] /\ co'[o].pc = to
        /\ co'[o].mems = co[o].mems /\ co'[o].backup = co[o].backup /\ co'[o].logged = co[o].logged
        /\ co'[o].todo = co[o].todo /\ co'[o].failed = co[o].failed /\ co'[o].bad = co[o].bad
        /\ \A p \in Ops \ {o} : co'[p] = co[p]
  BY ZenonT(40) DEF BaseInv, TypeOK, Goto, CoType, Pcs, AddPc, BeforeAtoms, DelPc, BatPc

LEMMA FinishFacts ==
  ASSUME BaseInv, NEW o \in Ops, Finish(o)
  PROVE co' \in [Ops -> CoType] /\ co'[o] = NoCo /\ (\A p \in Ops \ {o} : co'[p] = co[p])
  BY NullsTyped DEF BaseInv, TypeOK, Finish

LEMMA LogFacts ==
  ASSUME BaseInv, NEW o \in Ops, NEW r \in RowType, Log(o, r)
  PROVE /\ row' \in [Ops -> RowType] /\ row'[o] = (IF co[o].logged THEN r ELSE row[o])
        /\ \A p \in Ops \ {o} : row'[p] = row[p]
  BY DEF BaseInv, TypeOK, Log

LEMMA CoFacts ==
  ASSUME BaseInv, NEW o \in Ops
  PROVE /\ co[o] \in CoType /\ row[o] \in RowType /\ Shape(co[o], row[o])
        /\ co[o].mems \subseteq used /\ row[o].mems \subseteq used /\ co[o].backup \subseteq co[o].mems
        /\ AtomsOf(o) /\ used \subseteq Mems
        /\ StoresTyped /\ BoundsTyped /\ \A m \in Mems, a \in Atoms : atoms[m][a] <= 1
        /\ co \in [Ops -> CoType] /\ row \in [Ops -> RowType]
  BY DEF BaseInv, TypeOK, ShapeInv, UsedInv, AtomsInv, NoDuplicateAtoms, StoresTyped, BoundsTyped

LEMMA FailFacts ==
  ASSUME BaseInv, Fails \/ UNCHANGED failures
  PROVE failures' \in 0 .. MaxFailures
  BY SagaAssumption DEF BaseInv, TypeOK, Fails

LEMMA CancelFacts ==
  ASSUME BaseInv, cancels < MaxCancels, cancels' = cancels + 1
  PROVE cancels' \in 0 .. MaxCancels
  BY SagaAssumption DEF BaseInv, TypeOK

AddKeeps(o) ==
    /\ \A m \in Mems \ co[o].mems : SameStores(m)
    /\ \A m \in co'[o].mems : Stage(o, m)'
    /\ \A m \in row'[o].mems : Indexes(m)'
    /\ row'[o].status = "completed" => \A m \in row'[o].mems : InGraph(o, m)'
    /\ \A m \in co[o].mems : Entries(m)' => m \in docs'
DelKeeps(o) ==
    /\ \A m \in Mems \ row[o].mems : SameStores(m)
    /\ \A m \in row[o].mems :
         /\ m \in docs' => m \in docs
         /\ m \in graph' => m \in graph
         /\ m \in bm25' => m \in bm25 \/ m \in docs
         /\ atoms'[m] \in {atoms[m], NoAtoms}
         /\ m \notin docs' /\ Entries(m)' => row'[o].status \in Unsettled \cup {"absent"}
         /\ row[o].type = "batch" /\ row'[o].status = "completed" => Gone(m)'
    /\ \A m \in co'[o].mems : Stage(o, m)'

LEMMA StageFacts == ASSUME SafeInv, NEW o \in Ops PROVE \A m \in co[o].mems : Stage(o, m)
  BY DEF SafeInv, StageInv

\* A step of an add keeps the invariant ...
LEMMA AddStep ==
  ASSUME IInv, NEW o \in Ops, co[o].pc \in AddPc, Moves(o), StoresMove(o), AtomsOf(o)',
         SafeInv => AddKeeps(o)
  PROVE IInv'
<1>1. BaseInv'
  BY BaseMoves DEF IInv, AddPc, BeforeAtoms
<1>2. ~DeleteInFlight => SafeInv'
  BY AddMoves DEF IInv, AddKeeps
<1> QED  BY <1>1, <1>2 DEF IInv

\* ... and so does one of a delete or a batch.
LEMMA DelStep ==
  ASSUME IInv, NEW o \in Ops, co[o].pc \in DelPc \cup BatPc, Moves(o), StoresMove(o),
         row'[o].mems = row[o].mems, co'[o].pc \notin AddPc,
         SafeInv => DelKeeps(o)
  PROVE IInv'
<1>0. /\ row[o].type \in {"delete", "batch"} /\ row[o].mems = co[o].mems /\ co[o].pc # "idle"
      /\ \A p \in Ops \ {o} : co'[p] = co[p] /\ row'[p] = row[p]
      /\ row'[o].type = row[o].type /\ co'[o].mems \subseteq row[o].mems
      /\ UNCHANGED <<used, engine, queue, rep>>
  BY CoFacts DEF IInv, Shape, DelPc, BatPc, Moves
<1>1. BaseInv'
  BY <1>0, BaseMoves DEF IInv, AtomsOf, AddPc, BeforeAtoms
<1>2. RepInv'
  <2>1. queue = {} /\ rep = NoRepair
    BY <1>0 DEF IInv, BaseInv, EngineInv, NoCo
  <2> QED  BY <1>0, <2>1 DEF RepInv, NoRepair
<1>3. ASSUME SafeInv PROVE SafeInv'
  <2>1. \A p \in Ops \ {o} : co[p].mems \cap row[o].mems = {}
    BY <1>0, <1>3 DEF SafeInv, ExclInv
  <2> QED  BY <1>0, <1>2, <1>3, <2>1, DelMoves DEF IInv, DelKeeps
<1> QED  BY <1>1, <1>3 DEF IInv

-----------------------------------------------------------------------------
(* add_memory                                                              *)

LEMMA AddDocInv == ASSUME IInv, NEW o \in Ops, AddDoc(o) PROVE IInv'
<1>0. /\ co[o].pc = "doc" /\ docs' = docs \cup co[o].mems /\ Goto(o, "vec")
      /\ UNCHANGED <<used, engine, queue, rep, crashes, cancels, failures, vec, bm25, graph, gatoms, atoms, row>>
  BY DEF AddDoc, Step, repair
<1>1. BaseInv
  BY DEF IInv
<1>2. Moves(o)
  BY <1>0, <1>1, GotoFacts, CoFacts DEF Moves, Shape, Has, Pcs, AddPc, BeforeAtoms, DelPc, BatPc
<1>3. StoresMove(o)
  BY <1>0, <1>1, CoFacts DEF StoresMove, StoresTyped, BoundsTyped
<1>4. AtomsOf(o)'
  BY <1>0, <1>1, GotoFacts, CoFacts DEF AtomsOf, Pcs, AddPc, BeforeAtoms
<1>5. SafeInv => AddKeeps(o)
  BY <1>0, <1>1, GotoFacts, CoFacts DEF AddKeeps, SameStores, Stage, Shape, Pcs, AddPc, BeforeAtoms, DelPc, BatPc
<1> QED  BY <1>0, <1>2, <1>3, <1>4, <1>5, AddStep DEF AddPc, BeforeAtoms

LEMMA AddVecInv == ASSUME IInv, NEW o \in Ops, AddVec(o) PROVE IInv'
<1>0. /\ co[o].pc = "vec" /\ vec' = vec \cup co[o].mems /\ Goto(o, "bm25")
      /\ UNCHANGED <<used, engine, queue, rep, crashes, cancels, failures, docs, bm25, graph, gatoms, atoms, row>>
  BY DEF AddVec, Step, repair
<1>1. BaseInv
  BY DEF IInv
<1>2. Moves(o)
  BY <1>0, <1>1, GotoFacts, CoFacts DEF Moves, Shape, Has, Pcs, AddPc, BeforeAtoms, DelPc, BatPc
<1>3. StoresMove(o)
  BY <1>0, <1>1, CoFacts DEF StoresMove, StoresTyped, BoundsTyped
<1>4. AtomsOf(o)'
  BY <1>0, <1>1, GotoFacts, CoFacts DEF AtomsOf, Pcs, AddPc, BeforeAtoms, DelPc, BatPc
<1>5. SafeInv => AddKeeps(o)
  BY <1>0, <1>1, GotoFacts, CoFacts, StageFacts DEF AddKeeps, SameStores, Stage, Shape, Pcs, AddPc, BeforeAtoms, DelPc, BatPc
<1> QED  BY <1>0, <1>2, <1>3, <1>4, <1>5, AddStep DEF AddPc, BeforeAtoms

LEMMA AddBM25Inv == ASSUME IInv, NEW o \in Ops, AddBM25(o) PROVE IInv'
<1>0. /\ co[o].pc = "bm25" /\ bm25' = bm25 \cup co[o].mems /\ Goto(o, "logId")
      /\ UNCHANGED <<used, engine, queue, rep, crashes, cancels, failures, docs, vec, graph, gatoms, atoms, row>>
  BY DEF AddBM25, Step, repair
<1>1. BaseInv
  BY DEF IInv
<1>2. Moves(o)
  BY <1>0, <1>1, GotoFacts, CoFacts DEF Moves, Shape, Has, Pcs, AddPc, BeforeAtoms, DelPc, BatPc
<1>3. StoresMove(o)
  BY <1>0, <1>1, CoFacts DEF StoresMove, StoresTyped, BoundsTyped
<1>4. AtomsOf(o)'
  BY <1>0, <1>1, GotoFacts, CoFacts DEF AtomsOf, Pcs, AddPc, BeforeAtoms, DelPc, BatPc
<1>5. SafeInv => AddKeeps(o)
  BY <1>0, <1>1, GotoFacts, CoFacts, StageFacts DEF AddKeeps, SameStores, Stage, Shape, Pcs, AddPc, BeforeAtoms, DelPc, BatPc
<1> QED  BY <1>0, <1>2, <1>3, <1>4, <1>5, AddStep DEF AddPc, BeforeAtoms

\* The ways an add ends: what it has put into the stores stays, and its row
\* knows the memory only if all three indexes do.
LEMMA AddEnds ==
  ASSUME IInv, NEW o \in Ops, co[o].pc \in AddPc, Finish(o), UNCHANGED <<stores, used, engine, queue, rep>>,
         failures' \in 0 .. MaxFailures, cancels' \in 0 .. MaxCancels, UNCHANGED crashes,
         NEW r \in RowType, row' = [row EXCEPT ![o] = r],
         r.type = "add", r.mems \subseteq co[o].mems,
         co[o].pc \in {"doc", "vec", "bm25"} => r.mems = {},
         r.status = "completed" => co[o].pc = "end" /\ ~co[o].bad
  PROVE IInv'
<1>1. BaseInv
  BY DEF IInv
<1>0. co[o].pc # "idle" /\ row[o].type = "add"
  BY <1>1, CoFacts DEF Shape, AddPc, BeforeAtoms
<1>a. row' \in [Ops -> RowType] /\ row'[o] = r /\ \A p \in Ops \ {o} : row'[p] = row[p]
  BY <1>1, CoFacts
<1>2. Moves(o)
  BY <1>0, <1>1, <1>a, FinishFacts DEF Moves, Shape, Has, NoCo, Pcs, AddPc, BeforeAtoms, DelPc, BatPc
<1>3. StoresMove(o)
  BY <1>1, CoFacts DEF StoresMove, StoresTyped, BoundsTyped, stores
<1>4. AtomsOf(o)'
  BY <1>1, FinishFacts DEF AtomsOf, NoCo
<1>5. SafeInv => AddKeeps(o)
  BY <1>0, <1>1, <1>a, FinishFacts, CoFacts, StageFacts
     DEF AddKeeps, SameStores, Stage, Shape, NoCo, Indexes, InGraph, Entries, AtomsOf, stores, Pcs, AddPc, BeforeAtoms, DelPc, BatPc
<1> QED  BY <1>2, <1>3, <1>4, <1>5, AddStep

LEMMA AddDocFailsInv == ASSUME IInv, NEW o \in Ops, AddDocFails(o) PROVE IInv'
<1>1. BaseInv /\ co[o].pc \in {"doc", "vec", "bm25"} /\ UNCHANGED <<used, engine, queue, rep, crashes, cancels>>
  BY DEF IInv, AddDocFails, Step, repair
<1> DEFINE R == Logged(row[o], "failed", TRUE)
<1>2. R \in RowType /\ R.status = "failed" /\ R.type = row[o].type /\ R.mems = row[o].mems
  BY <1>1, CoFacts, LoggedType, ZenonT(40) DEF Settled
<1> HIDE DEF R
<1> DEFINE r == IF co[o].logged THEN R ELSE row[o]
<1>3. r \in RowType /\ r.type = "add" /\ r.mems = {} /\ r.status # "completed"
  BY <1>1, <1>2, CoFacts DEF Shape, Unsettled, AddPc, BeforeAtoms
<1>4. row' = [row EXCEPT ![o] = r]
  BY <1>1, CoFacts DEF AddDocFails, Log, R
<1> HIDE DEF r
<1>5. cancels' \in 0 .. MaxCancels /\ failures' \in 0 .. MaxFailures
  BY <1>1, FailFacts, CoFacts DEF AddDocFails, BoundsTyped
<1> QED  BY <1>1, <1>3, <1>4, <1>5, AddEnds DEF AddDocFails, AddPc, BeforeAtoms

LEMMA AddCancelledInv == ASSUME IInv, NEW o \in Ops, AddCancelled(o) PROVE IInv'
<1>1. BaseInv /\ co[o].pc \in {"doc", "vec", "bm25", "logId"}
      /\ UNCHANGED <<stores, used, engine, queue, rep, crashes, failures>>
  BY DEF IInv, AddCancelled, repair
<1> DEFINE ms == IF co[o].pc = "logId" THEN co[o].mems ELSE row[o].mems
<1> DEFINE L == Logged(row[o], "failed", TRUE)
<1> DEFINE R == [L EXCEPT !.cancelled = TRUE, !.mems = IF co[o].pc = "logId" THEN co[o].mems ELSE @]
<1>2. L \in RowType /\ L.status = "failed" /\ L.type = row[o].type /\ L.mems = row[o].mems
  BY <1>1, CoFacts, LoggedType, ZenonT(40) DEF Settled
<1> HIDE DEF L
<1>3. R \in RowType /\ R.status = "failed" /\ R.type = row[o].type /\ R.mems = ms
  BY <1>1, <1>2, CoFacts DEF RowType
<1> HIDE DEF R
<1> DEFINE r == IF co[o].logged THEN R ELSE row[o]
<1>4. /\ r \in RowType /\ r.type = "add" /\ r.mems \subseteq co[o].mems /\ r.status # "completed"
      /\ co[o].pc \in {"doc", "vec", "bm25"} => r.mems = {}
  BY <1>1, <1>3, CoFacts DEF Shape, Unsettled, AddPc, BeforeAtoms
<1>5. row' = [row EXCEPT ![o] = r]
  BY <1>1, CoFacts DEF AddCancelled, Log, R, L
<1> HIDE DEF r
<1>6. cancels' \in 0 .. MaxCancels /\ failures' \in 0 .. MaxFailures
  BY <1>1, CancelFacts, CoFacts DEF AddCancelled, BoundsTyped
<1> QED  BY <1>1, <1>4, <1>5, <1>6, AddEnds DEF AddCancelled, AddPc, BeforeAtoms

LEMMA AddEndInv == ASSUME IInv, NEW o \in Ops, AddEnd(o) PROVE IInv'
<1>1. BaseInv /\ co[o].pc = "end" /\ UNCHANGED <<stores, failures, used, engine, queue, rep, crashes, cancels>>
  BY DEF IInv, AddEnd, Step, repair
<1> DEFINE R == Logged(row[o], "completed", FALSE)
<1>2. R \in RowType /\ R.type = row[o].type /\ R.mems = row[o].mems
  BY <1>1, CoFacts, LoggedType DEF Settled
<1> HIDE DEF R
<1> DEFINE r == IF co[o].logged /\ ~co[o].bad THEN R ELSE row[o]
<1>3. /\ r \in RowType /\ r.type = "add" /\ r.mems \subseteq co[o].mems
      /\ r.status = "completed" => ~co[o].bad
  BY <1>1, <1>2, CoFacts DEF Shape, Unsettled, AddPc, BeforeAtoms
<1>4. row' = [row EXCEPT ![o] = r]
  BY <1>1, CoFacts DEF AddEnd, Log, R
<1> HIDE DEF r
<1> QED  BY <1>1, <1>3, <1>4, AddEnds, CoFacts DEF AddEnd, AddPc, BeforeAtoms, BoundsTyped

LEMMA LogStep ==
  ASSUME BaseInv, NEW o \in Ops, NEW status \in Settled \cup Unsettled, NEW error \in BOOLEAN,
         Log(o, Logged(row[o], status, error))
  PROVE /\ row' \in [Ops -> RowType]
        /\ row'[o].status = (IF co[o].logged THEN status ELSE row[o].status)
        /\ row'[o].type = row[o].type /\ row'[o].mems = row[o].mems /\ row'[o].failed = row[o].failed
        /\ \A p \in Ops \ {o} : row'[p] = row[p]
  BY CoFacts, LoggedType, LogFacts

LEMMA AddLogIdInv == ASSUME IInv, NEW o \in Ops, AddLogId(o) PROVE IInv'
<1>0. /\ co[o].pc = "logId" /\ Goto(o, "atoms")
      /\ UNCHANGED <<used, engine, queue, rep, crashes, cancels, failures, docs, vec, bm25, graph, gatoms, atoms>>
  BY DEF AddLogId, Step, repair, stores
<1>1. BaseInv
  BY DEF IInv
<1> DEFINE L == Logged(row[o], "pending", FALSE)
<1>a. L \in RowType /\ L.status = "pending" /\ L.type = row[o].type
  BY <1>1, CoFacts, LoggedType DEF Unsettled
<1> HIDE DEF L
<1> DEFINE r == [L EXCEPT !.mems = co[o].mems]
<1>b. r \in RowType /\ r.status = "pending" /\ r.type = row[o].type /\ r.mems = co[o].mems
  BY <1>1, <1>a, CoFacts DEF RowType
<1>c. Log(o, r)
  BY DEF AddLogId, L
<1> HIDE DEF r
<1>d. /\ row' \in [Ops -> RowType] /\ row'[o] = (IF co[o].logged THEN r ELSE row[o])
      /\ \A p \in Ops \ {o} : row'[p] = row[p]
  BY <1>1, <1>b, <1>c, LogFacts
<1>2. Moves(o)
  BY <1>0, <1>1, <1>b, <1>d, GotoFacts, CoFacts DEF Moves, Shape, Has, Unsettled, Pcs, AddPc, BeforeAtoms, DelPc, BatPc
<1>3. StoresMove(o)
  BY <1>0, <1>1, CoFacts DEF StoresMove, StoresTyped, BoundsTyped
<1>4. AtomsOf(o)'
  BY <1>0, <1>1, GotoFacts, CoFacts DEF AtomsOf, Pcs, AddPc, BeforeAtoms, DelPc, BatPc
<1>5. SafeInv => AddKeeps(o)
  BY <1>0, <1>1, <1>b, <1>d, GotoFacts, CoFacts, StageFacts, SMTT(30)
     DEF AddKeeps, SameStores, Stage, Shape, Indexes, Unsettled, Pcs, AddPc, BeforeAtoms, DelPc, BatPc
<1> QED  BY <1>0, <1>2, <1>3, <1>4, <1>5, AddStep DEF AddPc, BeforeAtoms

LEMMA AddAtomsInv == ASSUME IInv, NEW o \in Ops, AddAtoms(o) PROVE IInv'
<1>0. /\ co[o].pc = "atoms" /\ Goto(o, "graph")
      /\ atoms' = [m \in Mems |-> IF m \in co[o].mems THEN [a \in Atoms |-> atoms[m][a] + 1] ELSE atoms[m]]
      /\ UNCHANGED <<used, engine, queue, rep, crashes, cancels, failures, docs, vec, bm25, graph, gatoms, row>>
  BY DEF AddAtoms, Step, repair
<1>1. BaseInv
  BY DEF IInv
<1>2. Moves(o)
  BY <1>0, <1>1, GotoFacts, CoFacts DEF Moves, Shape, Has, Pcs, AddPc, BeforeAtoms, DelPc, BatPc
<1>a. row[o].type = "add" /\ co[o].mems \subseteq Mems /\ \A m \in co[o].mems : atoms[m] = NoAtoms
  BY <1>0, <1>1, CoFacts DEF Shape, AtomsOf, AddPc, BeforeAtoms, CoType
<1>b. atoms' \in [Mems -> [Atoms -> Nat]]
  BY <1>0, <1>1, CoFacts DEF StoresTyped
<1>3. StoresMove(o)
  BY <1>0, <1>1, <1>a, <1>b, CoFacts DEF StoresMove, StoresTyped, BoundsTyped, NoAtoms
<1>4. AtomsOf(o)'
  BY <1>0, <1>1, GotoFacts DEF AtomsOf, Pcs, AddPc, BeforeAtoms
<1>5. SafeInv => AddKeeps(o)
  BY <1>0, <1>1, GotoFacts, CoFacts, StageFacts
     DEF AddKeeps, SameStores, Stage, Shape, Indexes, Unsettled, Pcs, AddPc, BeforeAtoms, DelPc, BatPc
<1> QED  BY <1>0, <1>2, <1>3, <1>4, <1>5, AddStep DEF AddPc, BeforeAtoms

LEMMA AddAtomsFailsInv == ASSUME IInv, NEW o \in Ops, AddAtomsFails(o) PROVE IInv'
<1>0. /\ co[o].pc = "atoms" /\ co' = [co EXCEPT ![o].pc = "single", ![o].todo = Atoms]
      /\ UNCHANGED <<used, engine, queue, rep, crashes, cancels, docs, vec, bm25, graph, gatoms, atoms, row>>
  BY DEF AddAtomsFails, Step, repair, stores
<1>1. BaseInv
  BY DEF IInv
<1>a. /\ co' \in [Ops -> CoType] /\ co'[o].pc = "single" /\ co'[o].mems = co[o].mems
      /\ co'[o].backup = co[o].backup /\ co'[o].logged = co[o].logged
      /\ \A p \in Ops \ {o} : co'[p] = co[p]
  <2> DEFINE c == [co[o] EXCEPT !.pc = "single", !.todo = Atoms]
  <2>1. c \in CoType /\ c.pc = "single" /\ c.mems = co[o].mems /\ c.backup = co[o].backup /\ c.logged = co[o].logged
    BY <1>1, CoFacts DEF CoType
  <2>2. co' = [co EXCEPT ![o] = c]
    BY <1>0, <1>1, CoFacts DEF CoType
  <2> HIDE DEF c
  <2> QED  BY <1>1, <2>1, <2>2, CoFacts
<1>2. Moves(o)
  BY <1>0, <1>1, <1>a, CoFacts DEF Moves, Shape, Has, Pcs, AddPc, BeforeAtoms, DelPc, BatPc
<1>b. failures' \in 0 .. MaxFailures
  BY <1>1, FailFacts DEF AddAtomsFails
<1>3. StoresMove(o)
  BY <1>0, <1>1, <1>b, CoFacts DEF StoresMove, StoresTyped, BoundsTyped
<1>c. co'[o].todo \subseteq Atoms
  BY <1>a DEF CoType
<1>4. AtomsOf(o)'
  BY <1>0, <1>1, <1>a, <1>c, CoFacts DEF AtomsOf, NoAtoms, Pcs, AddPc, BeforeAtoms
<1>5. SafeInv => AddKeeps(o)
  BY <1>0, <1>1, <1>a, CoFacts, StageFacts
     DEF AddKeeps, SameStores, Stage, Shape, Indexes, Unsettled, Pcs, AddPc, BeforeAtoms, DelPc, BatPc
<1> QED  BY <1>0, <1>2, <1>3, <1>4, <1>5, AddStep DEF AddPc, BeforeAtoms

LEMMA AddSingleInv == ASSUME IInv, NEW o \in Ops, NEW a \in Atoms, NEW ok \in BOOLEAN, AddSingle(o, a, ok) PROVE IInv'
<1>0. /\ co[o].pc = "single" /\ a \in co[o].todo
      /\ UNCHANGED <<used, engine, queue, rep, crashes, cancels, docs, vec, bm25, graph, gatoms, row>>
  BY DEF AddSingle, Step, repair
<1>1. BaseInv
  BY DEF IInv
<1>a. /\ co' \in [Ops -> CoType] /\ co'[o].pc = "single" /\ co'[o].mems = co[o].mems
      /\ co'[o].backup = co[o].backup /\ co'[o].logged = co[o].logged /\ co'[o].todo = co[o].todo \ {a}
      /\ \A p \in Ops \ {o} : co'[p] = co[p]
  <2> DEFINE f == IF ok THEN co[o].failed ELSE co[o].failed \cup {a}
  <2> DEFINE c == [co[o] EXCEPT !.todo = co[o].todo \ {a}, !.failed = f]
  <2>1. /\ c \in CoType /\ c.pc = co[o].pc /\ c.mems = co[o].mems /\ c.backup = co[o].backup
        /\ c.logged = co[o].logged /\ c.todo = co[o].todo \ {a}
    BY <1>1, CoFacts DEF CoType
  <2>2. co' = [co EXCEPT ![o] = c]
    BY <1>1, CoFacts DEF AddSingle, CoType
  <2> HIDE DEF c
  <2> QED  BY <1>0, <1>1, <2>1, <2>2, CoFacts
<1>2. Moves(o)
  BY <1>0, <1>1, <1>a, CoFacts DEF Moves, Shape, Has, Pcs, AddPc, BeforeAtoms, DelPc, BatPc
<1>b. failures' \in 0 .. MaxFailures
  BY <1>1, FailFacts DEF AddSingle
<1>c. row[o].type = "add" /\ co[o].mems \subseteq Mems /\ \A m \in co[o].mems, b \in co[o].todo : atoms[m][b] = 0
  BY <1>0, <1>1, CoFacts DEF Shape, AtomsOf, AddPc, BeforeAtoms, CoType
<1>d. /\ atoms' \in [Mems -> [Atoms -> Nat]]
      /\ \A m \in Mems \ co[o].mems : atoms'[m] = atoms[m]
      /\ \A m \in co[o].mems : atoms'[m][a] <= 1 /\ \A b \in Atoms \ {a} : atoms'[m][b] = atoms[m][b]
  <2>1. CASE ok
    <3>1. atoms' = [m \in Mems |-> IF m \in co[o].mems THEN [atoms[m] EXCEPT ![a] = @ + 1] ELSE atoms[m]]
      BY <2>1 DEF AddSingle
    <3> QED  BY <1>0, <1>1, <1>c, <3>1, CoFacts DEF StoresTyped
  <2>2. CASE ~ok
    BY <1>1, <1>c, <2>2, CoFacts DEF AddSingle, StoresTyped
  <2> QED  BY <2>1, <2>2
<1>3. StoresMove(o)
  BY <1>0, <1>1, <1>b, <1>c, <1>d, CoFacts DEF StoresMove, StoresTyped, BoundsTyped
<1>4. AtomsOf(o)'
  <2>1. co[o].todo \subseteq Atoms
    BY <1>1, CoFacts DEF CoType
  <2> QED  BY <1>0, <1>a, <1>c, <1>d, <2>1 DEF AtomsOf, BeforeAtoms
<1>5. SafeInv => AddKeeps(o)
  BY <1>0, <1>1, <1>a, <1>d, CoFacts, StageFacts
     DEF AddKeeps, SameStores, Stage, Shape, Indexes, Unsettled, Pcs, AddPc, BeforeAtoms, DelPc, BatPc
<1> QED  BY <1>0, <1>2, <1>3, <1>4, <1>5, AddStep DEF AddPc, BeforeAtoms

LEMMA AddSinglesLogInv == ASSUME IInv, NEW o \in Ops, AddSinglesLog(o) PROVE IInv'
<1>0. /\ co[o].pc = "single"
      /\ UNCHANGED <<used, engine, queue, rep, crashes, cancels, failures, docs, vec, bm25, graph, gatoms, atoms>>
  BY DEF AddSinglesLog, Step, repair, stores
<1>1. BaseInv
  BY DEF IInv
<1>a. /\ co' \in [Ops -> CoType] /\ co'[o].pc = "graph" /\ co'[o].mems = co[o].mems
      /\ co'[o].backup = co[o].backup /\ co'[o].logged = co[o].logged
      /\ \A p \in Ops \ {o} : co'[p] = co[p]
  <2> DEFINE c == [co[o] EXCEPT !.pc = "graph", !.bad = (co[o].failed # {})]
  <2>1. /\ c \in CoType /\ c.pc = "graph" /\ c.mems = co[o].mems /\ c.backup = co[o].backup
        /\ c.logged = co[o].logged
    BY <1>1, CoFacts, ZenonT(40) DEF CoType
  <2>2. co' = [co EXCEPT ![o] = c]
    BY <1>1, CoFacts DEF AddSinglesLog, CoType
  <2> HIDE DEF c
  <2> QED  BY <1>0, <1>1, <2>1, <2>2, CoFacts
<1>b. /\ row' \in [Ops -> RowType] /\ row'[o].type = row[o].type /\ row'[o].mems = row[o].mems
      /\ row'[o].status \in (IF co[o].logged THEN Unsettled ELSE {row[o].status})
      /\ \A p \in Ops \ {o} : row'[p] = row[p]
  <2>1. CASE co[o].failed = {}
    <3>1. Log(o, Logged(row[o], "pending", FALSE))
      BY <2>1 DEF AddSinglesLog
    <3> QED  BY <1>1, <3>1, LogStep DEF Unsettled
  <2>2. CASE co[o].failed # {}
    <3> DEFINE L == Logged(row[o], "needs_repair", TRUE)
    <3>1. L \in RowType /\ L.status = "needs_repair" /\ L.type = row[o].type /\ L.mems = row[o].mems
      BY <1>1, CoFacts, LoggedType, ZenonT(40) DEF Unsettled
    <3> HIDE DEF L
    <3> DEFINE r == [L EXCEPT !.failed = co[o].failed]
    <3>2. r \in RowType /\ r.status = "needs_repair" /\ r.type = row[o].type /\ r.mems = row[o].mems
      BY <1>1, <3>1, CoFacts DEF RowType, CoType
    <3>3. Log(o, r)
      BY <2>2 DEF AddSinglesLog, L
    <3> HIDE DEF r
    <3> QED  BY <1>1, <3>2, <3>3, LogFacts DEF Unsettled
  <2> QED  BY <2>1, <2>2
<1>2. Moves(o)
  BY <1>0, <1>1, <1>a, <1>b, CoFacts DEF Moves, Shape, Has, Unsettled, Pcs, AddPc, BeforeAtoms, DelPc, BatPc
<1>3. StoresMove(o)
  BY <1>0, <1>1, CoFacts DEF StoresMove, StoresTyped, BoundsTyped
<1>4. AtomsOf(o)'
  BY <1>a DEF AtomsOf, BeforeAtoms
<1>5. SafeInv => AddKeeps(o)
  BY <1>0, <1>1, <1>a, <1>b, CoFacts, StageFacts
     DEF AddKeeps, SameStores, Stage, Shape, Indexes, Unsettled, Pcs, AddPc, BeforeAtoms, DelPc, BatPc
<1> QED  BY <1>0, <1>2, <1>3, <1>4, <1>5, AddStep DEF AddPc, BeforeAtoms

LEMMA AddGraphInv == ASSUME IInv, NEW o \in Ops, AddGraph(o) PROVE IInv'
<1>0. /\ co[o].pc = "graph" /\ Goto(o, "end") /\ Indexed(co[o].mems, Atoms)
      /\ UNCHANGED <<used, engine, queue, rep, crashes, cancels, failures, docs, vec, bm25, atoms>>
  BY DEF AddGraph, Step, repair
<1>1. BaseInv
  BY DEF IInv
<1>b. /\ row' \in [Ops -> RowType] /\ row'[o].type = row[o].type /\ row'[o].mems = row[o].mems
      /\ row'[o].status \in (IF co[o].logged THEN Unsettled ELSE {row[o].status})
      /\ \A p \in Ops \ {o} : row'[p] = row[p]
  <2>1. CASE co[o].bad
    <3>1. Log(o, Logged(row[o], "needs_repair", FALSE))
      BY <2>1 DEF AddGraph
    <3> QED  BY <1>1, <3>1, LogStep DEF Unsettled
  <2>2. CASE ~co[o].bad
    <3>1. Log(o, Logged(row[o], "pending", FALSE))
      BY <2>2 DEF AddGraph
    <3> QED  BY <1>1, <3>1, LogStep DEF Unsettled
  <2> QED  BY <2>1, <2>2
<1>2. Moves(o)
  BY <1>0, <1>1, <1>b, GotoFacts, CoFacts, SMTT(30) DEF Moves, Shape, Has, Unsettled, Pcs, AddPc, BeforeAtoms, DelPc, BatPc
<1>3. StoresMove(o)
  BY <1>0, <1>1, CoFacts DEF StoresMove, StoresTyped, BoundsTyped, Indexed
<1>4. AtomsOf(o)'
  BY <1>0, <1>1, GotoFacts DEF AtomsOf, Pcs, AddPc, BeforeAtoms
<1>c. SafeInv => \A m \in co[o].mems : m \in docs /\ m \in vec /\ m \in bm25 /\ m \in graph' /\ gatoms'[m] = Atoms
  BY <1>0, <1>1, CoFacts, StageFacts DEF Stage, Indexed, AddPc, BeforeAtoms
<1>d. \A m \in Mems \ co[o].mems : (m \in graph' <=> m \in graph) /\ gatoms'[m] = gatoms[m]
  BY <1>0 DEF Indexed
<1>e. co'[o].pc = "end" /\ co'[o].mems = co[o].mems /\ row[o].mems \subseteq co[o].mems
  BY <1>0, <1>1, GotoFacts, CoFacts DEF Shape, Pcs, AddPc
<1>f. row'[o].status # "completed"
  BY <1>0, <1>1, <1>b, CoFacts DEF Shape, Unsettled, AddPc
<1>5. SafeInv => AddKeeps(o)
  BY <1>0, <1>b, <1>c, <1>d, <1>e, <1>f DEF AddKeeps, SameStores, Stage, Indexes, AddPc, DelPc, BatPc
<1> QED  BY <1>0, <1>2, <1>3, <1>4, <1>5, AddStep DEF AddPc, BeforeAtoms

LEMMA AddGraphFailsInv == ASSUME IInv, NEW o \in Ops, AddGraphFails(o) PROVE IInv'
<1>0. /\ co[o].pc = "graph" /\ (Unindexed(co[o].mems) \/ Indexed(co[o].mems, Atoms))
      /\ UNCHANGED <<used, engine, queue, rep, crashes, cancels, docs, vec, bm25, atoms>>
  BY DEF AddGraphFails, Step, repair
<1>1. BaseInv
  BY DEF IInv
<1>a. /\ co' \in [Ops -> CoType] /\ co'[o].pc = "end" /\ co'[o].mems = co[o].mems /\ co'[o].bad
      /\ co'[o].backup = co[o].backup /\ co'[o].logged = co[o].logged
      /\ \A p \in Ops \ {o} : co'[p] = co[p]
  <2> DEFINE c == [co[o] EXCEPT !.pc = "end", !.bad = TRUE]
  <2>1. /\ c \in CoType /\ c.pc = "end" /\ c.mems = co[o].mems /\ c.backup = co[o].backup
        /\ c.logged = co[o].logged /\ c.bad
    BY <1>1, CoFacts DEF CoType
  <2>2. co' = [co EXCEPT ![o] = c]
    BY <1>1, CoFacts DEF AddGraphFails, CoType
  <2> HIDE DEF c
  <2> QED  BY <1>0, <1>1, <2>1, <2>2, CoFacts
<1>b. /\ row' \in [Ops -> RowType] /\ row'[o].type = row[o].type /\ row'[o].mems = row[o].mems
      /\ row'[o].status \in (IF co[o].logged THEN Unsettled ELSE {row[o].status})
      /\ \A p \in Ops \ {o} : row'[p] = row[p]
  BY <1>1, LogStep DEF AddGraphFails, Unsettled
<1>d. failures' \in 0 .. MaxFailures
  BY <1>1, FailFacts DEF AddGraphFails
<1>2. Moves(o)
  BY <1>0, <1>1, <1>a, <1>b, CoFacts DEF Moves, Shape, Has, Unsettled, Pcs, AddPc, BeforeAtoms, DelPc, BatPc
<1>e. /\ graph' \subseteq used /\ gatoms' \in [Mems -> SUBSET Atoms]
      /\ \A m \in Mems \ co[o].mems : (m \in graph' <=> m \in graph) /\ gatoms'[m] = gatoms[m]
  BY <1>0, <1>1, CoFacts DEF Indexed, Unindexed, StoresTyped
<1>3. StoresMove(o)
  BY <1>0, <1>1, <1>d, <1>e, CoFacts DEF StoresMove, StoresTyped, BoundsTyped
<1>4. AtomsOf(o)'
  BY <1>a DEF AtomsOf, BeforeAtoms
<1>c. SafeInv => \A m \in co[o].mems : m \in docs /\ m \in vec /\ m \in bm25
  BY <1>0, StageFacts DEF Stage, AddPc, BeforeAtoms
<1>5. SafeInv => AddKeeps(o)
  BY <1>0, <1>1, <1>a, <1>b, <1>c, <1>e, CoFacts
     DEF AddKeeps, SameStores, Stage, Shape, Indexes, Unsettled, Pcs, AddPc, BeforeAtoms, DelPc, BatPc
<1> QED  BY <1>0, <1>2, <1>3, <1>4, <1>5, AddStep DEF AddPc, BeforeAtoms

-----------------------------------------------------------------------------
(* delete_memory and batch_delete_memories                                 *)

LEMMA DelFacts ==
  ASSUME BaseInv, NEW o \in Ops, co[o].pc \in DelPc \cup BatPc
  PROVE /\ row[o].mems = co[o].mems /\ co[o].mems \subseteq Mems /\ co[o].pc # "idle"
        /\ row[o].type = (IF co[o].pc \in DelPc THEN "delete" ELSE "batch")
        /\ row[o].status \in (IF co[o].logged THEN Unsettled ELSE {"absent"})
  BY CoFacts DEF Shape, DelPc, BatPc

\* A delete or a batch ends; the log keeps it when it left entries behind.
LEMMA DelEnds ==
  ASSUME IInv, NEW o \in Ops, co[o].pc \in DelPc \cup BatPc, Finish(o), StoresMove(o),
         UNCHANGED <<used, engine, queue, rep>>,
         row' \in [Ops -> RowType], \A p \in Ops \ {o} : row'[p] = row[p],
         row'[o].type = row[o].type, row'[o].mems = row[o].mems,
         \A m \in Mems \ co[o].mems : SameStores(m),
         SafeInv => \A m \in co[o].mems :
           /\ m \in docs' => m \in docs
           /\ m \in graph' => m \in graph
           /\ m \in bm25' => m \in bm25 \/ m \in docs
           /\ m \notin docs' /\ Entries(m)' => row'[o].status \in Unsettled \cup {"absent"}
           /\ row[o].type = "batch" /\ row'[o].status = "completed" => Gone(m)'
  PROVE IInv'
<1>1. BaseInv
  BY DEF IInv
<1>2. /\ co' \in [Ops -> CoType] /\ co'[o] = NoCo /\ \A p \in Ops \ {o} : co'[p] = co[p]
  BY <1>1, FinishFacts
<1>3. Moves(o)
  BY <1>1, <1>2, CoFacts, DelFacts DEF Moves, Shape, Has, NoCo, AddPc, BeforeAtoms, DelPc, BatPc
<1>4. SafeInv => DelKeeps(o)
  BY <1>1, <1>2, DelFacts DEF DelKeeps, StoresMove, NoCo
<1> QED  BY <1>2, <1>3, <1>4, DelStep DEF NoCo, AddPc, BeforeAtoms

LEMMA CancelledInv == ASSUME IInv, NEW o \in Ops, Cancelled(o) PROVE IInv'
<1>1. /\ BaseInv /\ UNCHANGED <<docs, vec, bm25, graph, gatoms, atoms, used, row, engine, queue, rep, crashes, failures>>
      /\ Finish(o) /\ cancels' \in 0 .. MaxCancels /\ failures' \in 0 .. MaxFailures
  BY CoFacts, CancelFacts DEF IInv, Cancelled, stores, repair, BoundsTyped
<1>2. CASE co[o].pc \in AddPc
  <2>1. /\ row[o].type = "add" /\ row[o].mems \subseteq co[o].mems /\ row[o].status # "completed"
        /\ row[o] \in RowType /\ row' = [row EXCEPT ![o] = row[o]]
    BY <1>1, <1>2, CoFacts DEF Shape, Unsettled, AddPc, BeforeAtoms
  <2> QED  BY <1>1, <1>2, <2>1, AddEnds DEF Cancelled, stores
<1>3. CASE co[o].pc \in DelPc \cup BatPc
  <2>1. row' \in [Ops -> RowType] /\ row' = row
    BY <1>1, CoFacts
  <2>2. StoresMove(o)
    BY <1>1, CoFacts DEF StoresMove, StoresTyped, BoundsTyped
  <2>3. row[o].status \in Unsettled \cup {"absent"} /\ row[o].status # "completed"
    BY <1>1, <1>3, DelFacts DEF Unsettled
  <2> QED  BY <1>1, <1>3, <2>1, <2>2, <2>3, DelEnds DEF SameStores
<1> QED  BY <1>1, <1>2, <1>3, CoFacts DEF Cancelled, CoType, AddPc, BeforeAtoms, DelPc, BatPc

LEMMA DelBackupInv == ASSUME IInv, NEW o \in Ops, DelBackup(o) PROVE IInv'
<1>0. /\ BaseInv /\ co[o].pc = "backup" /\ co[o].pc \in DelPc
      /\ UNCHANGED <<used, engine, queue, rep, crashes, cancels, docs, vec, bm25, graph, gatoms, atoms, row>>
  BY DEF IInv, DelBackup, Step, repair, stores, DelPc
<1>1. PICK ok \in BOOLEAN : /\ IF ok THEN UNCHANGED failures ELSE Fails
                            /\ co' = [co EXCEPT ![o].pc = "delBM25",
                                                ![o].backup = IF ok THEN co[o].mems \cap docs ELSE {}]
  BY DEF DelBackup
<1>2. /\ co' \in [Ops -> CoType] /\ co'[o].pc = "delBM25" /\ co'[o].mems = co[o].mems
      /\ co'[o].backup \subseteq co[o].mems /\ co'[o].logged = co[o].logged
      /\ \A p \in Ops \ {o} : co'[p] = co[p]
  <2> DEFINE b == IF ok THEN co[o].mems \cap docs ELSE {}
  <2> DEFINE c == [co[o] EXCEPT !.pc = "delBM25", !.backup = b]
  <2>0. b \subseteq co[o].mems
    OBVIOUS
  <2>1. /\ c \in CoType /\ c.pc = "delBM25" /\ c.mems = co[o].mems /\ c.backup = b
        /\ c.logged = co[o].logged
    BY <1>0, <2>0, CoFacts, ZenonT(40) DEF CoType
  <2>2. co' = [co EXCEPT ![o] = c]
    BY <1>0, <1>1, CoFacts DEF CoType
  <2> HIDE DEF c, b
  <2> QED  BY <1>0, <2>0, <2>1, <2>2, CoFacts
<1>3. Moves(o)
  BY <1>0, <1>2, CoFacts DEF Moves, Shape, Has, AddPc, BeforeAtoms, DelPc, BatPc
<1>4. failures' \in 0 .. MaxFailures
  BY <1>0, <1>1, FailFacts
<1>5. StoresMove(o)
  BY <1>0, <1>4, CoFacts DEF StoresMove, StoresTyped, BoundsTyped
<1>6. SafeInv => DelKeeps(o)
  BY <1>0, <1>2, DelFacts, StageFacts DEF DelKeeps, SameStores, Stage, Entries, Unsettled, AddPc, BeforeAtoms, DelPc, BatPc
<1> QED  BY <1>0, <1>2, <1>3, <1>5, <1>6, DelStep DEF AddPc, BeforeAtoms

LEMMA DelBM25Inv == ASSUME IInv, NEW o \in Ops, DelBM25(o) PROVE IInv'
<1>0. /\ BaseInv /\ co[o].pc = "delBM25" /\ co[o].pc \in DelPc /\ Goto(o, "delDoc") /\ bm25' = bm25 \ co[o].mems
      /\ UNCHANGED <<used, engine, queue, rep, crashes, cancels, failures, docs, vec, graph, gatoms, atoms, row>>
  BY DEF IInv, DelBM25, Step, repair, DelPc
<1>2. co'[o].pc = "delDoc" /\ co'[o].mems = co[o].mems
  BY <1>0, GotoFacts DEF Pcs, DelPc
<1>3. Moves(o)
  BY <1>0, GotoFacts, CoFacts DEF Moves, Shape, Has, Pcs, AddPc, BeforeAtoms, DelPc, BatPc
<1>5. StoresMove(o)
  BY <1>0, CoFacts DEF StoresMove, StoresTyped, BoundsTyped
<1>6. SafeInv => DelKeeps(o)
  BY <1>0, <1>2, DelFacts, StageFacts DEF DelKeeps, SameStores, Stage, Entries, Unsettled, AddPc, BeforeAtoms, DelPc, BatPc
<1> QED  BY <1>0, <1>2, <1>3, <1>5, <1>6, DelStep DEF AddPc, BeforeAtoms

LEMMA DelBM25FailsInv == ASSUME IInv, NEW o \in Ops, DelBM25Fails(o) PROVE IInv'
<1>0. /\ BaseInv /\ co[o].pc = "delBM25" /\ co[o].pc \in DelPc
      /\ UNCHANGED <<used, engine, queue, rep, crashes, cancels, docs, vec, bm25, graph, gatoms, atoms>>
  BY DEF IInv, DelBM25Fails, Step, repair, stores, DelPc
<1>1. /\ row' \in [Ops -> RowType] /\ row'[o].type = row[o].type /\ row'[o].mems = row[o].mems
      /\ \A p \in Ops \ {o} : row'[p] = row[p]
  BY <1>0, LogStep DEF DelBM25Fails, Settled
<1>4. failures' \in 0 .. MaxFailures
  BY <1>0, FailFacts DEF DelBM25Fails
<1>5. StoresMove(o)
  BY <1>0, <1>4, CoFacts DEF StoresMove, StoresTyped, BoundsTyped
<1>6. SafeInv => \A m \in co[o].mems : m \in docs
  BY <1>0, StageFacts DEF Stage
<1> QED  BY <1>0, <1>1, <1>5, <1>6, DelFacts, DelEnds DEF DelBM25Fails, SameStores

LEMMA DelDocInv == ASSUME IInv, NEW o \in Ops, DelDoc(o) PROVE IInv'
<1>0. /\ BaseInv /\ co[o].pc = "delDoc" /\ co[o].pc \in DelPc /\ Goto(o, "delGraph")
      /\ docs' = docs \ co[o].mems /\ vec' = vec \ co[o].mems
      /\ UNCHANGED <<used, engine, queue, rep, crashes, cancels, failures, bm25, graph, gatoms, atoms, row>>
  BY DEF IInv, DelDoc, Step, repair, DelPc
<1>2. co'[o].pc = "delGraph" /\ co'[o].mems = co[o].mems
  BY <1>0, GotoFacts DEF Pcs, DelPc
<1>3. Moves(o)
  BY <1>0, GotoFacts, CoFacts DEF Moves, Shape, Has, Pcs, AddPc, BeforeAtoms, DelPc, BatPc
<1>5. StoresMove(o)
  BY <1>0, CoFacts DEF StoresMove, StoresTyped, BoundsTyped
<1>6. SafeInv => DelKeeps(o)
  BY <1>0, <1>2, DelFacts, StageFacts DEF DelKeeps, SameStores, Stage, Entries, Unsettled, AddPc, BeforeAtoms, DelPc, BatPc
<1> QED  BY <1>0, <1>2, <1>3, <1>5, <1>6, DelStep DEF AddPc, BeforeAtoms

LEMMA DelDocFailsInv == ASSUME IInv, NEW o \in Ops, DelDocFails(o) PROVE IInv'
<1>0. /\ BaseInv /\ co[o].pc = "delDoc" /\ co[o].pc \in DelPc /\ bm25' = bm25 \cup co[o].backup
      /\ UNCHANGED <<used, engine, queue, rep, crashes, cancels, docs, vec, graph, gatoms, atoms>>
  BY DEF IInv, DelDocFails, Step, repair, DelPc
<1>1. /\ row' \in [Ops -> RowType] /\ row'[o].type = row[o].type /\ row'[o].mems = row[o].mems
      /\ \A p \in Ops \ {o} : row'[p] = row[p]
  BY <1>0, LogStep DEF DelDocFails, Settled
<1>4. failures' \in 0 .. MaxFailures
  BY <1>0, FailFacts DEF DelDocFails
<1>5. StoresMove(o)
  BY <1>0, <1>4, CoFacts DEF StoresMove, StoresTyped, BoundsTyped
<1>6. SafeInv => \A m \in co[o].mems : m \in docs
  BY <1>0, StageFacts DEF Stage
<1>7. co[o].backup \subseteq co[o].mems
  BY <1>0, CoFacts
<1> QED  BY <1>0, <1>1, <1>5, <1>6, <1>7, DelFacts, DelEnds DEF DelDocFails, SameStores

LEMMA DelGraphInv == ASSUME IInv, NEW o \in Ops, NEW ok \in BOOLEAN, DelGraph(o, ok) PROVE IInv'
<1>0. /\ BaseInv /\ co[o].pc = "delGraph" /\ co[o].pc \in DelPc
      /\ UNCHANGED <<used, engine, queue, rep, crashes, cancels, docs, vec, bm25, atoms>>
  BY DEF IInv, DelGraph, Step, repair, DelPc
<1>1. /\ co' \in [Ops -> CoType] /\ co'[o].pc = "delAtoms" /\ co'[o].mems = co[o].mems
      /\ co'[o].backup = co[o].backup /\ co'[o].logged = co[o].logged
      /\ ~ok => co'[o].bad
      /\ \A p \in Ops \ {o} : co'[p] = co[p]
  <2>1. CASE ok
    BY <1>0, <2>1, GotoFacts DEF DelGraph, Pcs, DelPc
  <2>2. CASE ~ok
    <3> DEFINE c == [co[o] EXCEPT !.pc = "delAtoms", !.bad = TRUE]
    <3>1. /\ c \in CoType /\ c.pc = "delAtoms" /\ c.mems = co[o].mems /\ c.backup = co[o].backup
          /\ c.logged = co[o].logged /\ c.bad
      BY <1>0, CoFacts DEF CoType
    <3>2. co' = [co EXCEPT ![o] = c]
      BY <1>0, <2>2, CoFacts DEF DelGraph, CoType
    <3> HIDE DEF c
    <3> QED  BY <1>0, <3>1, <3>2, CoFacts
  <2> QED  BY <2>1, <2>2
<1>2. /\ row' \in [Ops -> RowType] /\ row'[o].type = row[o].type /\ row'[o].mems = row[o].mems
      /\ row'[o].status \in (IF co[o].logged THEN Unsettled ELSE {row[o].status})
      /\ \A p \in Ops \ {o} : row'[p] = row[p]
  <2>1. CASE ok
    BY <1>0, <2>1, LogStep DEF DelGraph, Unsettled
  <2>2. CASE ~ok
    BY <1>0, <2>2, LogStep DEF DelGraph, Unsettled
  <2> QED  BY <2>1, <2>2
<1>3. /\ UNCHANGED <<graph, gatoms>> \/ Unindexed(co[o].mems)
      /\ ok => Unindexed(co[o].mems)
      /\ failures' \in 0 .. MaxFailures
  BY <1>0, FailFacts DEF DelGraph
<1>4. Moves(o)
  BY <1>0, <1>1, <1>2, CoFacts DEF Moves, Shape, Has, Unsettled, AddPc, BeforeAtoms, DelPc, BatPc
<1>5. /\ graph' \subseteq graph /\ gatoms' \in [Mems -> SUBSET Atoms]
      /\ \A m \in Mems \ co[o].mems : (m \in graph' <=> m \in graph) /\ gatoms'[m] = gatoms[m]
      /\ ok => \A m \in co[o].mems : m \notin graph'
  BY <1>0, <1>3, CoFacts DEF Unindexed, StoresTyped
<1>6. StoresMove(o)
  BY <1>0, <1>3, <1>5, CoFacts DEF StoresMove, StoresTyped, BoundsTyped
<1>7. row'[o].status \in Unsettled \cup {"absent"} /\ row'[o].status # "completed"
  BY <1>0, <1>2, DelFacts DEF Unsettled
<1>8. SafeInv => \A m \in co[o].mems : m \notin docs
  BY <1>0, StageFacts DEF Stage
<1>9. SafeInv => DelKeeps(o)
  BY <1>0, <1>1, <1>5, <1>7, <1>8, DelFacts DEF DelKeeps, SameStores, Stage, AddPc, BeforeAtoms, DelPc, BatPc
<1> QED  BY <1>0, <1>1, <1>2, <1>4, <1>6, <1>9, DelStep DEF AddPc, BeforeAtoms

LEMMA DelAtomsInv == ASSUME IInv, NEW o \in Ops, NEW ok \in BOOLEAN, DelAtoms(o, ok) PROVE IInv'
<1>0. /\ BaseInv /\ co[o].pc = "delAtoms" /\ co[o].pc \in DelPc
      /\ UNCHANGED <<used, engine, queue, rep, crashes, cancels, docs, vec, bm25, graph, gatoms>>
  BY DEF IInv, DelAtoms, Step, repair, DelPc
<1>1. /\ co' \in [Ops -> CoType] /\ co'[o].pc = "delEnd" /\ co'[o].mems = co[o].mems
      /\ co'[o].backup = co[o].backup /\ co'[o].logged = co[o].logged
      /\ co'[o].bad = (~ok \/ co[o].bad)
      /\ \A p \in Ops \ {o} : co'[p] = co[p]
  <2>1. CASE ok
    <3>1. Goto(o, "delEnd") /\ co[o].bad \in BOOLEAN
      BY <1>0, <2>1, CoFacts DEF DelAtoms, CoType
    <3> QED  BY <1>0, <2>1, <3>1, GotoFacts DEF Pcs, DelPc
  <2>2. CASE ~ok
    <3> DEFINE c == [co[o] EXCEPT !.pc = "delEnd", !.bad = TRUE]
    <3>1. /\ c \in CoType /\ c.pc = "delEnd" /\ c.mems = co[o].mems /\ c.backup = co[o].backup
          /\ c.logged = co[o].logged /\ c.bad = TRUE
      BY <1>0, CoFacts DEF CoType
    <3>2. co' = [co EXCEPT ![o] = c]
      BY <1>0, <2>2, CoFacts DEF DelAtoms, CoType
    <3> HIDE DEF c
    <3> QED  BY <1>0, <2>2, <3>1, <3>2, CoFacts
  <2> QED  BY <2>1, <2>2
<1>2. /\ row' \in [Ops -> RowType] /\ row'[o].type = row[o].type /\ row'[o].mems = row[o].mems
      /\ row'[o].status \in (IF co[o].logged THEN Unsettled ELSE {row[o].status})
      /\ \A p \in Ops \ {o} : row'[p] = row[p]
  <2>1. CASE ok
    BY <1>0, <2>1, LogStep DEF DelAtoms, Unsettled
  <2>2. CASE ~ok
    BY <1>0, <2>2, LogStep DEF DelAtoms, Unsettled
  <2> QED  BY <2>1, <2>2
<1>3. /\ UNCHANGED atoms \/ WithoutAtoms(co[o].mems)
      /\ ok => WithoutAtoms(co[o].mems)
      /\ failures' \in 0 .. MaxFailures
  BY <1>0, FailFacts DEF DelAtoms
<1>4. Moves(o)
  BY <1>0, <1>1, <1>2, CoFacts DEF Moves, Shape, Has, Unsettled, AddPc, BeforeAtoms, DelPc, BatPc
<1>5. /\ atoms' \in [Mems -> [Atoms -> Nat]]
      /\ \A m \in Mems : atoms'[m] \in {atoms[m], NoAtoms}
      /\ \A m \in Mems \ co[o].mems : atoms'[m] = atoms[m]
      /\ ok => \A m \in co[o].mems : atoms'[m] = NoAtoms
  BY <1>0, <1>3, CoFacts, DelFacts, NullsTyped DEF WithoutAtoms, StoresTyped
<1>6. StoresMove(o)
  <2>1. \A m \in Mems, a \in Atoms : atoms'[m][a] <= 1
    BY <1>0, <1>5, CoFacts DEF NoAtoms
  <2> QED  BY <1>0, <1>3, <1>5, <2>1, CoFacts DEF StoresMove, StoresTyped, BoundsTyped
<1>7. row'[o].status \in Unsettled \cup {"absent"} /\ row'[o].status # "completed"
  BY <1>0, <1>2, DelFacts DEF Unsettled
<1>8. SafeInv => \A m \in co[o].mems : m \notin docs /\ (~co[o].bad => m \notin graph)
  BY <1>0, StageFacts DEF Stage
<1>9. SafeInv => DelKeeps(o)
  <2>1. co[o].bad \in BOOLEAN
    BY <1>0, CoFacts DEF CoType
  <2> QED  BY <1>0, <1>1, <1>5, <1>7, <1>8, <2>1, DelFacts DEF DelKeeps, SameStores, Stage, AddPc, BeforeAtoms, DelPc, BatPc
<1> QED  BY <1>0, <1>1, <1>2, <1>4, <1>6, <1>9, DelStep DEF AddPc, BeforeAtoms

LEMMA DelEndInv == ASSUME IInv, NEW o \in Ops, DelEnd(o) PROVE IInv'
<1>0. /\ BaseInv /\ co[o].pc = "delEnd" /\ co[o].pc \in DelPc
      /\ UNCHANGED <<used, engine, queue, rep, crashes, cancels, failures, docs, vec, bm25, graph, gatoms, atoms>>
  BY DEF IInv, DelEnd, Step, repair, stores, DelPc
<1>1. /\ row' \in [Ops -> RowType] /\ row'[o].type = row[o].type /\ row'[o].mems = row[o].mems
      /\ row'[o].status # row[o].status => ~co[o].bad
      /\ \A p \in Ops \ {o} : row'[p] = row[p]
  <2>1. CASE co[o].bad
    BY <1>0, <2>1, CoFacts DEF DelEnd
  <2>2. CASE ~co[o].bad
    BY <1>0, <2>2, LogStep DEF DelEnd, Settled
  <2> QED  BY <2>1, <2>2
<1>5. StoresMove(o)
  BY <1>0, CoFacts DEF StoresMove, StoresTyped, BoundsTyped
<1>6. SafeInv => \A m \in co[o].mems : ~co[o].bad => m \notin graph /\ atoms[m] = NoAtoms
  BY <1>0, StageFacts DEF Stage
<1>7. row[o].status \in Unsettled \cup {"absent"} /\ row[o].type = "delete"
  BY <1>0, DelFacts
<1> QED  BY <1>0, <1>1, <1>5, <1>6, <1>7, DelFacts, DelEnds DEF DelEnd, SameStores, Entries

LEMMA BatBM25Inv == ASSUME IInv, NEW o \in Ops, BatBM25(o) PROVE IInv'
<1>0. /\ BaseInv /\ co[o].pc = "batBM25" /\ co[o].pc \in BatPc /\ Goto(o, "batVec") /\ bm25' = bm25 \ co[o].mems
      /\ UNCHANGED <<used, engine, queue, rep, crashes, cancels, failures, docs, vec, graph, gatoms, atoms, row>>
  BY DEF IInv, BatBM25, Step, repair, BatPc
<1>1. co'[o].pc = "batVec" /\ co'[o].mems = co[o].mems
  BY <1>0, GotoFacts DEF Pcs, BatPc
<1>2. Moves(o)
  BY <1>0, GotoFacts, CoFacts DEF Moves, Shape, Has, Pcs, AddPc, BeforeAtoms, DelPc, BatPc
<1>3. StoresMove(o)
  BY <1>0, CoFacts DEF StoresMove, StoresTyped, BoundsTyped
<1>4. row[o].status \in Unsettled \cup {"absent"} /\ row[o].status # "completed"
  BY <1>0, DelFacts DEF Unsettled
<1>5. SafeInv => DelKeeps(o)
  BY <1>0, <1>1, <1>4, DelFacts DEF DelKeeps, SameStores, Stage, AddPc, BeforeAtoms, DelPc, BatPc
<1> QED  BY <1>0, <1>1, <1>2, <1>3, <1>5, DelStep DEF AddPc, BeforeAtoms

LEMMA BatVecInv == ASSUME IInv, NEW o \in Ops, BatVec(o) PROVE IInv'
<1> DEFINE found == co[o].mems \cap docs
<1>0. /\ BaseInv /\ co[o].pc = "batVec" /\ co[o].pc \in BatPc /\ Goto(o, "batDoc")
      /\ UNCHANGED <<used, engine, queue, rep, crashes, cancels, bm25, graph, gatoms, atoms, row>>
  BY DEF IInv, BatVec, Step, repair, BatPc
<1>a. PICK left \in SUBSET found : /\ IF left = {} THEN UNCHANGED failures ELSE Fails
                                   /\ vec' = vec \ (found \ left) /\ docs' = docs \ (found \ left)
  BY DEF BatVec
<1>1. co'[o].pc = "batDoc" /\ co'[o].mems = co[o].mems
  BY <1>0, GotoFacts DEF Pcs, BatPc
<1>2. Moves(o)
  BY <1>0, GotoFacts, CoFacts DEF Moves, Shape, Has, Pcs, AddPc, BeforeAtoms, DelPc, BatPc
<1>b. failures' \in 0 .. MaxFailures
  BY <1>0, <1>a, FailFacts
<1>3. StoresMove(o)
  BY <1>0, <1>a, <1>b, CoFacts DEF StoresMove, StoresTyped, BoundsTyped
<1>4. row[o].status \in Unsettled \cup {"absent"} /\ row[o].status # "completed"
  BY <1>0, DelFacts DEF Unsettled
<1>5. SafeInv => DelKeeps(o)
  BY <1>0, <1>a, <1>1, <1>4, DelFacts, StageFacts DEF DelKeeps, SameStores, Stage, AddPc, BeforeAtoms, DelPc, BatPc
<1> QED  BY <1>0, <1>1, <1>2, <1>3, <1>5, DelStep DEF AddPc, BeforeAtoms

LEMMA BatDocInv == ASSUME IInv, NEW o \in Ops, BatDoc(o) PROVE IInv'
<1>0. /\ BaseInv /\ co[o].pc = "batDoc" /\ co[o].pc \in BatPc /\ Goto(o, "batGraph") /\ docs' = docs \ co[o].mems
      /\ UNCHANGED <<used, engine, queue, rep, crashes, cancels, failures, vec, bm25, graph, gatoms, atoms, row>>
  BY DEF IInv, BatDoc, Step, repair, BatPc
<1>1. co'[o].pc = "batGraph" /\ co'[o].mems = co[o].mems
  BY <1>0, GotoFacts DEF Pcs, BatPc
<1>2. Moves(o)
  BY <1>0, GotoFacts, CoFacts DEF Moves, Shape, Has, Pcs, AddPc, BeforeAtoms, DelPc, BatPc
<1>3. StoresMove(o)
  BY <1>0, CoFacts DEF StoresMove, StoresTyped, BoundsTyped
<1>4. row[o].status \in Unsettled \cup {"absent"} /\ row[o].status # "completed"
  BY <1>0, DelFacts DEF Unsettled
<1>5. SafeInv => DelKeeps(o)
  BY <1>0, <1>1, <1>4, DelFacts, StageFacts DEF DelKeeps, SameStores, Stage, AddPc, BeforeAtoms, DelPc, BatPc
<1> QED  BY <1>0, <1>1, <1>2, <1>3, <1>5, DelStep DEF AddPc, BeforeAtoms

LEMMA BatGraphInv == ASSUME IInv, NEW o \in Ops, BatGraph(o) PROVE IInv'
<1>0. /\ BaseInv /\ co[o].pc = "batGraph" /\ co[o].pc \in BatPc /\ Goto(o, "batAtoms") /\ Unindexed(co[o].mems)
      /\ UNCHANGED <<used, engine, queue, rep, crashes, cancels, failures, docs, vec, bm25, atoms, row>>
  BY DEF IInv, BatGraph, Step, repair, BatPc
<1>1. co'[o].pc = "batAtoms" /\ co'[o].mems = co[o].mems
  BY <1>0, GotoFacts DEF Pcs, BatPc
<1>2. Moves(o)
  BY <1>0, GotoFacts, CoFacts DEF Moves, Shape, Has, Pcs, AddPc, BeforeAtoms, DelPc, BatPc
<1>3. StoresMove(o)
  BY <1>0, CoFacts DEF StoresMove, StoresTyped, BoundsTyped, Unindexed
<1>4. row[o].status \in Unsettled \cup {"absent"} /\ row[o].status # "completed"
  BY <1>0, DelFacts DEF Unsettled
<1>5. SafeInv => DelKeeps(o)
  BY <1>0, <1>1, <1>4, DelFacts, StageFacts DEF DelKeeps, SameStores, Stage, Unindexed, AddPc, BeforeAtoms, DelPc, BatPc
<1> QED  BY <1>0, <1>1, <1>2, <1>3, <1>5, DelStep DEF AddPc, BeforeAtoms

LEMMA BatAtomsInv == ASSUME IInv, NEW o \in Ops, BatAtoms(o) PROVE IInv'
<1>0. /\ BaseInv /\ co[o].pc = "batAtoms" /\ co[o].pc \in BatPc /\ WithoutAtoms(co[o].mems)
      /\ UNCHANGED <<used, engine, queue, rep, crashes, cancels, failures, docs, vec, bm25, graph, gatoms>>
  BY DEF IInv, BatAtoms, Step, repair, BatPc
<1>1. /\ row' \in [Ops -> RowType] /\ row'[o].type = row[o].type /\ row'[o].mems = row[o].mems
      /\ \A p \in Ops \ {o} : row'[p] = row[p]
  BY <1>0, LogStep DEF BatAtoms, Settled
<1>2. /\ atoms' \in [Mems -> [Atoms -> Nat]]
      /\ \A m \in Mems : atoms'[m] \in {atoms[m], NoAtoms}
      /\ \A m \in Mems \ co[o].mems : atoms'[m] = atoms[m]
      /\ \A m \in co[o].mems : atoms'[m] = NoAtoms
  BY <1>0, CoFacts, DelFacts, NullsTyped DEF WithoutAtoms, StoresTyped
<1>3. StoresMove(o)
  <2>1. \A m \in Mems, a \in Atoms : atoms'[m][a] <= 1
    BY <1>0, <1>2, CoFacts DEF NoAtoms
  <2> QED  BY <1>0, <1>2, <2>1, CoFacts DEF StoresMove, StoresTyped, BoundsTyped
<1>4. SafeInv => \A m \in co[o].mems : m \notin docs /\ m \notin bm25 /\ m \notin graph
  BY <1>0, StageFacts DEF Stage, BatPc
<1> QED  BY <1>0, <1>1, <1>2, <1>3, <1>4, DelFacts, DelEnds DEF BatAtoms, SameStores, Entries, Gone

LEMMA BatFailsInv == ASSUME IInv, NEW o \in Ops, BatFails(o) PROVE IInv'
<1>0. /\ BaseInv /\ co[o].pc \in BatPc /\ co[o].pc \notin DelPc
      /\ UNCHANGED <<used, engine, queue, rep, crashes, cancels, docs, vec, bm25, graph, gatoms, atoms>>
  BY DEF IInv, BatFails, Step, repair, stores, BatPc, DelPc
<1>1. /\ row' \in [Ops -> RowType] /\ row'[o].type = row[o].type /\ row'[o].mems = row[o].mems
      /\ row'[o].status \in (IF co[o].logged THEN Unsettled ELSE {row[o].status})
      /\ \A p \in Ops \ {o} : row'[p] = row[p]
  BY <1>0, LogStep DEF BatFails, Unsettled
<1>2. failures' \in 0 .. MaxFailures
  BY <1>0, FailFacts DEF BatFails
<1>3. StoresMove(o)
  BY <1>0, <1>2, CoFacts DEF StoresMove, StoresTyped, BoundsTyped
<1>4. row'[o].status \in Unsettled \cup {"absent"} /\ row'[o].status # "completed"
  BY <1>0, <1>1, DelFacts DEF Unsettled
<1> QED  BY <1>0, <1>1, <1>3, <1>4, DelFacts, DelEnds DEF BatFails, SameStores

-----------------------------------------------------------------------------
(* The operations begin.                                                   *)

Starts(o, type, known, ms, pc) ==
    /\ engine = "ready" /\ row[o] = NoRow /\ co[o] = NoCo
    /\ co' \in [Ops -> CoType] /\ row' \in [Ops -> RowType]
    /\ co'[o].pc = pc /\ co'[o].mems = ms /\ co'[o].backup = {}
    /\ row'[o].type = type /\ row'[o].mems = known
    /\ row'[o].status \in (IF co'[o].logged THEN {"pending"} ELSE {"absent"})
    /\ \A p \in Ops \ {o} : co'[p] = co[p] /\ row'[p] = row[p]
    /\ failures' \in 0 .. MaxFailures
    /\ UNCHANGED <<docs, vec, bm25, graph, gatoms, atoms, engine, queue, rep, crashes, cancels>>

LEMMA StartFacts ==
  ASSUME BaseInv, NEW o \in Ops, NEW type \in {"add", "delete", "batch"}, NEW known \in SUBSET Mems,
         NEW ms \in SUBSET Mems, NEW pc \in Pcs, StartOp(o, type, known, ms, pc)
  PROVE Starts(o, type, known, ms, pc)
<1>0. /\ engine = "ready" /\ row[o] = NoRow /\ co[o] = NoCo
      /\ UNCHANGED <<docs, vec, bm25, graph, gatoms, atoms, engine, queue, rep, crashes, cancels>>
  BY DEF StartOp, stores, repair
<1>1. CASE /\ row' = [row EXCEPT ![o].type = type, ![o].mems = known, ![o].status = "pending"]
           /\ co' = [co EXCEPT ![o] = [NoCo EXCEPT !.pc = pc, !.mems = ms, !.logged = TRUE]]
           /\ UNCHANGED failures
  <2> DEFINE c == [NoCo EXCEPT !.pc = pc, !.mems = ms, !.logged = TRUE]
  <2> DEFINE r == [NoRow EXCEPT !.type = type, !.mems = known, !.status = "pending"]
  <2>1. c \in CoType /\ c.pc = pc /\ c.mems = ms /\ c.backup = {} /\ c.logged
    BY DEF NoCo, CoType, Pcs, AddPc, BeforeAtoms, DelPc, BatPc
  <2>2. r \in RowType /\ r.type = type /\ r.mems = known /\ r.status = "pending"
    BY DEF NoRow, RowType, Unsettled
  <2>3. row' = [row EXCEPT ![o] = r] /\ co' = [co EXCEPT ![o] = c]
    BY <1>0, <1>1, CoFacts DEF RowType
  <2> HIDE DEF c, r
  <2>4. co' \in [Ops -> CoType] /\ co'[o] = c /\ \A p \in Ops \ {o} : co'[p] = co[p]
    BY <2>1, <2>3, CoFacts
  <2>5. row' \in [Ops -> RowType] /\ row'[o] = r /\ \A p \in Ops \ {o} : row'[p] = row[p]
    BY <2>2, <2>3, CoFacts
  <2>6. row'[o].status \in (IF co'[o].logged THEN {"pending"} ELSE {"absent"})
    BY <2>1, <2>2, <2>4, <2>5
  <2>7. failures' \in 0 .. MaxFailures
    BY <1>1, FailFacts
  <2> QED  BY <1>0, <2>1, <2>2, <2>4, <2>5, <2>6, <2>7 DEF Starts
<1>2. CASE /\ Fails
           /\ co' = [co EXCEPT ![o] = [NoCo EXCEPT !.pc = pc, !.mems = ms]]
           /\ row' = [row EXCEPT ![o].type = type, ![o].mems = known]
  <2> DEFINE c == [NoCo EXCEPT !.pc = pc, !.mems = ms]
  <2> DEFINE r == [NoRow EXCEPT !.type = type, !.mems = known]
  <2>1. c \in CoType /\ c.pc = pc /\ c.mems = ms /\ c.backup = {} /\ ~c.logged
    BY DEF NoCo, CoType, Pcs, AddPc, BeforeAtoms, DelPc, BatPc
  <2>2. r \in RowType /\ r.type = type /\ r.mems = known /\ r.status = "absent"
    BY DEF NoRow, RowType
  <2>3. row' = [row EXCEPT ![o] = r] /\ co' = [co EXCEPT ![o] = c]
    BY <1>0, <1>2, CoFacts DEF RowType
  <2> HIDE DEF c, r
  <2>4. co' \in [Ops -> CoType] /\ co'[o] = c /\ \A p \in Ops \ {o} : co'[p] = co[p]
    BY <2>1, <2>3, CoFacts
  <2>5. row' \in [Ops -> RowType] /\ row'[o] = r /\ \A p \in Ops \ {o} : row'[p] = row[p]
    BY <2>2, <2>3, CoFacts
  <2>6. row'[o].status \in (IF co'[o].logged THEN {"pending"} ELSE {"absent"})
    BY <2>1, <2>2, <2>4, <2>5
  <2>7. failures' \in 0 .. MaxFailures
    BY <1>2, FailFacts
  <2> QED  BY <1>0, <2>1, <2>2, <2>4, <2>5, <2>6, <2>7 DEF Starts
<1> QED  BY <1>1, <1>2 DEF StartOp, Fails

LEMMA StartBase ==
  ASSUME BaseInv, NEW o \in Ops, NEW type \in {"add", "delete", "batch"}, NEW known \in SUBSET Mems,
         NEW ms \in SUBSET Mems, NEW pc \in Pcs \ {"idle"}, Starts(o, type, known, ms, pc),
         used \subseteq used', used' \subseteq Mems, known \subseteq ms, ms \subseteq used',
         type = "add" => pc = "doc" /\ known = {} /\ ms \cap used = {},
         type = "delete" => pc \in DelPc /\ known = ms,
         type = "batch" => pc \in BatPc /\ known = ms
  PROVE BaseInv'
<1>0. /\ co \in [Ops -> CoType] /\ row \in [Ops -> RowType] /\ used \subseteq Mems
      /\ co' \in [Ops -> CoType] /\ row' \in [Ops -> RowType] /\ UNCHANGED atoms
      /\ \A p \in Ops : p # o => co'[p] = co[p] /\ row'[p] = row[p]
      /\ \A p \in Ops : co[p].mems \subseteq used /\ row[p].mems \subseteq used
      /\ \A m \in Mems \ used : atoms[m] = NoAtoms
  BY DEF BaseInv, TypeOK, UsedInv, Starts
<1>1. TypeOK'
  BY DEF BaseInv, TypeOK, Starts
<1>2. Shape(co'[o], row'[o])
  BY DEF Starts, Shape, Unsettled, AddPc, BeforeAtoms, DelPc, BatPc
<1>3. ShapeInv'
  BY <1>0, <1>2 DEF BaseInv, ShapeInv
<1>4. UsedInv'
  <2>1. \A p \in Ops : co'[p].backup \subseteq co'[p].mems
    BY <1>0 DEF BaseInv, UsedInv, Starts
  <2>2. \A p \in Ops : co'[p].mems \subseteq used' /\ row'[p].mems \subseteq used'
    BY <1>0 DEF Starts
  <2> QED  BY <1>0, <2>1, <2>2 DEF UsedInv
<1>5. OwnInv'
  <2>1. \A p \in Ops \ {o} : Has(p)' = Has(p) /\ Has(p) \subseteq used
    BY <1>0 DEF Has
  <2>2. row'[o].type = "add" => Has(o)' \cap used = {}
    BY DEF Has, Starts
  <2> QED  BY <1>0, <2>1, <2>2 DEF BaseInv, OwnInv
<1>6. EngineInv'
  BY DEF BaseInv, EngineInv, NoRepair, Starts
<1>7. AtomsInv'
  <2>1. AtomsOf(o)'
    BY <1>0 DEF AtomsOf, Starts, BeforeAtoms, DelPc, BatPc
  <2>2. \A p \in Ops \ {o} : AtomsOf(p)'
    BY <1>0 DEF BaseInv, AtomsInv, AtomsOf
  <2> QED  BY <2>1, <2>2 DEF AtomsInv
<1>8. NoDuplicateAtoms'
  BY <1>0 DEF BaseInv, NoDuplicateAtoms
<1> QED  BY <1>1, <1>3, <1>4, <1>5, <1>6, <1>7, <1>8 DEF BaseInv

LEMMA StartSafe ==
  ASSUME BaseInv, SafeInv, NEW o \in Ops, NEW type \in {"add", "delete", "batch"}, NEW known \in SUBSET Mems,
         NEW ms \in SUBSET Mems, NEW pc \in Pcs \ {"idle"}, Starts(o, type, known, ms, pc),
         used \subseteq used', used' \subseteq Mems, known \subseteq ms, ms \subseteq used',
         type = "add" => pc = "doc" /\ known = {} /\ ms \cap used = {} /\ used' = used \cup ms,
         type # "add" => /\ pc \in {"backup", "batBM25"} /\ ms \subseteq docs /\ used' = used
                         /\ \A p \in Ops : ms \cap co[p].mems = {}
  PROVE SafeInv'
<1>0. /\ docs \subseteq used /\ graph \subseteq used /\ used \subseteq Mems
      /\ \A p \in Ops : p # o => co'[p] = co[p] /\ row'[p] = row[p]
      /\ \A p \in Ops : co[p].mems \subseteq used /\ row[p].mems \subseteq used
      /\ \A m \in Mems \ used : atoms[m] = NoAtoms
      /\ row[o].mems = {} /\ row'[o].status \in {"pending", "absent"} /\ row'[o].mems = known /\ row'[o].type = type
      /\ co'[o].mems = ms /\ co'[o].pc = pc
      /\ UNCHANGED <<docs, vec, bm25, graph, gatoms, atoms>>
  BY DEF BaseInv, TypeOK, UsedInv, Starts, NoRow
<1>1. \A m : DeleteAsked(m) => DeleteAsked(m)'
  BY <1>0 DEF DeleteAsked
<1>2. \A m : DeleteAsked(m)' => DeleteAsked(m) \/ (m \in known /\ type # "add")
  <2> SUFFICES ASSUME NEW m, NEW p \in Ops, row'[p].type \in {"delete", "batch"}, m \in row'[p].mems
               PROVE DeleteAsked(m) \/ (m \in known /\ type # "add")
    BY DEF DeleteAsked
  <2>1. CASE p = o
    BY <1>0, <2>1
  <2>2. CASE p # o
    BY <1>0, <2>2 DEF DeleteAsked
  <2> QED  BY <2>1, <2>2
<1>3. ExclInv'
  BY <1>0 DEF SafeInv, ExclInv
<1>4. UnaskedInv'
  <2> SUFFICES ASSUME NEW p \in Ops, co'[p].pc \in AddPc, NEW m \in co'[p].mems PROVE ~DeleteAsked(m)'
    BY DEF UnaskedInv
  <2>1. CASE p = o
    <3>1. type = "add" /\ m \notin used
      BY <1>0, <2>1 DEF AddPc, BeforeAtoms
    <3> QED  BY <1>0, <1>2, <3>1 DEF DeleteAsked
  <2>2. CASE p # o
    <3>1. ~DeleteAsked(m) /\ m \in used /\ m \in co[p].mems
      BY <1>0, <2>2 DEF SafeInv, UnaskedInv
    <3> QED  BY <1>2, <3>1
  <2> QED  BY <2>1, <2>2
<1>5. StageInv'
  <2>1. \A m \in ms : Stage(o, m)'
    BY <1>0 DEF Stage, AddPc, BeforeAtoms, BatPc
  <2>2. \A p \in Ops \ {o} : \A m \in co[p].mems : Stage(p, m)'
    BY <1>0 DEF SafeInv, StageInv, Stage
  <2> QED  BY <1>0, <2>1, <2>2 DEF StageInv
<1>6. RowInv'
  BY <1>0, <1>1 DEF SafeInv, RowInv, Indexes
<1>7. CompletedAddWhole' /\ BatchDeleteWhole'
  BY <1>0, <1>1 DEF SafeInv, CompletedAddWhole, BatchDeleteWhole, Gone
<1>8. OrphanInv'
  <2> SUFFICES ASSUME NEW m \in used' \ docs, Entries(m) PROVE Held(m)'
    BY <1>0 DEF OrphanInv, Entries
  <2>1. m \in used
    BY <1>0 DEF Entries
  <2>2. Held(m)
    BY <2>1 DEF SafeInv, OrphanInv
  <2> QED  BY <1>0, <2>2 DEF Held
<1>9. RepInv'
  BY DEF BaseInv, EngineInv, Starts, RepInv, NoRepair
<1> QED  BY <1>3, <1>4, <1>5, <1>6, <1>7, <1>8, <1>9 DEF SafeInv

LEMMA StartAddInv == ASSUME IInv, NEW o \in Ops, StartAdd(o) PROVE IInv'
<1>1. PICK m \in Mems \ used : used' = used \cup {m} /\ StartOp(o, "add", {}, {m}, "doc")
  BY DEF StartAdd
<1>2. BaseInv /\ used \subseteq Mems /\ "doc" \in Pcs
  BY CoFacts DEF IInv, Pcs, AddPc, BeforeAtoms
<1>3. Starts(o, "add", {}, {m}, "doc")
  BY <1>1, <1>2, StartFacts
<1>4. BaseInv'
  BY <1>1, <1>2, <1>3, StartBase
<1>5. SafeInv => SafeInv'
  BY <1>1, <1>2, <1>3, StartSafe
<1> QED  BY <1>4, <1>5 DEF IInv

LEMMA StartDeleteInv == ASSUME IInv, NEW o \in Ops, StartDelete(o) PROVE IInv'
<1>1. PICK m \in Deletable : StartOp(o, "delete", {m}, {m}, "backup") /\ UNCHANGED used
  BY DEF StartDelete
<1>2. BaseInv /\ docs \subseteq used /\ used \subseteq Mems /\ m \in docs /\ "backup" \in Pcs /\ "backup" \in DelPc
  BY CoFacts DEF IInv, StoresTyped, Deletable, Pcs, DelPc
<1>3. Starts(o, "delete", {m}, {m}, "backup")
  BY <1>1, <1>2, StartFacts
<1>4. BaseInv'
  BY <1>1, <1>2, <1>3, StartBase
<1>5. ~DeleteInFlight /\ SafeInv => SafeInv'
  <2>1. ~DeleteInFlight => \A p \in Ops : {m} \cap co[p].mems = {}
    BY DEF Deletable
  <2> QED  BY <1>1, <1>2, <1>3, <2>1, StartSafe
<1> QED  BY <1>4, <1>5 DEF IInv

LEMMA StartBatchInv == ASSUME IInv, NEW o \in Ops, StartBatch(o) PROVE IInv'
<1>1. PICK ms \in SUBSET Deletable : StartOp(o, "batch", ms, ms, "batBM25") /\ UNCHANGED used
  BY DEF StartBatch
<1>2. BaseInv /\ docs \subseteq used /\ used \subseteq Mems /\ ms \subseteq docs /\ "batBM25" \in Pcs /\ "batBM25" \in BatPc
  BY CoFacts DEF IInv, StoresTyped, Deletable, Pcs, BatPc
<1>3. Starts(o, "batch", ms, ms, "batBM25")
  BY <1>1, <1>2, StartFacts
<1>4. BaseInv'
  BY <1>1, <1>2, <1>3, StartBase
<1>5. ~DeleteInFlight /\ SafeInv => SafeInv'
  <2>1. ~DeleteInFlight => \A p \in Ops : ms \cap co[p].mems = {}
    BY DEF Deletable
  <2> QED  BY <1>1, <1>2, <1>3, <2>1, StartSafe
<1> QED  BY <1>4, <1>5 DEF IInv

-----------------------------------------------------------------------------
(* Crash, start and replay.                                                *)

LEMMA CrashInv == ASSUME IInv, Crash PROVE IInv'
<1>1. /\ BaseInv /\ co' = [o \in Ops |-> NoCo] /\ engine' = "starting" /\ queue' = {} /\ rep' = NoRepair
      /\ UNCHANGED <<docs, vec, bm25, graph, gatoms, atoms, used, row, failures, cancels>>
      /\ crashes < MaxCrashes /\ crashes' = crashes + 1
  BY DEF IInv, Crash, stores
<1>2. \A o \in Ops : co'[o] = NoCo
  BY <1>1
<1>3. TypeOK'
  BY <1>1, NullsTyped, SagaAssumption DEF BaseInv, TypeOK, NoRepair
<1>4. ShapeInv'
  BY <1>1, <1>2 DEF BaseInv, ShapeInv, Shape, NoCo, AddPc, BeforeAtoms, DelPc, BatPc
<1>5. UsedInv' /\ OwnInv'
  BY <1>1, <1>2 DEF BaseInv, UsedInv, OwnInv, Has, NoCo
<1>6. EngineInv' /\ AtomsInv' /\ NoDuplicateAtoms'
  BY <1>1, <1>2 DEF BaseInv, EngineInv, NoRepair, AtomsInv, AtomsOf, NoCo, NoDuplicateAtoms
<1>7. SafeInv => SafeInv'
  <2> SUFFICES ASSUME SafeInv PROVE SafeInv'
    OBVIOUS
  <2>1. ExclInv' /\ UnaskedInv' /\ StageInv'
    BY <1>2 DEF ExclInv, UnaskedInv, StageInv, NoCo
  <2>2. RowInv' /\ CompletedAddWhole' /\ BatchDeleteWhole'
    BY <1>1 DEF SafeInv, RowInv, DeleteAsked, Indexes, CompletedAddWhole, BatchDeleteWhole, Gone
  <2>3. RepInv' /\ OrphanInv'
    BY <1>1 DEF SafeInv, RepInv, NoRepair, OrphanInv, Entries, Held
  <2> QED  BY <2>1, <2>2, <2>3 DEF SafeInv
<1> QED  BY <1>3, <1>4, <1>5, <1>6, <1>7 DEF IInv, BaseInv

\* What the steps of the start of the engine have in common.
Restarts ==
    /\ engine # "ready" /\ UNCHANGED <<co, used, crashes, cancels>> /\ failures' \in 0 .. MaxFailures
    /\ row' \in [Ops -> RowType]
    /\ \A o \in Ops : /\ row'[o].type = row[o].type /\ row'[o].mems = row[o].mems
                      /\ row[o].type = "none" => row'[o] = row[o]
    /\ StoresTyped' /\ (\A m \in Mems, a \in Atoms : atoms'[m][a] <= 1)
    /\ \A m \in Mems \ used : atoms'[m] = atoms[m]
    /\ engine' = "repairing" \/ (engine' = "ready" /\ queue' = {} /\ rep' = NoRepair)
    /\ queue' \subseteq Ops /\ rep'.ops \subseteq Ops
    /\ rep' \in [pc : {"idle", "addAtoms", "addGraph", "batDocs", "delGraph", "delAtoms", "end"}, ops : SUBSET Ops]
    /\ rep'.pc = "idle" => rep' = NoRepair
    /\ \A o \in queue' \cup rep'.ops : row[o].type # "none"

LEMMA RestartBase ==
  ASSUME BaseInv, Restarts
  PROVE BaseInv'
<1>1. \A o \in Ops : co[o] = NoCo
  BY DEF BaseInv, EngineInv, Restarts
<1>2. TypeOK'
  BY DEF BaseInv, TypeOK, Restarts, StoresTyped
<1>3. ShapeInv'
  BY <1>1 DEF BaseInv, ShapeInv, Shape, Restarts, NoCo, AddPc, BeforeAtoms, DelPc, BatPc
<1>4. UsedInv' /\ OwnInv'
  BY DEF BaseInv, UsedInv, OwnInv, Has, Restarts
<1>5. EngineInv'
  BY <1>1 DEF BaseInv, EngineInv, Restarts
<1>6. AtomsInv' /\ NoDuplicateAtoms'
  BY <1>1 DEF BaseInv, AtomsInv, AtomsOf, NoCo, NoDuplicateAtoms, Restarts
<1> QED  BY <1>2, <1>3, <1>4, <1>5, <1>6 DEF BaseInv

\* A step that changes nothing but the replay itself.
LEMMA OnlyReplay ==
  ASSUME SafeInv, UNCHANGED <<docs, vec, bm25, graph, gatoms, atoms, used, row, co>>, RepInv'
  PROVE SafeInv'
<1>1. ExclInv' /\ UnaskedInv' /\ StageInv'
  BY DEF SafeInv, ExclInv, UnaskedInv, StageInv, Stage, DeleteAsked
<1>2. RowInv' /\ CompletedAddWhole' /\ BatchDeleteWhole'
  BY DEF SafeInv, RowInv, DeleteAsked, Indexes, CompletedAddWhole, BatchDeleteWhole, Gone
<1>3. OrphanInv'
  BY DEF SafeInv, OrphanInv, Entries, Held
<1> QED  BY <1>1, <1>2, <1>3 DEF SafeInv

LEMMA RepFacts ==
  ASSUME BaseInv, UNCHANGED <<docs, vec, bm25, graph, gatoms, atoms, row>>
  PROVE /\ StoresTyped /\ (UNCHANGED used => StoresTyped') /\ row' \in [Ops -> RowType]
        /\ \A m \in Mems, a \in Atoms : atoms'[m][a] <= 1
        /\ failures \in 0 .. MaxFailures
  BY CoFacts DEF BaseInv, TypeOK, NoDuplicateAtoms, StoresTyped

LEMMA RepairQueryInv == ASSUME IInv, RepairQuery PROVE IInv'
<1>1. /\ BaseInv /\ engine = "starting" /\ engine' = "repairing" /\ queue' \subseteq Repairable
      /\ UNCHANGED <<docs, vec, bm25, graph, gatoms, atoms, used, row, co, rep, crashes, failures, cancels>>
  BY DEF IInv, RepairQuery, stores, bounds
<1>2. rep = NoRepair /\ NoRepair.ops = {}
  BY <1>1 DEF BaseInv, EngineInv, NoRepair
<1>3. \A o \in queue' : o \in Ops /\ row[o].status \in Unsettled /\ row[o].type # "none"
  BY <1>1 DEF BaseInv, ShapeInv, Shape, Repairable, NoRow, Unsettled
<1>4. Restarts
  BY <1>1, <1>2, <1>3, RepFacts DEF Restarts, NoRepair
<1>5. RepInv'
  BY <1>1, <1>2, <1>3 DEF RepInv, NoRepair
<1> QED  BY <1>1, <1>4, <1>5, RestartBase, OnlyReplay DEF IInv

LEMMA ReadyInv == ASSUME IInv, Ready PROVE IInv'
<1>1. /\ BaseInv /\ engine = "repairing" /\ queue = {} /\ rep.pc = "idle" /\ engine' = "ready"
      /\ UNCHANGED <<docs, vec, bm25, graph, gatoms, atoms, used, row, co, queue, rep, crashes, failures, cancels>>
  BY DEF IInv, Ready, stores, bounds
<1>2. rep = NoRepair /\ NoRepair.ops = {}
  BY <1>1 DEF BaseInv, EngineInv, NoRepair
<1>3. Restarts
  BY <1>1, <1>2, RepFacts DEF Restarts, NoRepair
<1>4. RepInv'
  BY <1>1, <1>2 DEF RepInv, NoRepair
<1> QED  BY <1>1, <1>3, <1>4, RestartBase, OnlyReplay DEF IInv

LEMMA RepairTakeInv == ASSUME IInv, RepairTake PROVE IInv'
<1>1. /\ BaseInv /\ engine = "repairing" /\ rep.pc = "idle"
      /\ UNCHANGED <<docs, vec, bm25, graph, gatoms, atoms, used, row, co, engine, crashes, failures, cancels>>
  BY DEF IInv, RepairTake, stores, bounds
<1>2. PICK o \in queue :
        /\ ~Unrepairable(o)
        /\ rep' = [pc |-> CASE row[o].type = "add"    -> "addAtoms"
                            [] row[o].type = "delete" -> "delGraph"
                            [] row[o].type = "batch"  -> "batDocs",
                   ops |-> {o}]
        /\ queue' = queue \ {o}
  BY DEF RepairTake
<1>3. /\ o \in Ops /\ row[o].type \in {"add", "delete", "batch"} /\ queue \subseteq Ops
      /\ \A p \in queue : row[p].type # "none"
  BY <1>1, CoFacts DEF BaseInv, TypeOK, EngineInv, RowType
<1>4. /\ rep'.ops = {o}
      /\ row[o].type = "add" => rep'.pc = "addAtoms"
      /\ row[o].type = "delete" => rep'.pc = "delGraph"
      /\ row[o].type = "batch" => rep'.pc = "batDocs"
      /\ rep' = [pc |-> rep'.pc, ops |-> {o}]
  BY <1>2, <1>3
<1>5. Restarts
  BY <1>1, <1>2, <1>3, <1>4, RepFacts DEF Restarts
<1>6. SafeInv => RepInv'
  <2> SUFFICES ASSUME SafeInv PROVE RepInv'
    OBVIOUS
  <2>1. row[o].type = "add" => row[o].mems \subseteq docs
    BY <1>2 DEF Unrepairable
  <2>2. \A p \in queue : row[p].status \in Unsettled /\ row[p].type # "none"
    BY DEF SafeInv, RepInv
  <2>3. Replay(o, rep.pc)'
    BY <1>1, <1>3, <1>4, <2>1, <2>2 DEF Replay
  <2> QED  BY <1>1, <1>2, <1>3, <1>4, <2>2, <2>3 DEF RepInv
<1> QED  BY <1>1, <1>5, <1>6, RestartBase, OnlyReplay DEF IInv

LEMMA RepLog ==
  ASSUME BaseInv, NEW o \in Ops, NEW status \in Settled \cup Unsettled, NEW error \in BOOLEAN,
         row' = [row EXCEPT ![o] = Logged(row[o], status, error)]
  PROVE /\ row' \in [Ops -> RowType] /\ row'[o].status = status
        /\ row'[o].type = row[o].type /\ row'[o].mems = row[o].mems /\ row'[o].failed = row[o].failed
        /\ \A p \in Ops \ {o} : row'[p] = row[p]
<1> DEFINE L == Logged(row[o], status, error)
<1>1. /\ L \in RowType /\ L.status = status /\ L.type = row[o].type /\ L.mems = row[o].mems
      /\ L.failed = row[o].failed
  BY CoFacts, LoggedType
<1>2. row' = [row EXCEPT ![o] = L]
  OBVIOUS
<1> HIDE DEF L
<1> QED  BY <1>1, <1>2, CoFacts

LEMMA RepairGiveUpInv == ASSUME IInv, RepairGiveUp PROVE IInv'
<1>1. /\ BaseInv /\ engine = "repairing" /\ rep.pc = "idle" /\ engine # "ready"
      /\ UNCHANGED <<docs, vec, bm25, graph, gatoms, atoms, used, co, engine, rep, crashes, failures, cancels>>
  BY DEF IInv, RepairGiveUp, stores, bounds
<1>2. PICK o \in queue : /\ Unrepairable(o)
                         /\ row' = [row EXCEPT ![o] = Logged(row[o], "failed", TRUE)]
                         /\ queue' = queue \ {o}
  BY DEF RepairGiveUp
<1>3. o \in Ops /\ row[o].type = "add" /\ rep = NoRepair /\ NoRepair.ops = {} /\ queue \subseteq Ops
  BY <1>1, <1>2 DEF BaseInv, TypeOK, EngineInv, NoRepair, Unrepairable
<1>4. /\ row' \in [Ops -> RowType] /\ row'[o].status = "failed"
      /\ row'[o].type = row[o].type /\ row'[o].mems = row[o].mems
      /\ \A p \in Ops \ {o} : row'[p] = row[p]
  BY <1>1, <1>2, <1>3, RepLog DEF Settled
<1>5. Restarts
  <2>1. StoresTyped' /\ (\A m \in Mems, a \in Atoms : atoms'[m][a] <= 1) /\ failures' \in 0 .. MaxFailures
    BY <1>1, <1>3, CoFacts DEF StoresTyped, BoundsTyped
  <2>2. \A p \in queue' : row[p].type # "none"
    BY <1>1, <1>2 DEF BaseInv, EngineInv
  <2> QED  BY <1>1, <1>2, <1>3, <1>4, <2>1, <2>2 DEF Restarts, NoRepair
<1>6. SafeInv => SafeInv'
  <2> SUFFICES ASSUME SafeInv PROVE SafeInv'
    OBVIOUS
  <2>1. RepInv'
    BY <1>1, <1>2, <1>3, <1>4 DEF SafeInv, RepInv, NoRepair
  <2> QED  BY <1>1, <1>3, <1>4, <2>1, ReplayAddMoves DEF SameStores
<1> QED  BY <1>1, <1>5, <1>6, RestartBase DEF IInv

\* The row that is being replayed.
LEMMA Replayed ==
  ASSUME BaseInv, NEW o \in Ops, rep.ops = {o}, rep.pc # "idle"
  PROVE /\ engine = "repairing" /\ row[o].type \in {"add", "delete", "batch"}
        /\ row[o].mems \subseteq used /\ used \subseteq Mems /\ (\A p \in Ops : co[p] = NoCo)
        /\ SafeInv => o \notin queue /\ Replay(o, rep.pc)
<1>1. engine = "repairing" /\ row[o].type # "none" /\ \A p \in Ops : co[p] = NoCo
  BY DEF BaseInv, EngineInv, NoRepair
<1>2. SafeInv => o \notin queue /\ Replay(o, rep.pc)
  <2> SUFFICES ASSUME SafeInv PROVE o \notin queue /\ Replay(o, rep.pc)
    OBVIOUS
  <2>1. PICK p \in Ops : rep.ops = {p} /\ p \notin queue /\ Replay(p, rep.pc)
    BY DEF SafeInv, RepInv
  <2>2. p = o
    BY <2>1
  <2> QED  BY <2>1, <2>2
<1> QED  BY <1>1, <1>2, CoFacts DEF RowType

\* A replay goes on, or ends.
LEMMA ReplayStep ==
  ASSUME BaseInv, NEW o \in Ops, rep.ops = {o}, rep.pc # "idle",
         UNCHANGED <<used, co, engine, queue, crashes, cancels>>, failures' \in 0 .. MaxFailures,
         row' \in [Ops -> RowType], row'[o].type = row[o].type, row'[o].mems = row[o].mems,
         \A p \in Ops \ {o} : row'[p] = row[p],
         StoresTyped', \A m \in Mems, a \in Atoms : atoms'[m][a] <= 1,
         \A m \in Mems \ row[o].mems : atoms'[m] = atoms[m],
         \/ rep' = NoRepair
         \/ \E pc \in {"addGraph", "delGraph", "delAtoms", "end"} :
              rep' = [pc |-> pc, ops |-> {o}] /\ (SafeInv => Replay(o, rep.pc)')
  PROVE BaseInv' /\ (SafeInv => RepInv')
<1>1. engine = "repairing" /\ row[o].type # "none" /\ row[o].mems \subseteq used
  BY Replayed
<1>2. queue \subseteq Ops /\ \A p \in queue : row[p].type # "none"
  BY DEF BaseInv, TypeOK, EngineInv
<1>3. CASE rep' = NoRepair
  <2>1. Restarts
    BY <1>1, <1>2, <1>3 DEF Restarts, NoRepair
  <2>2. SafeInv => RepInv'
    BY <1>2, <1>3, Replayed DEF SafeInv, RepInv, NoRepair
  <2> QED  BY <2>1, <2>2, RestartBase
<1>4. CASE \E pc \in {"addGraph", "delGraph", "delAtoms", "end"} :
              rep' = [pc |-> pc, ops |-> {o}] /\ (SafeInv => Replay(o, rep.pc)')
  <2>1. /\ rep'.pc \in {"addGraph", "delGraph", "delAtoms", "end"} /\ rep'.ops = {o}
        /\ rep' = [pc |-> rep'.pc, ops |-> {o}]
        /\ SafeInv => Replay(o, rep.pc)'
    BY <1>4
  <2>2. Restarts
    BY <1>1, <1>2, <2>1 DEF Restarts
  <2>3. SafeInv => RepInv'
    BY <1>2, <2>1, Replayed DEF SafeInv, RepInv
  <2> QED  BY <2>2, <2>3, RestartBase
<1> QED  BY <1>3, <1>4

LEMMA RepairAddAtomsInv == ASSUME IInv, NEW o \in Ops, RepairAddAtoms(o) PROVE IInv'
<1> DEFINE missing(m) == IF row[o].failed # {}
                         THEN {a \in row[o].failed : atoms[m][a] = 0}
                         ELSE IF atoms[m] = NoAtoms THEN Atoms ELSE {}
<1>1. /\ BaseInv /\ rep = [pc |-> "addAtoms", ops |-> {o}] /\ rep' = [rep EXCEPT !.pc = "addGraph"]
      /\ UNCHANGED <<used, co, engine, queue, crashes, failures, cancels, docs, vec, bm25, graph, gatoms>>
      /\ atoms' = [m \in Mems |-> IF m \in row[o].mems
                    THEN [a \in Atoms |-> IF a \in missing(m) THEN atoms[m][a] + 1 ELSE atoms[m][a]]
                    ELSE atoms[m]]
      /\ row' = [row EXCEPT ![o] = Logged(row[o], "pending", FALSE)]
  BY DEF IInv, RepairAddAtoms, RepairStep, bounds
<1>2. /\ row' \in [Ops -> RowType] /\ row'[o].status = "pending"
      /\ row'[o].type = row[o].type /\ row'[o].mems = row[o].mems
      /\ \A p \in Ops \ {o} : row'[p] = row[p]
  BY <1>1, RepLog DEF Unsettled
<1>3. /\ atoms' \in [Mems -> [Atoms -> Nat]] /\ \A m \in Mems, a \in Atoms : atoms'[m][a] <= 1
      /\ \A m \in Mems \ row[o].mems : atoms'[m] = atoms[m]
  <2>1. \A m \in Mems : \A a \in missing(m) : a \in Atoms => atoms[m][a] = 0
    BY DEF NoAtoms
  <2>2. atoms \in [Mems -> [Atoms -> Nat]] /\ \A m \in Mems, a \in Atoms : atoms[m][a] <= 1
    BY <1>1, CoFacts DEF StoresTyped
  <2> HIDE DEF missing
  <2> QED  BY <1>1, <2>1, <2>2
<1>4. StoresTyped' /\ failures' \in 0 .. MaxFailures
  BY <1>1, <1>3, CoFacts DEF StoresTyped, BoundsTyped
<1>5. rep' = [pc |-> "addGraph", ops |-> {o}] /\ rep.pc = "addAtoms" /\ rep.ops = {o}
  BY <1>1
<1>6. SafeInv => row[o].type = "add" /\ row[o].mems \subseteq docs
  BY <1>1, <1>5, Replayed DEF Replay
<1>7. SafeInv => Replay(o, rep.pc)'
  BY <1>1, <1>2, <1>5, <1>6 DEF Replay, Unsettled
<1>8. BaseInv' /\ (SafeInv => RepInv')
  BY <1>1, <1>2, <1>3, <1>4, <1>5, <1>7, ReplayStep
<1>9. SafeInv => SafeInv'
  <2> SUFFICES ASSUME SafeInv PROVE SafeInv'
    OBVIOUS
  <2>1. \A m \in Mems \ row[o].mems : SameStores(m)
    BY <1>1, <1>3 DEF SameStores
  <2>2. engine # "ready"
    BY <1>1, <1>5, Replayed
  <2>3. RepInv' /\ row'[o].status # "completed" /\ row[o].type = "add" /\ row[o].mems \subseteq docs
    BY <1>2, <1>6, <1>8
  <2> QED  BY <1>1, <1>2, <2>1, <2>2, <2>3, ReplayAddMoves
<1> QED  BY <1>8, <1>9 DEF IInv

LEMMA RepairAddGraphInv == ASSUME IInv, NEW o \in Ops, RepairAddGraph(o) PROVE IInv'
<1>1. /\ BaseInv /\ rep = [pc |-> "addGraph", ops |-> {o}] /\ rep' = [rep EXCEPT !.pc = "end"]
      /\ UNCHANGED <<used, co, engine, queue, crashes, failures, cancels, docs, vec, bm25, atoms>>
      /\ Indexed(row[o].mems, ReplayAtoms(o))
      /\ row' = [row EXCEPT ![o] = Logged(row[o], "pending", FALSE)]
  BY DEF IInv, RepairAddGraph, RepairStep, bounds
<1>2. /\ row' \in [Ops -> RowType] /\ row'[o].status = "pending" /\ row'[o].failed = row[o].failed
      /\ row'[o].type = row[o].type /\ row'[o].mems = row[o].mems
      /\ \A p \in Ops \ {o} : row'[p] = row[p]
  BY <1>1, RepLog DEF Unsettled
<1>3. rep' = [pc |-> "end", ops |-> {o}] /\ rep.pc = "addGraph" /\ rep.ops = {o}
  BY <1>1
<1>4. row[o].mems \subseteq used /\ used \subseteq Mems /\ ReplayAtoms(o) \subseteq Atoms
  BY <1>1, CoFacts DEF RowType, ReplayAtoms
<1>5. /\ graph' \subseteq used /\ gatoms' \in [Mems -> SUBSET Atoms]
      /\ \A m \in Mems \ row[o].mems : (m \in graph <=> m \in graph') /\ gatoms'[m] = gatoms[m]
      /\ \A m \in row[o].mems : InGraph(o, m)'
  BY <1>1, <1>2, <1>4, CoFacts DEF Indexed, ReplayAtoms, InGraph, StoresTyped
<1>6. /\ StoresTyped' /\ failures' \in 0 .. MaxFailures
      /\ \A m \in Mems, a \in Atoms : atoms'[m][a] <= 1
  BY <1>1, <1>5, CoFacts DEF StoresTyped, BoundsTyped
<1>7. SafeInv => row[o].type = "add" /\ row[o].mems \subseteq docs
  BY <1>1, <1>3, Replayed DEF Replay
<1>8. SafeInv => Replay(o, rep.pc)'
  BY <1>1, <1>2, <1>3, <1>5, <1>7 DEF Replay, Unsettled
<1>9. BaseInv' /\ (SafeInv => RepInv')
  BY <1>1, <1>2, <1>3, <1>6, <1>8, ReplayStep
<1>10. SafeInv => SafeInv'
  <2> SUFFICES ASSUME SafeInv PROVE SafeInv'
    OBVIOUS
  <2>1. \A m \in Mems \ row[o].mems : SameStores(m)
    BY <1>1, <1>5 DEF SameStores
  <2>2. engine # "ready"
    BY <1>1, <1>3, Replayed
  <2>3. RepInv' /\ row'[o].status # "completed" /\ row[o].type = "add" /\ row[o].mems \subseteq docs
    BY <1>2, <1>7, <1>9
  <2> QED  BY <1>1, <1>2, <2>1, <2>2, <2>3, ReplayAddMoves
<1> QED  BY <1>9, <1>10 DEF IInv

\* A step of the replay of a delete or a batch: no coroutine is there.
LEMMA ReplayDelMoves ==
  ASSUME BaseInv, SafeInv, NEW o \in Ops, row[o].type \in {"delete", "batch"}, engine # "ready", UNCHANGED <<co, used>>,
         \A p \in Ops \ {o} : row'[p] = row[p], row'[o].type = row[o].type, row'[o].mems = row[o].mems,
         \A m \in Mems \ row[o].mems : SameStores(m),
         \A m \in row[o].mems :
            /\ m \in docs' => m \in docs
            /\ m \in graph' => m \in graph
            /\ m \in bm25' => m \in bm25 \/ m \in docs
            /\ atoms'[m] \in {atoms[m], NoAtoms}
            /\ m \notin docs' /\ Entries(m)' => row'[o].status \in Unsettled \cup {"absent"}
            /\ row[o].type = "batch" /\ row'[o].status = "completed" => Gone(m)',
         RepInv'
  PROVE SafeInv'
<1>1. \A p \in Ops : co[p].mems = {} /\ co'[p].mems = {} /\ co'[p] = co[p] /\ co'[p].pc \notin AddPc
  BY DEF BaseInv, EngineInv, NoCo, AddPc, BeforeAtoms
<1>2. /\ \A p \in Ops \ {o} : co'[p] = co[p] /\ row'[p] = row[p] /\ co[p].mems \cap row[o].mems = {}
      /\ co'[o].mems \subseteq row[o].mems /\ \A m \in co'[o].mems : Stage(o, m)'
  BY <1>1
<1> QED  BY <1>1, <1>2, DelMoves

LEMMA RepairBatchDocsInv == ASSUME IInv, NEW o \in Ops, RepairBatchDocs(o) PROVE IInv'
<1> DEFINE found == row[o].mems \cap docs
<1>1. /\ BaseInv /\ rep = [pc |-> "batDocs", ops |-> {o}] /\ rep' = [rep EXCEPT !.pc = "delGraph"]
      /\ UNCHANGED <<used, co, engine, queue, crashes, cancels, graph, gatoms, atoms, row>>
      /\ docs' = docs \ row[o].mems /\ bm25' = bm25 \ row[o].mems
  BY DEF IInv, RepairBatchDocs
<1>2. PICK left \in SUBSET found : /\ IF left = {} THEN UNCHANGED failures ELSE Fails
                                   /\ vec' = vec \ (found \ left)
  BY DEF RepairBatchDocs
<1>3. rep' = [pc |-> "delGraph", ops |-> {o}] /\ rep.pc = "batDocs" /\ rep.ops = {o}
  BY <1>1
<1>4. /\ StoresTyped' /\ failures' \in 0 .. MaxFailures /\ row' \in [Ops -> RowType]
      /\ \A m \in Mems, a \in Atoms : atoms'[m][a] <= 1
  BY <1>1, <1>2, CoFacts, FailFacts DEF StoresTyped
<1>5. SafeInv => row[o].type = "batch" /\ row[o].status \in Unsettled
  BY <1>1, <1>3, Replayed DEF Replay
<1>6. SafeInv => Replay(o, rep.pc)'
  BY <1>1, <1>3, <1>5 DEF Replay
<1>7. BaseInv' /\ (SafeInv => RepInv')
  BY <1>1, <1>3, <1>4, <1>6, ReplayStep
<1>8. \A m \in Mems \ row[o].mems : SameStores(m)
  BY <1>1, <1>2 DEF SameStores
<1>9. SafeInv => SafeInv'
  <2> SUFFICES ASSUME SafeInv PROVE SafeInv'
    OBVIOUS
  <2>1. \A p \in Ops : co[p] = NoCo
    BY <1>1, <1>3, Replayed
  <2> QED  BY <1>1, <1>5, <1>7, <1>8, <2>1, DelMoves DEF NoCo, AddPc, BeforeAtoms, Unsettled
<1> QED  BY <1>7, <1>9 DEF IInv

\* The row is one of a delete or a batch where the replay deletes.
LEMMA DeletesRow ==
  ASSUME BaseInv, SafeInv, NEW o \in Ops, rep.ops = {o}, rep.pc \in {"delGraph", "delAtoms"}
  PROVE row[o].type \in {"delete", "batch"} /\ row[o].status \in Unsettled /\ Replay(o, rep.pc)
  BY Replayed DEF Replay

LEMMA RepairDelGraphInv == ASSUME IInv, NEW o \in Ops, RepairDelGraph(o) PROVE IInv'
<1>1. /\ BaseInv /\ rep = [pc |-> "delGraph", ops |-> {o}] /\ rep' = [rep EXCEPT !.pc = "delAtoms"]
      /\ UNCHANGED <<used, co, engine, queue, crashes, failures, cancels, docs, vec, bm25, atoms, row>>
      /\ Unindexed(row[o].mems)
  BY DEF IInv, RepairDelGraph, RepairStep, bounds
<1>2. rep' = [pc |-> "delAtoms", ops |-> {o}] /\ rep.pc = "delGraph" /\ rep.ops = {o}
  BY <1>1
<1>3. /\ StoresTyped' /\ failures' \in 0 .. MaxFailures /\ row' \in [Ops -> RowType]
      /\ \A m \in Mems, a \in Atoms : atoms'[m][a] <= 1
  BY <1>1, CoFacts DEF StoresTyped, BoundsTyped, Unindexed
<1>4. /\ \A m \in Mems \ row[o].mems : SameStores(m)
      /\ \A m \in row[o].mems : m \notin graph'
  BY <1>1 DEF SameStores, Unindexed
<1>5. SafeInv => row[o].type \in {"delete", "batch"} /\ row[o].status \in Unsettled /\ Replay(o, rep.pc)
  BY <1>1, <1>2, DeletesRow
<1>6. SafeInv => Replay(o, rep.pc)'
  BY <1>1, <1>2, <1>4, <1>5 DEF Replay
<1>7. BaseInv' /\ (SafeInv => RepInv')
  BY <1>1, <1>2, <1>3, <1>6, ReplayStep
<1>8. SafeInv => SafeInv'
  <2> SUFFICES ASSUME SafeInv PROVE SafeInv'
    OBVIOUS
  <2>1. \A p \in Ops : co[p] = NoCo
    BY <1>1, <1>2, Replayed
  <2> QED  BY <1>1, <1>4, <1>5, <1>7, <2>1, DelMoves DEF NoCo, AddPc, BeforeAtoms, Unsettled
<1> QED  BY <1>7, <1>8 DEF IInv

LEMMA RepairDelAtomsInv == ASSUME IInv, NEW o \in Ops, RepairDelAtoms(o) PROVE IInv'
<1>1. /\ BaseInv /\ rep = [pc |-> "delAtoms", ops |-> {o}] /\ rep' = [rep EXCEPT !.pc = "end"]
      /\ UNCHANGED <<used, co, engine, queue, crashes, failures, cancels, docs, vec, bm25, graph, gatoms, row>>
      /\ WithoutAtoms(row[o].mems)
  BY DEF IInv, RepairDelAtoms, RepairStep, bounds
<1>2. rep' = [pc |-> "end", ops |-> {o}] /\ rep.pc = "delAtoms" /\ rep.ops = {o}
  BY <1>1
<1>3. /\ \A m \in Mems \ row[o].mems : atoms'[m] = atoms[m]
      /\ \A m \in row[o].mems : atoms'[m] = NoAtoms
      /\ atoms' \in [Mems -> [Atoms -> Nat]]
      /\ \A m \in Mems, a \in Atoms : atoms'[m][a] <= 1
  <2>1. row[o].mems \subseteq Mems /\ atoms \in [Mems -> [Atoms -> Nat]] /\ NoAtoms \in [Atoms -> Nat]
        /\ (\A m \in Mems, a \in Atoms : atoms[m][a] <= 1) /\ \A a \in Atoms : NoAtoms[a] <= 1
    BY <1>1, CoFacts, NullsTyped DEF StoresTyped, RowType, NoAtoms
  <2> QED  BY <1>1, <2>1 DEF WithoutAtoms
<1>4. StoresTyped' /\ failures' \in 0 .. MaxFailures /\ row' \in [Ops -> RowType]
  BY <1>1, <1>3, CoFacts DEF StoresTyped, BoundsTyped
<1>5. SafeInv => row[o].type \in {"delete", "batch"} /\ row[o].status \in Unsettled /\ Replay(o, rep.pc)
  BY <1>1, <1>2, DeletesRow
<1>6. SafeInv => Replay(o, rep.pc)'
  BY <1>1, <1>2, <1>3, <1>5 DEF Replay
<1>7. BaseInv' /\ (SafeInv => RepInv')
  BY <1>1, <1>2, <1>3, <1>4, <1>6, ReplayStep
<1>8. SafeInv => SafeInv'
  <2> SUFFICES ASSUME SafeInv PROVE SafeInv'
    OBVIOUS
  <2>1. \A p \in Ops : co[p] = NoCo
    BY <1>1, <1>2, Replayed
  <2>2. \A m \in Mems \ row[o].mems : SameStores(m)
    BY <1>1, <1>3 DEF SameStores
  <2> QED  BY <1>1, <1>3, <1>5, <1>7, <2>1, <2>2, DelMoves DEF NoCo, AddPc, BeforeAtoms, Unsettled
<1> QED  BY <1>7, <1>8 DEF IInv

LEMMA RepairEndInv == ASSUME IInv, NEW o \in Ops, RepairEnd(o) PROVE IInv'
<1>1. /\ BaseInv /\ rep.pc = "end" /\ rep.ops = {o} /\ rep' = NoRepair
      /\ UNCHANGED <<used, co, engine, queue, crashes, failures, cancels, docs, vec, bm25, graph, gatoms, atoms>>
      /\ row' = [row EXCEPT ![o] = Logged(row[o], "completed", FALSE)]
  BY DEF IInv, RepairEnd, stores, bounds
<1>2. /\ row' \in [Ops -> RowType] /\ row'[o].status = "completed" /\ row'[o].failed = row[o].failed
      /\ row'[o].type = row[o].type /\ row'[o].mems = row[o].mems
      /\ \A p \in Ops \ {o} : row'[p] = row[p]
  BY <1>1, RepLog DEF Settled
<1>3. /\ StoresTyped' /\ failures' \in 0 .. MaxFailures
      /\ \A m \in Mems, a \in Atoms : atoms'[m][a] <= 1
  BY <1>1, CoFacts DEF StoresTyped, BoundsTyped
<1>4. BaseInv' /\ (SafeInv => RepInv')
  BY <1>1, <1>2, <1>3, ReplayStep
<1>5. ASSUME SafeInv PROVE SafeInv'
  <2>1. /\ Replay(o, "end") /\ row[o].type \in {"add", "delete", "batch"} /\ engine # "ready"
        /\ \A p \in Ops : co[p] = NoCo
    BY <1>1, <1>5, Replayed
  <2>2. CASE row[o].type = "add"
    <3>1. \A m \in row[o].mems : m \in docs /\ InGraph(o, m)'
      BY <1>1, <1>2, <2>1, <2>2 DEF Replay, InGraph
    <3> QED  BY <1>1, <1>2, <1>4, <1>5, <2>1, <2>2, <3>1, ReplayAddMoves DEF SameStores
  <2>3. CASE row[o].type \in {"delete", "batch"}
    <3>1. \A m \in row[o].mems : /\ ~Entries(m)
                                 /\ row[o].type = "batch" => Gone(m)
      BY <2>1, <2>3 DEF Replay, Entries, Gone
    <3>2. \A m \in row[o].mems :
            /\ m \in docs' => m \in docs
            /\ m \in graph' => m \in graph
            /\ m \in bm25' => m \in bm25 \/ m \in docs
            /\ atoms'[m] \in {atoms[m], NoAtoms}
            /\ m \notin docs' /\ Entries(m)' => row'[o].status \in Unsettled \cup {"absent"}
            /\ row[o].type = "batch" /\ row'[o].status = "completed" => Gone(m)'
      BY <1>1, <3>1 DEF Entries, Gone
    <3>3. \A m \in Mems : SameStores(m)
      BY <1>1 DEF SameStores
    <3> QED  BY <1>1, <1>2, <1>4, <1>5, <2>1, <2>3, <3>2, <3>3, ReplayDelMoves
  <2> QED  BY <2>1, <2>2, <2>3
<1> QED  BY <1>4, <1>5 DEF IInv

LEMMA RepairFailsInv == ASSUME IInv, NEW o \in Ops, RepairFails(o) PROVE IInv'
<1>1. /\ BaseInv /\ rep.pc \notin {"idle", "end"} /\ rep.ops = {o} /\ rep' = NoRepair
      /\ UNCHANGED <<used, co, engine, queue, crashes, cancels, docs, vec, bm25, atoms>>
      /\ row' = [row EXCEPT ![o] = Logged(row[o], "needs_repair", TRUE)]
      /\ UNCHANGED <<graph, gatoms>> \/ Unindexed(row[o].mems)
  BY DEF IInv, RepairFails
<1>2. /\ row' \in [Ops -> RowType] /\ row'[o].status = "needs_repair"
      /\ row'[o].type = row[o].type /\ row'[o].mems = row[o].mems
      /\ \A p \in Ops \ {o} : row'[p] = row[p]
  BY <1>1, RepLog DEF Unsettled
<1>3. /\ graph' \subseteq graph /\ gatoms' \in [Mems -> SUBSET Atoms]
      /\ \A m \in Mems \ row[o].mems : SameStores(m)
  BY <1>1, CoFacts DEF Unindexed, StoresTyped, SameStores
<1>4. /\ StoresTyped' /\ failures' \in 0 .. MaxFailures
      /\ \A m \in Mems, a \in Atoms : atoms'[m][a] <= 1
  BY <1>1, <1>3, CoFacts, FailFacts DEF StoresTyped, RepairFails
<1>5. BaseInv' /\ (SafeInv => RepInv')
  BY <1>1, <1>2, <1>4, ReplayStep
<1>6. ASSUME SafeInv PROVE SafeInv'
  <2>1. /\ Replay(o, rep.pc) /\ row[o].type \in {"add", "delete", "batch"} /\ engine # "ready"
        /\ \A p \in Ops : co[p] = NoCo
    BY <1>1, <1>6, Replayed DEF BaseInv, EngineInv
  <2>2. CASE row[o].type = "add"
    <3>1. row[o].mems \subseteq docs
      BY <2>1, <2>2 DEF Replay
    <3> QED  BY <1>1, <1>2, <1>3, <1>5, <1>6, <2>1, <2>2, <3>1, ReplayAddMoves
  <2>3. CASE row[o].type \in {"delete", "batch"}
    <3>1. \A m \in row[o].mems :
            /\ m \in docs' => m \in docs
            /\ m \in graph' => m \in graph
            /\ m \in bm25' => m \in bm25 \/ m \in docs
            /\ atoms'[m] \in {atoms[m], NoAtoms}
            /\ m \notin docs' /\ Entries(m)' => row'[o].status \in Unsettled \cup {"absent"}
            /\ row[o].type = "batch" /\ row'[o].status = "completed" => Gone(m)'
      BY <1>1, <1>2, <1>3 DEF Unsettled
    <3> QED  BY <1>1, <1>2, <1>3, <1>5, <1>6, <2>1, <2>3, <3>1, ReplayDelMoves
  <2> QED  BY <2>1, <2>2, <2>3
<1> QED  BY <1>5, <1>6 DEF IInv

-----------------------------------------------------------------------------
(* The invariant, and what follows from it.                                *)

LEMMA IInvInit == Init => IInv
<1> SUFFICES ASSUME Init PROVE IInv
  OBVIOUS
<1>1. BaseInv
  BY BaseInit
<1>2. \A o \in Ops : co[o] = NoCo /\ row[o] = NoRow
  BY DEF Init
<1>3. ExclInv /\ UnaskedInv /\ StageInv /\ RowInv
  BY <1>2 DEF ExclInv, UnaskedInv, StageInv, RowInv, NoCo, NoRow
<1>4. RepInv /\ OrphanInv
  BY DEF Init, RepInv, OrphanInv, NoRepair
<1>5. CompletedAddWhole /\ BatchDeleteWhole
  BY <1>2 DEF CompletedAddWhole, BatchDeleteWhole, NoRow
<1> QED  BY <1>1, <1>3, <1>4, <1>5 DEF IInv, SafeInv

LEMMA IInvStutter == ASSUME IInv, UNCHANGED vars PROVE IInv'
<1>1. UNCHANGED <<docs, vec, bm25, graph, gatoms, atoms, used, row, co, engine, queue, rep, crashes, failures, cancels>>
  BY DEF vars
<1>2. BaseInv'
  BY <1>1 DEF IInv, BaseInv, TypeOK, ShapeInv, Shape, UsedInv, OwnInv, Has, EngineInv, AtomsInv, AtomsOf, NoDuplicateAtoms
<1>3. SafeInv => SafeInv'
  BY <1>1, OnlyReplay DEF SafeInv, RepInv, Replay, InGraph
<1> QED  BY <1>2, <1>3 DEF IInv

LEMMA AddInv == ASSUME IInv, NEW o \in Ops, Add(o) PROVE IInv'
  BY StartAddInv, AddDocInv, AddVecInv, AddBM25Inv, AddDocFailsInv, AddLogIdInv, AddAtomsInv, AddAtomsFailsInv,
     AddSingleInv, AddSinglesLogInv, AddGraphInv, AddGraphFailsInv, AddEndInv, AddCancelledInv DEF Add

LEMMA DeleteInv == ASSUME IInv, NEW o \in Ops, Delete(o) PROVE IInv'
  BY StartDeleteInv, DelBackupInv, DelBM25Inv, DelBM25FailsInv, DelDocInv, DelDocFailsInv, DelGraphInv,
     DelAtomsInv, DelEndInv DEF Delete

LEMMA BatchInv == ASSUME IInv, NEW o \in Ops, Batch(o) PROVE IInv'
  BY StartBatchInv, BatBM25Inv, BatVecInv, BatDocInv, BatGraphInv, BatAtomsInv, BatFailsInv DEF Batch

LEMMA RepairInv == ASSUME IInv, Repair PROVE IInv'
  BY RepairQueryInv, RepairGiveUpInv, RepairTakeInv, ReadyInv, RepairAddAtomsInv, RepairAddGraphInv,
     RepairBatchDocsInv, RepairDelGraphInv, RepairDelAtomsInv, RepairEndInv, RepairFailsInv DEF Repair

\* IInv is inductive: no step of an operation, a crash or a replay breaks it.
THEOREM Inductive == Spec => []IInv
<1>1. IInv /\ [Next]_vars => IInv'
  BY AddInv, DeleteInv, BatchInv, CancelledInv, CrashInv, RepairInv, IInvStutter DEF Next, Operation
<1> QED  BY IInvInit, <1>1, PTL DEF Spec

\* Whatever overlaps, fails or crashes, the variables keep their types and no
\* replay and no single insert stores an atom of a memory twice.
THEOREM AtomsOnce == Spec => [](TypeOK /\ NoDuplicateAtoms)
<1>1. IInv => TypeOK /\ NoDuplicateAtoms
  BY DEF IInv, BaseInv
<1> QED  BY <1>1, Inductive, PTL

\* When no memory is deleted while another operation is at it, an add recorded as
\* completed left a whole memory and a batch delete recorded as completed nothing
\* of its memories, over any number of crashes, failures and replays.
THEOREM CompletedIsWhole == ASSUME ~DeleteInFlight PROVE Spec => []OpsWhole
<1>1. IInv => OpsWhole
  BY DEF IInv, BaseInv, SafeInv, OpsWhole
<1> QED  BY <1>1, Inductive, PTL

\* Then, too, graph entries and atoms whose document is gone always have an
\* operation in the log, or one that could not be logged, that knows of them.
THEOREM OrphansKnown == ASSUME ~DeleteInFlight PROVE Spec => []OrphansAreLogged
<1>1. IInv => OrphansAreLogged
  BY DEF IInv, SafeInv, OrphanInv, OrphansAreLogged, Entries, Held, InLog
<1> QED  BY <1>1, Inductive, PTL

-----------------------------------------------------------------------------
(* The start of the engine leaves no unfinished row without a replay, or   *)
(* replayed as many others as the query returns.                           *)
Handled == {o \in Ops \ Untouched : row[o].type # "none"}
AtHand == queue \cup rep.ops
CoveredInv == engine = "repairing" =>
    \/ Untouched \subseteq AtHand
    \/ RepairLimit <= Cardinality(Handled \cup AtHand)

\* A step of the replay leaves a row only when it was given up, is completed or
\* has one more retry.
LEMMA StaysCovered ==
  ASSUME CoveredInv, engine = "repairing", NEW o \in AtHand, AtHand \subseteq Ops, AtHand' \subseteq Ops,
         row'[o].type # "none", \A p \in Ops \ {o} : row'[p] = row[p],
         \A p \in AtHand : p # o => p \in AtHand',
         o \in AtHand' \/ row'[o].status \notin Unsettled \/ row'[o].retries # 0
  PROVE CoveredInv'
<1>1. CASE Untouched \subseteq AtHand
  <2>1. \A p \in Untouched' : p \in AtHand'
    BY <1>1 DEF Untouched
  <2> QED  BY <2>1 DEF CoveredInv
<1>2. CASE RepairLimit <= Cardinality(Handled \cup AtHand)
  <2>1. Handled \cup AtHand \subseteq (Handled \cup AtHand)'
    BY DEF Handled, Untouched
  <2>2. IsFiniteSet((Handled \cup AtHand)')
    <3>1. (Handled \cup AtHand)' \subseteq Ops
      BY DEF Handled
    <3> QED  BY <3>1, SagaAssumption, FS_Subset
  <2>3. /\ Cardinality(Handled \cup AtHand) <= Cardinality((Handled \cup AtHand)')
        /\ Cardinality(Handled \cup AtHand) \in Nat /\ Cardinality((Handled \cup AtHand)') \in Nat
    BY <2>1, <2>2, FS_Subset, FS_CardinalityType
  <2>4. RepairLimit <= Cardinality((Handled \cup AtHand)')
    BY <1>2, <2>3, SagaAssumption
  <2> QED  BY <2>4 DEF CoveredInv
<1> QED  BY <1>1, <1>2 DEF CoveredInv

LEMMA NoneRuns ==
  ASSUME IInv, engine = "repairing", NEW o \in Ops
  PROVE ~Operation(o) /\ ~Cancelled(o)
<1>1. co[o].pc = "idle" /\ engine # "ready"
  BY DEF IInv, BaseInv, EngineInv, NoCo
<1>2. ~Add(o)
  BY <1>1 DEF Add, StartAdd, StartOp, AddDoc, AddVec, AddBM25, AddDocFails, AddLogId, AddAtoms, AddAtomsFails,
              AddSingle, AddSinglesLog, AddGraph, AddGraphFails, AddEnd, AddCancelled, Step
<1>3. ~Delete(o)
  BY <1>1 DEF Delete, StartDelete, StartOp, DelBackup, DelBM25, DelBM25Fails, DelDoc, DelDocFails, DelGraph,
              DelAtoms, DelEnd, Step
<1>4. ~Batch(o)
  BY <1>1 DEF Batch, StartBatch, StartOp, BatBM25, BatVec, BatDoc, BatGraph, BatAtoms, BatFails, Step
<1>5. ~Cancelled(o)
  BY <1>1 DEF Cancelled
<1> QED  BY <1>2, <1>3, <1>4, <1>5 DEF Operation

LEMMA QueryCovers == ASSUME IInv, RepairQuery PROVE CoveredInv'
<1>1. PICK q \in SUBSET Repairable :
        (Cardinality(q) = RepairLimit \/ q = Repairable) /\ queue' = q
  BY DEF RepairQuery
<1>2. row' = row /\ rep' = NoRepair /\ NoRepair.ops = {}
  BY DEF IInv, BaseInv, EngineInv, RepairQuery, NoRepair
<1>3. AtHand' = q
  BY <1>1, <1>2 DEF AtHand
<1>4. CASE q = Repairable
  <2>1. Untouched \subseteq Repairable
    BY SagaAssumption DEF Untouched, Repairable
  <2> QED  BY <1>2, <1>3, <1>4, <2>1 DEF CoveredInv, Untouched
<1>5. CASE Cardinality(q) = RepairLimit
  <2>1. q \subseteq (Handled \cup AtHand)' /\ (Handled \cup AtHand)' \subseteq Ops
    BY <1>3 DEF Handled, Repairable
  <2>2. IsFiniteSet((Handled \cup AtHand)')
    BY <2>1, SagaAssumption, FS_Subset
  <2>3. Cardinality(q) <= Cardinality((Handled \cup AtHand)')
    BY <2>1, <2>2, FS_Subset
  <2> QED  BY <1>5, <2>3 DEF CoveredInv
<1> QED  BY <1>1, <1>4, <1>5

\* What a step of the replay of one row does to the log.
LEMMA ReplayCovers ==
  ASSUME IInv, CoveredInv, IInv', NEW o \in Ops,
         \/ RepairAddAtoms(o) \/ RepairAddGraph(o) \/ RepairBatchDocs(o)
         \/ RepairDelGraph(o) \/ RepairDelAtoms(o) \/ RepairEnd(o) \/ RepairFails(o)
  PROVE CoveredInv'
<1>0. BaseInv /\ BaseInv'
  BY DEF IInv
<1>1. /\ BaseInv /\ BaseInv' /\ rep.ops = {o} /\ rep.pc # "idle" /\ queue' = queue
      /\ \/ row' = row /\ rep'.ops = rep.ops
         \/ row' = [row EXCEPT ![o] = Logged(row[o], "pending", FALSE)] /\ rep'.ops = rep.ops
         \/ row' = [row EXCEPT ![o] = Logged(row[o], "completed", FALSE)]
         \/ row' = [row EXCEPT ![o] = Logged(row[o], "needs_repair", TRUE)]
  <2>1. ASSUME NEW from, NEW to, RepairStep(o, from, to), from # "idle"
        PROVE  rep.ops = {o} /\ rep.pc # "idle" /\ queue' = queue /\ rep'.ops = rep.ops
    BY <2>1 DEF RepairStep
  <2>2. CASE RepairAddAtoms(o) \/ RepairAddGraph(o)
    <3>1. row' = [row EXCEPT ![o] = Logged(row[o], "pending", FALSE)]
      BY <2>2 DEF RepairAddAtoms, RepairAddGraph
    <3>2. RepairStep(o, "addAtoms", "addGraph") \/ RepairStep(o, "addGraph", "end")
      BY <2>2 DEF RepairAddAtoms, RepairAddGraph
    <3> QED  BY <1>0, <2>1, <3>1, <3>2
  <2>3. CASE RepairDelGraph(o) \/ RepairDelAtoms(o)
    <3>1. row' = row /\ (RepairStep(o, "delGraph", "delAtoms") \/ RepairStep(o, "delAtoms", "end"))
      BY <2>3 DEF RepairDelGraph, RepairDelAtoms
    <3> QED  BY <1>0, <2>1, <3>1
  <2>4. CASE RepairBatchDocs(o)
    BY <1>0, <2>4 DEF RepairBatchDocs
  <2>5. CASE RepairEnd(o)
    BY <1>0, <2>5 DEF RepairEnd
  <2>6. CASE RepairFails(o)
    BY <1>0, <2>6 DEF RepairFails
  <2> QED  BY <2>2, <2>3, <2>4, <2>5, <2>6
<1>2. engine = "repairing" /\ row[o].type \in {"add", "delete", "batch"} /\ o \in AtHand
  BY <1>1, Replayed DEF AtHand
<1>3. AtHand \subseteq Ops /\ AtHand' \subseteq Ops
  BY <1>1 DEF BaseInv, TypeOK, AtHand
<1>4. row \in [Ops -> RowType] /\ \A p \in AtHand : p # o => p \in AtHand'
  BY <1>1 DEF BaseInv, TypeOK, AtHand
<1>5. CASE row' = row /\ rep'.ops = rep.ops
  BY <1>1, <1>2, <1>3, <1>4, <1>5, StaysCovered DEF AtHand
<1>6. ASSUME NEW status \in Settled \cup Unsettled, NEW error \in BOOLEAN,
             row' = [row EXCEPT ![o] = Logged(row[o], status, error)],
             o \in AtHand' \/ status = "completed" \/ (status = "needs_repair" /\ error)
      PROVE CoveredInv'
  <2>1. row'[o] = Logged(row[o], status, error) /\ \A p \in Ops \ {o} : row'[p] = row[p]
    BY <1>4, <1>6
  <2>2. row'[o].type # "none" /\ row'[o].status = status
    BY <1>1, <1>2, <1>6, RepLog
  <2>3. status = "needs_repair" /\ error => row'[o].retries # 0
    BY <1>4, <2>1 DEF Logged, RowType
  <2>4. "completed" \notin Unsettled
    BY DEF Unsettled
  <2> QED  BY <1>2, <1>3, <1>4, <1>6, <2>1, <2>2, <2>3, <2>4, StaysCovered
<1>7. {"pending", "completed", "needs_repair"} \subseteq Settled \cup Unsettled
  BY DEF Settled, Unsettled
<1>8. rep'.ops = rep.ops => o \in AtHand'
  BY <1>1 DEF AtHand
<1> QED  BY <1>1, <1>5, <1>6, <1>7, <1>8

LEMMA TakeCovers == ASSUME IInv, CoveredInv, IInv', RepairTake \/ RepairGiveUp PROVE CoveredInv'
<1>1. /\ BaseInv /\ BaseInv' /\ engine = "repairing" /\ rep = NoRepair /\ NoRepair.ops = {}
  BY DEF IInv, RepairTake, RepairGiveUp, BaseInv, EngineInv, NoRepair
<1>2. AtHand \subseteq Ops /\ AtHand' \subseteq Ops /\ AtHand = queue
  BY <1>1 DEF BaseInv, TypeOK, AtHand
<1>3. CASE RepairTake
  <2>1. row' = row /\ AtHand' = AtHand /\ engine' = engine
    BY <1>1, <1>3 DEF RepairTake, AtHand
  <2> QED  BY <2>1 DEF CoveredInv, Handled, Untouched
<1>4. CASE RepairGiveUp
  <2>1. PICK o \in queue : /\ Unrepairable(o)
                           /\ row' = [row EXCEPT ![o] = Logged(row[o], "failed", TRUE)]
                           /\ queue' = queue \ {o}
    BY <1>4 DEF RepairGiveUp
  <2>2. o \in Ops /\ o \in AtHand /\ \A p \in AtHand : p # o => p \in AtHand'
    BY <1>2, <2>1 DEF AtHand
  <2>3. row'[o].status = "failed" /\ row'[o].type = "add" /\ \A p \in Ops \ {o} : row'[p] = row[p]
    BY <1>1, <2>1, <2>2, RepLog DEF Settled, Unrepairable
  <2>4. "failed" \notin Unsettled
    BY DEF Unsettled
  <2> QED  BY <1>1, <1>2, <2>2, <2>3, <2>4, StaysCovered
<1> QED  BY <1>3, <1>4

\* A start of the engine replays, or gives up, every unfinished row at least
\* once, or as many as its query returns (NothingForgotten): for any number of
\* operations, failures and crashes of earlier starts.
THEOREM StartsForgetNothing == Spec => NothingForgotten
<1> DEFINE CInv == IInv /\ CoveredInv
<1>1. Init => CInv
  <2>1. Init => CoveredInv
    BY DEF Init, CoveredInv
  <2> QED  BY <2>1, IInvInit
<1>2. CInv /\ IInv' /\ [Next]_vars => CInv'
  <2> SUFFICES ASSUME IInv, CoveredInv, IInv', [Next]_vars PROVE CoveredInv'
    OBVIOUS
  <2>1. CASE engine # "repairing"
    <3>1. CASE RepairQuery
      BY <3>1, QueryCovers
    <3>2. CASE ~RepairQuery
      <4>1. engine' # "repairing"
        <5>1. CASE UNCHANGED vars
          BY <2>1, <5>1 DEF vars
        <5>2. ASSUME NEW o \in Ops, Operation(o) \/ Cancelled(o) PROVE engine' = engine
          <6>1. CASE Add(o)
            BY <6>1 DEF Add, StartAdd, StartOp, AddDoc, AddVec, AddBM25, AddDocFails, AddLogId, AddAtoms,
                AddAtomsFails, AddSingle, AddSinglesLog, AddGraph, AddGraphFails, AddEnd, AddCancelled, Step, repair
          <6>2. CASE Delete(o)
            BY <6>2 DEF Delete, StartDelete, StartOp, DelBackup, DelBM25, DelBM25Fails, DelDoc, DelDocFails,
                DelGraph, DelAtoms, DelEnd, Step, repair
          <6>3. CASE Batch(o)
            BY <6>3 DEF Batch, StartBatch, StartOp, BatBM25, BatVec, BatDoc, BatGraph, BatAtoms, BatFails, Step, repair
          <6>4. CASE Cancelled(o)
            BY <6>4 DEF Cancelled, repair
          <6> QED  BY <5>2, <6>1, <6>2, <6>3, <6>4 DEF Operation
        <5>3. CASE Crash
          BY <5>3 DEF Crash
        <5>4. ASSUME NEW o \in Ops, \/ RepairAddAtoms(o) \/ RepairAddGraph(o) \/ RepairBatchDocs(o)
                                    \/ RepairDelGraph(o) \/ RepairDelAtoms(o) \/ RepairEnd(o) \/ RepairFails(o)
              PROVE engine' = engine
          BY <5>4 DEF RepairAddAtoms, RepairAddGraph, RepairBatchDocs, RepairDelGraph, RepairDelAtoms, RepairEnd,
                      RepairFails, RepairStep
        <5>5. RepairTake \/ RepairGiveUp \/ Ready => engine = "repairing"
          BY DEF RepairTake, RepairGiveUp, Ready
        <5> QED  BY <2>1, <3>2, <5>1, <5>2, <5>3, <5>4, <5>5 DEF Next, Repair
      <4> QED  BY <4>1 DEF CoveredInv
    <3> QED  BY <3>1, <3>2
  <2>2. CASE engine = "repairing"
    <3>1. CASE UNCHANGED vars
      BY <3>1 DEF vars, CoveredInv, Handled, Untouched, AtHand
    <3>2. CASE Crash \/ Ready
      BY <3>2 DEF Crash, Ready, CoveredInv
    <3>3. CASE RepairQuery
      BY <3>3, QueryCovers
    <3>4. CASE RepairTake \/ RepairGiveUp
      BY <3>4, TakeCovers
    <3>5. \A o \in Ops : ~Operation(o) /\ ~Cancelled(o)
      BY <2>2, NoneRuns
    <3> QED  BY <3>1, <3>2, <3>3, <3>4, <3>5, ReplayCovers DEF Next, Repair
  <2> QED  BY <2>1, <2>2
<1>3. CInv /\ [Next]_vars =>
        [engine = "repairing" /\ engine' = "ready" =>
           \/ Untouched = {}
           \/ Cardinality({o \in Ops \ Untouched : row[o].type # "none"}) >= RepairLimit]_vars
  <2> SUFFICES ASSUME IInv, CoveredInv, [Next]_vars, engine = "repairing", engine' = "ready"
               PROVE \/ Untouched = {}
                     \/ Cardinality(Handled) >= RepairLimit
    BY DEF Handled
  <2>1. Ready
    <3>1. \A o \in Ops : ~Operation(o) /\ ~Cancelled(o)
      BY NoneRuns
    <3>2. ~Crash /\ ~RepairQuery /\ ~RepairTake /\ ~RepairGiveUp
      BY DEF Crash, RepairQuery, RepairTake, RepairGiveUp
    <3>3. \A o \in Ops : ~ (\/ RepairAddAtoms(o) \/ RepairAddGraph(o) \/ RepairBatchDocs(o)
                            \/ RepairDelGraph(o) \/ RepairDelAtoms(o) \/ RepairEnd(o) \/ RepairFails(o))
      BY DEF RepairAddAtoms, RepairAddGraph, RepairBatchDocs, RepairDelGraph, RepairDelAtoms, RepairEnd,
             RepairFails, RepairStep
    <3>4. ~UNCHANGED vars
      BY DEF vars
    <3> QED  BY <3>1, <3>2, <3>3, <3>4 DEF Next, Repair
  <2>2. AtHand = {}
    BY <2>1 DEF Ready, IInv, BaseInv, EngineInv, NoRepair, AtHand
  <2>3. Handled \cup AtHand = Handled /\ IsFiniteSet(Handled)
    <3>1. Handled \subseteq Ops
      BY DEF Handled
    <3> QED  BY <2>2, <3>1, SagaAssumption, FS_Subset
  <2>4. Cardinality(Handled) \in Nat
    BY <2>3, FS_CardinalityType
  <2> QED  BY <2>2, <2>3, <2>4, SagaAssumption DEF CoveredInv
<1>4. Spec => []CInv
  BY <1>1, <1>2, Inductive, PTL DEF Spec
<1> HIDE DEF CInv
<1> QED  BY <1>3, <1>4, PTL DEF Spec, NothingForgotten
====
