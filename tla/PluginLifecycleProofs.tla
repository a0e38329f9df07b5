------------------------- MODULE PluginLifecycleProofs -------------------------
(***************************************************************************)
(* Proofs about PluginLifecycle, for any handlers and provider checks.     *)
(*                                                                         *)
(* terminate() ends things in a fixed order.  That nothing it has ended    *)
(* comes back is not seen from the step that ended it: it rests on what    *)
(* was ended before it.  No stage of the initialization runs once the      *)
(* retry task was awaited (InitOver), so no store is opened and no loop of *)
(* a stage begun after that; a handler that is still at work finds the     *)
(* flag of the shutdown (WorkOver); and only a storage task starts a hook. *)
(***************************************************************************)
EXTENDS PluginLifecycle, TLAPS

\* Where terminate() is once it has awaited or stopped what the name says.
PastInit    == TermPC \ {"off", "gather"}
PastRetry   == PastInit \ {"retry"}
PastLoop    == PastRetry \ {"backfill"}
PastV11     == PastLoop \ {"bus", "v11"}
PastSummary == PastV11 \ {"summary"}
PastShut    == PastSummary \ {"shutdown"}
PastStoring == PastShut \ {"storing"}
PastDecay   == PastStoring \ {"decay"}
PastConv    == PastDecay \ {"conv"}
PastAtoms   == PastConv \ {"atoms"}
PastHooks   == PastAtoms \ {"hooks"}
PastEngine  == PastHooks \ {"engine"}
PastV2      == PastEngine \ {"v2"}

\* Neither the initialization nor the retry task runs once it was awaited.
InitOver ==
    /\ term \in PastInit /\ init.task = "init" => init.pc = "off"
    /\ term \in PastRetry => init.pc = "off"
    /\ term \in PastLoop => backfill.pc = "off"

\* While a task initializes there is no verdict, and there are never two.
VerdictInv ==
    /\ init.pc # "off" => ~complete /\ ~failed
    /\ ~(complete /\ failed)

\* The loops that were stopped.
LoopsOver ==
    /\ term \in PastV11 => "v11" \notin loops
    /\ term \in PastSummary => loops \cap {"summary", "l3"} = {}
    /\ term \in PastDecay => "decay" \notin loops
    /\ term \in PastAtoms => "atoms" \notin loops

\* Storage tasks and hooks.
WorkOver ==
    /\ shutting <=> term \in PastShut
    /\ term \in PastStoring => ~storing
    /\ term \in PastHooks => ~hook

\* The stores are closed in their order ...
StoresClosed ==
    /\ term \in PastConv => "conv" \notin open \cap known
    /\ term \in PastEngine => open \cap known \cap {"engine", "graph"} = {}
    /\ term \in PastV2 => "v2" \notin open \cap known
    /\ term = "done" => "db" \notin open \cap known

\* ... and are open until then, if the initialization has come so far.
StoresOpen ==
    /\ init.pc = "tail" \/ complete => {"engine", "conv"} \subseteq known
    /\ init.pc \in {"v2", "conv", "tail"} \/ complete => term \in PastEngine \/ "engine" \in open
    /\ init.pc \in {"engine", "v2", "conv"} => "engine" \in known
    /\ init.pc = "tail" \/ complete => term \in PastConv \/ "conv" \in open
    /\ "v2" \in known => term \in PastV2 \/ "v2" \in open

\* Who writes was started when everything was there.
WorkersInv ==
    /\ \A x \in Handlers : hnd[x] = "work" => complete
    /\ storing => complete
    /\ hook => complete /\ "v2" \in known

IInv == /\ TypeOK /\ InitOver /\ VerdictInv /\ LoopsOver /\ WorkOver /\ StoresClosed /\ StoresOpen /\ WorkersInv

\* terminate() has not come to the stores while a task initializes.
LEMMA EarlyWhileInit ==
  ASSUME IInv, init.pc # "off"
  PROVE term \in {"off", "gather", "retry"}
  BY DEF IInv, TypeOK, InitOver, TermPC, PastInit, PastRetry

Inits == {"providers", "wait", "db", "graph", "migrate", "engine", "v2", "conv", "tail", "off"}
Early == {"off", "gather", "retry"}

LEMMA EarlyIsNotPast ==
  \A t \in Early : /\ t \notin PastLoop /\ t \notin PastRetry /\ t \notin PastV11 /\ t \notin PastSummary /\ t \notin PastShut
                   /\ t \notin PastStoring /\ t \notin PastDecay /\ t \notin PastConv /\ t \notin PastAtoms
                   /\ t \notin PastHooks /\ t \notin PastEngine /\ t \notin PastV2 /\ t # "done" /\ t \in TermPC
  BY DEF Early, TermPC, PastInit, PastRetry, PastLoop, PastV11, PastSummary, PastShut, PastStoring,
     PastDecay, PastConv, PastAtoms, PastHooks, PastEngine, PastV2

LEMMA IInvInit == Init => IInv
<1> SUFFICES ASSUME Init PROVE IInv
  OBVIOUS
<1>1. TypeOK
  <2>1. /\ init \in [task : {"init", "retry"}, pc : InitPC, cancel : BOOLEAN]
        /\ init.cancel => init.pc # "off"
    BY DEF Init, InitPC
  <2>2. /\ backfill \in [pc : {"off", "work", "sleep"}, cancel : BOOLEAN]
        /\ backfill.cancel => backfill.pc # "off"
    BY DEF Init, Off
  <2>3. attempts \in 0 .. MaxAttempts
    BY LifecycleAssumption DEF Init
  <2>4. hnd \in [Handlers -> {"idle", "waiting", "work", "gate"}] /\ term \in TermPC
    BY DEF Init, TermPC
  <2>5. open \subseteq Stores /\ known \subseteq Stores /\ loops \subseteq Loops
    BY DEF Init
  <2> QED  BY <2>1, <2>2, <2>3, <2>4, <2>5 DEF Init, TypeOK
<1>2. term \in Early /\ term = "off"
  BY DEF Init, Early
<1>3. InitOver /\ LoopsOver /\ WorkOver /\ StoresClosed
  BY <1>2, EarlyIsNotPast DEF Init, InitOver, LoopsOver, WorkOver, StoresClosed, PastInit
<1>4. VerdictInv /\ StoresOpen /\ WorkersInv
  BY DEF Init, VerdictInv, StoresOpen, WorkersInv
<1> QED  BY <1>1, <1>3, <1>4 DEF IInv

\* What the steps of the initialization have in common: terminate() has closed
\* nothing and stopped no loop, so the step need only say how far it has come.
LEMMA InitMoves ==
  ASSUME IInv, init.pc # "off",
         UNCHANGED <<hnd, storing, hook, shutting, term>>,
         init' \in [task : {"init", "retry"}, pc : InitPC, cancel : BOOLEAN],
         init'.cancel => init'.pc # "off",
         term \in PastInit => init'.task # "init" \/ init'.pc = "off",
         attempts' \in 0 .. MaxAttempts, swallowed' \in BOOLEAN, noBackup' \in BOOLEAN,
         complete' \in BOOLEAN, failed' \in BOOLEAN,
         complete' \/ failed' => init'.pc = "off" /\ ~(complete' /\ failed'),
         open \subseteq open', open' \subseteq Stores, known \subseteq known', known' \subseteq Stores, loops' \subseteq Loops,
         backfill' \in [pc : {"off", "work", "sleep"}, cancel : BOOLEAN],
         backfill'.cancel => backfill'.pc # "off",
         StoresOpen'
  PROVE IInv'
<1>1. term \in Early /\ term' = term
  BY EarlyWhileInit DEF Early
<1>2. /\ init.pc # "off" => ~complete /\ ~failed
      /\ ~complete /\ ~failed
  BY DEF IInv, VerdictInv
<1>3. TypeOK'
  BY <1>1 DEF IInv, TypeOK
<1>4. InitOver' /\ LoopsOver' /\ WorkOver' /\ StoresClosed'
  BY <1>1, EarlyIsNotPast DEF IInv, InitOver, LoopsOver, WorkOver, StoresClosed
<1>5. VerdictInv'
  BY <1>3 DEF VerdictInv, TypeOK
<1>6. WorkersInv'
  BY <1>2 DEF IInv, WorkersInv
<1> QED  BY <1>3, <1>4, <1>5, <1>6 DEF IInv

\* The stages that only go on: what they open and refer to.
LEMMA InitAtFacts ==
  ASSUME IInv, NEW pc \in InitPC \ {"off"}, InitAt(pc)
  PROVE /\ init.pc = pc /\ init.pc # "off" /\ term \in Early
        /\ UNCHANGED <<hnd, storing, hook, shutting, term, swallowed>>
        /\ init.task \in {"init", "retry"} /\ ~init.cancel /\ (term \in PastInit => init.task # "init")
        /\ ~complete /\ ~failed
  BY EarlyWhileInit DEF IInv, TypeOK, InitOver, InitAt, VerdictInv, Early, workVars

LEMMA InitToFacts ==
  ASSUME TypeOK, NEW pc \in InitPC, InitTo(pc)
  PROVE /\ init' \in [task : {"init", "retry"}, pc : InitPC, cancel : BOOLEAN]
        /\ init'.pc = pc /\ init'.task = init.task /\ init'.cancel = init.cancel
  BY DEF TypeOK, InitTo

LEMMA OpenDbInv == ASSUME IInv, OpenDb PROVE IInv'
<1>1. /\ InitAt("db") /\ InitTo("graph") /\ "db" \in InitPC \ {"off"} /\ "graph" \in InitPC
      /\ UNCHANGED <<attempts, complete, failed, noBackup, loops, backfill>>
      /\ open' = open \cup {"db"} /\ known' = known \cup {"db"}
  BY DEF OpenDb, Stage, taskVars, InitPC
<1>2. TypeOK
  BY DEF IInv
<1> QED  BY <1>1, <1>2, InitAtFacts, InitToFacts, InitMoves DEF TypeOK, IInv, StoresOpen, Stores

LEMMA BackupInv == ASSUME IInv, Backup PROVE IInv'
<1>1. /\ InitAt("backup") /\ InitTo("providers") /\ "backup" \in InitPC \ {"off"} /\ "providers" \in InitPC
      /\ UNCHANGED <<attempts, complete, failed, noBackup, open, known, loops, backfill>>
  BY DEF Backup, storeVars, taskVars, InitPC
<1>2. TypeOK
  BY DEF IInv
<1> QED  BY <1>1, <1>2, InitAtFacts, InitToFacts, InitMoves DEF TypeOK, IInv, StoresOpen

LEMMA BackupFailsInv == ASSUME IInv, BackupFails PROVE IInv'
<1>1. /\ InitAt("backup") /\ InitTo("off") /\ "backup" \in InitPC \ {"off"} /\ "off" \in InitPC
      /\ UNCHANGED <<attempts, complete, failed, open, known, loops, backfill>> /\ noBackup' = TRUE
  BY DEF BackupFails, storeVars, taskVars, InitPC
<1>2. TypeOK
  BY DEF IInv
<1> QED  BY <1>1, <1>2, InitAtFacts, InitToFacts, InitMoves DEF TypeOK, IInv, StoresOpen

LEMMA ProvidersReadyInv == ASSUME IInv, ProvidersReady PROVE IInv'
<1>1. /\ InitAt("providers") /\ InitTo("db") /\ "providers" \in InitPC \ {"off"} /\ "db" \in InitPC
      /\ UNCHANGED <<attempts, complete, failed, noBackup, open, known, loops, backfill>>
  BY DEF ProvidersReady, storeVars, taskVars, InitPC
<1>2. TypeOK
  BY DEF IInv
<1> QED  BY <1>1, <1>2, InitAtFacts, InitToFacts, InitMoves DEF TypeOK, IInv, StoresOpen

LEMMA ProvidersLateInv == ASSUME IInv, ProvidersLate PROVE IInv'
<1>1. /\ InitAt("providers") /\ "providers" \in InitPC \ {"off"}
      /\ UNCHANGED <<attempts, complete, failed, noBackup, open, known, loops, backfill>>
      /\ init' = [task |-> "retry", pc |-> "wait", cancel |-> FALSE]
  BY DEF ProvidersLate, storeVars, taskVars, InitPC
<1>2. TypeOK
  BY DEF IInv
<1>3. /\ init' \in [task : {"init", "retry"}, pc : InitPC, cancel : BOOLEAN]
      /\ init'.pc = "wait" /\ init'.task = "retry" /\ init'.cancel = FALSE
  BY <1>1 DEF InitPC
<1> QED  BY <1>1, <1>2, <1>3, InitAtFacts, InitMoves DEF TypeOK, IInv, StoresOpen

LEMMA RetryInv == ASSUME IInv, Retry PROVE IInv'
<1>1. /\ InitAt("wait") /\ attempts < MaxAttempts /\ attempts' = attempts + 1
      /\ \/ InitTo("db") /\ UNCHANGED failed
         \/ UNCHANGED <<init, failed>>
         \/ InitTo("off") /\ failed' = TRUE
      /\ UNCHANGED <<complete, noBackup, open, known, loops, backfill>>
  BY DEF Retry, storeVars, taskVars
<1>2. TypeOK /\ attempts' \in 0 .. MaxAttempts /\ {"wait", "db", "off"} \subseteq InitPC
  BY <1>1, LifecycleAssumption DEF IInv, TypeOK, InitPC
<1>3. CASE InitTo("db") /\ UNCHANGED failed
  BY <1>1, <1>2, <1>3, InitAtFacts, InitToFacts, InitMoves DEF TypeOK, IInv, StoresOpen
<1>4. CASE UNCHANGED <<init, failed>>
  BY <1>1, <1>2, <1>4, InitAtFacts, InitMoves DEF TypeOK, IInv, StoresOpen
<1>5. CASE InitTo("off") /\ failed' = TRUE
  BY <1>1, <1>2, <1>5, InitAtFacts, InitToFacts, InitMoves DEF TypeOK, IInv, StoresOpen
<1> QED  BY <1>1, <1>3, <1>4, <1>5

LEMMA OpenGraphInv == ASSUME IInv, OpenGraph PROVE IInv'
<1>1. /\ InitAt("graph") /\ InitTo("migrate") /\ "graph" \in InitPC \ {"off"} /\ "migrate" \in InitPC
      /\ UNCHANGED <<attempts, complete, failed, noBackup, known, loops, backfill>>
      /\ open' = open \cup {"graph"}
  BY DEF OpenGraph, Stage, taskVars, InitPC
<1>2. TypeOK
  BY DEF IInv
<1> QED  BY <1>1, <1>2, InitAtFacts, InitToFacts, InitMoves DEF TypeOK, IInv, StoresOpen, Stores, Loops

LEMMA MigrateInv == ASSUME IInv, Migrate PROVE IInv'
<1>1. /\ InitAt("migrate") /\ InitTo("engine") /\ "migrate" \in InitPC \ {"off"} /\ "engine" \in InitPC
      /\ UNCHANGED <<attempts, complete, failed, noBackup, open, loops, backfill>>
      /\ known' = known \cup {"engine", "graph"}
  BY DEF Migrate, Stage, taskVars, InitPC
<1>2. TypeOK
  BY DEF IInv
<1> QED  BY <1>1, <1>2, InitAtFacts, InitToFacts, InitMoves DEF TypeOK, IInv, StoresOpen, Stores, Loops

LEMMA InitEngineInv == ASSUME IInv, InitEngine PROVE IInv'
<1>1. /\ InitAt("engine") /\ InitTo("v2") /\ "engine" \in InitPC \ {"off"} /\ "v2" \in InitPC
      /\ UNCHANGED <<attempts, complete, failed, noBackup, known, backfill>>
      /\ open' = open \cup {"engine"} /\ loops' = loops \cup {"atoms"}
  BY DEF InitEngine, Stage, InitPC
<1>2. TypeOK
  BY DEF IInv
<1> QED  BY <1>1, <1>2, InitAtFacts, InitToFacts, InitMoves DEF TypeOK, IInv, StoresOpen, Stores, Loops

LEMMA InitV2Inv == ASSUME IInv, InitV2 PROVE IInv'
<1>1. /\ InitAt("v2") /\ InitTo("conv") /\ "v2" \in InitPC \ {"off"} /\ "conv" \in InitPC
      /\ UNCHANGED <<attempts, complete, failed, noBackup, loops>>
      /\ open' = open \cup {"v2"} /\ known' = known \cup {"v2"} /\ backfill' = [Off EXCEPT !.pc = "work"]
  BY DEF InitV2, Stage, InitPC
<1>2. TypeOK
  BY DEF IInv
<1>3. /\ backfill' \in [pc : {"off", "work", "sleep"}, cancel : BOOLEAN]
      /\ backfill'.cancel => backfill'.pc # "off"
  BY <1>1 DEF Off
<1> QED  BY <1>1, <1>2, <1>3, InitAtFacts, InitToFacts, InitMoves DEF TypeOK, IInv, StoresOpen, Stores

LEMMA InitV2FailsInv == ASSUME IInv, InitV2Fails PROVE IInv'
<1>1. /\ init.pc = "v2" /\ init' = [init EXCEPT !.pc = "conv", !.cancel = FALSE]
      /\ open' = open \/ open' = open \cup {"v2"}
      /\ UNCHANGED <<attempts, complete, failed, known, loops, backfill, hnd, storing, hook, shutting, term, swallowed, noBackup>>
  BY DEF InitV2Fails, taskVars, workVars, histVars
<1>2. TypeOK /\ term \in Early /\ ~complete /\ ~failed
  BY <1>1, EarlyWhileInit DEF IInv, Early, VerdictInv
<1>3. /\ init' \in [task : {"init", "retry"}, pc : InitPC, cancel : BOOLEAN]
      /\ init'.pc = "conv" /\ init'.task = init.task /\ init'.cancel = FALSE
  BY <1>1, <1>2 DEF TypeOK, InitPC
<1>4. term \in PastInit => init'.task # "init"
  BY <1>1, <1>3 DEF IInv, InitOver
<1> QED  BY <1>1, <1>2, <1>3, <1>4, InitMoves DEF TypeOK, IInv, StoresOpen, Stores

LEMMA InitConvInv == ASSUME IInv, InitConv PROVE IInv'
<1>1. /\ InitAt("conv") /\ InitTo("tail") /\ "conv" \in InitPC \ {"off"} /\ "tail" \in InitPC
      /\ UNCHANGED <<attempts, complete, failed, noBackup, loops, backfill>>
      /\ open' = open \cup {"conv"} /\ known' = known \cup {"conv"}
  BY DEF InitConv, Stage, taskVars, InitPC
<1>2. TypeOK
  BY DEF IInv
<1> QED  BY <1>1, <1>2, InitAtFacts, InitToFacts, InitMoves DEF TypeOK, IInv, StoresOpen, Stores, Loops

LEMMA CompleteInv == ASSUME IInv, Complete PROVE IInv'
<1>1. /\ InitAt("tail") /\ InitTo("off") /\ "tail" \in InitPC \ {"off"} /\ "off" \in InitPC
      /\ UNCHANGED <<attempts, failed, noBackup, open, known, backfill>>
      /\ complete' = TRUE /\ loops' \subseteq loops \cup {"decay", "bus"} \cup Components
  BY DEF Complete, storeVars, InitPC
<1>2. TypeOK
  BY DEF IInv
<1> QED  BY <1>1, <1>2, InitAtFacts, InitToFacts, InitMoves DEF TypeOK, IInv, StoresOpen, Stores, Loops, Components

LEMMA UnfinishedInv == ASSUME IInv, NEW verdict \in BOOLEAN, Unfinished(verdict) PROVE IInv'
<1>1. /\ init.pc # "off" /\ init' = [init EXCEPT !.pc = "off", !.cancel = FALSE] /\ failed' = verdict
      /\ known \subseteq known' /\ known' \subseteq known \cup {"db"}
      /\ loops' \subseteq loops \cup {"atoms"}
      /\ UNCHANGED <<attempts, complete, backfill, hnd, storing, hook, shutting, term, swallowed, noBackup>>
  BY DEF Unfinished, workVars, histVars
<1>2. TypeOK /\ term \in Early /\ ~complete /\ ~failed
  BY <1>1, EarlyWhileInit DEF IInv, Early, VerdictInv
<1>3. /\ init' \in [task : {"init", "retry"}, pc : InitPC, cancel : BOOLEAN]
      /\ init'.pc = "off" /\ init'.task = init.task /\ init'.cancel = FALSE
  BY <1>1, <1>2 DEF TypeOK, InitPC
<1>4. open \subseteq open' /\ open' \subseteq Stores
  <2>1. PICK half \in HalfOpen(init.pc) : open' = open \cup half
    BY DEF Unfinished
  <2>2. half \subseteq Stores
    BY DEF HalfOpen, Stores
  <2> QED  BY <1>2, <2>1, <2>2 DEF TypeOK
<1>5. "v2" \in known' => "v2" \in known
  BY <1>1
<1> QED  BY <1>1, <1>2, <1>3, <1>4, <1>5, InitMoves DEF TypeOK, IInv, StoresOpen, Stores, Loops

LEMMA InitializeInv == ASSUME IInv, Initialize PROVE IInv'
<1>1. failed \in BOOLEAN
  BY DEF IInv, TypeOK
<1> QED
  BY <1>1, BackupInv, BackupFailsInv, ProvidersReadyInv, ProvidersLateInv, RetryInv, OpenDbInv, OpenGraphInv, MigrateInv,
     InitEngineInv, InitV2Inv, InitV2FailsInv, InitConvInv, CompleteInv, UnfinishedInv
     DEF Initialize, InitFails, InitCancelled

-----------------------------------------------------------------------------
(* The prophecy loop.                                                      *)

LEMMA BackfillInv == ASSUME IInv, Backfill PROVE IInv'
<1>1. /\ UNCHANGED <<init, attempts, complete, failed, open, known, loops, hnd, storing, hook, shutting, term, noBackup>>
      /\ backfill.pc # "off"
  BY DEF Backfill, BackfillWork, BackfillWake, BackfillCancelled, BackfillSwallows, BackfillStep, initVars, storeVars,
     workVars, IInv, TypeOK
<1>2. /\ backfill' \in [pc : {"off", "work", "sleep"}, cancel : BOOLEAN]
      /\ backfill'.cancel => backfill'.pc # "off"
      /\ swallowed' \in BOOLEAN
  <2>1. CASE BackfillWork
    BY <2>1 DEF BackfillWork, IInv, TypeOK
  <2>2. CASE BackfillWake
    BY <2>2 DEF BackfillWake, IInv, TypeOK
  <2>3. CASE BackfillCancelled
    BY <2>3 DEF BackfillCancelled, Off, IInv, TypeOK
  <2>4. CASE BackfillSwallows
    BY <2>4 DEF BackfillSwallows, IInv, TypeOK
  <2> QED  BY <2>1, <2>2, <2>3, <2>4 DEF Backfill
<1>3. TypeOK'
  BY <1>1, <1>2 DEF IInv, TypeOK
<1>4. InitOver'
  BY <1>1 DEF IInv, InitOver
<1>5. VerdictInv' /\ LoopsOver' /\ WorkOver' /\ StoresClosed' /\ StoresOpen' /\ WorkersInv'
  BY <1>1 DEF IInv, VerdictInv, LoopsOver, WorkOver, StoresClosed, StoresOpen, WorkersInv
<1> QED  BY <1>3, <1>4, <1>5 DEF IInv

-----------------------------------------------------------------------------
(* Handlers, storage tasks and hooks.                                      *)

\* What their steps have in common.
LEMMA WorkMoves ==
  ASSUME IInv, UNCHANGED <<init, attempts, complete, failed, open, known, backfill, term, swallowed, noBackup, shutting>>,
         hnd' \in [Handlers -> {"idle", "waiting", "work", "gate"}],
         \A x \in Handlers : hnd'[x] = "work" => complete,
         storing' \in BOOLEAN, storing' => storing \/ (~shutting /\ complete),
         hook' \in BOOLEAN, hook' => hook \/ (storing /\ "v2" \in known),
         loops \subseteq loops', loops' \subseteq Loops,
         loops' \cap Components # loops \cap Components => term = "off",
         loops' \cap {"decay", "atoms"} = loops \cap {"decay", "atoms"}
  PROVE IInv'
<1>1. TypeOK'
  BY DEF IInv, TypeOK
<1>2. InitOver' /\ VerdictInv' /\ StoresClosed' /\ StoresOpen'
  BY DEF IInv, InitOver, VerdictInv, StoresClosed, StoresOpen
<1>3. LoopsOver'
  <2>1. term = "off" => LoopsOver'
    BY EarlyIsNotPast DEF Early, LoopsOver
  <2>2. loops' \cap Components = loops \cap Components => LoopsOver'
    BY DEF IInv, LoopsOver, Components
  <2> QED  BY <2>1, <2>2
<1>4. WorkOver'
  BY DEF IInv, TypeOK, WorkOver, TermPC, PastInit, PastRetry, PastLoop, PastV11, PastSummary, PastShut, PastStoring,
     PastDecay, PastConv, PastAtoms, PastHooks
<1>5. WorkersInv'
  BY DEF IInv, WorkersInv
<1> QED  BY <1>1, <1>2, <1>3, <1>4, <1>5 DEF IInv

LEMMA HandlerInv == ASSUME IInv, NEW x \in Handlers, Arrive(x) \/ Work(x) PROVE IInv'
<1>1. /\ UNCHANGED <<init, attempts, complete, failed, open, known, backfill, term, swallowed, noBackup, hook, shutting>>
      /\ \E s \in {"idle", "waiting", "gate"} : hnd' = [hnd EXCEPT ![x] = s] \/ (hnd' = [hnd EXCEPT ![x] = "work"] /\ complete)
  BY DEF Arrive, Work, Ready, NotReady, Reflect, Gate, WorkStep, initVars, storeVars, histVars
<1>2. /\ hnd \in [Handlers -> {"idle", "waiting", "work", "gate"}] /\ storing \in BOOLEAN /\ hook \in BOOLEAN
      /\ loops \subseteq Loops /\ \A y \in Handlers : hnd[y] = "work" => complete
  BY DEF IInv, TypeOK, WorkersInv
<1>3. /\ hnd' \in [Handlers -> {"idle", "waiting", "work", "gate"}]
      /\ \A y \in Handlers : hnd'[y] = "work" => complete
  BY <1>1, <1>2
<1>4. CASE Arrive(x) \/ NotReady(x)
  <2>1. UNCHANGED <<loops, storing>>
    BY <1>4 DEF Arrive, NotReady
  <2> QED  BY <1>1, <1>2, <1>3, <2>1, WorkMoves
<1>5. CASE Ready(x)
  <2>1. UNCHANGED storing /\ (loops' = loops \/ (term = "off" /\ loops' = loops \cup Components))
    BY <1>5 DEF Ready, MayCreate
  <2> QED  BY <1>1, <1>2, <1>3, <2>1, WorkMoves DEF Components, Loops
<1>6. CASE Reflect(x)
  <2>1. UNCHANGED loops /\ hnd[x] = "work" /\ storing' \in {storing, ~shutting \/ storing}
    BY <1>6 DEF Reflect
  <2>2. storing' \in BOOLEAN /\ (storing' => storing \/ (~shutting /\ complete))
    BY <1>2, <2>1
  <2> QED  BY <1>1, <1>2, <1>3, <2>1, <2>2, WorkMoves
<1>7. CASE Gate(x)
  <2>1. UNCHANGED storing /\ loops' \in {loops, loops \cup {"reflection"}}
    BY <1>7 DEF Gate
  <2> QED  BY <1>1, <1>2, <1>3, <2>1, WorkMoves DEF Components, Loops
<1> QED  BY <1>4, <1>5, <1>6, <1>7 DEF Work

LEMMA StoreEndsInv == ASSUME IInv, StoreEnds PROVE IInv'
<1>1. /\ UNCHANGED <<init, attempts, complete, failed, open, known, backfill, term, swallowed, noBackup, hnd, loops, shutting>>
      /\ storing /\ storing' = FALSE /\ hook' \in {hook, hook \/ "v2" \in known}
  BY DEF StoreEnds, WorkStep, initVars, storeVars, histVars
<1>2. /\ hnd \in [Handlers -> {"idle", "waiting", "work", "gate"}] /\ hook \in BOOLEAN
      /\ loops \subseteq Loops /\ \A y \in Handlers : hnd[y] = "work" => complete
  BY DEF IInv, TypeOK, WorkersInv
<1>3. hook' \in BOOLEAN /\ (hook' => hook \/ (storing /\ "v2" \in known))
  BY <1>1, <1>2
<1> QED  BY <1>1, <1>2, <1>3, WorkMoves

LEMMA HookEndsInv == ASSUME IInv, HookEnds PROVE IInv'
<1>1. /\ UNCHANGED <<init, attempts, complete, failed, open, known, backfill, term, swallowed, noBackup, hnd, storing, shutting>>
      /\ hook' = FALSE /\ loops' \in {loops, loops \cup {"bus"}}
  BY DEF HookEnds, WorkStep, initVars, storeVars, histVars
<1>2. /\ hnd \in [Handlers -> {"idle", "waiting", "work", "gate"}] /\ storing \in BOOLEAN
      /\ loops \subseteq Loops /\ \A y \in Handlers : hnd[y] = "work" => complete
  BY DEF IInv, TypeOK, WorkersInv
<1> QED  BY <1>1, <1>2, WorkMoves DEF Components, Loops

-----------------------------------------------------------------------------
(* terminate()                                                             *)

\* Cancelling a task asks it to end, no more.
LEMMA CancelFacts ==
  ASSUME IInv, NEW t \in {"init", "retry"}, CancelTask(t)
  PROVE /\ init' \in [task : {"init", "retry"}, pc : InitPC, cancel : BOOLEAN]
        /\ init'.pc = init.pc /\ init'.task = init.task /\ (init'.cancel => init'.pc # "off")
  BY DEF IInv, TypeOK, CancelTask

LEMMA TerminateInv == ASSUME IInv, Terminate \/ TermGathered \/ TermRetryStopped PROVE IInv'
<1>1. /\ term \in {"off", "gather", "retry"} /\ term' \in {"gather", "retry", "backfill"}
      /\ UNCHANGED <<attempts, complete, failed, swallowed, noBackup, open, known, loops, hnd, storing, hook, shutting>>
  BY DEF Terminate, TermGathered, TermRetryStopped, TermStep, storeVars, taskVars, workVars, histVars
<1>2. /\ init' \in [task : {"init", "retry"}, pc : InitPC, cancel : BOOLEAN]
      /\ init'.pc = init.pc /\ init'.task = init.task /\ (init'.cancel => init'.pc # "off")
  BY CancelFacts DEF Terminate, TermGathered, TermRetryStopped, IInv, TypeOK
<1>3. /\ backfill' \in [pc : {"off", "work", "sleep"}, cancel : BOOLEAN]
      /\ backfill'.cancel => backfill'.pc # "off"
  BY ZenonT(40) DEF Terminate, TermGathered, TermRetryStopped, taskVars, Off, IInv, TypeOK
<1>4. TypeOK'
  BY <1>1, <1>2, <1>3 DEF IInv, TypeOK, TermPC
<1>5. /\ term' = "retry" => (init.task = "init" => init.pc = "off")
      /\ term' = "backfill" => init.pc = "off"
  BY DEF Terminate, TermGathered, TermRetryStopped, TermStep
<1>6. InitOver'
  BY <1>1, <1>2, <1>5 DEF InitOver, PastInit, PastRetry, PastLoop
<1>7. WorkOver' /\ LoopsOver'
  BY <1>1, EarlyIsNotPast DEF IInv, WorkOver, LoopsOver, Early, PastRetry, PastLoop, PastV11, PastSummary, PastShut, PastStoring,
     PastDecay, PastConv, PastAtoms, PastHooks
<1>8. StoresClosed' /\ StoresOpen'
  BY <1>1, <1>2, EarlyIsNotPast DEF IInv, StoresClosed, StoresOpen, Early, PastRetry, PastLoop, PastV11, PastSummary, PastShut,
     PastStoring, PastDecay, PastConv, PastAtoms, PastHooks, PastEngine, PastV2
<1>9. VerdictInv' /\ WorkersInv'
  BY <1>1, <1>2 DEF IInv, VerdictInv, WorkersInv
<1> QED  BY <1>4, <1>6, <1>7, <1>8, <1>9 DEF IInv

\* From there on everything that was ended stays so.
LEMMA TermMoves ==
  ASSUME IInv, init.pc = "off", term \in PastRetry, term' \in PastLoop,
         UNCHANGED <<init, attempts, complete, failed, swallowed, noBackup, backfill, known, hnd, storing, hook>>,
         backfill.pc = "off", open' \subseteq open, loops' \subseteq loops, shutting' \in BOOLEAN,
         WorkOver', LoopsOver', StoresClosed',
         "engine" \in open => "engine" \in open' \/ term' \in PastEngine,
         "conv" \in open => "conv" \in open' \/ term' \in PastConv,
         "v2" \in open => "v2" \in open' \/ term' \in PastV2,
         term \in PastConv => term' \in PastConv, term \in PastEngine => term' \in PastEngine,
         term \in PastV2 => term' \in PastV2
  PROVE IInv'
<1>1. TypeOK'
  BY DEF IInv, TypeOK, PastLoop, PastRetry, PastInit
<1>2. InitOver' /\ VerdictInv' /\ WorkersInv'
  BY DEF IInv, InitOver, VerdictInv, WorkersInv
<1>3. StoresOpen'
  BY DEF IInv, StoresOpen
<1> QED  BY <1>1, <1>2, <1>3 DEF IInv

LEMMA TermBackfillStoppedInv == ASSUME IInv, TermBackfillStopped PROVE IInv'
<1>1. /\ term = "backfill" /\ term' = "bus" /\ backfill.pc = "off"
      /\ UNCHANGED <<init, attempts, complete, failed, swallowed, noBackup, open, known, loops, backfill, hnd, storing, hook, shutting>>
  BY DEF TermBackfillStopped, TermStep, storeVars, taskVars, workVars, histVars
<1>2. term \in PastRetry /\ term' \in PastLoop /\ init.pc = "off"
  BY <1>1 DEF IInv, InitOver, PastInit, PastRetry, PastLoop, TermPC
<1>3. WorkOver' /\ LoopsOver' /\ StoresClosed'
  BY <1>1 DEF IInv, WorkOver, LoopsOver, StoresClosed, PastInit, PastRetry, PastLoop, PastV11, PastSummary, PastShut, PastStoring,
     PastDecay, PastConv, PastAtoms, PastHooks, PastEngine, PastV2
<1> QED  BY <1>1, <1>2, <1>3, TermMoves DEF IInv, TypeOK, PastConv, PastDecay, PastStoring, PastShut, PastSummary, PastV11, PastLoop,
            PastEngine, PastHooks, PastAtoms, PastV2

LEMMA OverFacts ==
  ASSUME IInv, term \in PastLoop
  PROVE /\ term \in PastRetry /\ init.pc = "off" /\ backfill.pc = "off" /\ shutting \in BOOLEAN
        /\ storing \in BOOLEAN /\ hook \in BOOLEAN
  BY DEF IInv, TypeOK, InitOver, PastLoop

\* What stopping loops, closing stores and waiting leave alone.
Ends(from, to) ==
    /\ term = from /\ term' = to
    /\ UNCHANGED <<init, attempts, complete, failed, swallowed, noBackup, backfill, known, hnd, storing, hook>>
    /\ open' \subseteq open /\ loops' \subseteq loops /\ shutting' \in BOOLEAN

LEMMA EndsInv ==
  ASSUME IInv, NEW from \in PastLoop, NEW to \in PastLoop, Ends(from, to),
         WorkOver', LoopsOver', StoresClosed',
         "engine" \in open => "engine" \in open' \/ to \in PastEngine,
         "conv" \in open => "conv" \in open' \/ to \in PastConv,
         "v2" \in open => "v2" \in open' \/ to \in PastV2,
         from \in PastConv => to \in PastConv, from \in PastEngine => to \in PastEngine,
         from \in PastV2 => to \in PastV2
  PROVE IInv'
  BY OverFacts, TermMoves DEF Ends

LEMMA StopLoopsFacts ==
  ASSUME IInv, NEW from, NEW to, NEW stopped, TermStopLoops(from, to, stopped)
  PROVE Ends(from, to) /\ loops' = loops \ stopped /\ UNCHANGED <<open, shutting>>
  BY DEF TermStopLoops, TermStep, Ends, histVars, storeVars, workVars, IInv, TypeOK

LEMMA CloseFacts ==
  ASSUME IInv, NEW from, NEW to, NEW closed, TermClose(from, to, closed)
  PROVE Ends(from, to) /\ open' = open \ (closed \cap known) /\ UNCHANGED <<loops, shutting>>
  BY DEF TermClose, TermStep, Ends, histVars, taskVars, workVars, IInv, TypeOK

LEMMA StopBusInv == ASSUME IInv, TermStopLoops("bus", "v11", {"bus"}) PROVE IInv'
<1>1. Ends("bus", "v11") /\ loops' = loops \ {"bus"} /\ UNCHANGED <<open, shutting>>
  BY StopLoopsFacts
<1>2. /\ "bus" \in PastLoop /\ "v11" \in PastLoop
      /\ term = "bus" /\ term' = "v11" /\ UNCHANGED <<known, storing, hook>>
  BY <1>1 DEF Ends, TermPC, PastInit, PastRetry, PastLoop, PastV11, PastSummary, PastShut, PastStoring,
     PastDecay, PastConv, PastAtoms, PastHooks, PastEngine, PastV2
<1>3. WorkOver' /\ LoopsOver' /\ StoresClosed'
  BY <1>1, <1>2 DEF IInv, WorkOver, LoopsOver, StoresClosed, PastInit, PastRetry, PastLoop, PastV11, PastSummary, PastShut, PastStoring,
     PastDecay, PastConv, PastAtoms, PastHooks, PastEngine, PastV2
<1> QED  BY <1>1, <1>2, <1>3, EndsInv DEF PastInit, PastRetry, PastLoop, PastV11, PastSummary, PastShut, PastStoring,
     PastDecay, PastConv, PastAtoms, PastHooks, PastEngine, PastV2

LEMMA StopV11Inv == ASSUME IInv, TermStopLoops("v11", "summary", {"v11", "reflection"}) PROVE IInv'
<1>1. Ends("v11", "summary") /\ loops' = loops \ {"v11", "reflection"} /\ UNCHANGED <<open, shutting>>
  BY StopLoopsFacts
<1>2. /\ "v11" \in PastLoop /\ "summary" \in PastLoop
      /\ term = "v11" /\ term' = "summary" /\ UNCHANGED <<known, storing, hook>>
  BY <1>1 DEF Ends, TermPC, PastInit, PastRetry, PastLoop, PastV11, PastSummary, PastShut, PastStoring,
     PastDecay, PastConv, PastAtoms, PastHooks, PastEngine, PastV2
<1>3. WorkOver' /\ LoopsOver' /\ StoresClosed'
  BY <1>1, <1>2 DEF IInv, WorkOver, LoopsOver, StoresClosed, PastInit, PastRetry, PastLoop, PastV11, PastSummary, PastShut, PastStoring,
     PastDecay, PastConv, PastAtoms, PastHooks, PastEngine, PastV2
<1> QED  BY <1>1, <1>2, <1>3, EndsInv DEF PastInit, PastRetry, PastLoop, PastV11, PastSummary, PastShut, PastStoring,
     PastDecay, PastConv, PastAtoms, PastHooks, PastEngine, PastV2

LEMMA StopSummaryInv == ASSUME IInv, TermStopLoops("summary", "shutdown", {"summary", "l3"}) PROVE IInv'
<1>1. Ends("summary", "shutdown") /\ loops' = loops \ {"summary", "l3"} /\ UNCHANGED <<open, shutting>>
  BY StopLoopsFacts
<1>2. /\ "summary" \in PastLoop /\ "shutdown" \in PastLoop
      /\ term = "summary" /\ term' = "shutdown" /\ UNCHANGED <<known, storing, hook>>
  BY <1>1 DEF Ends, TermPC, PastInit, PastRetry, PastLoop, PastV11, PastSummary, PastShut, PastStoring,
     PastDecay, PastConv, PastAtoms, PastHooks, PastEngine, PastV2
<1>3. WorkOver' /\ LoopsOver' /\ StoresClosed'
  BY <1>1, <1>2 DEF IInv, WorkOver, LoopsOver, StoresClosed, PastInit, PastRetry, PastLoop, PastV11, PastSummary, PastShut, PastStoring,
     PastDecay, PastConv, PastAtoms, PastHooks, PastEngine, PastV2
<1> QED  BY <1>1, <1>2, <1>3, EndsInv DEF PastInit, PastRetry, PastLoop, PastV11, PastSummary, PastShut, PastStoring,
     PastDecay, PastConv, PastAtoms, PastHooks, PastEngine, PastV2

LEMMA TermShutdownInv == ASSUME IInv, TermShutdown PROVE IInv'
<1>1. Ends("shutdown", "storing") /\ shutting' = TRUE /\ UNCHANGED <<open, loops>>
  BY DEF TermShutdown, TermStep, Ends, histVars, storeVars, taskVars, workVars, IInv, TypeOK
<1>2. /\ "shutdown" \in PastLoop /\ "storing" \in PastLoop
      /\ term = "shutdown" /\ term' = "storing" /\ UNCHANGED <<known, storing, hook>>
  BY <1>1 DEF Ends, TermPC, PastInit, PastRetry, PastLoop, PastV11, PastSummary, PastShut, PastStoring,
     PastDecay, PastConv, PastAtoms, PastHooks, PastEngine, PastV2
<1>3. WorkOver' /\ LoopsOver' /\ StoresClosed'
  BY <1>1, <1>2 DEF IInv, WorkOver, LoopsOver, StoresClosed, PastInit, PastRetry, PastLoop, PastV11, PastSummary, PastShut, PastStoring,
     PastDecay, PastConv, PastAtoms, PastHooks, PastEngine, PastV2
<1> QED  BY <1>1, <1>2, <1>3, EndsInv DEF PastInit, PastRetry, PastLoop, PastV11, PastSummary, PastShut, PastStoring,
     PastDecay, PastConv, PastAtoms, PastHooks, PastEngine, PastV2

LEMMA TermStoredInv == ASSUME IInv, TermStored PROVE IInv'
<1>1. Ends("storing", "decay") /\ ~storing /\ UNCHANGED <<open, loops, shutting>>
  BY DEF TermStored, TermStep, Ends, histVars, storeVars, taskVars, workVars, IInv, TypeOK
<1>2. /\ "storing" \in PastLoop /\ "decay" \in PastLoop
      /\ term = "storing" /\ term' = "decay" /\ UNCHANGED <<known, storing, hook>>
  BY <1>1 DEF Ends, TermPC, PastInit, PastRetry, PastLoop, PastV11, PastSummary, PastShut, PastStoring,
     PastDecay, PastConv, PastAtoms, PastHooks, PastEngine, PastV2
<1>3. WorkOver' /\ LoopsOver' /\ StoresClosed'
  BY <1>1, <1>2 DEF IInv, WorkOver, LoopsOver, StoresClosed, PastInit, PastRetry, PastLoop, PastV11, PastSummary, PastShut, PastStoring,
     PastDecay, PastConv, PastAtoms, PastHooks, PastEngine, PastV2
<1> QED  BY <1>1, <1>2, <1>3, EndsInv DEF PastInit, PastRetry, PastLoop, PastV11, PastSummary, PastShut, PastStoring,
     PastDecay, PastConv, PastAtoms, PastHooks, PastEngine, PastV2

LEMMA StopDecayInv == ASSUME IInv, TermStopLoops("decay", "conv", {"decay"}) PROVE IInv'
<1>1. Ends("decay", "conv") /\ loops' = loops \ {"decay"} /\ UNCHANGED <<open, shutting>>
  BY StopLoopsFacts
<1>2. /\ "decay" \in PastLoop /\ "conv" \in PastLoop
      /\ term = "decay" /\ term' = "conv" /\ UNCHANGED <<known, storing, hook>>
  BY <1>1 DEF Ends, TermPC, PastInit, PastRetry, PastLoop, PastV11, PastSummary, PastShut, PastStoring,
     PastDecay, PastConv, PastAtoms, PastHooks, PastEngine, PastV2
<1>3. WorkOver' /\ LoopsOver' /\ StoresClosed'
  BY <1>1, <1>2 DEF IInv, WorkOver, LoopsOver, StoresClosed, PastInit, PastRetry, PastLoop, PastV11, PastSummary, PastShut, PastStoring,
     PastDecay, PastConv, PastAtoms, PastHooks, PastEngine, PastV2
<1> QED  BY <1>1, <1>2, <1>3, EndsInv DEF PastInit, PastRetry, PastLoop, PastV11, PastSummary, PastShut, PastStoring,
     PastDecay, PastConv, PastAtoms, PastHooks, PastEngine, PastV2

LEMMA CloseConvInv == ASSUME IInv, TermClose("conv", "atoms", {"conv"}) PROVE IInv'
<1>1. Ends("conv", "atoms") /\ open' = open \ ({"conv"} \cap known) /\ UNCHANGED <<loops, shutting>>
  BY CloseFacts
<1>2. /\ "conv" \in PastLoop /\ "atoms" \in PastLoop
      /\ term = "conv" /\ term' = "atoms" /\ UNCHANGED <<known, storing, hook>>
  BY <1>1 DEF Ends, TermPC, PastInit, PastRetry, PastLoop, PastV11, PastSummary, PastShut, PastStoring,
     PastDecay, PastConv, PastAtoms, PastHooks, PastEngine, PastV2
<1>3. WorkOver' /\ LoopsOver' /\ StoresClosed'
  BY <1>1, <1>2 DEF IInv, WorkOver, LoopsOver, StoresClosed, PastInit, PastRetry, PastLoop, PastV11, PastSummary, PastShut, PastStoring,
     PastDecay, PastConv, PastAtoms, PastHooks, PastEngine, PastV2
<1> QED  BY <1>1, <1>2, <1>3, EndsInv DEF PastInit, PastRetry, PastLoop, PastV11, PastSummary, PastShut, PastStoring,
     PastDecay, PastConv, PastAtoms, PastHooks, PastEngine, PastV2

LEMMA StopAtomsInv == ASSUME IInv, TermStopLoops("atoms", "hooks", {"atoms"}) PROVE IInv'
<1>1. Ends("atoms", "hooks") /\ loops' = loops \ {"atoms"} /\ UNCHANGED <<open, shutting>>
  BY StopLoopsFacts
<1>2. /\ "atoms" \in PastLoop /\ "hooks" \in PastLoop
      /\ term = "atoms" /\ term' = "hooks" /\ UNCHANGED <<known, storing, hook>>
  BY <1>1 DEF Ends, TermPC, PastInit, PastRetry, PastLoop, PastV11, PastSummary, PastShut, PastStoring,
     PastDecay, PastConv, PastAtoms, PastHooks, PastEngine, PastV2
<1>3. WorkOver' /\ LoopsOver' /\ StoresClosed'
  BY <1>1, <1>2 DEF IInv, WorkOver, LoopsOver, StoresClosed, PastInit, PastRetry, PastLoop, PastV11, PastSummary, PastShut, PastStoring,
     PastDecay, PastConv, PastAtoms, PastHooks, PastEngine, PastV2
<1> QED  BY <1>1, <1>2, <1>3, EndsInv DEF PastInit, PastRetry, PastLoop, PastV11, PastSummary, PastShut, PastStoring,
     PastDecay, PastConv, PastAtoms, PastHooks, PastEngine, PastV2

LEMMA TermHooksInv == ASSUME IInv, TermHooks PROVE IInv'
<1>1. Ends("hooks", "engine") /\ ~hook /\ UNCHANGED <<open, loops, shutting>>
  BY DEF TermHooks, TermStep, Ends, histVars, storeVars, taskVars, workVars, IInv, TypeOK
<1>2. /\ "hooks" \in PastLoop /\ "engine" \in PastLoop
      /\ term = "hooks" /\ term' = "engine" /\ UNCHANGED <<known, storing, hook>>
  BY <1>1 DEF Ends, TermPC, PastInit, PastRetry, PastLoop, PastV11, PastSummary, PastShut, PastStoring,
     PastDecay, PastConv, PastAtoms, PastHooks, PastEngine, PastV2
<1>3. WorkOver' /\ LoopsOver' /\ StoresClosed'
  BY <1>1, <1>2 DEF IInv, WorkOver, LoopsOver, StoresClosed, PastInit, PastRetry, PastLoop, PastV11, PastSummary, PastShut, PastStoring,
     PastDecay, PastConv, PastAtoms, PastHooks, PastEngine, PastV2
<1> QED  BY <1>1, <1>2, <1>3, EndsInv DEF PastInit, PastRetry, PastLoop, PastV11, PastSummary, PastShut, PastStoring,
     PastDecay, PastConv, PastAtoms, PastHooks, PastEngine, PastV2

LEMMA CloseEngineInv == ASSUME IInv, TermClose("engine", "v2", {"engine", "graph"}) PROVE IInv'
<1>1. Ends("engine", "v2") /\ open' = open \ ({"engine", "graph"} \cap known) /\ UNCHANGED <<loops, shutting>>
  BY CloseFacts
<1>2. /\ "engine" \in PastLoop /\ "v2" \in PastLoop
      /\ term = "engine" /\ term' = "v2" /\ UNCHANGED <<known, storing, hook>>
  BY <1>1 DEF Ends, TermPC, PastInit, PastRetry, PastLoop, PastV11, PastSummary, PastShut, PastStoring,
     PastDecay, PastConv, PastAtoms, PastHooks, PastEngine, PastV2
<1>3. WorkOver' /\ LoopsOver' /\ StoresClosed'
  BY <1>1, <1>2 DEF IInv, WorkOver, LoopsOver, StoresClosed, PastInit, PastRetry, PastLoop, PastV11, PastSummary, PastShut, PastStoring,
     PastDecay, PastConv, PastAtoms, PastHooks, PastEngine, PastV2
<1> QED  BY <1>1, <1>2, <1>3, EndsInv DEF PastInit, PastRetry, PastLoop, PastV11, PastSummary, PastShut, PastStoring,
     PastDecay, PastConv, PastAtoms, PastHooks, PastEngine, PastV2

LEMMA CloseV2Inv == ASSUME IInv, TermClose("v2", "db", {"v2"}) PROVE IInv'
<1>1. Ends("v2", "db") /\ open' = open \ ({"v2"} \cap known) /\ UNCHANGED <<loops, shutting>>
  BY CloseFacts
<1>2. /\ "v2" \in PastLoop /\ "db" \in PastLoop
      /\ term = "v2" /\ term' = "db" /\ UNCHANGED <<known, storing, hook>>
  BY <1>1 DEF Ends, TermPC, PastInit, PastRetry, PastLoop, PastV11, PastSummary, PastShut, PastStoring,
     PastDecay, PastConv, PastAtoms, PastHooks, PastEngine, PastV2
<1>3. WorkOver' /\ LoopsOver' /\ StoresClosed'
  BY <1>1, <1>2 DEF IInv, WorkOver, LoopsOver, StoresClosed, PastInit, PastRetry, PastLoop, PastV11, PastSummary, PastShut, PastStoring,
     PastDecay, PastConv, PastAtoms, PastHooks, PastEngine, PastV2
<1> QED  BY <1>1, <1>2, <1>3, EndsInv DEF PastInit, PastRetry, PastLoop, PastV11, PastSummary, PastShut, PastStoring,
     PastDecay, PastConv, PastAtoms, PastHooks, PastEngine, PastV2

LEMMA CloseDbInv == ASSUME IInv, TermClose("db", "done", {"db"}) PROVE IInv'
<1>1. Ends("db", "done") /\ open' = open \ ({"db"} \cap known) /\ UNCHANGED <<loops, shutting>>
  BY CloseFacts
<1>2. /\ "db" \in PastLoop /\ "done" \in PastLoop
      /\ term = "db" /\ term' = "done" /\ UNCHANGED <<known, storing, hook>>
  BY <1>1 DEF Ends, TermPC, PastInit, PastRetry, PastLoop, PastV11, PastSummary, PastShut, PastStoring,
     PastDecay, PastConv, PastAtoms, PastHooks, PastEngine, PastV2
<1>3. WorkOver' /\ LoopsOver' /\ StoresClosed'
  BY <1>1, <1>2 DEF IInv, WorkOver, LoopsOver, StoresClosed, PastInit, PastRetry, PastLoop, PastV11, PastSummary, PastShut, PastStoring,
     PastDecay, PastConv, PastAtoms, PastHooks, PastEngine, PastV2
<1> QED  BY <1>1, <1>2, <1>3, EndsInv DEF PastInit, PastRetry, PastLoop, PastV11, PastSummary, PastShut, PastStoring,
     PastDecay, PastConv, PastAtoms, PastHooks, PastEngine, PastV2

LEMMA TerminatingInv == ASSUME IInv, Terminating PROVE IInv'
  BY TerminateInv, TermBackfillStoppedInv, StopBusInv, StopV11Inv, StopSummaryInv, TermShutdownInv, TermStoredInv,
     StopDecayInv, CloseConvInv, StopAtomsInv, TermHooksInv, CloseEngineInv, CloseV2Inv, CloseDbInv DEF Terminating

-----------------------------------------------------------------------------
(* The invariant, and what follows from it.                                *)

LEMMA NextInv == ASSUME IInv, [Next]_vars PROVE IInv'
<1>1. CASE UNCHANGED vars
  <2>1. UNCHANGED <<init, attempts, complete, failed, open, known, loops, backfill, hnd, storing, hook, shutting, term,
                    swallowed, noBackup>>
    BY <1>1 DEF vars
  <2>2. TypeOK' /\ InitOver' /\ VerdictInv'
    BY <2>1 DEF IInv, TypeOK, InitOver, VerdictInv
  <2>3. LoopsOver' /\ WorkOver' /\ StoresClosed' /\ StoresOpen' /\ WorkersInv'
    BY <2>1 DEF IInv, LoopsOver, WorkOver, StoresClosed, StoresOpen, WorkersInv
  <2> QED  BY <2>2, <2>3 DEF IInv
<1>2. CASE Next
  BY <1>2, InitializeInv, BackfillInv, HandlerInv, StoreEndsInv, HookEndsInv, TerminateInv, TerminatingInv DEF Next
<1> QED  BY <1>1, <1>2

\* IInv is inductive.
THEOREM Inductive == Spec => []IInv
<1>1. IInv /\ [Next]_vars => IInv'
  BY NextInv
<1> QED  BY IInvInit, <1>1, PTL DEF Spec

\* For any number of handlers: when terminate() returns, nothing that writes to
\* the stores is left, and every store the plugin refers to is closed.
THEOREM QuietWhenStopped == Spec => []QuietAfterTerminate
<1>1. IInv => QuietAfterTerminate
  <2> SUFFICES ASSUME IInv, term = "done" PROVE QuietAfterTerminate
    BY DEF QuietAfterTerminate
  <2>1. /\ term \in PastRetry /\ term \in PastLoop /\ term \in PastV11 /\ term \in PastSummary /\ term \in PastStoring
        /\ term \in PastDecay /\ term \in PastConv /\ term \in PastAtoms /\ term \in PastHooks /\ term \in PastEngine
        /\ term \in PastV2
    BY DEF TermPC, PastInit, PastRetry, PastLoop, PastV11, PastSummary, PastShut, PastStoring,
     PastDecay, PastConv, PastAtoms, PastHooks, PastEngine, PastV2
  <2>2. init.pc = "off" /\ backfill.pc = "off" /\ ~storing /\ ~hook
    BY <2>1 DEF IInv, InitOver, WorkOver
  <2>3. loops \cap {"atoms", "decay", "summary", "l3", "v11"} = {}
    BY <2>1 DEF IInv, LoopsOver
  <2>4. open \cap known = {}
    BY <2>1 DEF IInv, TypeOK, StoresClosed, Stores
  <2> QED  BY <2>2, <2>3, <2>4 DEF QuietAfterTerminate
<1> QED  BY <1>1, Inductive, PTL

\* A storage task and the hook of its memory find their stores open.
THEOREM WritersHoldStores == Spec => []StoresHeld
<1>1. IInv => StoresHeld
  <2> SUFFICES ASSUME IInv PROVE StoresHeld
    OBVIOUS
  <2>1. storing => term \notin PastConv /\ term \notin PastEngine
    BY DEF IInv, WorkOver, PastConv, PastDecay, PastAtoms, PastHooks, PastEngine
  <2>2. hook => term \notin PastEngine /\ term \notin PastV2
    BY DEF IInv, WorkOver, PastEngine, PastV2
  <2>3. WritersHaveStores
    BY <2>1, <2>2 DEF IInv, StoresOpen, WorkersInv, WritersHaveStores
  <2> QED  BY <2>3 DEF IInv, StoresHeld
<1> QED  BY <1>1, Inductive, PTL

\* The initialization ends with one verdict and never takes it back, whichever of
\* the two tasks runs it and whenever it is cancelled.
THEOREM OneVerdict == Spec => VerdictFinal
<1>1. IInv /\ [Next]_vars => [VerdictKept]_vars
  <2> SUFFICES ASSUME IInv, Next, complete \/ failed
               PROVE UNCHANGED <<complete, failed>> /\ ~(complete /\ failed)
    BY DEF VerdictKept, vars, IInv, TypeOK
  <2>1. init.pc = "off" /\ ~(complete /\ failed)
    BY DEF IInv, VerdictInv
  <2>2. ~Initialize
    BY <2>1 DEF Initialize, Backup, BackupFails, ProvidersReady, ProvidersLate, Retry, OpenDb, OpenGraph, Migrate, InitEngine,
       InitV2, InitV2Fails, InitConv, Complete, InitFails, InitCancelled, Stage, InitAt, Unfinished
  <2>3. CASE Backfill \/ StoreEnds \/ HookEnds \/ \E x \in Handlers : Arrive(x) \/ Work(x)
    BY <2>1, <2>3 DEF Backfill, BackfillWork, BackfillWake, BackfillCancelled, BackfillSwallows, BackfillStep, StoreEnds,
       HookEnds, Arrive, Work, Ready, NotReady, Reflect, Gate, WorkStep, initVars
  <2>4. CASE Terminate \/ Terminating
    BY <2>1, <2>4 DEF Terminate, Terminating, TermGathered, TermRetryStopped, TermBackfillStopped, TermStopLoops, TermShutdown,
       TermStored, TermClose, TermHooks, TermStep
  <2> QED  BY <2>2, <2>3, <2>4 DEF Next
<1> QED  BY <1>1, Inductive, PTL DEF Spec, VerdictFinal

=============================================================================
