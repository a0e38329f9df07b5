---------------------------- MODULE PluginLifecycle ----------------------------
(***************************************************************************)
(* Start and stop of the plugin: the initialization, which runs in the     *)
(* background and may wait for providers (core/plugin_initializer.py), the *)
(* handlers that wait for it, the background loops it starts, and          *)
(* terminate() (main.py), which may come at any moment of all this.        *)
(*                                                                         *)
(* Cancelling an asyncio task raises CancelledError at the await it is     *)
(* suspended in: the `cancel' flag is the request, and the task's next     *)
(* step is what the code around that await does with the exception.  Code  *)
(* between two awaits that suspend is one step; creating the components    *)
(* (_ensure_runtime_components) is such code, its awaits never suspend.    *)
(***************************************************************************)
EXTENDS Integers

CONSTANTS
  Handlers,     \* event handler coroutines that may overlap
  MaxAttempts   \* _max_provider_attempts

ASSUME LifecycleAssumption == MaxAttempts \in Nat \ {0}

VARIABLES
  init,       \* the coroutine in _complete_initialization or before: [task, pc, cancel]
  attempts,   \* _provider_check_attempts
  complete, failed,  \* _initialization_complete, _initialization_failed
  open,       \* stores with an open connection
  known,      \* stores some attribute terminate() looks at refers to
  loops,      \* endless background loops that run
  backfill,   \* the prophecy loop of V2: [pc, cancel]
  hnd,        \* the handlers
  storing,    \* a storage task of the event handler runs
  hook,       \* the V2 hook of a written memory runs, in the engine's _pending_tasks
  shutting,   \* _shutting_down of the event handler
  term,       \* where terminate() is
  swallowed,  \* history: the prophecy loop went on after its cancellation
  noBackup    \* history: the backup raised, and no initialization took place

initVars == <<init, attempts, complete, failed>>
storeVars == <<open, known>>
taskVars  == <<loops, backfill>>
workVars  == <<hnd, storing, hook, shutting>>
histVars  == <<swallowed, noBackup>>
vars == <<init, attempts, complete, failed, open, known, loops, backfill, hnd,
          storing, hook, shutting, term, swallowed, noBackup>>

Stores == {"db", "graph", "engine", "v2", "conv"}
Loops  == {"atoms", "decay", "bus", "summary", "l3", "v11", "reflection"}

Off == [pc |-> "off", cancel |-> FALSE]

Init ==
  /\ init = [task |-> "init", pc |-> "backup", cancel |-> FALSE]
  /\ attempts = 0 /\ complete = FALSE /\ failed = FALSE
  /\ open = {} /\ known = {} /\ loops = {} /\ backfill = Off
  /\ hnd = [x \in Handlers |-> "idle"]
  /\ storing = FALSE /\ hook = FALSE /\ shutting = FALSE
  /\ term = "off" /\ swallowed = FALSE /\ noBackup = FALSE

-----------------------------------------------------------------------------
(* Initialization                                                          *)

InitAt(pc) == init.pc = pc /\ ~init.cancel /\ UNCHANGED <<workVars, term, swallowed>>
InitTo(pc) == init' = [init EXCEPT !.pc = pc]

Backup ==
  /\ InitAt("backup") /\ InitTo("providers")
  /\ UNCHANGED <<attempts, complete, failed, storeVars, taskVars, noBackup>>

\* _initialize_plugin logs the exception; initialize() is never called.
BackupFails ==
  /\ InitAt("backup") /\ InitTo("off")
  /\ noBackup' = TRUE
  /\ UNCHANGED <<attempts, complete, failed, storeVars, taskVars>>

ProvidersReady ==
  /\ InitAt("providers") /\ InitTo("db")
  /\ UNCHANGED <<attempts, complete, failed, storeVars, taskVars, noBackup>>

\* After 15 seconds the retry task, which nobody tracks but the initializer,
\* takes over.
ProvidersLate ==
  /\ InitAt("providers")
  /\ init' = [task |-> "retry", pc |-> "wait", cancel |-> FALSE]
  /\ UNCHANGED <<attempts, complete, failed, storeVars, taskVars, noBackup>>

\* Mutant: the loop gives up without a verdict.
Retry_NoVerdict ==
  /\ InitAt("wait") /\ attempts < MaxAttempts
  /\ attempts' = attempts + 1
  /\ \/ InitTo("db")
     \/ IF attempts' < MaxAttempts THEN UNCHANGED init ELSE InitTo("off")
  /\ UNCHANGED <<complete, failed, storeVars, taskVars, noBackup>>


Retry ==
  /\ InitAt("wait") /\ attempts < MaxAttempts
  /\ attempts' = attempts + 1
  /\ \/ InitTo("db") /\ UNCHANGED failed
     \/ IF attempts' < MaxAttempts
        THEN UNCHANGED <<init, failed>>
        ELSE InitTo("off") /\ failed' = TRUE
  /\ UNCHANGED <<complete, storeVars, taskVars, noBackup>>

\* The stages of _complete_initialization, each with the await it is named for.
Stage(from, to) ==
  InitAt(from) /\ InitTo(to) /\ UNCHANGED <<attempts, complete, failed, noBackup>>

OpenDb ==
  /\ Stage("db", "graph")
  /\ open' = open \cup {"db"} /\ known' = known \cup {"db"}
  /\ UNCHANGED taskVars

\* terminate() does not close graph_db itself, the memory engine does.
OpenGraph ==
  /\ Stage("graph", "migrate")
  /\ open' = open \cup {"graph"}
  /\ UNCHANGED <<known, taskVars>>

\* The migration ends and the engine object is made, which refers to graph_db.
Migrate ==
  /\ Stage("migrate", "engine")
  /\ known' = known \cup {"engine", "graph"}
  /\ UNCHANGED <<open, taskVars>>

\* memory_engine.initialize: repair, and the atoms' maintenance loop.
InitEngine ==
  /\ Stage("engine", "v2")
  /\ open' = open \cup {"engine"}
  /\ loops' = loops \cup {"atoms"}
  /\ UNCHANGED <<known, backfill>>

InitV2 ==
  /\ Stage("v2", "conv")
  /\ open' = open \cup {"v2"} /\ known' = known \cup {"v2"}
  /\ backfill' = [Off EXCEPT !.pc = "work"]
  /\ UNCHANGED loops

\* `except BaseException': a failure, and a cancellation too, degrades to V1.
InitV2Fails ==
  /\ init.pc = "v2"
  /\ init' = [init EXCEPT !.pc = "conv", !.cancel = FALSE]
  /\ open' = open \/ open' = open \cup {"v2"}
  /\ UNCHANGED <<attempts, complete, failed, known, taskVars, workVars, term, histVars>>

\* Mutant: the flag is set before the index check and the schedulers' start.
InitConv_CompleteEarly ==
  /\ InitAt("conv") /\ InitTo("tail")
  /\ open' = open \cup {"conv"} /\ known' = known \cup {"conv"}
  /\ complete' = TRUE
  /\ UNCHANGED <<attempts, failed, taskVars, noBackup>>

InitConv ==
  /\ Stage("conv", "tail")
  /\ open' = open \cup {"conv"} /\ known' = known \cup {"conv"}
  /\ UNCHANGED taskVars

\* Mutant: the components are made whether the plugin terminates or not.
MayCreate_WhileTerminating == {"engine", "conv"} \subseteq known

\* _ensure_runtime_components, as far as it depends on the rest.
MayCreate == term = "off" /\ {"engine", "conv"} \subseteq known

\* The two component loops and the two schedulers' loops start when there is none.
Components == {"summary", "l3", "v11"}

\* Counts, index check and decay catch-up are awaited; then the loops start,
\* the flag is set and the initialization task makes the components.
Complete ==
  /\ InitAt("tail") /\ InitTo("off")
  /\ complete' = TRUE
  /\ loops' = loops \cup {"decay", "bus"}
                    \cup (IF init.task = "init" /\ MayCreate THEN Components ELSE {})
  /\ UNCHANGED <<attempts, failed, storeVars, backfill, noBackup>>

\* What a stage has opened when it ends by an exception.
HalfOpen(pc) == CASE pc = "db"     -> {{}, {"db"}}
                  [] pc = "graph"  -> {{}, {"graph"}}
                  [] pc = "engine" -> {{}, {"engine"}}
                  [] pc = "conv"   -> {{}, {"conv"}}
                  [] OTHER         -> {{}}

Unfinished(verdict) ==
  /\ init.pc \notin {"off", "v2"}
  /\ init' = [init EXCEPT !.pc = "off", !.cancel = FALSE]
  /\ \E half \in HalfOpen(init.pc) : open' = open \cup half
  /\ known' = IF init.pc = "db" THEN known \cup {"db"} ELSE known
  /\ loops' = loops \/ (init.pc = "engine" /\ loops' = loops \cup {"atoms"})
  /\ failed' = verdict
  /\ UNCHANGED <<attempts, complete, backfill, workVars, term, histVars>>

\* An exception in a stage: the verdict is recorded, what is open stays open.
InitFails == ~init.cancel /\ init.pc \notin {"backup", "providers", "wait"} /\ Unfinished(TRUE)

\* CancelledError passes every `except Exception' and leaves no verdict.
InitCancelled == init.cancel /\ Unfinished(failed)

Initialize ==
  \/ Backup \/ BackupFails \/ ProvidersReady \/ ProvidersLate \/ Retry
  \/ OpenDb \/ OpenGraph \/ Migrate \/ InitEngine \/ InitV2 \/ InitV2Fails
  \/ InitConv \/ Complete \/ InitFails \/ InitCancelled

-----------------------------------------------------------------------------
(* The prophecy loop: hourly work, most of it under `except BaseException' *)

BackfillStep ==
  UNCHANGED <<initVars, storeVars, loops, workVars, term, noBackup>>

BackfillWork ==
  /\ backfill.pc = "work" /\ ~backfill.cancel
  /\ backfill' = [backfill EXCEPT !.pc = "sleep"]
  /\ UNCHANGED swallowed /\ BackfillStep

BackfillWake ==
  /\ backfill.pc = "sleep" /\ ~backfill.cancel
  /\ backfill' = [backfill EXCEPT !.pc = "work"]
  /\ UNCHANGED swallowed /\ BackfillStep

\* Mutant: a cancelled sleep is taken for one that is over.
BackfillCancelled_GoesOn ==
  /\ backfill.cancel
  /\ backfill' = [pc |-> "work", cancel |-> FALSE]
  /\ UNCHANGED swallowed /\ BackfillStep

BackfillCancelled ==
  /\ backfill.cancel
  /\ backfill' = Off
  /\ UNCHANGED swallowed /\ BackfillStep

\* The await was inside one of the `except BaseException' blocks.
BackfillSwallows ==
  /\ backfill.cancel /\ backfill.pc = "work"
  /\ backfill' = [backfill EXCEPT !.cancel = FALSE]
  /\ swallowed' = TRUE
  /\ BackfillStep

Backfill == BackfillWork \/ BackfillWake \/ BackfillCancelled \/ BackfillSwallows

-----------------------------------------------------------------------------
(* Handlers and what they leave running                                    *)

WorkStep == UNCHANGED <<initVars, storeVars, backfill, term, histVars>>

Arrive(x) ==
  /\ hnd[x] = "idle" /\ hnd' = [hnd EXCEPT ![x] = "waiting"]
  /\ UNCHANGED <<loops, storing, hook, shutting>> /\ WorkStep

\* _ensure_plugin_ready
Ready(x) ==
  /\ hnd[x] = "waiting" /\ complete
  /\ IF MayCreate THEN /\ hnd' = [hnd EXCEPT ![x] = "work"]
                       /\ loops' = loops \cup Components
                  ELSE /\ hnd' = [hnd EXCEPT ![x] = "idle"] /\ UNCHANGED loops
  /\ UNCHANGED <<storing, hook, shutting>> /\ WorkStep

\* Failed, or not ready within 30 seconds.
NotReady(x) ==
  /\ hnd[x] = "waiting" /\ ~complete
  /\ hnd' = [hnd EXCEPT ![x] = "idle"]
  /\ UNCHANGED <<loops, storing, hook, shutting>> /\ WorkStep

\* Mutant: the handler does not test whether the event handler shuts down.
Reflect_IgnoresShutdown(x) ==
  /\ hnd[x] = "work" /\ hnd' = [hnd EXCEPT ![x] = "gate"]
  /\ storing' \in {storing, TRUE}
  /\ UNCHANGED <<loops, hook, shutting>> /\ WorkStep

\* handle_memory_reflection of the event handler may start a storage task.
Reflect(x) ==
  /\ hnd[x] = "work" /\ hnd' = [hnd EXCEPT ![x] = "gate"]
  /\ storing' \in {storing, ~shutting \/ storing}
  /\ UNCHANGED <<loops, hook, shutting>> /\ WorkStep

\* The security gate, and with it the reflection loop, whatever terminate() does.
Gate(x) ==
  /\ hnd[x] = "gate" /\ hnd' = [hnd EXCEPT ![x] = "idle"]
  /\ loops' \in {loops, loops \cup {"reflection"}}
  /\ UNCHANGED <<storing, hook, shutting>> /\ WorkStep

\* The task stores its memory, and V2 is told about it, or it fails.
StoreEnds ==
  /\ storing /\ storing' = FALSE
  /\ hook' \in {hook, hook \/ "v2" \in known}
  /\ UNCHANGED <<hnd, loops, shutting>> /\ WorkStep

\* Each part of the hook swallows a cancellation.  It may publish an event, and
\* publish() starts a bus that is not running.
HookEnds ==
  /\ hook /\ hook' = FALSE
  /\ loops' \in {loops, loops \cup {"bus"}}
  /\ UNCHANGED <<hnd, storing, shutting>> /\ WorkStep

Work(x) == Ready(x) \/ NotReady(x) \/ Reflect(x) \/ Gate(x)

-----------------------------------------------------------------------------
(* terminate()                                                             *)

TermStep(from, to) == term = from /\ term' = to /\ UNCHANGED <<attempts, complete, failed, histVars>>

CancelTask(t) == init' = IF init.task = t /\ init.pc # "off"
                         THEN [init EXCEPT !.cancel = TRUE] ELSE init

Terminate ==
  /\ TermStep("off", "gather") /\ CancelTask("init")
  /\ UNCHANGED <<storeVars, taskVars, workVars>>

\* The tracked tasks have ended: on to the retry task, then to the prophecy loop.
TermGathered ==
  /\ TermStep("gather", "retry") /\ (init.task = "init" => init.pc = "off")
  /\ CancelTask("retry")
  /\ UNCHANGED <<storeVars, taskVars, workVars>>

TermRetryStopped ==
  /\ TermStep("retry", "backfill") /\ init.pc = "off"
  /\ backfill' = IF backfill.pc = "off" THEN Off ELSE [backfill EXCEPT !.cancel = TRUE]
  /\ UNCHANGED <<init, storeVars, loops, workVars>>

TermBackfillStopped ==
  /\ TermStep("backfill", "bus") /\ backfill.pc = "off"
  /\ UNCHANGED <<init, storeVars, taskVars, workVars>>

TermStopLoops(from, to, stopped) ==
  /\ TermStep(from, to) /\ loops' = loops \ stopped
  /\ UNCHANGED <<init, storeVars, backfill, workVars>>

TermShutdown ==
  /\ TermStep("shutdown", "storing") /\ shutting' = TRUE
  /\ UNCHANGED <<init, storeVars, taskVars, hnd, storing, hook>>

TermStored ==
  /\ TermStep("storing", "decay") /\ ~storing
  /\ UNCHANGED <<init, storeVars, taskVars, workVars>>

TermClose(from, to, closed) ==
  /\ TermStep(from, to) /\ open' = open \ (closed \cap known)
  /\ UNCHANGED <<init, known, taskVars, workVars>>

\* memory_engine.close gathers its tasks before it closes the connection.
TermHooks ==
  /\ TermStep("hooks", "engine") /\ ~hook
  /\ UNCHANGED <<init, storeVars, taskVars, workVars>>

Terminating ==
  \/ TermGathered \/ TermRetryStopped \/ TermBackfillStopped
  \/ TermStopLoops("bus", "v11", {"bus"})
  \/ TermStopLoops("v11", "summary", {"v11", "reflection"})
  \/ TermStopLoops("summary", "shutdown", {"summary", "l3"})
  \/ TermShutdown \/ TermStored
  \/ TermStopLoops("decay", "conv", {"decay"})
  \/ TermClose("conv", "atoms", {"conv"})
  \/ TermStopLoops("atoms", "hooks", {"atoms"})
  \/ TermHooks
  \/ TermClose("engine", "v2", {"engine", "graph"})
  \/ TermClose("v2", "db", {"v2"}) \/ TermClose("db", "done", {"db"})

Next ==
  \/ Initialize \/ Backfill
  \/ \E x \in Handlers : Arrive(x) \/ Work(x)
  \/ StoreEnds \/ HookEnds
  \/ Terminate \/ Terminating

Spec == Init /\ [][Next]_vars

\* A task that can run is resumed, timers fire, providers answer or time out.
\* Nobody has to send messages or to stop the plugin.
Fairness ==
  /\ WF_vars(Initialize) /\ WF_vars(Backfill)
  /\ \A x \in Handlers : WF_vars(Work(x))
  /\ WF_vars(StoreEnds) /\ WF_vars(HookEnds) /\ WF_vars(Terminating)

FairSpec == Spec /\ Fairness

-----------------------------------------------------------------------------
(* Properties                                                              *)

InitPC == {"off", "backup", "providers", "wait", "db", "graph", "migrate", "engine",
           "v2", "conv", "tail"}
TermPC == {"off", "gather", "retry", "backfill", "bus", "v11", "summary", "shutdown",
           "storing", "decay", "conv", "atoms", "hooks", "engine", "v2", "db", "done"}

\* Every variable has its type; a task is only cancelled while it exists, and the
\* provider checks stay within their limit.
TypeOK ==
  /\ init \in [task : {"init", "retry"}, pc : InitPC, cancel : BOOLEAN]
  /\ init.cancel => init.pc # "off"
  /\ attempts \in 0..MaxAttempts /\ complete \in BOOLEAN /\ failed \in BOOLEAN
  /\ open \subseteq Stores /\ known \subseteq Stores /\ loops \subseteq Loops
  /\ backfill \in [pc : {"off", "work", "sleep"}, cancel : BOOLEAN]
  /\ backfill.cancel => backfill.pc # "off"
  /\ hnd \in [Handlers -> {"idle", "waiting", "work", "gate"}]
  /\ storing \in BOOLEAN /\ hook \in BOOLEAN /\ shutting \in BOOLEAN
  /\ term \in TermPC /\ swallowed \in BOOLEAN /\ noBackup \in BOOLEAN

\* Initialization ends with one verdict, success or failure, and never takes it
\* back, although two tasks may run it (plugin_initializer.py:122-159, 207-275).
VerdictKept ==
  /\ complete => complete' /\ ~failed'
  /\ failed => failed' /\ ~complete'

VerdictFinal == [][VerdictKept]_vars

\* Whatever the plugin was doing when terminate() was called, once it returns
\* nothing that writes to the stores is left: no initialization, no retry, no
\* maintenance, decay, summary or storage task, and every store the plugin still
\* refers to is closed (main.py:1366-1450).
QuietAfterTerminate ==
  term = "done" =>
    /\ init.pc = "off" /\ backfill.pc = "off" /\ ~storing /\ ~hook
    /\ loops \cap {"atoms", "decay", "summary", "l3", "v11"} = {}
    /\ open \cap known = {}

\* A storage task and the V2 hook of its memory find the stores they write to
\* open: handlers only start them between the end of the initialization and the
\* shutdown of the event handler, and terminate() closes nothing before.
WritersHaveStores ==
  /\ storing => {"engine", "conv"} \subseteq open
  /\ hook    => {"engine", "v2"} \subseteq open

\* What writes finds its stores open, and no variable leaves its type.
StoresHeld == TypeOK /\ WritersHaveStores

\* Handlers do not wait for a verdict that never comes: initialization ends, with
\* success or failure, unless the plugin is stopped or the backup raised.
InitSettles == <>(complete \/ failed \/ term # "off" \/ noBackup)

\* terminate() returns, if the prophecy loop heeded its cancellation.
TerminateReturnsIfHeeded == (term = "gather") ~> (term = "done" \/ swallowed)

\* terminate(), the clean-up when the plugin stops (main.py:1367), returns.
TerminateReturns == (term = "gather") ~> (term = "done")
=============================================================================
