--------------------------- MODULE ReflectionWindow ---------------------------
(***************************************************************************)
(* The sliding window that turns the messages of ONE session into          *)
(* memories (core/event_handler_modules/memory_reflection.py), together    *)
(* with everything that moves the window under it: the per-session message *)
(* limit, /lmem summarize, /reset, plugin shutdown and a crash.            *)
(*                                                                         *)
(* Every await of the code is a step boundary.  The session's row in       *)
(* SQLite holds a JSON object, here `meta'; update_session_metadata reads  *)
(* the whole object, changes one key and writes the whole object back      *)
(* without the store's write lock, so each update is two steps: a snapshot *)
(* and a write of the snapshot.                                            *)
(*                                                                         *)
(* Messages are numbered 1, 2, ... in the order they are added, and only   *)
(* ever deleted from the old end, so the table is the interval             *)
(* first+1 .. next and the code's index i is message first+i+1.            *)
(***************************************************************************)
EXTENDS Integers, FiniteSets

CONSTANTS
  Handlers,      \* event-handler coroutines of the session that may overlap
  Tasks,         \* slots for _storage_task coroutines
  GroupChat,     \* a group session: the bot's replies do not enforce the limit
  Trigger,       \* reflection_engine.summary_trigger_rounds
  MaxMessages,   \* session_manager.max_messages_per_session
  CleanupBatch,  \* session_manager.cleanup_batch_size
  CanCrash,      \* the process may be killed and started again
  DbFails,       \* a read or a write of the session's row may raise
  MaxMsgs,       \* bound: messages ever added
  MaxManual,     \* bound: uses of /lmem summarize
  MaxResets      \* bound: uses of /reset

ASSUME BoundsAssumption ==
  /\ Trigger \in Nat \ {0} /\ MaxMessages \in Nat /\ CleanupBatch \in Nat \ {0}
  /\ MaxMsgs \in Nat /\ MaxManual \in Nat /\ MaxResets \in Nat
  /\ GroupChat \in BOOLEAN /\ CanCrash \in BOOLEAN /\ DbFails \in BOOLEAN

MaxRetry == 3    \* "retry_count >= 3": a range is given up after three failures

VARIABLES
  first, next,   \* the messages table: first+1 .. next
  meta,          \* the session's metadata object
  hnd,           \* the event handlers
  tsk,           \* the storage tasks
  inflight,      \* session_id \in _storage_sessions_inflight
  phase,         \* of the plugin: running, closing (shutdown() waits), closed
  man, manuals,  \* the /lmem summarize command, and how often it ran
  rst, resets,   \* /reset between its two writes, and how often it ran
  covered, dup,  \* history: messages some memory, or two memories, were made of
  dropped        \* history: messages given up after MaxRetry failures, or reset

msgVars   == <<first, next>>
histVars  == <<covered, dup, dropped>>
otherVars == <<man, manuals, rst, resets>>
vars == <<first, next, meta, hnd, tsk, inflight, phase, man, manuals,
          rst, resets, covered, dup, dropped>>

NoPending == [start |-> 0, retry |-> 0]          \* "pending_summary": None
NoMeta    == [last |-> 0, pend |-> NoPending]    \* the object "{}"
NoHandler == [pc |-> "idle", reply |-> FALSE, total |-> 0, n |-> 0, last |-> 0,
              start |-> 0, retry |-> 0, snap |-> NoMeta, lo |-> 0, hi |-> 0]
NoTask    == [pc |-> "idle", start |-> 0, end |-> 0, retry |-> 0,
              snap |-> NoMeta, lo |-> 0, hi |-> 0]
NoManual  == [pc |-> "idle", total |-> 0, last |-> 0, snap |-> NoMeta,
              lo |-> 0, hi |-> 0]

Count       == next - first
Least(a, b) == IF a < b THEN a ELSE b
Most(a, b)  == IF a < b THEN b ELSE a

\* trim_session_messages keeps _write_lock from its SELECT to its commit.
WriteLockFree == \A x \in Handlers : hnd[x].pc \notin {"trimming", "trimmed"}

\* The messages get_messages_range returns for the indices i..j-1: (lo, hi],
\* empty when lo = hi.
RangeLo(i)    == first + Least(i, Count)
RangeHi(i, j) == Most(RangeLo(i), first + Least(j, Count))

\* One more memory made of the messages lo+1..hi.
Cover(lo, hi) ==
  /\ covered' = covered \cup (lo+1 .. hi)
  /\ dup' = dup \cup (covered \cap (lo+1 .. hi))
  /\ UNCHANGED dropped

Init ==
  /\ first = 0 /\ next = 0 /\ meta = NoMeta
  /\ hnd = [x \in Handlers |-> NoHandler]
  /\ tsk = [t \in Tasks |-> NoTask]
  /\ inflight = FALSE /\ phase = "running"
  /\ man = NoManual /\ manuals = 0 /\ rst = "idle" /\ resets = 0
  /\ covered = {} /\ dup = {} /\ dropped = {}

-----------------------------------------------------------------------------
(* Event handlers: a message is added, then the limit is enforced.         *)

\* What the handler does once the limit is enforced: a user message is done,
\* a reply goes on to reflect.
AfterLimit(x) ==
  hnd' = [hnd EXCEPT ![x] =
            IF @.reply THEN [NoHandler EXCEPT !.pc = "total", !.reply = TRUE]
                       ELSE NoHandler]

HandlerStep(x, pc) == hnd[x].pc = pc /\ UNCHANGED <<tsk, inflight, phase>>

AddMessage(x, reply) ==
  /\ HandlerStep(x, "idle") /\ phase = "running"
  /\ next < MaxMsgs /\ WriteLockFree
  /\ next' = next + 1
  /\ hnd' = [hnd EXCEPT ![x].reply = reply,
                        ![x].pc = IF reply /\ GroupChat THEN "total" ELSE "limit"]
  /\ UNCHANGED <<first, meta, histVars, otherVars>>

LimitCount(x) ==
  /\ HandlerStep(x, "limit")
  /\ IF Count <= MaxMessages
     THEN AfterLimit(x)
     ELSE hnd' = [hnd EXCEPT ![x].pc = "limitIndex", ![x].total = Count]
  /\ UNCHANGED <<msgVars, meta, histVars, otherVars>>

LimitIndex(x) ==
  LET target == Most(hnd[x].total - MaxMessages, CleanupBatch)
      n      == Least(target, meta.last)
  IN /\ HandlerStep(x, "limitIndex")
     /\ IF n = 0 THEN AfterLimit(x)
                 ELSE hnd' = [hnd EXCEPT ![x].pc = "trim", ![x].n = n]
     /\ UNCHANGED <<msgVars, meta, histVars, otherVars>>

\* trim_session_messages: SELECT, DELETE and UPDATE under the write lock.
TrimRead(x) ==
  /\ HandlerStep(x, "trim") /\ WriteLockFree
  /\ hnd' = [hnd EXCEPT ![x].pc = "trimming", ![x].snap = meta, ![x].total = Count]
  /\ UNCHANGED <<msgVars, meta, histVars, otherVars>>

TrimRefused(x) ==
  /\ HandlerStep(x, "trimming") /\ hnd[x].snap.last > hnd[x].total
  /\ meta' = [hnd[x].snap EXCEPT !.last = 0]
  /\ AfterLimit(x)
  /\ UNCHANGED <<msgVars, histVars, otherVars>>

TrimDelete(x) ==
  LET d == Least(hnd[x].n, hnd[x].snap.last)
  IN /\ HandlerStep(x, "trimming") /\ hnd[x].snap.last <= hnd[x].total
     /\ IF d = 0
        THEN AfterLimit(x) /\ UNCHANGED first
        ELSE /\ first' = first + d
             /\ hnd' = [hnd EXCEPT ![x].pc = "trimmed", ![x].n = d]
     /\ UNCHANGED <<next, meta, histVars, otherVars>>

TrimUpdate(x) ==
  /\ HandlerStep(x, "trimmed")
  /\ meta' = [hnd[x].snap EXCEPT !.last = @ - hnd[x].n]
  /\ AfterLimit(x)
  /\ UNCHANGED <<msgVars, histVars, otherVars>>

-----------------------------------------------------------------------------
(* handle_memory_reflection, after the reply is stored.                    *)

ReadTotal(x) ==
  /\ HandlerStep(x, "total")
  /\ hnd' = [hnd EXCEPT ![x].pc = "last", ![x].total = Count]
  /\ UNCHANGED <<msgVars, meta, histVars, otherVars>>

\* An index beyond the table is clamped to the total, in memory and on disk.
ReadLast(x) ==
  /\ HandlerStep(x, "last")
  /\ hnd' = [hnd EXCEPT ![x].last = Least(meta.last, hnd[x].total),
                        ![x].pc = IF meta.last > hnd[x].total THEN "clampR"
                                                              ELSE "pend"]
  /\ UNCHANGED <<msgVars, meta, histVars, otherVars>>

\* Mutant: the retry counter is never tested.
ReadPending_NoLimit(x) ==
  LET H     == hnd[x]
      start == IF meta.pend.retry > 0 THEN meta.pend.start ELSE H.last
  IN /\ HandlerStep(x, "pend")
     /\ hnd' = [hnd EXCEPT ![x] =
          IF (H.total - H.last) \div 2 < Trigger THEN NoHandler
          ELSE [H EXCEPT !.pc = "range", !.start = start, !.retry = meta.pend.retry]]
     /\ UNCHANGED <<msgVars, meta, histVars, otherVars>>

ReadPending(x) ==
  LET H       == hnd[x]
      pending == meta.pend.retry > 0
      start   == IF pending THEN meta.pend.start ELSE H.last
  IN /\ HandlerStep(x, "pend")
     /\ hnd' = [hnd EXCEPT ![x] =
          IF (H.total - H.last) \div 2 < Trigger THEN NoHandler
          ELSE IF meta.pend.retry >= MaxRetry THEN [H EXCEPT !.pc = "dropR"]
          ELSE IF H.total - start < 2 THEN NoHandler
          ELSE [H EXCEPT !.pc = "range", !.start = start,
                         !.retry = meta.pend.retry]]
     /\ UNCHANGED <<msgVars, meta, histVars, otherVars>>

\* update_session_metadata, first half: read the whole object.
Snapshot(x, from, to) ==
  /\ HandlerStep(x, from)
  /\ hnd' = [hnd EXCEPT ![x].pc = to, ![x].snap = meta]
  /\ UNCHANGED <<msgVars, meta, histVars, otherVars>>

ClampWrite(x) ==
  /\ HandlerStep(x, "clampW")
  /\ meta' = [hnd[x].snap EXCEPT !.last = hnd[x].total]
  /\ hnd' = [hnd EXCEPT ![x].pc = "pend", ![x].snap = NoMeta]
  /\ UNCHANGED <<msgVars, histVars, otherVars>>

DropWrite(x) ==
  /\ HandlerStep(x, "dropW")
  /\ meta' = [hnd[x].snap EXCEPT !.pend = NoPending]
  /\ hnd' = [hnd EXCEPT ![x].pc = "skipR", ![x].snap = NoMeta]
  /\ UNCHANGED <<msgVars, histVars, otherVars>>

SkipWrite(x) ==
  /\ HandlerStep(x, "skipW")
  /\ meta' = [hnd[x].snap EXCEPT !.last = hnd[x].total]
  /\ hnd' = [hnd EXCEPT ![x] = NoHandler]
  /\ dropped' = dropped \cup (first+1 .. first + hnd[x].total)
  /\ UNCHANGED <<msgVars, covered, dup, otherVars>>

FetchRange(x) ==
  LET i == hnd[x].start
  IN /\ HandlerStep(x, "range")
     /\ hnd' = [hnd EXCEPT ![x].pc = "start", ![x].lo = RangeLo(i),
                           ![x].hi = RangeHi(i, hnd[x].total)]
     /\ UNCHANGED <<msgVars, meta, histVars, otherVars>>

StartTask(x, t) ==
  /\ inflight' = TRUE
  /\ tsk' = [tsk EXCEPT ![t] = [NoTask EXCEPT !.pc = "check",
               !.start = hnd[x].start, !.end = hnd[x].total, !.retry = hnd[x].retry,
               !.lo = hnd[x].lo, !.hi = hnd[x].hi]]

\* Mutants: one of the two tests is missing.
MayStart_IgnoresInflight == phase = "running"
MayStart_IgnoresShutdown == ~inflight

MayStart == phase = "running" /\ ~inflight

\* No await between the shutting-down test, the in-flight test and create_task.
Dispatch(x, t) ==
  /\ hnd[x].pc = "start" /\ tsk[t].pc = "idle"
  /\ hnd' = [hnd EXCEPT ![x] = NoHandler]
  /\ IF MayStart THEN StartTask(x, t) ELSE UNCHANGED <<tsk, inflight>>
  /\ UNCHANGED <<msgVars, meta, phase, histVars, otherVars>>

\* An exception ends the limit enforcement, or the whole handler, with a log
\* line.  A DELETE that was not followed by its UPDATE stays in the open
\* transaction of the shared connection, and the next commit keeps it.
HandlerFails(x) ==
  /\ DbFails /\ UNCHANGED <<tsk, inflight, phase>>
  /\ \/ /\ hnd[x].pc \in {"limit", "limitIndex", "trim", "trimming", "trimmed"}
        /\ AfterLimit(x)
     \/ /\ hnd[x].pc \in {"total", "last", "clampR", "pend", "dropR", "skipR", "range"}
        /\ hnd' = [hnd EXCEPT ![x] = NoHandler]
  /\ UNCHANGED <<msgVars, meta, histVars, otherVars>>

\* update_session_metadata logs a failed UPDATE and returns as if it had written.
HandlerWriteLost(x) ==
  /\ DbFails /\ hnd[x].pc \in {"clampW", "dropW", "skipW"}
  /\ hnd' = [hnd EXCEPT ![x] = CASE @.pc = "clampW" -> [@ EXCEPT !.pc = "pend", !.snap = NoMeta]
                                  [] @.pc = "dropW"  -> [@ EXCEPT !.pc = "skipR", !.snap = NoMeta]
                                  [] @.pc = "skipW"  -> NoHandler]
  /\ UNCHANGED <<msgVars, meta, tsk, inflight, phase, histVars, otherVars>>

Handler(x) ==
  \/ \E reply \in BOOLEAN : AddMessage(x, reply)
  \/ LimitCount(x) \/ LimitIndex(x)
  \/ TrimRead(x) \/ TrimRefused(x) \/ TrimDelete(x) \/ TrimUpdate(x)
  \/ ReadTotal(x) \/ ReadLast(x) \/ ReadPending(x)
  \/ Snapshot(x, "clampR", "clampW") \/ ClampWrite(x)
  \/ Snapshot(x, "dropR", "dropW")   \/ DropWrite(x)
  \/ Snapshot(x, "skipR", "skipW")   \/ SkipWrite(x)
  \/ FetchRange(x) \/ HandlerFails(x) \/ HandlerWriteLost(x)
  \/ \E t \in Tasks : Dispatch(x, t)

-----------------------------------------------------------------------------
(* _storage_task                                                           *)

TaskStep(t, pc) ==
  tsk[t].pc = pc /\ UNCHANGED <<first, next, hnd, inflight, phase, otherVars>>

\* Another task has already moved the window past this one's end: skip.
TaskCheck(t) ==
  /\ TaskStep(t, "check")
  /\ tsk' = [tsk EXCEPT ![t].pc = IF meta.last >= tsk[t].end THEN "done" ELSE "llm"]
  /\ UNCHANGED <<meta, histVars>>

\* process_conversation: the LLM fails, and so does an empty message list.
TaskThink(t, ok) ==
  /\ TaskStep(t, "llm")
  /\ ok => tsk[t].lo < tsk[t].hi
  /\ tsk' = [tsk EXCEPT ![t].pc = IF ok THEN "store" ELSE "pendR"]
  /\ UNCHANGED <<meta, histVars>>

TaskStore(t) ==
  /\ TaskStep(t, "store")
  /\ tsk' = [tsk EXCEPT ![t].pc = "lastR"]
  /\ Cover(tsk[t].lo, tsk[t].hi)
  /\ UNCHANGED meta

\* Mutants: the exception is swallowed, or the task tries again by itself.
TaskStoreFails_Swallowed(t) ==
  /\ TaskStep(t, "store")
  /\ tsk' = [tsk EXCEPT ![t].pc = "lastR"]
  /\ UNCHANGED <<meta, histVars>>

TaskStoreFails_TriesAgain(t) ==
  /\ TaskStep(t, "store")
  /\ tsk' = [tsk EXCEPT ![t].pc = "llm"]
  /\ UNCHANGED <<meta, histVars>>

TaskStoreFails(t) ==
  /\ TaskStep(t, "store")
  /\ tsk' = [tsk EXCEPT ![t].pc = "pendR"]
  /\ UNCHANGED <<meta, histVars>>

\* Where the task goes on when reading the row raises: an exception before the
\* memory is stored records the range as pending; the two updates after it are
\* tried once more.
AfterReadFails == [pc \in {"check", "pendR", "lastR", "clearR", "lastR2", "clearR2"} |->
  CASE pc = "check"               -> "pendR"
    [] pc \in {"lastR", "clearR"} -> "lastR2"
    [] OTHER                      -> "done"]

TaskReadFails(t) ==
  /\ DbFails /\ tsk[t].pc \in DOMAIN AfterReadFails
  /\ TaskStep(t, tsk[t].pc)
  /\ tsk' = [tsk EXCEPT ![t].pc = AfterReadFails[@]]
  /\ UNCHANGED <<meta, histVars>>

TaskSnapshot(t, from, to) ==
  /\ TaskStep(t, from)
  /\ tsk' = [tsk EXCEPT ![t].pc = to, ![t].snap = meta]
  /\ UNCHANGED <<meta, histVars>>

TaskWrite(t, from, to, m) ==
  /\ TaskStep(t, from)
  /\ meta' = m
  /\ tsk' = [tsk EXCEPT ![t].pc = to, ![t].snap = NoMeta]
  /\ UNCHANGED histVars

\* _record_pending_summary: the range is to be merged into the next one.
RecordPending(t) ==
  TaskWrite(t, "pendW", "done", [tsk[t].snap EXCEPT !.pend =
    [start |-> tsk[t].start, retry |-> tsk[t].retry + 1]])

AdvanceIndex(t, from, to) ==
  TaskWrite(t, from, to, [tsk[t].snap EXCEPT !.last = tsk[t].end])

ClearPending(t, from) ==
  TaskWrite(t, from, "done", [tsk[t].snap EXCEPT !.pend = NoPending])

\* An UPDATE that fails is only logged: the task goes on as after a write.
TaskWriteLost(t) ==
  /\ DbFails
  /\ \E step \in {<<"pendW", "done">>, <<"lastW", "clearR">>, <<"clearW", "done">>,
                   <<"lastW2", "clearR2">>, <<"clearW2", "done">>} :
       TaskWrite(t, step[1], step[2], meta)

\* Mutant: the in-flight mark is left behind.
TaskDone_KeepsMark(t) ==
  /\ tsk[t].pc = "done"
  /\ tsk' = [tsk EXCEPT ![t] = NoTask]
  /\ UNCHANGED <<msgVars, meta, hnd, inflight, phase, histVars, otherVars>>

\* _on_storage_task_done
TaskDone(t) ==
  /\ tsk[t].pc = "done"
  /\ tsk' = [tsk EXCEPT ![t] = NoTask]
  /\ inflight' = FALSE
  /\ UNCHANGED <<msgVars, meta, hnd, phase, histVars, otherVars>>

Task(t) ==
  \/ TaskCheck(t)
  \/ \E ok \in BOOLEAN : TaskThink(t, ok)
  \/ TaskStore(t) \/ TaskStoreFails(t)
  \/ TaskSnapshot(t, "pendR", "pendW")   \/ RecordPending(t)
  \/ TaskSnapshot(t, "lastR", "lastW")     \/ AdvanceIndex(t, "lastW", "clearR")
  \/ TaskSnapshot(t, "clearR", "clearW")   \/ ClearPending(t, "clearW")
  \/ TaskSnapshot(t, "lastR2", "lastW2")   \/ AdvanceIndex(t, "lastW2", "clearR2")
  \/ TaskSnapshot(t, "clearR2", "clearW2") \/ ClearPending(t, "clearW2")
  \/ TaskReadFails(t) \/ TaskWriteLost(t)
  \/ TaskDone(t)

-----------------------------------------------------------------------------
(* /lmem summarize: the same window, outside the in-flight set.            *)

ManualStep(pc) ==
  man.pc = pc /\ UNCHANGED <<first, next, hnd, tsk, inflight, phase, rst, resets>>

ManualCount ==
  /\ ManualStep("idle") /\ phase = "running" /\ manuals < MaxManual
  /\ manuals' = manuals + 1
  /\ man' = [man EXCEPT !.pc = "last", !.total = Count]
  /\ UNCHANGED <<meta, histVars>>

ManualLast ==
  /\ ManualStep("last")
  /\ man' = IF man.total - meta.last < 2
            THEN NoManual ELSE [man EXCEPT !.pc = "range", !.last = meta.last]
  /\ UNCHANGED <<meta, manuals, histVars>>

ManualRange ==
  LET lo == RangeLo(man.last)  hi == RangeHi(man.last, man.total)
  IN /\ ManualStep("range")
     /\ man' = IF lo = hi THEN NoManual
               ELSE [man EXCEPT !.pc = "store", !.lo = lo, !.hi = hi]
     /\ UNCHANGED <<meta, manuals, histVars>>

\* The LLM and add_memory.
ManualStore ==
  /\ ManualStep("store")
  /\ man' = [man EXCEPT !.pc = "lastR", !.lo = 0, !.hi = 0]
  /\ Cover(man.lo, man.hi)
  /\ UNCHANGED <<meta, manuals>>

\* An exception only tells the user.
ManualFails ==
  /\ \/ ManualStep("store")
     \/ DbFails /\ \E pc \in {"last", "range", "lastR", "clearR"} : ManualStep(pc)
  /\ man' = NoManual
  /\ UNCHANGED <<meta, manuals, histVars>>

ManualSnapshot(from, to) ==
  /\ ManualStep(from)
  /\ man' = [man EXCEPT !.pc = to, !.snap = meta]
  /\ UNCHANGED <<meta, manuals, histVars>>

ManualAdvance ==
  /\ ManualStep("lastW")
  /\ meta' = [man.snap EXCEPT !.last = man.total]
  /\ man' = [man EXCEPT !.pc = "clearR", !.snap = NoMeta]
  /\ UNCHANGED <<manuals, histVars>>

ManualClear ==
  /\ ManualStep("clearW")
  /\ meta' = [man.snap EXCEPT !.pend = NoPending]
  /\ man' = NoManual
  /\ UNCHANGED <<manuals, histVars>>

ManualWriteLost ==
  /\ DbFails
  /\ \/ ManualStep("lastW")  /\ man' = [man EXCEPT !.pc = "clearR", !.snap = NoMeta]
     \/ ManualStep("clearW") /\ man' = NoManual
  /\ UNCHANGED <<meta, manuals, histVars>>

Manual ==
  \/ ManualCount \/ ManualLast \/ ManualRange \/ ManualStore \/ ManualFails
  \/ ManualSnapshot("lastR", "lastW")   \/ ManualAdvance
  \/ ManualSnapshot("clearR", "clearW") \/ ManualClear
  \/ ManualWriteLost

-----------------------------------------------------------------------------
(* /reset, shutdown, restart and crash.                                    *)

\* clear_session: the messages first, the metadata two awaits later.
ResetMessages ==
  /\ rst = "idle" /\ phase = "running" /\ resets < MaxResets /\ WriteLockFree
  /\ first' = next
  /\ dropped' = dropped \cup (first+1 .. next)
  /\ rst' = "cleared" /\ resets' = resets + 1
  /\ UNCHANGED <<next, meta, hnd, tsk, inflight, phase, man, manuals, covered, dup>>

\* A failed UPDATE is only logged.
ResetMetadata ==
  /\ rst = "cleared"
  /\ meta' = NoMeta \/ (DbFails /\ meta' = meta)
  /\ rst' = "idle"
  /\ UNCHANGED <<msgVars, hnd, tsk, inflight, phase, man, manuals, resets, histVars>>

BeginShutdown ==
  /\ phase = "running"
  /\ phase' = "closing"
  /\ UNCHANGED <<msgVars, meta, hnd, tsk, inflight, histVars, otherVars>>

\* gather() returns when the tasks it was given are done.
FinishShutdown ==
  /\ phase = "closing" /\ \A t \in Tasks : tsk[t].pc = "idle"
  /\ phase' = "closed" /\ inflight' = FALSE
  /\ UNCHANGED <<msgVars, meta, hnd, tsk, histVars, otherVars>>

\* A new process on the same database: only msgVars and meta survive.
NewProcess ==
  /\ hnd' = [x \in Handlers |-> NoHandler]
  /\ tsk' = [t \in Tasks |-> NoTask]
  /\ inflight' = FALSE /\ phase' = "running"
  /\ man' = NoManual /\ rst' = "idle"
  /\ UNCHANGED <<msgVars, meta, manuals, resets, histVars>>

\* A crash inside trim's transaction rolls it back to the state before it.
Restart == phase = "closed" /\ WriteLockFree /\ NewProcess
Crash   == CanCrash /\ phase # "closed" /\ WriteLockFree /\ NewProcess

Next ==
  \/ \E x \in Handlers : Handler(x)
  \/ \E t \in Tasks : Task(t)
  \/ Manual
  \/ ResetMessages \/ ResetMetadata
  \/ BeginShutdown \/ FinishShutdown \/ Restart \/ Crash

Spec == Init /\ [][Next]_vars

\* A coroutine that can run is eventually resumed; the provider answers or
\* times out.  Nothing makes users write, reset or shut down.
Fairness ==
  /\ \A t \in Tasks : WF_vars(Task(t))
  /\ WF_vars(FinishShutdown)

FairSpec == Spec /\ Fairness
-----------------------------------------------------------------------------
(* Types                                                                   *)

Pending == [start : Nat, retry : 0..MaxRetry]
Meta    == [last : Nat, pend : Pending]

HandlerPC == {"idle", "limit", "limitIndex", "trim", "trimming", "trimmed",
              "total", "last", "clampR", "clampW", "pend", "dropR", "dropW",
              "skipR", "skipW", "range", "start"}
TaskPC    == {"idle", "check", "llm", "store", "pendR", "pendW", "lastR", "lastW",
              "clearR", "clearW", "lastR2", "lastW2", "clearR2", "clearW2", "done"}
ManualPC  == {"idle", "last", "range", "store", "lastR", "lastW", "clearR", "clearW"}

HandlerState == [pc : HandlerPC, reply : BOOLEAN, total : Nat, n : Nat, last : Nat,
                 start : Nat, retry : 0..MaxRetry-1, snap : Meta, lo : Nat, hi : Nat]
TaskState    == [pc : TaskPC, start : Nat, end : Nat, retry : 0..MaxRetry-1,
                 snap : Meta, lo : Nat, hi : Nat]
ManualState  == [pc : ManualPC, total : Nat, last : Nat, snap : Meta, lo : Nat, hi : Nat]

\* Every variable has its type; the retry counter of a range being processed
\* stays below the limit at which the code gives the range up.
TypeOK ==
  /\ first \in Nat /\ next \in Nat /\ first <= next
  /\ meta \in Meta
  /\ hnd \in [Handlers -> HandlerState]
  /\ tsk \in [Tasks -> TaskState]
  /\ inflight \in BOOLEAN /\ phase \in {"running", "closing", "closed"}
  /\ man \in ManualState /\ manuals \in Nat
  /\ rst \in {"idle", "cleared"} /\ resets \in Nat
  /\ covered \subseteq Nat /\ dup \subseteq Nat /\ dropped \subseteq Nat

-----------------------------------------------------------------------------
(* Safety                                                                  *)

Live(t) == tsk[t].pc # "idle"

\* A session has at most one storage task, whatever number of replies pass the
\* trigger at once and however shutdown, crash and restart fall between them
\* (_storage_sessions_inflight, memory_reflection.py:288-296).
OneStorageTask == \A t, u \in Tasks : Live(t) /\ Live(u) => t = u

\* When shutdown() has returned no storage task is left to write to the stores
\* that are closed next (event_handler.py:226-235).
QuietAfterClose == phase = "closed" => \A t \in Tasks : ~Live(t)

\* The window never silently passes over a message: one below the index was put
\* into a memory, or given up after three failures, although metadata updates
\* of overlapping coroutines overwrite each other (memory_reflection.py:188-281,
\* 443-454).  Checked for sessions below their message limit.
NoSilentSkip == (first+1 .. first + meta.last) \subseteq covered \cup dropped

\* "Only messages that have been summarised are deleted" (message_utils.py:188):
\* whatever left the table was in a memory, given up, or cleared by /reset.
OnlySummarizedDeleted == (1 .. first) \subseteq covered \cup dropped

\* A storage task whose range another one has overtaken is skipped
\* (memory_reflection.py:338): no message goes into two memories.
\* TLC refutes it: a task reads the stored index before another one has written it.
NoMessageTwice == dup = {}

\* /reset makes the next summary start from the beginning of the emptied session
\* (reset_session_metadata's docstring): once no coroutine that began before the
\* reset is left, the index is not beyond the messages that exist. TLC refutes it: a running
\* task writes its end of range after the reset.
Quiescent ==
  /\ rst = "idle" /\ man = NoManual
  /\ \A x \in Handlers : hnd[x] = NoHandler
  /\ \A t \in Tasks : tsk[t] = NoTask
ResetStartsOver == resets > 0 /\ Quiescent => meta.last <= Count

-----------------------------------------------------------------------------
(* Liveness                                                                *)

\* The session is not locked out of reflection: whatever fails, the in-flight
\* mark of a task is eventually withdrawn (memory_reflection.py:510-513).
InflightReleased == inflight ~> ~inflight

\* shutdown() returns (event_handler.py:226-235).
ShutdownReturns == (phase = "closing") ~> (phase # "closing")
=============================================================================
