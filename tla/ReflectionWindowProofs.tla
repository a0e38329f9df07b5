------------------------ MODULE ReflectionWindowProofs ------------------------
(***************************************************************************)
(* Type correctness of the reflection window, the mutual exclusion of its  *)
(* storage tasks and the quiet after shutdown, for every number of         *)
(* handlers and task slots and every configuration; and, in a session      *)
(* below its limit, that the window passes over no message silently.       *)
(*                                                                         *)
(* OneStorageTask needs that a live task is in the in-flight set           *)
(* (TaskInv), TypeOK that one trim at a time sees the table (LockInv).     *)
(* NoSilentSkip needs that of every index a coroutine holds and may write  *)
(* back the messages below it are known (SkipInv).                         *)
(***************************************************************************)
EXTENDS ReflectionWindow, TLAPS

\* The store's write lock: one trim at a time, which sees the whole table, and
\* never takes more from the index than the index it has read.
HoldsLock(x) == hnd[x].pc \in {"trimming", "trimmed"}

LockInv ==
  /\ \A x, y \in Handlers : HoldsLock(x) /\ HoldsLock(y) => x = y
  /\ \A x \in Handlers : hnd[x].pc = "trimming" => hnd[x].total = Count
  /\ \A x \in Handlers : hnd[x].pc = "trimmed" => hnd[x].n <= hnd[x].snap.last

\* A live task is in the in-flight set, and it is the only one.
TaskInv ==
  /\ OneStorageTask
  /\ \A t \in Tasks : Live(t) => inflight
  /\ QuietAfterClose

IInv == TypeOK /\ LockInv /\ TaskInv

-----------------------------------------------------------------------------

LEMMA NullsTyped ==
  /\ NoPending \in Pending /\ NoMeta \in Meta
  /\ NoHandler \in HandlerState /\ NoTask \in TaskState /\ NoManual \in ManualState
<1>1. NoPending \in Pending
  BY DEF NoPending, Pending, MaxRetry
<1>2. NoMeta \in Meta
  BY <1>1 DEF NoMeta, Meta
<1>3. NoHandler \in HandlerState
  BY <1>2 DEF NoHandler, HandlerState, HandlerPC, MaxRetry
<1>4. NoTask \in TaskState
  BY <1>2 DEF NoTask, TaskState, TaskPC, MaxRetry
<1>5. NoManual \in ManualState
  BY <1>2 DEF NoManual, ManualState, ManualPC
<1> QED BY <1>1, <1>2, <1>3, <1>4, <1>5

LEMMA InitIInv == Init => IInv
<1> SUFFICES ASSUME Init PROVE IInv
  OBVIOUS
<1>1. TypeOK
  <2>1. hnd \in [Handlers -> HandlerState] /\ tsk \in [Tasks -> TaskState]
    BY NullsTyped DEF Init
  <2>2. meta \in Meta /\ man \in ManualState
    BY NullsTyped DEF Init
  <2>3. first \in Nat /\ next \in Nat /\ first <= next /\ manuals \in Nat /\ resets \in Nat
    BY DEF Init
  <2> QED
    BY <2>1, <2>2, <2>3 DEF Init, TypeOK
<1>2. LockInv
  BY DEF Init, LockInv, HoldsLock, NoHandler
<1>3. TaskInv
  BY DEF Init, TaskInv, OneStorageTask, QuietAfterClose, Live, NoTask
<1> QED
  BY <1>1, <1>2, <1>3 DEF IInv

-----------------------------------------------------------------------------
\* A handler step that changes its own record, and perhaps the metadata, but
\* neither the table nor the lock, except to give the lock back.
LEMMA HandlerMoves ==
  ASSUME IInv, NEW x \in Handlers, NEW r \in HandlerState,
         r.pc \notin {"trimming", "trimmed"},
         hnd' = [hnd EXCEPT ![x] = r], meta' \in Meta,
         UNCHANGED <<first, next, tsk, inflight, phase, otherVars>>,
         covered' \subseteq Nat, dup' \subseteq Nat, dropped' \subseteq Nat
  PROVE  IInv'
<1>1. TypeOK'
  BY DEF IInv, TypeOK, otherVars
<1>2. LockInv'
  BY DEF IInv, TypeOK, LockInv, HoldsLock, Count
<1>3. TaskInv'
  BY DEF IInv, TaskInv, OneStorageTask, QuietAfterClose, Live
<1> QED
  BY <1>1, <1>2, <1>3 DEF IInv

\* The steps of a handler that leave the in-flight set alone.
LEMMA HandlerKeepsIInv ==
  ASSUME IInv, NEW x \in Handlers, Handler(x)
  PROVE  IInv' \/ \E t \in Tasks : Dispatch(x, t)
<1> DEFINE H == hnd[x]
<1>1. /\ H \in HandlerState /\ meta \in Meta /\ H.snap \in Meta
      /\ first \in Nat /\ next \in Nat /\ first <= next /\ Count \in Nat
      /\ hnd \in [Handlers -> HandlerState] /\ H.pc \in HandlerPC
      /\ covered \subseteq Nat /\ dup \subseteq Nat /\ dropped \subseteq Nat
  BY DEF IInv, TypeOK, HandlerState, Count
<1>2. /\ H.total \in Nat /\ H.n \in Nat /\ H.last \in Nat /\ H.start \in Nat
      /\ H.snap.last \in Nat /\ H.snap.pend \in Pending /\ meta.last \in Nat
      /\ meta.pend \in Pending /\ meta.pend.start \in Nat
      /\ meta.pend.retry \in 0..MaxRetry
  BY <1>1 DEF HandlerState, Meta, Pending
<1>3. [NoHandler EXCEPT !.pc = "total", !.reply = TRUE] \in HandlerState
  BY NullsTyped DEF HandlerState, HandlerPC
<1>4. ASSUME NEW m \in Meta, NEW i \in Nat
      PROVE  [m EXCEPT !.last = i] \in Meta
  BY <1>4 DEF Meta
<1>5. ASSUME AfterLimit(x), meta' \in Meta,
             UNCHANGED <<msgVars, tsk, inflight, phase, histVars, otherVars>>
      PROVE  IInv'
  <2> DEFINE r == IF H.reply THEN [NoHandler EXCEPT !.pc = "total", !.reply = TRUE]
                             ELSE NoHandler
  <2>1. r \in HandlerState /\ r.pc \notin {"trimming", "trimmed"}
    BY <1>3, NullsTyped DEF NoHandler
  <2>2. hnd' = [hnd EXCEPT ![x] = r]
    BY <1>5, <1>1 DEF AfterLimit
  <2> HIDE DEF r
  <2> QED
    BY <1>1, <1>5, <2>1, <2>2, HandlerMoves DEF msgVars, histVars
<1>6. ASSUME NEW reply \in BOOLEAN, AddMessage(x, reply)
      PROVE  IInv'
  <2>1. TypeOK'
    BY <1>1, <1>6 DEF IInv, TypeOK, AddMessage, HandlerStep, HandlerState, HandlerPC,
       histVars, otherVars
  <2>2. LockInv'
    BY <1>1, <1>6 DEF IInv, LockInv, HoldsLock, AddMessage, HandlerStep,
       WriteLockFree, Count, HandlerState, HandlerPC
  <2>3. TaskInv'
    BY <1>6 DEF IInv, TaskInv, OneStorageTask, QuietAfterClose, Live, AddMessage,
       HandlerStep
  <2> QED BY <2>1, <2>2, <2>3 DEF IInv
<1>7. CASE LimitCount(x)
  <2>1. CASE Count <= MaxMessages
    BY <1>1, <1>5, <1>7, <2>1 DEF LimitCount, HandlerStep
  <2>2. CASE ~(Count <= MaxMessages)
    <3> DEFINE r == [H EXCEPT !.pc = "limitIndex", !.total = Count]
    <3>1. r \in HandlerState /\ r.pc \notin {"trimming", "trimmed"}
      BY <1>1 DEF HandlerState, HandlerPC
    <3>2. hnd' = [hnd EXCEPT ![x] = r]
      BY <1>1, <1>7, <2>2 DEF LimitCount
    <3> HIDE DEF r
    <3> QED
      BY <1>1, <1>7, <3>1, <3>2, HandlerMoves DEF LimitCount, HandlerStep, msgVars, histVars
  <2> QED BY <2>1, <2>2
<1>8. CASE LimitIndex(x)
  <2> DEFINE n == Least(Most(H.total - MaxMessages, CleanupBatch), meta.last)
  <2>1. n \in Nat
    BY <1>2, BoundsAssumption DEF Least, Most
  <2>2. CASE n = 0
    BY <1>1, <1>5, <1>8, <2>2 DEF LimitIndex, HandlerStep
  <2>3. CASE n # 0
    <3> DEFINE r == [H EXCEPT !.pc = "trim", !.n = n]
    <3>1. r \in HandlerState /\ r.pc \notin {"trimming", "trimmed"}
      BY <1>1, <2>1 DEF HandlerState, HandlerPC
    <3>2. hnd' = [hnd EXCEPT ![x] = r]
      BY <1>1, <1>8, <2>3 DEF LimitIndex
    <3> HIDE DEF r
    <3> QED
      BY <1>1, <1>8, <3>1, <3>2, HandlerMoves DEF LimitIndex, HandlerStep, msgVars, histVars
  <2> QED BY <2>2, <2>3
<1>9. CASE TrimRead(x)
  <2>1. TypeOK'
    BY <1>1, <1>9 DEF IInv, TypeOK, TrimRead, HandlerStep, HandlerState, HandlerPC,
       msgVars, histVars, otherVars
  <2>2. LockInv'
    BY <1>1, <1>9 DEF IInv, LockInv, HoldsLock, TrimRead, HandlerStep,
       WriteLockFree, Count, HandlerState, msgVars
  <2>3. TaskInv'
    BY <1>9 DEF IInv, TaskInv, OneStorageTask, QuietAfterClose, Live, TrimRead,
       HandlerStep
  <2> QED BY <2>1, <2>2, <2>3 DEF IInv
<1>10. CASE TrimRefused(x)
  <2>1. meta' \in Meta
    BY <1>1, <1>4, <1>10 DEF TrimRefused
  <2> QED
    BY <1>5, <1>10, <2>1 DEF TrimRefused, HandlerStep
<1>11. CASE TrimDelete(x)
  <2> DEFINE d == Least(H.n, H.snap.last)
  <2>1. d \in Nat /\ d <= H.snap.last
    BY <1>2 DEF Least
  <2>2. CASE d = 0
    BY <1>1, <1>5, <1>11, <2>2 DEF TrimDelete, HandlerStep, msgVars
  <2>3. CASE d # 0
    <3>1. first' = first + d /\ hnd' = [hnd EXCEPT ![x].pc = "trimmed", ![x].n = d]
      BY <1>11, <2>3 DEF TrimDelete
    <3>2. H.pc = "trimming" /\ d <= Count
      BY <1>1, <1>2, <1>11, <2>1 DEF TrimDelete, HandlerStep, IInv, LockInv
    <3>3. UNCHANGED <<next, meta, tsk, inflight, phase, covered, dup, dropped, otherVars>>
      BY <1>11 DEF TrimDelete, HandlerStep, histVars
    <3> HIDE DEF d
    <3>4. first' \in Nat /\ first' <= next
      BY <1>1, <2>1, <3>1, <3>2 DEF Count
    <3>5. TypeOK'
      BY <1>1, <2>1, <3>1, <3>3, <3>4 DEF IInv, TypeOK, HandlerState, HandlerPC, otherVars
    <3>6. LockInv'
      BY <1>1, <2>1, <3>1, <3>2 DEF IInv, LockInv, HoldsLock, HandlerState
    <3>7. TaskInv'
      BY <3>3 DEF IInv, TaskInv, OneStorageTask, QuietAfterClose, Live
    <3> QED BY <3>5, <3>6, <3>7 DEF IInv
  <2> QED BY <2>2, <2>3
<1>12. CASE TrimUpdate(x)
  <2>1. H.n <= H.snap.last
    BY <1>12 DEF TrimUpdate, HandlerStep, IInv, LockInv
  <2>2. H.snap.last - H.n \in Nat
    BY <1>2, <2>1
  <2>3. meta' \in Meta
    BY <1>1, <1>4, <1>12, <2>2 DEF TrimUpdate
  <2> QED
    BY <1>5, <1>12, <2>3 DEF TrimUpdate, HandlerStep
<1>13. CASE ReadTotal(x)
  <2> DEFINE r == [H EXCEPT !.pc = "last", !.total = Count]
  <2>1. r \in HandlerState /\ r.pc \notin {"trimming", "trimmed"}
    BY <1>1 DEF HandlerState, HandlerPC
  <2>2. hnd' = [hnd EXCEPT ![x] = r]
    BY <1>1, <1>13 DEF ReadTotal
  <2> HIDE DEF r
  <2> QED
    BY <1>1, <1>13, <2>1, <2>2, HandlerMoves DEF ReadTotal, HandlerStep, msgVars, histVars
<1>14. CASE ReadLast(x)
  <2> DEFINE pc == IF meta.last > H.total THEN "clampR" ELSE "pend"
             r  == [H EXCEPT !.last = Least(meta.last, H.total), !.pc = pc]
  <2>1. Least(meta.last, H.total) \in Nat
    BY <1>2 DEF Least
  <2>2. r \in HandlerState /\ r.pc \notin {"trimming", "trimmed"}
    BY <1>1, <2>1 DEF HandlerState, HandlerPC
  <2>3. hnd' = [hnd EXCEPT ![x] = r]
    BY <1>1, <1>14 DEF ReadLast
  <2> HIDE DEF r
  <2> QED
    BY <1>1, <1>14, <2>2, <2>3, HandlerMoves DEF ReadLast, HandlerStep, msgVars, histVars
<1>15. CASE ReadPending(x)
  <2> DEFINE start == IF meta.pend.retry > 0 THEN meta.pend.start ELSE H.last
             r == IF (H.total - H.last) \div 2 < Trigger THEN NoHandler
                  ELSE IF meta.pend.retry >= MaxRetry THEN [H EXCEPT !.pc = "dropR"]
                  ELSE IF H.total - start < 2 THEN NoHandler
                  ELSE [H EXCEPT !.pc = "range", !.start = start,
                                 !.retry = meta.pend.retry]
  <2>1. [H EXCEPT !.pc = "dropR"] \in HandlerState
    BY <1>1 DEF HandlerState, HandlerPC
  <2>2. ~(meta.pend.retry >= MaxRetry) =>
          [H EXCEPT !.pc = "range", !.start = start, !.retry = meta.pend.retry]
            \in HandlerState
    <3>1. start \in Nat
      BY <1>2
    <3>2. ~(meta.pend.retry >= MaxRetry) => meta.pend.retry \in 0..MaxRetry-1
      BY <1>2 DEF MaxRetry
    <3> HIDE DEF start
    <3> QED BY <1>1, <3>1, <3>2 DEF HandlerState, HandlerPC
  <2>3. H = [H EXCEPT !.pc = H.pc] /\ [H EXCEPT !.pc = "dropR"].pc = "dropR"
        /\ [H EXCEPT !.pc = "range", !.start = start, !.retry = meta.pend.retry].pc = "range"
    BY <1>1 DEF HandlerState
  <2>4. r \in HandlerState /\ r.pc \notin {"trimming", "trimmed"}
    BY <2>1, <2>2, <2>3, NullsTyped DEF NoHandler
  <2>5. hnd' = [hnd EXCEPT ![x] = r]
    BY <1>15 DEF ReadPending
  <2> HIDE DEF r
  <2> QED
    BY <1>1, <1>15, <2>4, <2>5, HandlerMoves DEF ReadPending, HandlerStep, msgVars, histVars
<1>16. ASSUME NEW from, NEW to \in {"clampW", "dropW", "skipW"}, Snapshot(x, from, to)
       PROVE  IInv'
  <2> DEFINE r == [H EXCEPT !.pc = to, !.snap = meta]
  <2>1. r \in HandlerState /\ r.pc \notin {"trimming", "trimmed"}
    BY <1>1 DEF HandlerState, HandlerPC
  <2>2. hnd' = [hnd EXCEPT ![x] = r]
    BY <1>1, <1>16 DEF Snapshot
  <2> HIDE DEF r
  <2> QED
    BY <1>1, <1>16, <2>1, <2>2, HandlerMoves DEF Snapshot, HandlerStep, msgVars, histVars
<1>17. CASE ClampWrite(x)
  <2> DEFINE r == [H EXCEPT !.pc = "pend", !.snap = NoMeta]
  <2>1. r \in HandlerState /\ r.pc \notin {"trimming", "trimmed"}
    BY <1>1, NullsTyped DEF HandlerState, HandlerPC
  <2>2. hnd' = [hnd EXCEPT ![x] = r]
    BY <1>1, <1>17 DEF ClampWrite
  <2>3. meta' \in Meta
    BY <1>1, <1>2, <1>4, <1>17 DEF ClampWrite
  <2> HIDE DEF r
  <2> QED
    BY <1>1, <1>17, <2>1, <2>2, <2>3, HandlerMoves
    DEF ClampWrite, HandlerStep, msgVars, histVars
<1>18. CASE DropWrite(x)
  <2> DEFINE r == [H EXCEPT !.pc = "skipR", !.snap = NoMeta]
  <2>1. r \in HandlerState /\ r.pc \notin {"trimming", "trimmed"}
    BY <1>1, NullsTyped DEF HandlerState, HandlerPC
  <2>2. hnd' = [hnd EXCEPT ![x] = r]
    BY <1>1, <1>18 DEF DropWrite
  <2>3. meta' \in Meta
    BY <1>1, <1>18, NullsTyped DEF DropWrite, Meta
  <2> HIDE DEF r
  <2> QED
    BY <1>1, <1>18, <2>1, <2>2, <2>3, HandlerMoves
    DEF DropWrite, HandlerStep, msgVars, histVars
<1>19. CASE SkipWrite(x)
  <2>1. meta' \in Meta
    BY <1>1, <1>2, <1>4, <1>19 DEF SkipWrite
  <2>2. dropped' \subseteq Nat
    BY <1>1, <1>2, <1>19 DEF SkipWrite
  <2> QED
    BY <1>1, <1>19, <2>1, <2>2, NullsTyped, HandlerMoves
    DEF SkipWrite, HandlerStep, msgVars, NoHandler
<1>20. CASE FetchRange(x)
  <2> DEFINE lo == RangeLo(H.start)
             hi == RangeHi(H.start, H.total)
             r == [H EXCEPT !.pc = "start", !.lo = lo, !.hi = hi]
  <2>1. lo \in Nat /\ hi \in Nat
    BY <1>1, <1>2 DEF RangeLo, RangeHi, Least, Most
  <2> HIDE DEF lo, hi
  <2>2. r \in HandlerState /\ r.pc \notin {"trimming", "trimmed"}
    BY <1>1, <2>1 DEF HandlerState, HandlerPC
  <2>3. hnd' = [hnd EXCEPT ![x] = r]
    BY <1>1, <1>20 DEF FetchRange, lo, hi
  <2> HIDE DEF r
  <2> QED
    BY <1>1, <1>20, <2>2, <2>3, HandlerMoves DEF FetchRange, HandlerStep, msgVars, histVars
<1>21. CASE HandlerFails(x)
  <2>1. CASE AfterLimit(x)
    BY <1>1, <1>5, <1>21, <2>1 DEF HandlerFails
  <2>2. CASE hnd' = [hnd EXCEPT ![x] = NoHandler]
    BY <1>1, <1>21, <2>2, NullsTyped, HandlerMoves
    DEF HandlerFails, NoHandler, msgVars, histVars
  <2> QED BY <1>21, <2>1, <2>2 DEF HandlerFails
<1>22. CASE HandlerWriteLost(x)
  <2> DEFINE r == CASE H.pc = "clampW" -> [H EXCEPT !.pc = "pend", !.snap = NoMeta]
                    [] H.pc = "dropW"  -> [H EXCEPT !.pc = "skipR", !.snap = NoMeta]
                    [] H.pc = "skipW"  -> NoHandler
  <2>1. r \in HandlerState /\ r.pc \notin {"trimming", "trimmed"}
    <3>1. CASE H.pc = "clampW"
      BY <1>1, <3>1, NullsTyped DEF HandlerState, HandlerPC
    <3>2. CASE H.pc = "dropW"
      BY <1>1, <3>2, NullsTyped DEF HandlerState, HandlerPC
    <3>3. CASE H.pc = "skipW"
      BY <3>3, NullsTyped DEF NoHandler
    <3> QED BY <1>22, <3>1, <3>2, <3>3 DEF HandlerWriteLost
  <2>2. hnd' = [hnd EXCEPT ![x] = r]
    BY <1>1, <1>22 DEF HandlerWriteLost
  <2> HIDE DEF r
  <2> QED
    BY <1>1, <1>22, <2>1, <2>2, HandlerMoves DEF HandlerWriteLost, msgVars, histVars
<1> QED
  BY <1>6, <1>7, <1>8, <1>9, <1>10, <1>11, <1>12, <1>13, <1>14, <1>15, <1>16, <1>17,
     <1>18, <1>19, <1>20, <1>21, <1>22 DEF Handler

\* A task is started only when none is live, and not after shutdown() began.
LEMMA DispatchKeepsIInv ==
  ASSUME IInv, NEW x \in Handlers, NEW t \in Tasks, Dispatch(x, t)
  PROVE  IInv'
<1>1. /\ hnd[x] \in HandlerState /\ hnd \in [Handlers -> HandlerState]
      /\ tsk \in [Tasks -> TaskState] /\ meta \in Meta
      /\ covered \subseteq Nat /\ dup \subseteq Nat /\ dropped \subseteq Nat
  BY DEF IInv, TypeOK
<1>2. /\ hnd' = [hnd EXCEPT ![x] = NoHandler] /\ NoHandler \in HandlerState
      /\ NoHandler.pc = "idle"
      /\ UNCHANGED <<first, next, meta, phase, otherVars, covered, dup, dropped>>
  BY NullsTyped DEF Dispatch, NoHandler, msgVars, histVars
<1>3. CASE ~MayStart
  BY <1>1, <1>2, <1>3, HandlerMoves DEF Dispatch
<1>4. CASE MayStart
  <2> DEFINE r == [NoTask EXCEPT !.pc = "check",
               !.start = hnd[x].start, !.end = hnd[x].total, !.retry = hnd[x].retry,
               !.lo = hnd[x].lo, !.hi = hnd[x].hi]
  <2>1. r \in TaskState
    BY <1>1, NullsTyped DEF TaskState, TaskPC, HandlerState
  <2>2. tsk' = [tsk EXCEPT ![t] = r] /\ inflight' = TRUE
    BY <1>4 DEF Dispatch, StartTask
  <2> HIDE DEF r
  <2>3. \A u \in Tasks : ~Live(u)
    BY <1>4 DEF MayStart, IInv, TaskInv
  <2>4. TypeOK'
    BY <1>1, <1>2, <2>1, <2>2 DEF IInv, TypeOK, otherVars
  <2>5. LockInv'
    BY <1>1, <1>2 DEF IInv, LockInv, HoldsLock, Count
  <2>6. TaskInv'
    BY <1>1, <1>2, <1>4, <2>2, <2>3
    DEF TaskInv, OneStorageTask, QuietAfterClose, Live, MayStart
  <2> QED BY <2>4, <2>5, <2>6 DEF IInv
<1> QED BY <1>3, <1>4

\* A step inside a storage task: it was live and may end, nothing else starts.
LEMMA TaskMoves ==
  ASSUME IInv, NEW t \in Tasks, Live(t), NEW r \in TaskState,
         tsk' = [tsk EXCEPT ![t] = r], meta' \in Meta,
         UNCHANGED <<first, next, hnd, phase, otherVars>>,
         inflight' = inflight \/ (inflight' = FALSE /\ r.pc = "idle"),
         covered' \subseteq Nat, dup' \subseteq Nat, dropped' \subseteq Nat
  PROVE  IInv'
<1>1. inflight = TRUE /\ inflight' \in BOOLEAN
  BY DEF IInv, TypeOK, TaskInv
<1>2. TypeOK'
  BY <1>1 DEF IInv, TypeOK, otherVars
<1>3. LockInv'
  BY DEF IInv, LockInv, HoldsLock, Count
<1>4. TaskInv'
  BY <1>1 DEF IInv, TypeOK, TaskInv, OneStorageTask, QuietAfterClose, Live
<1> QED
  BY <1>2, <1>3, <1>4 DEF IInv

LEMMA TaskKeepsIInv ==
  ASSUME IInv, NEW t \in Tasks, Task(t)
  PROVE  IInv'
<1> DEFINE T == tsk[t]
<1>1. /\ T \in TaskState /\ tsk \in [Tasks -> TaskState] /\ meta \in Meta
      /\ covered \subseteq Nat /\ dup \subseteq Nat /\ dropped \subseteq Nat
  BY DEF IInv, TypeOK
<1>2. /\ T.snap \in Meta /\ T.start \in Nat /\ T.end \in Nat /\ T.lo \in Nat
      /\ T.hi \in Nat /\ T.retry + 1 \in 0..MaxRetry
  BY <1>1 DEF TaskState, MaxRetry
<1>3. ASSUME NEW pc \in TaskPC \ {"idle"}, Live(t), tsk' = [tsk EXCEPT ![t].pc = pc],
             meta' \in Meta,
             UNCHANGED <<first, next, hnd, inflight, phase, otherVars>>,
             covered' \subseteq Nat, dup' \subseteq Nat, dropped' \subseteq Nat
      PROVE  IInv'
  <2> DEFINE r == [T EXCEPT !.pc = pc]
  <2>1. r \in TaskState /\ tsk' = [tsk EXCEPT ![t] = r]
    BY <1>1, <1>3 DEF TaskState
  <2> HIDE DEF r
  <2> QED BY <1>3, <2>1, TaskMoves
<1>4. CASE TaskCheck(t)
  <2>1. CASE meta.last >= T.end
    BY <1>1, <1>3, <1>4, <2>1 DEF TaskCheck, TaskStep, TaskPC, Live, histVars
  <2>2. CASE ~(meta.last >= T.end)
    BY <1>1, <1>3, <1>4, <2>2 DEF TaskCheck, TaskStep, TaskPC, Live, histVars
  <2> QED BY <2>1, <2>2
<1>5. ASSUME NEW ok \in BOOLEAN, TaskThink(t, ok)
      PROVE  IInv'
  <2>1. CASE ok
    BY <1>1, <1>3, <1>5, <2>1 DEF TaskThink, TaskStep, TaskPC, Live, histVars
  <2>2. CASE ~ok
    BY <1>1, <1>3, <1>5, <2>2 DEF TaskThink, TaskStep, TaskPC, Live, histVars
  <2> QED BY <2>1, <2>2
<1>6. CASE TaskStore(t)
  <2>1. covered' \subseteq Nat /\ dup' \subseteq Nat /\ dropped' \subseteq Nat
    BY <1>1, <1>2, <1>6 DEF TaskStore, Cover
  <2> QED
    BY <1>1, <1>3, <1>6, <2>1 DEF TaskStore, TaskStep, TaskPC, Live
<1>7. CASE TaskStoreFails(t)
  BY <1>1, <1>3, <1>7 DEF TaskStoreFails, TaskStep, TaskPC, Live, histVars
<1>8. ASSUME NEW from \in TaskPC \ {"idle"}, NEW to \in TaskPC \ {"idle"},
             TaskSnapshot(t, from, to)
      PROVE  IInv'
  <2> DEFINE r == [T EXCEPT !.pc = to, !.snap = meta]
  <2>1. r \in TaskState /\ tsk' = [tsk EXCEPT ![t] = r]
    BY <1>1, <1>8 DEF TaskState, TaskSnapshot
  <2> HIDE DEF r
  <2> QED
    BY <1>1, <1>8, <2>1, TaskMoves DEF TaskSnapshot, TaskStep, Live, histVars
<1>9. ASSUME NEW from \in TaskPC \ {"idle"}, NEW to \in TaskPC \ {"idle"},
             NEW m \in Meta, TaskWrite(t, from, to, m)
      PROVE  IInv'
  <2> DEFINE r == [T EXCEPT !.pc = to, !.snap = NoMeta]
  <2>1. r \in TaskState /\ tsk' = [tsk EXCEPT ![t] = r]
    BY <1>1, <1>9, NullsTyped DEF TaskState, TaskWrite
  <2> HIDE DEF r
  <2> QED
    BY <1>1, <1>9, <2>1, TaskMoves DEF TaskWrite, TaskStep, Live, histVars
<1>10. CASE RecordPending(t)
  <2>1. [T.snap EXCEPT !.pend = [start |-> T.start, retry |-> T.retry + 1]] \in Meta
    BY <1>2 DEF Meta, Pending
  <2> QED BY <1>9, <1>10, <2>1 DEF RecordPending, TaskPC
<1>11. ASSUME NEW from \in TaskPC \ {"idle"}, NEW to \in TaskPC \ {"idle"},
              AdvanceIndex(t, from, to)
       PROVE  IInv'
  <2>1. [T.snap EXCEPT !.last = T.end] \in Meta
    BY <1>2 DEF Meta
  <2> QED BY <1>9, <1>11, <2>1 DEF AdvanceIndex
<1>12. ASSUME NEW from \in TaskPC \ {"idle"}, ClearPending(t, from)
       PROVE  IInv'
  <2>1. [T.snap EXCEPT !.pend = NoPending] \in Meta
    BY <1>2, NullsTyped DEF Meta
  <2> QED BY <1>9, <1>12, <2>1 DEF ClearPending, TaskPC
<1>13. CASE TaskDone(t)
  <2>1. NoTask.pc = "idle"
    BY DEF NoTask
  <2> QED
    BY <1>1, <1>13, <2>1, NullsTyped, TaskMoves DEF TaskDone, Live, msgVars, histVars
<1>14. CASE TaskReadFails(t)
  <2> DEFINE pc == AfterReadFails[T.pc]
  <2>1. pc \in {"pendR", "lastR2", "done"} /\ Live(t)
    BY <1>14 DEF TaskReadFails, AfterReadFails, Live
  <2>2. tsk' = [tsk EXCEPT ![t].pc = pc]
    BY <1>1, <1>14 DEF TaskReadFails
  <2> HIDE DEF pc
  <2> QED
    BY <1>1, <1>3, <1>14, <2>1, <2>2 DEF TaskReadFails, TaskStep, TaskPC, histVars
<1>15. CASE TaskWriteLost(t)
  BY <1>1, <1>9, <1>15 DEF TaskWriteLost, TaskPC
<1> QED
  BY <1>4, <1>5, <1>6, <1>7, <1>8, <1>10, <1>11, <1>12, <1>13, <1>14, <1>15 DEF Task, TaskPC

-----------------------------------------------------------------------------
\* /lmem summarize touches neither the table nor any task.
LEMMA ManualMoves ==
  ASSUME IInv, man' \in ManualState, manuals' \in Nat, meta' \in Meta,
         UNCHANGED <<first, next, hnd, tsk, inflight, phase, rst, resets>>,
         covered' \subseteq Nat, dup' \subseteq Nat, dropped' \subseteq Nat
  PROVE  IInv'
<1>1. TypeOK'
  BY DEF IInv, TypeOK
<1>2. LockInv'
  BY DEF IInv, LockInv, HoldsLock, Count
<1>3. TaskInv'
  BY DEF IInv, TaskInv, OneStorageTask, QuietAfterClose, Live
<1> QED BY <1>1, <1>2, <1>3 DEF IInv

LEMMA ManualKeepsIInv ==
  ASSUME IInv, Manual
  PROVE  IInv'
<1>1. /\ man \in ManualState /\ meta \in Meta /\ meta.last \in Nat /\ manuals \in Nat
      /\ first \in Nat /\ next \in Nat /\ Count \in Nat
      /\ covered \subseteq Nat /\ dup \subseteq Nat /\ dropped \subseteq Nat
  BY DEF IInv, TypeOK, Count, Meta
<1>2. /\ man.snap \in Meta /\ man.total \in Nat /\ man.last \in Nat /\ man.lo \in Nat
      /\ man.hi \in Nat
  BY <1>1 DEF ManualState
<1>3. CASE ManualCount
  <2>1. man' \in ManualState
    BY <1>1, <1>3 DEF ManualCount, ManualState, ManualPC
  <2> QED BY <1>1, <1>3, <2>1, ManualMoves DEF ManualCount, ManualStep, histVars
<1>4. CASE ManualLast
  <2>1. [man EXCEPT !.pc = "range", !.last = meta.last] \in ManualState
    BY <1>1 DEF ManualState, ManualPC
  <2> QED BY <1>1, <1>4, <2>1, NullsTyped, ManualMoves DEF ManualLast, ManualStep, histVars
<1>5. CASE ManualRange
  <2> DEFINE lo == RangeLo(man.last)  hi == RangeHi(man.last, man.total)
  <2>1. lo \in Nat /\ hi \in Nat
    BY <1>1, <1>2 DEF RangeLo, RangeHi, Least, Most
  <2>2. man' = IF lo = hi THEN NoManual
               ELSE [man EXCEPT !.pc = "store", !.lo = lo, !.hi = hi]
    BY <1>5 DEF ManualRange
  <2> HIDE DEF lo, hi
  <2>3. [man EXCEPT !.pc = "store", !.lo = lo, !.hi = hi] \in ManualState
    BY <1>1, <2>1 DEF ManualState, ManualPC
  <2> QED
    BY <1>1, <1>5, <2>2, <2>3, NullsTyped, ManualMoves DEF ManualRange, ManualStep, histVars
<1>6. CASE ManualStore
  <2>1. man' \in ManualState
    BY <1>1, <1>6 DEF ManualStore, ManualState, ManualPC
  <2>2. covered' \subseteq Nat /\ dup' \subseteq Nat /\ dropped' \subseteq Nat
    BY <1>1, <1>2, <1>6 DEF ManualStore, Cover
  <2> QED BY <1>1, <1>6, <2>1, <2>2, ManualMoves DEF ManualStore, ManualStep
<1>7. CASE ManualFails
  BY <1>1, <1>7, NullsTyped, ManualMoves DEF ManualFails, ManualStep, histVars
<1>8. ASSUME NEW from, NEW to \in ManualPC, ManualSnapshot(from, to)
      PROVE  IInv'
  <2>1. man' \in ManualState
    BY <1>1, <1>8 DEF ManualSnapshot, ManualState
  <2> QED BY <1>1, <1>8, <2>1, ManualMoves DEF ManualSnapshot, ManualStep, histVars
<1>9. CASE ManualAdvance
  <2>1. man' \in ManualState
    BY <1>1, <1>9, NullsTyped DEF ManualAdvance, ManualState, ManualPC
  <2>2. meta' \in Meta
    BY <1>2, <1>9 DEF ManualAdvance, Meta
  <2> QED BY <1>1, <1>9, <2>1, <2>2, ManualMoves DEF ManualAdvance, ManualStep, histVars
<1>10. CASE ManualClear
  <2>1. meta' \in Meta
    BY <1>2, <1>10, NullsTyped DEF ManualClear, Meta
  <2> QED
    BY <1>1, <1>10, <2>1, NullsTyped, ManualMoves DEF ManualClear, ManualStep, histVars
<1>11. CASE ManualWriteLost
  <2>1. [man EXCEPT !.pc = "clearR", !.snap = NoMeta] \in ManualState
    BY <1>1, NullsTyped DEF ManualState, ManualPC
  <2> QED
    BY <1>1, <1>11, <2>1, NullsTyped, ManualMoves DEF ManualWriteLost, ManualStep, histVars
<1> QED
  BY <1>3, <1>4, <1>5, <1>6, <1>7, <1>8, <1>9, <1>10, <1>11 DEF Manual, ManualPC

-----------------------------------------------------------------------------
\* A new process starts with no coroutine at all.
LEMMA NewProcessKeepsIInv ==
  ASSUME IInv, NewProcess
  PROVE  IInv'
<1>1. hnd' \in [Handlers -> HandlerState] /\ tsk' \in [Tasks -> TaskState]
      /\ man' \in ManualState
  BY NullsTyped DEF NewProcess
<1>2. TypeOK'
  BY <1>1 DEF IInv, TypeOK, NewProcess, msgVars, histVars
<1>3. LockInv'
  BY DEF LockInv, HoldsLock, NewProcess, NoHandler
<1>4. TaskInv'
  BY DEF TaskInv, OneStorageTask, QuietAfterClose, Live, NewProcess, NoTask
<1> QED BY <1>2, <1>3, <1>4 DEF IInv

LEMMA NextKeepsIInv == IInv /\ [Next]_vars => IInv'
<1> SUFFICES ASSUME IInv, [Next]_vars PROVE IInv'
  OBVIOUS
<1>1. ASSUME NEW x \in Handlers, Handler(x) PROVE IInv'
  BY <1>1, HandlerKeepsIInv, DispatchKeepsIInv
<1>2. ASSUME NEW t \in Tasks, Task(t) PROVE IInv'
  BY <1>2, TaskKeepsIInv
<1>3. CASE Manual
  BY <1>3, ManualKeepsIInv
<1>4. CASE ResetMessages
  <2>1. TypeOK'
    BY <1>4 DEF IInv, TypeOK, ResetMessages
  <2>2. LockInv'
    BY <1>4 DEF IInv, LockInv, HoldsLock, ResetMessages, WriteLockFree
  <2>3. TaskInv'
    BY <1>4 DEF IInv, TaskInv, OneStorageTask, QuietAfterClose, Live, ResetMessages
  <2> QED BY <2>1, <2>2, <2>3 DEF IInv
<1>5. CASE ResetMetadata
  <2>1. TypeOK'
    BY <1>5, NullsTyped DEF IInv, TypeOK, ResetMetadata, msgVars, histVars
  <2>2. LockInv'
    BY <1>5 DEF IInv, LockInv, HoldsLock, ResetMetadata, Count, msgVars
  <2>3. TaskInv'
    BY <1>5 DEF IInv, TaskInv, OneStorageTask, QuietAfterClose, Live, ResetMetadata
  <2> QED BY <2>1, <2>2, <2>3 DEF IInv
<1>6. CASE BeginShutdown
  <2>1. TypeOK'
    BY <1>6 DEF IInv, TypeOK, BeginShutdown, msgVars, histVars, otherVars
  <2>2. LockInv'
    BY <1>6 DEF IInv, LockInv, HoldsLock, BeginShutdown, Count, msgVars
  <2>3. TaskInv'
    BY <1>6 DEF IInv, TaskInv, OneStorageTask, QuietAfterClose, Live, BeginShutdown
  <2> QED BY <2>1, <2>2, <2>3 DEF IInv
<1>7. CASE FinishShutdown
  <2>1. TypeOK'
    BY <1>7 DEF IInv, TypeOK, FinishShutdown, msgVars, histVars, otherVars
  <2>2. LockInv'
    BY <1>7 DEF IInv, LockInv, HoldsLock, FinishShutdown, Count, msgVars
  <2>3. TaskInv'
    BY <1>7 DEF IInv, TaskInv, OneStorageTask, QuietAfterClose, Live, FinishShutdown
  <2> QED BY <2>1, <2>2, <2>3 DEF IInv
<1>8. CASE Restart
  BY <1>8, NewProcessKeepsIInv DEF Restart
<1>9. CASE Crash
  BY <1>9, NewProcessKeepsIInv DEF Crash
<1>10. CASE UNCHANGED vars
  <2>1. TypeOK'
    BY <1>10 DEF IInv, TypeOK, vars
  <2>2. LockInv'
    BY <1>10 DEF IInv, LockInv, HoldsLock, Count, vars
  <2>3. TaskInv'
    BY <1>10 DEF IInv, TaskInv, OneStorageTask, QuietAfterClose, Live, vars
  <2> QED BY <2>1, <2>2, <2>3 DEF IInv
<1> QED
  BY <1>1, <1>2, <1>3, <1>4, <1>5, <1>6, <1>7, <1>8, <1>9, <1>10 DEF Next

LEMMA Inductive == Spec => []IInv
  BY InitIInv, NextKeepsIInv, PTL DEF Spec

\* Every variable keeps its type; in particular a range is tried at most
\* MaxRetry times (memory_reflection.py:238-254, 488-503).
THEOREM TypeCorrect == Spec => []TypeOK
<1>1. IInv => TypeOK
  BY DEF IInv
<1> QED BY <1>1, Inductive, PTL

\* However many handlers pass the trigger together, and wherever a crash, a
\* restart or a shutdown falls, a session has at most one storage task.
THEOREM OneTask == Spec => []OneStorageTask
<1>1. IInv => OneStorageTask
  BY DEF IInv, TaskInv
<1> QED BY <1>1, Inductive, PTL

\* After shutdown() has returned no storage task runs.
THEOREM QuietShutdown == Spec => []QuietAfterClose
<1>1. IInv => QuietAfterClose
  BY DEF IInv, TaskInv
<1> QED BY <1>1, Inductive, PTL

-----------------------------------------------------------------------------
(* The window passes over nothing silently, in a session below its limit.  *)
BelowLimit == MaxMsgs <= MaxMessages /\ MaxResets = 0

\* Whatever index a coroutine holds and may write back, all messages below it
\* are in the known ones, P; N is the number of messages.
Known         == covered \cup dropped
Reached(P, n) == (1 .. n) \subseteq P
MetaReached(P, m) == Reached(P, m.last) /\ Reached(P, m.pend.start)

HandlerReached(P, N, r) ==
  /\ r.pc \notin {"limitIndex", "trim", "trimming", "trimmed"}
  /\ MetaReached(P, r.snap) /\ Reached(P, r.last) /\ Reached(P, r.start) /\ r.total <= N
  /\ r.pc \in {"clampR", "clampW"} => Reached(P, r.total)
  /\ r.pc = "start" => Reached(P, r.lo) /\ r.total <= r.hi
TaskReached(P, r) ==
  /\ MetaReached(P, r.snap) /\ Reached(P, r.start) /\ Reached(P, r.lo) /\ r.end <= r.hi
  /\ r.pc \in {"lastR", "lastW", "clearR", "clearW", "lastR2", "lastW2"} => Reached(P, r.end)
ManualReached(P, N, r) ==
  /\ MetaReached(P, r.snap) /\ Reached(P, r.last) /\ r.total <= N
  /\ r.pc = "store" => Reached(P, r.lo) /\ r.total <= r.hi
  /\ r.pc \in {"lastR", "lastW"} => Reached(P, r.total)

SkipInv ==
  /\ first = 0 /\ next <= MaxMsgs /\ rst = "idle" /\ resets = 0
  /\ MetaReached(Known, meta)
  /\ \A x \in Handlers : HandlerReached(Known, next, hnd[x])
  /\ \A t \in Tasks : TaskReached(Known, tsk[t])
  /\ ManualReached(Known, next, man)

LEMMA ReachedGrows ==
  ASSUME NEW P, NEW Q, P \subseteq Q, NEW N \in Nat, NEW M \in Nat, N <= M
  PROVE  /\ \A n : Reached(P, n) => Reached(Q, n)
         /\ \A m : MetaReached(P, m) => MetaReached(Q, m)
         /\ \A r \in HandlerState : HandlerReached(P, N, r) => HandlerReached(Q, M, r)
         /\ \A r \in TaskState : TaskReached(P, r) => TaskReached(Q, r)
         /\ \A r \in ManualState : ManualReached(P, N, r) => ManualReached(Q, M, r)
<1>1. \A n : Reached(P, n) => Reached(Q, n)
  BY DEF Reached
<1>2. \A m : MetaReached(P, m) => MetaReached(Q, m)
  BY <1>1 DEF MetaReached
<1>3. ASSUME NEW r \in HandlerState, HandlerReached(P, N, r)
      PROVE  HandlerReached(Q, M, r)
  <2>1. r.total \in Nat
    BY DEF HandlerState
  <2> QED BY <1>1, <1>2, <1>3, <2>1 DEF HandlerReached
<1>4. ASSUME NEW r \in TaskState, TaskReached(P, r)
      PROVE  TaskReached(Q, r)
  BY <1>1, <1>2, <1>4 DEF TaskReached
<1>5. ASSUME NEW r \in ManualState, ManualReached(P, N, r)
      PROVE  ManualReached(Q, M, r)
  <2>1. r.total \in Nat
    BY DEF ManualState
  <2> QED BY <1>1, <1>2, <1>5, <2>1 DEF ManualReached
<1> QED BY <1>1, <1>2, <1>3, <1>4, <1>5

LEMMA ReachedDown ==
  ASSUME NEW P, NEW n \in Nat, NEW k \in Nat, k <= n, Reached(P, n)
  PROVE  Reached(P, k)
  BY DEF Reached

\* What a memory was made of is reached when the messages below it are.
LEMMA ReachedByRange ==
  ASSUME NEW P, NEW lo \in Nat, NEW hi \in Nat, Reached(P, lo)
  PROVE  Reached(P \cup (lo+1 .. hi), hi)
  BY DEF Reached

LEMMA NullReached ==
  ASSUME NEW P, NEW N \in Nat
  PROVE  /\ Reached(P, 0) /\ MetaReached(P, NoMeta)
         /\ HandlerReached(P, N, NoHandler)
         /\ HandlerReached(P, N, [NoHandler EXCEPT !.pc = "total", !.reply = TRUE])
         /\ TaskReached(P, NoTask) /\ ManualReached(P, N, NoManual)
<1>1. Reached(P, 0)
  BY DEF Reached
<1>2. MetaReached(P, NoMeta)
  BY <1>1 DEF MetaReached, NoMeta, NoPending
<1>3. HandlerReached(P, N, NoHandler)
  BY <1>1, <1>2 DEF HandlerReached, NoHandler
<1>4. HandlerReached(P, N, [NoHandler EXCEPT !.pc = "total", !.reply = TRUE])
  BY <1>1, <1>2 DEF HandlerReached, NoHandler
<1>5. TaskReached(P, NoTask)
  BY <1>1, <1>2 DEF TaskReached, NoTask
<1>6. ManualReached(P, N, NoManual)
  BY <1>1, <1>2 DEF ManualReached, NoManual
<1> QED BY <1>1, <1>2, <1>3, <1>4, <1>5, <1>6

LEMMA InitSkipInv == Init => SkipInv
<1> SUFFICES ASSUME Init PROVE SkipInv
  OBVIOUS
<1>1. next = 0 /\ 0 \in Nat
  BY DEF Init
<1> QED
  BY <1>1, NullReached, BoundsAssumption DEF Init, SkipInv

-----------------------------------------------------------------------------
\* A step keeps the invariant when the metadata and each record it changes
\* are reached after it.
LEMMA SkipKept ==
  ASSUME TypeOK, TypeOK', SkipInv, Known \subseteq Known', next <= next', next' <= MaxMsgs,
         UNCHANGED <<first, rst, resets>>, MetaReached(Known', meta'),
         \A x \in Handlers : hnd'[x] = hnd[x] \/ HandlerReached(Known', next', hnd'[x]),
         \A t \in Tasks : tsk'[t] = tsk[t] \/ TaskReached(Known', tsk'[t]),
         man' = man \/ ManualReached(Known', next', man')
  PROVE  SkipInv'
<1>1. next \in Nat /\ next' \in Nat /\ man \in ManualState
  BY DEF TypeOK
<1>2. ASSUME NEW x \in Handlers PROVE HandlerReached(Known', next', hnd'[x])
  <2>1. hnd[x] \in HandlerState /\ HandlerReached(Known, next, hnd[x])
    BY DEF TypeOK, SkipInv
  <2>2. HandlerReached(Known', next', hnd[x])
    BY <1>1, <2>1, ReachedGrows
  <2> QED BY <2>2
<1>3. ASSUME NEW t \in Tasks PROVE TaskReached(Known', tsk'[t])
  <2>1. tsk[t] \in TaskState /\ TaskReached(Known, tsk[t])
    BY DEF TypeOK, SkipInv
  <2>2. TaskReached(Known', tsk[t])
    BY <1>1, <2>1, ReachedGrows
  <2> QED BY <2>2
<1>4. ManualReached(Known', next', man')
  <2>1. ManualReached(Known', next', man)
    BY <1>1, ReachedGrows DEF SkipInv
  <2> QED BY <2>1
<1> QED BY <1>2, <1>3, <1>4 DEF SkipInv

\* A handler changes only its own record, and perhaps the metadata.
LEMMA HandlerSkips ==
  ASSUME TypeOK, TypeOK', SkipInv, NEW x \in Handlers, NEW r, HandlerReached(Known, next, r),
         hnd' = [hnd EXCEPT ![x] = r], MetaReached(Known, meta'),
         UNCHANGED <<first, next, tsk, covered, dropped, otherVars>>
  PROVE  SkipInv'
<1>1. next \in Nat /\ next' = next /\ Known' = Known /\ next <= MaxMsgs
  BY DEF TypeOK, Known, SkipInv
<1>2. \A y \in Handlers : hnd'[y] = hnd[y] \/ HandlerReached(Known', next', hnd'[y])
  BY <1>1 DEF TypeOK
<1> QED
  BY <1>1, <1>2, SkipKept DEF otherVars

LEMMA HandlerKeepsSkipInv ==
  ASSUME BelowLimit, TypeOK, TypeOK', SkipInv, NEW x \in Handlers, Handler(x)
  PROVE  SkipInv'
<1> DEFINE H == hnd[x]
<1>1. /\ H \in HandlerState /\ meta \in Meta /\ hnd \in [Handlers -> HandlerState]
      /\ next \in Nat /\ first = 0 /\ Count = next /\ next <= MaxMsgs
  BY DEF TypeOK, SkipInv, Count
<1>2. /\ H.total \in Nat /\ H.last \in Nat /\ H.start \in Nat
      /\ meta.last \in Nat /\ meta.pend \in Pending /\ meta.pend.start \in Nat
  BY <1>1 DEF HandlerState, Meta, Pending
<1>3. HandlerReached(Known, next, H) /\ MetaReached(Known, meta)
  BY DEF SkipInv
<1>4. H.total <= next /\ MetaReached(Known, H.snap) /\ Reached(Known, H.last)
      /\ Reached(Known, H.start)
  BY <1>3 DEF HandlerReached
<1>5. ASSUME UNCHANGED <<msgVars, meta, histVars, otherVars, tsk>>, AfterLimit(x)
      PROVE  SkipInv'
  <2> DEFINE r == IF H.reply THEN [NoHandler EXCEPT !.pc = "total", !.reply = TRUE]
                             ELSE NoHandler
  <2>1. HandlerReached(Known, next, r)
    BY <1>1, NullReached
  <2>2. hnd' = [hnd EXCEPT ![x] = r]
    BY <1>5, <1>1 DEF AfterLimit
  <2> HIDE DEF r
  <2> QED BY <1>3, <1>5, <2>1, <2>2, HandlerSkips DEF msgVars, histVars
<1>6. ASSUME NEW reply \in BOOLEAN, AddMessage(x, reply)
      PROVE  SkipInv'
  <2> DEFINE pc == IF reply /\ GroupChat THEN "total" ELSE "limit"
             r  == [H EXCEPT !.reply = reply, !.pc = pc]
  <2>1. Known' = Known /\ next' = next + 1 /\ next' <= MaxMsgs /\ next' \in Nat
    BY <1>1, <1>6, BoundsAssumption DEF AddMessage, Known, histVars
  <2>2. pc \in {"total", "limit"}
    OBVIOUS
  <2>3. hnd' = [hnd EXCEPT ![x] = r]
    BY <1>1, <1>6 DEF AddMessage
  <2> HIDE DEF pc
  <2>4. HandlerReached(Known, next, r)
    BY <1>1, <1>3, <2>2 DEF HandlerReached, HandlerState
  <2>5. r \in HandlerState
    BY <1>1, <2>2 DEF HandlerState, HandlerPC
  <2> HIDE DEF r
  <2>6. HandlerReached(Known', next', r)
    BY <1>1, <2>1, <2>4, <2>5, ReachedGrows
  <2>7. \A y \in Handlers : hnd'[y] = hnd[y] \/ HandlerReached(Known', next', hnd'[y])
    BY <1>1, <2>3, <2>6
  <2>8. UNCHANGED <<first, tsk, man, rst, resets>> /\ MetaReached(Known', meta')
    BY <1>3, <1>6, <2>1 DEF AddMessage, HandlerStep, otherVars
  <2> QED BY <1>1, <2>1, <2>7, <2>8, SkipKept
<1>7. CASE LimitCount(x)
  <2>1. Count <= MaxMessages
    BY <1>1, BoundsAssumption DEF BelowLimit
  <2> QED BY <1>5, <1>7, <2>1 DEF LimitCount, HandlerStep
\* Below the limit a handler never comes to the trim.
<1>8. ~(H.pc \in {"limitIndex", "trim", "trimming", "trimmed"})
  BY <1>3 DEF HandlerReached
<1>9. CASE \/ LimitIndex(x) \/ TrimRead(x) \/ TrimRefused(x) \/ TrimDelete(x) \/ TrimUpdate(x)
  BY <1>8, <1>9 DEF LimitIndex, TrimRead, TrimRefused, TrimDelete, TrimUpdate, HandlerStep
<1>10. CASE ReadTotal(x)
  <2> DEFINE r == [H EXCEPT !.pc = "last", !.total = Count]
  <2>1. HandlerReached(Known, next, r)
    BY <1>1, <1>3 DEF HandlerReached, HandlerState
  <2>2. hnd' = [hnd EXCEPT ![x] = r]
    BY <1>1, <1>10 DEF ReadTotal
  <2> HIDE DEF r
  <2> QED
    BY <1>3, <1>10, <2>1, <2>2, HandlerSkips DEF ReadTotal, HandlerStep, msgVars, histVars
<1>11. CASE ReadLast(x)
  <2> DEFINE pc == IF meta.last > H.total THEN "clampR" ELSE "pend"
             l  == Least(meta.last, H.total)
             r  == [H EXCEPT !.last = l, !.pc = pc]
  <2>1. l \in Nat /\ l <= meta.last /\ Reached(Known, meta.last)
    BY <1>2, <1>3 DEF Least, MetaReached
  <2>2. Reached(Known, l)
    BY <1>2, <2>1, ReachedDown
  <2>3. pc \in {"clampR", "pend"} /\ (pc = "clampR" => Reached(Known, H.total))
    BY <1>2, <2>1, ReachedDown
  <2>4. hnd' = [hnd EXCEPT ![x] = r]
    BY <1>1, <1>11 DEF ReadLast
  <2> HIDE DEF pc, l
  <2>5. HandlerReached(Known, next, r)
    BY <1>1, <1>3, <2>2, <2>3 DEF HandlerReached, HandlerState
  <2> HIDE DEF r
  <2> QED
    BY <1>3, <1>11, <2>4, <2>5, HandlerSkips DEF ReadLast, HandlerStep, msgVars, histVars
<1>12. CASE ReadPending(x)
  <2> DEFINE start == IF meta.pend.retry > 0 THEN meta.pend.start ELSE H.last
             r == IF (H.total - H.last) \div 2 < Trigger THEN NoHandler
                  ELSE IF meta.pend.retry >= MaxRetry THEN [H EXCEPT !.pc = "dropR"]
                  ELSE IF H.total - start < 2 THEN NoHandler
                  ELSE [H EXCEPT !.pc = "range", !.start = start,
                                 !.retry = meta.pend.retry]
  <2>1. HandlerReached(Known, next, [H EXCEPT !.pc = "dropR"])
    BY <1>1, <1>3 DEF HandlerReached, HandlerState
  <2>2. Reached(Known, start)
    BY <1>3, <1>4 DEF MetaReached
  <2>3. hnd' = [hnd EXCEPT ![x] = r]
    BY <1>12 DEF ReadPending
  <2> HIDE DEF start
  <2>4. HandlerReached(Known, next, [H EXCEPT !.pc = "range", !.start = start,
                                              !.retry = meta.pend.retry])
    BY <1>1, <1>3, <2>2 DEF HandlerReached, HandlerState
  <2>5. HandlerReached(Known, next, r)
    BY <1>1, <2>1, <2>4, NullReached
  <2> HIDE DEF r
  <2> QED
    BY <1>3, <1>12, <2>3, <2>5, HandlerSkips DEF ReadPending, HandlerStep, msgVars, histVars
<1>13. ASSUME NEW from, NEW to, Snapshot(x, from, to),
              <<from, to>> \in {<<"clampR", "clampW">>, <<"dropR", "dropW">>, <<"skipR", "skipW">>}
       PROVE  SkipInv'
  <2> DEFINE r == [H EXCEPT !.pc = to, !.snap = meta]
  <2>1. HandlerReached(Known, next, r)
    BY <1>1, <1>3, <1>13 DEF HandlerReached, HandlerState, Snapshot, HandlerStep
  <2>2. hnd' = [hnd EXCEPT ![x] = r]
    BY <1>1, <1>13 DEF Snapshot
  <2> HIDE DEF r
  <2> QED
    BY <1>3, <1>13, <2>1, <2>2, HandlerSkips DEF Snapshot, HandlerStep, msgVars, histVars
<1>14. HandlerReached(Known, next, [H EXCEPT !.pc = "pend", !.snap = NoMeta])
       /\ HandlerReached(Known, next, [H EXCEPT !.pc = "skipR", !.snap = NoMeta])
  BY <1>1, <1>3, NullReached DEF HandlerReached, HandlerState
<1>15. CASE ClampWrite(x)
  <2> DEFINE r == [H EXCEPT !.pc = "pend", !.snap = NoMeta]
  <2>1. Reached(Known, H.total)
    BY <1>3, <1>15 DEF HandlerReached, ClampWrite, HandlerStep
  <2>2. MetaReached(Known, meta')
    BY <1>1, <1>4, <1>15, <2>1 DEF MetaReached, ClampWrite, HandlerState, Meta
  <2>3. HandlerReached(Known, next, r) /\ hnd' = [hnd EXCEPT ![x] = r]
    BY <1>1, <1>14, <1>15 DEF ClampWrite
  <2> HIDE DEF r
  <2> QED
    BY <1>15, <2>2, <2>3, HandlerSkips DEF ClampWrite, HandlerStep, msgVars, histVars
<1>16. CASE DropWrite(x)
  <2> DEFINE r == [H EXCEPT !.pc = "skipR", !.snap = NoMeta]
  <2>1. MetaReached(Known, meta')
    BY <1>1, <1>4, <1>16, NullReached
    DEF MetaReached, DropWrite, HandlerState, Meta, NoPending
  <2>2. HandlerReached(Known, next, r) /\ hnd' = [hnd EXCEPT ![x] = r]
    BY <1>1, <1>14, <1>16 DEF DropWrite
  <2> HIDE DEF r
  <2> QED
    BY <1>16, <2>1, <2>2, HandlerSkips DEF DropWrite, HandlerStep, msgVars, histVars
\* Here the messages are given up, which is why the index may pass them.
<1>17. CASE SkipWrite(x)
  <2>1. Known \subseteq Known' /\ Reached(Known', H.total)
    <3>1. first + 1 = 1 /\ first + H.total = H.total
      BY <1>1, <1>2
    <3>2. dropped' = dropped \cup (1 .. H.total) /\ covered' = covered
      BY <1>17, <3>1 DEF SkipWrite
    <3> QED BY <3>2 DEF Known, Reached
  <2>2. MetaReached(Known', H.snap)
    BY <1>1, <1>4, <2>1, ReachedGrows
  <2>3. MetaReached(Known', meta')
    BY <1>1, <1>17, <2>1, <2>2 DEF MetaReached, SkipWrite, HandlerState, Meta
  <2>4. \A y \in Handlers : hnd'[y] = hnd[y] \/ HandlerReached(Known', next', hnd'[y])
    BY <1>1, <1>17, NullReached DEF SkipWrite, msgVars
  <2>5. UNCHANGED <<first, next, tsk, man, rst, resets>>
    BY <1>17 DEF SkipWrite, HandlerStep, msgVars, otherVars
  <2> QED BY <1>1, <2>1, <2>3, <2>4, <2>5, SkipKept
<1>18. CASE FetchRange(x)
  <2> DEFINE lo == RangeLo(H.start)
             hi == RangeHi(H.start, H.total)
             r  == [H EXCEPT !.pc = "start", !.lo = lo, !.hi = hi]
  <2>1. lo \in Nat /\ lo <= H.start /\ H.total <= hi
    BY <1>1, <1>2, <1>4 DEF RangeLo, RangeHi, Least, Most
  <2>2. Reached(Known, lo)
    BY <1>2, <1>4, <2>1, ReachedDown
  <2>3. hnd' = [hnd EXCEPT ![x] = r]
    BY <1>1, <1>18 DEF FetchRange
  <2> HIDE DEF lo, hi
  <2>4. HandlerReached(Known, next, r)
    BY <1>1, <1>3, <2>1, <2>2 DEF HandlerReached, HandlerState
  <2> HIDE DEF r
  <2> QED
    BY <1>3, <1>18, <2>3, <2>4, HandlerSkips DEF FetchRange, HandlerStep, msgVars, histVars
<1>19. CASE HandlerFails(x)
  <2>1. CASE AfterLimit(x)
    BY <1>5, <1>19, <2>1 DEF HandlerFails
  <2>2. CASE hnd' = [hnd EXCEPT ![x] = NoHandler]
    BY <1>1, <1>3, <1>19, <2>2, NullReached, HandlerSkips DEF HandlerFails, msgVars, histVars
  <2> QED BY <1>19, <2>1, <2>2 DEF HandlerFails
<1>20. CASE HandlerWriteLost(x)
  <2> DEFINE r == CASE H.pc = "clampW" -> [H EXCEPT !.pc = "pend", !.snap = NoMeta]
                    [] H.pc = "dropW"  -> [H EXCEPT !.pc = "skipR", !.snap = NoMeta]
                    [] H.pc = "skipW"  -> NoHandler
  <2>1. HandlerReached(Known, next, r)
    BY <1>1, <1>14, <1>20, NullReached DEF HandlerWriteLost
  <2>2. hnd' = [hnd EXCEPT ![x] = r]
    BY <1>1, <1>20 DEF HandlerWriteLost
  <2> HIDE DEF r
  <2> QED
    BY <1>3, <1>20, <2>1, <2>2, HandlerSkips DEF HandlerWriteLost, msgVars, histVars
<1>21. ASSUME NEW t \in Tasks, Dispatch(x, t)
       PROVE  SkipInv'
  <2>1. hnd' = [hnd EXCEPT ![x] = NoHandler] /\ H.pc = "start"
        /\ UNCHANGED <<first, next, meta, covered, dropped, otherVars>>
    BY <1>21 DEF Dispatch, msgVars, histVars
  <2>2. CASE ~MayStart
    <3>1. tsk' = tsk
      BY <1>21, <2>2 DEF Dispatch
    <3> QED BY <1>1, <1>3, <2>1, <3>1, NullReached, HandlerSkips
  <2>3. CASE MayStart
    <3> DEFINE r == [NoTask EXCEPT !.pc = "check",
                 !.start = H.start, !.end = H.total, !.retry = H.retry,
                 !.lo = H.lo, !.hi = H.hi]
    <3>1. Reached(Known, H.lo) /\ H.total <= H.hi
      BY <1>3, <2>1 DEF HandlerReached
    <3>2. TaskReached(Known, r)
      BY <1>1, <1>4, <3>1, NullReached DEF TaskReached, NoTask
    <3>3. tsk' = [tsk EXCEPT ![t] = r]
      BY <1>21, <2>3 DEF Dispatch, StartTask
    <3> HIDE DEF r
    <3>4. Known' = Known /\ next' = next
      BY <2>1 DEF Known
    <3>5. \A u \in Tasks : tsk'[u] = tsk[u] \/ TaskReached(Known', tsk'[u])
      BY <3>2, <3>3, <3>4 DEF TypeOK
    <3>6. \A y \in Handlers : hnd'[y] = hnd[y] \/ HandlerReached(Known', next', hnd'[y])
      BY <1>1, <2>1, <3>4, NullReached
    <3>7. UNCHANGED <<first, man, rst, resets>> /\ MetaReached(Known', meta')
      BY <1>3, <2>1, <3>4 DEF otherVars
    <3> QED BY <1>1, <3>4, <3>5, <3>6, <3>7, SkipKept
  <2> QED BY <2>2, <2>3
<1> QED
  BY <1>6, <1>7, <1>9, <1>10, <1>11, <1>12, <1>13, <1>15, <1>16, <1>17, <1>18, <1>19,
     <1>20, <1>21 DEF Handler

-----------------------------------------------------------------------------
\* A task changes only its own record, and perhaps the metadata.
LEMMA TaskSkips ==
  ASSUME TypeOK, TypeOK', SkipInv, NEW t \in Tasks, NEW r, TaskReached(Known, r),
         tsk' = [tsk EXCEPT ![t] = r], MetaReached(Known, meta'),
         UNCHANGED <<first, next, hnd, covered, dropped, otherVars>>
  PROVE  SkipInv'
<1>1. next \in Nat /\ next' = next /\ Known' = Known /\ next <= MaxMsgs
  BY DEF TypeOK, Known, SkipInv
<1>2. \A u \in Tasks : tsk'[u] = tsk[u] \/ TaskReached(Known', tsk'[u])
  BY <1>1 DEF TypeOK
<1> QED
  BY <1>1, <1>2, SkipKept DEF otherVars

LEMMA TaskKeepsSkipInv ==
  ASSUME TypeOK, TypeOK', SkipInv, NEW t \in Tasks, Task(t)
  PROVE  SkipInv'
<1> DEFINE T == tsk[t]
           Stored == {"lastR", "lastW", "clearR", "clearW", "lastR2", "lastW2"}
<1>1. /\ T \in TaskState /\ meta \in Meta /\ tsk \in [Tasks -> TaskState]
      /\ next \in Nat /\ first = 0 /\ next <= MaxMsgs
      /\ T.lo \in Nat /\ T.hi \in Nat /\ T.end \in Nat
  BY DEF TypeOK, SkipInv, TaskState
<1>2. TaskReached(Known, T) /\ MetaReached(Known, meta)
  BY DEF SkipInv
<1>3. /\ MetaReached(Known, T.snap) /\ Reached(Known, T.start) /\ Reached(Known, T.lo)
      /\ T.end <= T.hi
      /\ T.pc \in Stored => Reached(Known, T.end)
  BY <1>2 DEF TaskReached
<1>4. ASSUME NEW pc, pc \notin Stored \/ T.pc \in Stored, tsk' = [tsk EXCEPT ![t].pc = pc],
             UNCHANGED <<first, next, meta, hnd, covered, dropped, otherVars>>
      PROVE  SkipInv'
  <2> DEFINE r == [T EXCEPT !.pc = pc]
  <2>1. TaskReached(Known, r)
    BY <1>1, <1>3, <1>4 DEF TaskReached, TaskState
  <2>2. tsk' = [tsk EXCEPT ![t] = r]
    BY <1>1, <1>4
  <2> HIDE DEF r
  <2> QED BY <1>2, <1>4, <2>1, <2>2, TaskSkips
<1>5. CASE TaskCheck(t)
  BY <1>4, <1>5 DEF TaskCheck, TaskStep, histVars
<1>6. ASSUME NEW ok \in BOOLEAN, TaskThink(t, ok) PROVE SkipInv'
  BY <1>4, <1>6 DEF TaskThink, TaskStep, histVars
\* The memory is made of the messages lo+1..hi, and those up to lo are known.
<1>7. CASE TaskStore(t)
  <2> DEFINE r == [T EXCEPT !.pc = "lastR"]
  <2>1. Known' = Known \cup (T.lo+1 .. T.hi)
    BY <1>7 DEF TaskStore, Cover, Known
  <2>2. Reached(Known', T.hi)
    BY <1>1, <1>3, <2>1, ReachedByRange
  <2>3. Reached(Known', T.end)
    BY <1>1, <1>3, <2>2, ReachedDown
  <2>4. Known \subseteq Known' /\ next' = next
    BY <1>7, <2>1 DEF TaskStore, TaskStep
  <2>5. TaskReached(Known', T) /\ MetaReached(Known', meta)
    <3>1. next <= next
      BY <1>1
    <3>2. TaskReached(Known', T)
      BY <1>1, <1>2, <2>4, <3>1, ReachedGrows
    <3> QED BY <1>1, <1>2, <2>4, <3>1, <3>2, ReachedGrows
  <2>6. TaskReached(Known', r)
    BY <1>1, <2>3, <2>5 DEF TaskReached, TaskState
  <2>7. tsk' = [tsk EXCEPT ![t] = r]
    BY <1>1, <1>7 DEF TaskStore
  <2> HIDE DEF r
  <2>8. \A u \in Tasks : tsk'[u] = tsk[u] \/ TaskReached(Known', tsk'[u])
    BY <1>1, <2>6, <2>7
  <2>9. UNCHANGED <<first, hnd, man, rst, resets, meta>>
    BY <1>7 DEF TaskStore, TaskStep, otherVars
  <2> QED BY <1>1, <2>4, <2>5, <2>8, <2>9, SkipKept
<1>8. CASE TaskStoreFails(t)
  BY <1>4, <1>8 DEF TaskStoreFails, TaskStep, histVars
<1>9. ASSUME NEW from, NEW to, to \notin Stored \/ from \in Stored, TaskSnapshot(t, from, to)
      PROVE  SkipInv'
  <2> DEFINE r == [T EXCEPT !.pc = to, !.snap = meta]
  <2>1. to \notin Stored \/ T.pc \in Stored
    BY <1>9 DEF TaskSnapshot, TaskStep
  <2>2. TaskReached(Known, r)
    BY <1>1, <1>2, <1>3, <2>1 DEF TaskReached, TaskState
  <2>3. tsk' = [tsk EXCEPT ![t] = r]
    BY <1>1, <1>9 DEF TaskSnapshot
  <2> HIDE DEF r
  <2> QED BY <1>2, <1>9, <2>2, <2>3, TaskSkips DEF TaskSnapshot, TaskStep, histVars
<1>10. ASSUME NEW from, NEW to, NEW m, to \notin Stored \/ from \in Stored,
              MetaReached(Known, m), TaskWrite(t, from, to, m)
       PROVE  SkipInv'
  <2> DEFINE r == [T EXCEPT !.pc = to, !.snap = NoMeta]
  <2>1. to \notin Stored \/ T.pc \in Stored
    BY <1>10 DEF TaskWrite, TaskStep
  <2>2. TaskReached(Known, r)
    BY <1>1, <1>3, <2>1, NullReached DEF TaskReached, TaskState
  <2>3. tsk' = [tsk EXCEPT ![t] = r] /\ meta' = m
    BY <1>1, <1>10 DEF TaskWrite
  <2> HIDE DEF r
  <2> QED BY <1>10, <2>2, <2>3, TaskSkips DEF TaskWrite, TaskStep, histVars
<1>11. CASE RecordPending(t)
  <2> DEFINE m == [T.snap EXCEPT !.pend = [start |-> T.start, retry |-> T.retry + 1]]
  <2>1. MetaReached(Known, m)
    BY <1>1, <1>3 DEF MetaReached, TaskState, Meta
  <2>2. TaskWrite(t, "pendW", "done", m)
    BY <1>11 DEF RecordPending
  <2> HIDE DEF m
  <2> QED BY <1>10, <2>1, <2>2
<1>12. ASSUME NEW from \in {"lastW", "lastW2"}, NEW to, AdvanceIndex(t, from, to)
       PROVE  SkipInv'
  <2> DEFINE m == [T.snap EXCEPT !.last = T.end]
  <2>1. Reached(Known, T.end)
    BY <1>3, <1>12 DEF AdvanceIndex, TaskWrite, TaskStep
  <2>2. MetaReached(Known, m)
    BY <1>1, <1>3, <2>1 DEF MetaReached, TaskState, Meta
  <2>3. TaskWrite(t, from, to, m)
    BY <1>12 DEF AdvanceIndex
  <2> HIDE DEF m
  <2> QED BY <1>10, <2>2, <2>3
<1>13. ASSUME NEW from, ClearPending(t, from)
       PROVE  SkipInv'
  <2> DEFINE m == [T.snap EXCEPT !.pend = NoPending]
  <2>1. MetaReached(Known, m)
    BY <1>1, <1>3, NullReached DEF MetaReached, TaskState, Meta, NoPending
  <2>2. TaskWrite(t, from, "done", m)
    BY <1>13 DEF ClearPending
  <2> HIDE DEF m
  <2> QED BY <1>10, <2>1, <2>2
<1>14. CASE TaskReadFails(t)
  <2> DEFINE pc == AfterReadFails[T.pc]
  <2>1. pc \notin Stored \/ T.pc \in Stored
    BY <1>14 DEF TaskReadFails, AfterReadFails
  <2>2. tsk' = [tsk EXCEPT ![t].pc = pc]
    BY <1>1, <1>14 DEF TaskReadFails
  <2> HIDE DEF pc
  <2> QED BY <1>4, <1>14, <2>1, <2>2 DEF TaskReadFails, TaskStep, histVars
<1>15. CASE TaskWriteLost(t)
  BY <1>2, <1>10, <1>15 DEF TaskWriteLost
<1>16. CASE TaskDone(t)
  BY <1>1, <1>2, <1>16, NullReached, TaskSkips DEF TaskDone, msgVars, histVars
<1> QED
  BY <1>5, <1>6, <1>7, <1>8, <1>9, <1>11, <1>12, <1>13, <1>14, <1>15, <1>16 DEF Task

-----------------------------------------------------------------------------
\* /lmem summarize changes only its own record, and perhaps the metadata.
LEMMA ManualSkips ==
  ASSUME TypeOK, TypeOK', SkipInv, ManualReached(Known, next, man'), MetaReached(Known, meta'),
         UNCHANGED <<first, next, hnd, tsk, rst, resets, covered, dropped>>
  PROVE  SkipInv'
<1>1. next \in Nat /\ next' = next /\ Known' = Known /\ next <= MaxMsgs
  BY DEF TypeOK, Known, SkipInv
<1> QED
  BY <1>1, SkipKept

LEMMA ManualKeepsSkipInv ==
  ASSUME TypeOK, TypeOK', SkipInv, Manual
  PROVE  SkipInv'
<1>1. /\ man \in ManualState /\ meta \in Meta /\ first = 0 /\ Count = next /\ next \in Nat
      /\ next <= MaxMsgs
      /\ man.lo \in Nat /\ man.hi \in Nat /\ man.last \in Nat /\ man.total \in Nat
  BY DEF TypeOK, SkipInv, Count, ManualState
<1>2. ManualReached(Known, next, man) /\ MetaReached(Known, meta)
  BY DEF SkipInv
<1>3. MetaReached(Known, man.snap) /\ Reached(Known, man.last) /\ man.total <= next
  BY <1>2 DEF ManualReached
<1>4. ManualReached(Known, next, [man EXCEPT !.pc = "clearR", !.snap = NoMeta])
  BY <1>1, <1>3, NullReached DEF ManualReached, ManualState
<1>5. CASE ManualCount
  <2>1. man' = [man EXCEPT !.pc = "last", !.total = next] /\ next <= next
    BY <1>1, <1>5 DEF ManualCount
  <2>2. ManualReached(Known, next, man')
    BY <1>1, <1>3, <2>1 DEF ManualReached, ManualState
  <2> QED BY <1>2, <1>5, <2>2, ManualSkips DEF ManualCount, ManualStep, histVars
<1>6. CASE ManualLast
  <2>1. CASE man' = NoManual
    BY <1>1, <1>2, <1>6, <2>1, NullReached, ManualSkips DEF ManualLast, ManualStep, histVars
  <2>2. CASE man' = [man EXCEPT !.pc = "range", !.last = meta.last]
    <3>1. ManualReached(Known, next, man')
      BY <1>1, <1>2, <1>3, <2>2 DEF ManualReached, MetaReached, ManualState
    <3> QED BY <1>2, <1>6, <3>1, ManualSkips DEF ManualLast, ManualStep, histVars
  <2> QED BY <1>6, <2>1, <2>2 DEF ManualLast
<1>7. CASE ManualRange
  <2> DEFINE lo == RangeLo(man.last)  hi == RangeHi(man.last, man.total)
  <2>1. lo \in Nat /\ lo <= man.last /\ man.total <= hi
    BY <1>1, <1>3 DEF RangeLo, RangeHi, Least, Most
  <2>2. Reached(Known, lo)
    BY <1>1, <1>3, <2>1, ReachedDown
  <2>3. man' = NoManual \/ man' = [man EXCEPT !.pc = "store", !.lo = lo, !.hi = hi]
    BY <1>7 DEF ManualRange
  <2> HIDE DEF lo, hi
  <2>4. ManualReached(Known, next, [man EXCEPT !.pc = "store", !.lo = lo, !.hi = hi])
    BY <1>1, <1>3, <2>1, <2>2 DEF ManualReached, ManualState
  <2>5. ManualReached(Known, next, man')
    BY <1>1, <2>3, <2>4, NullReached
  <2> QED BY <1>2, <1>7, <2>5, ManualSkips DEF ManualRange, ManualStep, histVars
<1>8. CASE ManualStore
  <2>1. Known' = Known \cup (man.lo+1 .. man.hi) /\ next' = next
    BY <1>8 DEF ManualStore, ManualStep, Cover, Known
  <2>2. Reached(Known, man.lo) /\ man.total <= man.hi
    BY <1>2, <1>8 DEF ManualReached, ManualStore, ManualStep
  <2>3. Reached(Known', man.hi)
    BY <1>1, <2>1, <2>2, ReachedByRange
  <2>4. Reached(Known', man.total)
    BY <1>1, <2>2, <2>3, ReachedDown
  <2>5. Known \subseteq Known' /\ next <= next
    BY <1>1, <2>1
  <2>6. MetaReached(Known', meta) /\ MetaReached(Known', man.snap) /\ Reached(Known', man.last)
    BY <1>1, <1>2, <1>3, <2>5, ReachedGrows
  <2>7. man' = [man EXCEPT !.pc = "lastR", !.lo = 0, !.hi = 0]
    BY <1>8 DEF ManualStore
  <2>8. ManualReached(Known', next', man')
    BY <1>1, <1>3, <2>1, <2>4, <2>6, <2>7 DEF ManualReached, ManualState
  <2>9. UNCHANGED <<first, hnd, tsk, rst, resets, meta>>
    BY <1>8 DEF ManualStore, ManualStep
  <2> QED BY <1>1, <2>1, <2>5, <2>6, <2>8, <2>9, SkipKept
<1>9. CASE ManualFails
  BY <1>1, <1>2, <1>9, NullReached, ManualSkips DEF ManualFails, ManualStep, histVars
<1>10. ASSUME NEW from, NEW to, ManualSnapshot(from, to),
              <<from, to>> \in {<<"lastR", "lastW">>, <<"clearR", "clearW">>}
       PROVE  SkipInv'
  <2>1. man.pc = from /\ man' = [man EXCEPT !.pc = to, !.snap = meta]
    BY <1>10 DEF ManualSnapshot, ManualStep
  <2>2. ManualReached(Known, next, man')
    BY <1>1, <1>2, <1>10, <2>1 DEF ManualReached, ManualState
  <2> QED BY <1>2, <1>10, <2>2, ManualSkips DEF ManualSnapshot, ManualStep, histVars
<1>11. CASE ManualAdvance
  <2>1. Reached(Known, man.total)
    BY <1>2, <1>11 DEF ManualReached, ManualAdvance, ManualStep
  <2>2. MetaReached(Known, meta')
    BY <1>1, <1>3, <1>11, <2>1 DEF MetaReached, ManualAdvance, ManualState, Meta
  <2>3. ManualReached(Known, next, man')
    BY <1>4, <1>11 DEF ManualAdvance
  <2> QED BY <1>11, <2>2, <2>3, ManualSkips DEF ManualAdvance, ManualStep, histVars
<1>12. CASE ManualClear
  <2>1. MetaReached(Known, meta')
    BY <1>1, <1>3, <1>12, NullReached DEF MetaReached, ManualClear, ManualState, Meta, NoPending
  <2>2. ManualReached(Known, next, man')
    BY <1>1, <1>12, NullReached DEF ManualClear
  <2> QED BY <1>12, <2>1, <2>2, ManualSkips DEF ManualClear, ManualStep, histVars
<1>13. CASE ManualWriteLost
  <2>1. ManualReached(Known, next, man')
    BY <1>1, <1>4, <1>13, NullReached DEF ManualWriteLost
  <2> QED BY <1>2, <1>13, <2>1, ManualSkips DEF ManualWriteLost, ManualStep, histVars
<1> QED
  BY <1>5, <1>6, <1>7, <1>8, <1>9, <1>10, <1>11, <1>12, <1>13 DEF Manual

-----------------------------------------------------------------------------
LEMMA NextKeepsSkipInv ==
  ASSUME BelowLimit, TypeOK, TypeOK', SkipInv, [Next]_vars
  PROVE  SkipInv'
<1>1. next \in Nat /\ next <= MaxMsgs /\ MetaReached(Known, meta)
      /\ ManualReached(Known, next, man) /\ first = 0 /\ rst = "idle" /\ resets = 0
  BY DEF TypeOK, SkipInv
<1>2. ASSUME NEW x \in Handlers, Handler(x) PROVE SkipInv'
  BY <1>2, HandlerKeepsSkipInv
<1>3. ASSUME NEW t \in Tasks, Task(t) PROVE SkipInv'
  BY <1>3, TaskKeepsSkipInv
<1>4. CASE Manual
  BY <1>4, ManualKeepsSkipInv
<1>5. CASE ResetMessages \/ ResetMetadata
  BY <1>1, <1>5 DEF ResetMessages, ResetMetadata, BelowLimit
<1>6. CASE BeginShutdown \/ FinishShutdown \/ UNCHANGED vars
  BY <1>1, <1>6, ManualSkips
  DEF BeginShutdown, FinishShutdown, msgVars, histVars, otherVars, vars
<1>7. CASE Restart \/ Crash
  <2>1. NewProcess
    BY <1>7 DEF Restart, Crash
  <2>2. next' = next /\ Known' = Known /\ MetaReached(Known', meta')
        /\ UNCHANGED <<first, resets>> /\ rst' = "idle"
    BY <1>1, <2>1 DEF NewProcess, msgVars, histVars, Known
  <2>3. /\ \A x \in Handlers : HandlerReached(Known', next', hnd'[x])
        /\ \A t \in Tasks : TaskReached(Known', tsk'[t])
        /\ ManualReached(Known', next', man')
    BY <1>1, <2>1, <2>2, NullReached DEF NewProcess
  <2> QED BY <1>1, <2>2, <2>3 DEF SkipInv
<1> QED BY <1>2, <1>3, <1>4, <1>5, <1>6, <1>7 DEF Next

\* In a session that stays below its message limit and is not reset, no message
\* is below the index unless a memory was made of it or it was given up, however
\* handlers, the task, /lmem summarize and lost writes overlap and wherever the
\* process ends (memory_reflection.py:188-281, 443-454).
THEOREM WindowSkipsNothing ==
  ASSUME BelowLimit
  PROVE  Spec => []NoSilentSkip
<1>1. TypeOK /\ SkipInv => NoSilentSkip
  <2> SUFFICES ASSUME TypeOK, SkipInv PROVE NoSilentSkip
    OBVIOUS
  <2>1. first = 0 /\ Reached(Known, meta.last) /\ meta.last \in Nat
    BY DEF TypeOK, Meta, SkipInv, MetaReached
  <2>2. first + 1 = 1 /\ first + meta.last = meta.last
    BY <2>1
  <2> QED BY <2>1, <2>2 DEF NoSilentSkip, Reached, Known
<1>2. IInv => TypeOK
  BY DEF IInv
<1>3. TypeOK /\ TypeOK' /\ SkipInv /\ [Next]_vars => SkipInv'
  BY NextKeepsSkipInv
<1> QED BY <1>1, <1>2, <1>3, Inductive, InitSkipInv, PTL DEF Spec
=============================================================================
