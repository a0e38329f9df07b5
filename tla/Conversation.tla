---------------------------- MODULE Conversation ----------------------------
(***************************************************************************)
(* The messages of the sessions: ConversationStore with its one connection *)
(* and its write lock, and the least-recently-used cache of message lists  *)
(* that ConversationManager keeps in front of it.                          *)
(*                                                                         *)
(* Writers of messages hold the write lock over two statements and a       *)
(* commit.  Writers of session metadata use the same connection without    *)
(* the lock, so their commit also commits what a lock holder has half done.*)
(* A message stands for its time stamp; a list in time order is a set.     *)
(***************************************************************************)
EXTENDS Integers, Sequences, FiniteSets
Seqs == INSTANCE SequencesExt

CONSTANTS
    Sessions,
    Jobs, NoJob,  \* coroutines at once
    Keys, NoKey,  \* deduplication keys of incoming events
    MaxMsgs,      \* bound: messages sent
    MaxOps,       \* bound: other operations
    MaxCrashes,   \* bound: ends of the process
    CacheSize,    \* max_cache_size
    Limit         \* max_messages_per_session

ASSUME ConversationAssumption ==
    /\ NoJob \notin Jobs /\ NoKey \notin Keys
    /\ {MaxMsgs, MaxOps, MaxCrashes, CacheSize, Limit} \subseteq Nat

VARIABLES
    db,       \* what is committed
    conn,     \* what the connection sees
    lock,     \* holder of _write_lock, or NoJob
    cache,    \* _cache, least recently used first
    seen,     \* _message_dedup_cache
    cjob,     \* cjob[j]: the coroutine in slot j
    sent, cops, ccrashes,   \* counted against the bounds
    torn,     \* history: sessions of failed or cut-off writes
    leaked,   \* history: sessions whose half-done write was committed
    excused   \* history: sessions with a late fill or a failed write

cvars == <<db, conn, lock, cache, seen, cjob, sent, cops, ccrashes, torn, leaked, excused>>

Msgs == 1 .. MaxMsgs
\* message_count and last_summarized_index are columns of the session's row
Store == [msgs : [Sessions -> SUBSET Msgs], count : [Sessions -> Nat],
          last : [Sessions -> Nat], has : SUBSET Sessions]
Call(op, pc, S) == [op |-> op, pc |-> pc, ids |-> S, msg |-> 0, key |-> NoKey, n |-> 0, last |-> 0, snap |-> {}]
CIdle == Call("none", "none", {})

Newest(S, n) == {m \in S : Cardinality({x \in S : x > m}) < n}
Oldest(S, n) == {m \in S : Cardinality({x \in S : x < m}) < n}
CAt(j, op, pc) == cjob[j].op = op /\ cjob[j].pc = pc
CGo(j, pc) == cjob' = [cjob EXCEPT ![j].pc = pc]
CEnd(j) == cjob' = [cjob EXCEPT ![j] = CIdle]
Least(x, y) == IF x < y THEN x ELSE y
Greatest(x, y) == IF x > y THEN x ELSE y

ConvInit ==
    /\ db = [msgs |-> [s \in Sessions |-> {}], count |-> [s \in Sessions |-> 0],
              last |-> [s \in Sessions |-> 0], has |-> {}]
    /\ conn = db
    /\ lock = NoJob /\ cache = <<>> /\ seen = {}
    /\ cjob = [j \in Jobs |-> CIdle]
    /\ sent = 0 /\ cops = 0 /\ ccrashes = 0
    /\ torn = {} /\ leaked = {} /\ excused = {}

-----------------------------------------------------------------------------
(* The cache.                                                              *)
Cached == {cache[i].sess : i \in 1 .. Len(cache)}
\* A session has one entry; S is of one session at most.
Place(S) == CHOOSE i \in 1 .. Len(cache) : cache[i].sess \in S
Without(S) == IF S \cap Cached = {} THEN cache ELSE Seqs!RemoveAt(cache, Place(S))
Filling(S) == {s \in S : \E j \in Jobs : CAt(j, "get", "filling") /\ s \in cjob[j].ids}

\* Sessions in S lose their entry; a fill that has read but not stored yet
\* will put back a list of before.
Drop(S) ==
    /\ cache' = Without(S)
    /\ excused' = (excused \ S) \cup Filling(S)

\* get_messages: a hit moves to the end; a miss reads the newest n.
GetHit(s) ==
    /\ s \in Cached
    /\ cache' = Append(Without({s}), cache[Place({s})])
    /\ UNCHANGED <<db, conn, lock, seen, cjob, sent, cops, ccrashes, torn, leaked, excused>>
GetMiss(j, s, n) ==
    /\ CAt(j, "none", "none") /\ cops < MaxOps /\ s \notin Cached
    /\ cops' = cops + 1
    /\ cjob' = [cjob EXCEPT ![j] = [Call("get", "filling", {s}) EXCEPT !.snap = Newest(conn.msgs[s], n)]]
    /\ UNCHANGED <<db, conn, lock, cache, seen, sent, ccrashes, torn, leaked, excused>>
\* _update_cache: newest entry last, the oldest goes when there are too many.
GetFill(j) ==
    /\ CAt(j, "get", "filling")
    /\ \E s \in cjob[j].ids :
        LET filled == Append(Without({s}), [sess |-> s, msgs |-> cjob[j].snap])
        IN cache' = IF Len(filled) > CacheSize THEN Tail(filled) ELSE filled
    /\ CEnd(j)
    /\ UNCHANGED <<db, conn, lock, seen, sent, cops, ccrashes, torn, leaked, excused>>

-----------------------------------------------------------------------------
(* Requests.                                                               *)
\* An event of the platform, with its deduplication key, or the reply of
\* the assistant, without one; the same event may be delivered again.
Capture(j, s, k) ==
    /\ CAt(j, "none", "none") /\ sent < MaxMsgs
    /\ k \notin seen
    /\ sent' = sent + 1
    /\ cjob' = [cjob EXCEPT ![j] = [Call("add", "locking", {s}) EXCEPT !.msg = sent + 1, !.key = k]]
    /\ UNCHANGED <<db, conn, lock, cache, seen, cops, ccrashes, torn, leaked, excused>>
COp(j, op, S) ==
    /\ CAt(j, "none", "none") /\ cops < MaxOps
    /\ cops' = cops + 1
    /\ cjob' = [cjob EXCEPT ![j] = Call(op, "locking", S)]
    /\ UNCHANGED <<db, conn, lock, cache, seen, sent, ccrashes, torn, leaked, excused>>
Clear(j, s) == COp(j, "clear", {s})
Sync(j) == COp(j, "sync", Sessions)

\* enforce_message_limit: what may be trimmed is computed before the lock.
LimitCheck(j) ==
    /\ CAt(j, "add", "limit")
    /\ \E s \in cjob[j].ids :
        LET actual == Cardinality(conn.msgs[s])
            n == Least(Greatest(actual - Limit, 1), conn.last[s])
        IN IF actual > Limit /\ n > 0
           THEN cjob' = [cjob EXCEPT ![j] = [Call("trim", "locking", {s}) EXCEPT !.n = n]]
           ELSE CEnd(j)
    /\ UNCHANGED <<db, conn, lock, cache, seen, sent, cops, ccrashes, torn, leaked, excused>>

-----------------------------------------------------------------------------
(* A write: lock, two statements, commit and unlock, invalidation.         *)
Lock(j) ==
    /\ cjob[j].pc = "locking" /\ lock = NoJob
    /\ lock' = j
    /\ CGo(j, "first")
    /\ UNCHANGED <<db, conn, cache, seen, sent, cops, ccrashes, torn, leaked, excused>>
Unlock(j) == lock = j /\ lock' = NoJob

\* add: the session's row if there is none, and the message.
\* trim: the oldest, not more than are summarised by now.
\* clear: all messages.  sync: nothing yet.
TrimCount(j, s) == Least(cjob[j].n, conn.last[s])
\* An index past the end is reset, and nothing is deleted.
PastEnd(s) == conn.last[s] > Cardinality(conn.msgs[s])
After1(j, s) ==
    CASE cjob[j].op = "add" -> conn.msgs[s] \cup {cjob[j].msg}
      [] cjob[j].op = "trim" /\ ~PastEnd(s) -> conn.msgs[s] \ Oldest(conn.msgs[s], TrimCount(j, s))
      [] cjob[j].op = "clear" -> {}
      [] OTHER -> conn.msgs[s]
Nothing(j) == cjob[j].op = "trim" /\ \A s \in cjob[j].ids : ~PastEnd(s) /\ TrimCount(j, s) = 0
TrimNothing(j) ==
    /\ cjob[j].pc = "first" /\ Nothing(j)
    /\ Unlock(j) /\ CGo(j, "committed")
    /\ UNCHANGED <<db, conn, cache, seen, sent, cops, ccrashes, torn, leaked, excused>>
\* The summarised index a trim will write, from what it read before.
Index(j, s) ==
    CASE cjob[j].op # "trim" -> 0
      [] PastEnd(s) -> 0
      [] OTHER -> conn.last[s] - TrimCount(j, s)
First(j) ==
    /\ cjob[j].pc = "first" /\ ~Nothing(j)
    /\ conn' = [conn EXCEPT !.msgs = [s \in Sessions |-> IF s \in cjob[j].ids THEN After1(j, s) ELSE @[s]],
                            !.has = IF cjob[j].op = "add" THEN @ \cup cjob[j].ids ELSE @]
    /\ \E s \in cjob[j].ids : cjob' = [cjob EXCEPT ![j].pc = "second", ![j].last = Index(j, s)]
    /\ UNCHANGED <<db, lock, cache, seen, sent, cops, ccrashes, torn, leaked, excused>>

\* add raises the count by one, the others write what they counted.
\* Mutant: a trim subtracts what it was asked to delete.
Counted_Subtracts(j, s) ==
    CASE cjob[j].op = "add" -> conn.count[s] + 1
      [] cjob[j].op = "trim" -> Greatest(conn.count[s] - cjob[j].n, 0)
      [] OTHER -> Cardinality(conn.msgs[s])
Counted(j, s) == IF cjob[j].op = "add" THEN conn.count[s] + 1 ELSE Cardinality(conn.msgs[s])
Second(j) ==
    /\ cjob[j].pc = "second"
    /\ conn' = [conn EXCEPT !.count = [s \in Sessions |-> IF s \in cjob[j].ids THEN Counted(j, s) ELSE @[s]],
                            !.last = [s \in Sessions |-> IF s \in cjob[j].ids /\ cjob[j].op = "trim" THEN cjob[j].last ELSE @[s]]]
    /\ CGo(j, "committing")
    /\ UNCHANGED <<db, lock, cache, seen, sent, cops, ccrashes, torn, leaked, excused>>
\* The second statement of an add is refused: the exception releases the
\* lock, and nothing takes the first statement back.
SecondFails(j) ==
    /\ CAt(j, "add", "second")
    /\ Unlock(j) /\ CEnd(j)
    /\ torn' = torn \cup cjob[j].ids
    /\ excused' = excused \cup cjob[j].ids
    /\ UNCHANGED <<db, conn, cache, seen, sent, cops, ccrashes, leaked>>
Commit(j) ==
    /\ cjob[j].pc = "committing"
    /\ db' = conn
    /\ Unlock(j)
    /\ torn' = IF cjob[j].op = "add" THEN torn ELSE torn \ cjob[j].ids
    /\ leaked' = leaked \ cjob[j].ids
    /\ CGo(j, "committed")
    /\ UNCHANGED <<conn, cache, seen, sent, cops, ccrashes, excused>>

\* What a commit without the lock commits of somebody else's write.
HalfDone == IF lock # NoJob /\ cjob[lock].pc = "second" THEN cjob[lock].ids ELSE {}

\* The cached list is dropped after the commit, but sync leaves the cache;
\* clear resets the metadata afterwards.
\* Mutant: a trim leaves the cache.
Invalidated_NotByTrim(j) == IF cjob[j].op \in {"sync", "trim"} THEN {} ELSE cjob[j].ids
Invalidated(j) == IF cjob[j].op = "sync" THEN {} ELSE cjob[j].ids
WriteEnd(j) ==
    /\ cjob[j].pc = "committed"
    /\ Drop(Invalidated(j))
    /\ IF cjob[j].op = "clear"
       THEN /\ conn' = [conn EXCEPT !.last = [s \in Sessions |-> IF s \in cjob[j].ids THEN 0 ELSE @[s]]]
            /\ db' = conn' /\ leaked' = leaked \cup HalfDone
       ELSE UNCHANGED <<db, conn, leaked>>
    /\ IF cjob[j].op = "add" THEN CGo(j, "added") ELSE CEnd(j)
    /\ UNCHANGED <<lock, seen, sent, cops, ccrashes, torn>>
\* mark_message_processed, then the message limit.
Mark(j) ==
    /\ CAt(j, "add", "added")
    /\ seen' = IF cjob[j].key = NoKey THEN seen ELSE seen \cup {cjob[j].key}
    /\ CGo(j, "limit")
    /\ UNCHANGED <<db, conn, lock, cache, sent, cops, ccrashes, torn, leaked, excused>>
Forget(k) ==        \* past its time to live, or pushed out
    /\ k \in seen /\ seen' = seen \ {k}
    /\ UNCHANGED <<db, conn, lock, cache, cjob, sent, cops, ccrashes, torn, leaked, excused>>

-----------------------------------------------------------------------------
(* update_session_metadata: an UPDATE and a commit without the lock; here  *)
(* the storage task that moves last_summarized_index to the end of the     *)
(* window it read some time ago.                                           *)
Summarise(s) ==
    /\ s \in conn.has /\ cops < MaxOps
    /\ cops' = cops + 1
    /\ \E n \in 1 .. sent : conn' = [conn EXCEPT !.last[s] = n]
    /\ db' = conn'
    /\ leaked' = leaked \cup HalfDone
    /\ UNCHANGED <<lock, cache, seen, cjob, sent, ccrashes, torn, excused>>

CCrash ==
    /\ ccrashes < MaxCrashes
    /\ ccrashes' = ccrashes + 1
    /\ conn' = db /\ lock' = NoJob /\ cache' = <<>> /\ seen' = {}
    /\ cjob' = [j \in Jobs |-> CIdle]
    /\ torn' = torn \cup leaked /\ leaked' = {} /\ excused' = {}
    /\ UNCHANGED <<db, sent, cops>>

CJobStep(j) ==
    \/ GetFill(j) \/ Sync(j) \/ LimitCheck(j) \/ Lock(j) \/ TrimNothing(j) \/ First(j)
    \/ Second(j) \/ SecondFails(j) \/ Commit(j) \/ WriteEnd(j) \/ Mark(j)
    \/ \E s \in Sessions :
        \/ Clear(j, s)
        \/ \E n \in 1 .. 2 : GetMiss(j, s, n)
        \/ \E k \in Keys \cup {NoKey} : Capture(j, s, k)
ConvNext ==
    \/ \E j \in Jobs : CJobStep(j)
    \/ \E s \in Sessions : GetHit(s) \/ Summarise(s)
    \/ \E k \in Keys : Forget(k)
    \/ CCrash

ConvSpec == ConvInit /\ [][ConvNext]_cvars

-----------------------------------------------------------------------------
ConvTypeOK ==
    /\ db \in Store /\ conn \in Store
    /\ lock \in Jobs \cup {NoJob} /\ seen \subseteq Keys
    /\ Len(cache) <= CacheSize /\ Cardinality(Cached) = Len(cache)

(* The message_count of a session is the number of its messages whenever   *)
(* nobody holds the write lock, unless a statement of an add was refused,  *)
(* or the process ended after a writer of metadata had committed one half  *)
(* of somebody's write; a trim, a clear or sync_message_counts mends it.   *)
CountRight ==
    lock = NoJob => \A s \in Sessions \ torn : conn.count[s] = Cardinality(conn.msgs[s])

(* A cached list is the newest messages of its session, unless a write to  *)
(* the session has not invalidated it yet, a write failed half way, or a   *)
(* fill had read the messages before an invalidation and stored them after.*)
Writing == {s \in Sessions : \E j \in Jobs : cjob[j].pc \in {"second", "committing", "committed"} /\ s \in cjob[j].ids}
StaleOnlyByRace ==
    \A i \in 1 .. Len(cache) :
        LET e == cache[i] IN
        e.sess \in Writing \cup excused
            \/ e.msgs = Newest(conn.msgs[e.sess], Cardinality(e.msgs))

(* So the cache can be read (StaleOnlyByRace), holds one list of a session *)
(* and no more than it may, and no variable leaves its type.               *)
CacheSound == ConvTypeOK /\ StaleOnlyByRace
=============================================================================
