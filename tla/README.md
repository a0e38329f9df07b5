# LivingMemory: TLA+ models, checks and proofs

LivingMemory is an AstrBot plugin that gives a chat bot a long-term memory. It
records conversations in SQLite, lets an LLM summarise them into memories in the
background, keeps every memory in several stores that no transaction spans
(documents, FAISS, BM25, graph, atoms), recalls memories into the prompt, ages
them day by day, and keeps state of its own about facts, prophecies, feelings and
candidates. It is asyncio Python in one process: between two awaits code is
atomic, at every await any other coroutine may run, and the process may end at any
of them. The specifications in this directory are about what that does to the
plugin's state.

Contents: [inventory](#inventory) · [models](#models) · [runs](#runs) ·
[bounds](#bounds) · [fairness](#fairness) · [what TLC refutes](#what-tlc-refutes) ·
[proofs](#proofs) · [not modelled](#what-is-not-modelled) · [plan](#plan)

Run a model with `tlc -workers 2 -config RW_window.cfg MCReflectionWindow.tla`,
and check the proofs with `tlapm X.tla`, where `X` is one of ReflectionWindowProofs,
WriteOpSagaProofs, PluginLifecycleProofs, MemoryStoreProofs, RequestProofs (Retrieval,
Recall, Emotions, Gate), SessionsProofs (Conversation, SessionSummary), UpkeepProofs
(Graph, DailyDecay) and ServicesProofs (IndexStartup, Ecosystem, Stories).

## Inventory

Paths are relative to the repository. "Hard" is what tests rarely reach;
"correct" is what must hold.

| Component | State | Operations | Hard | Correct | Module |
|---|---|---|---|---|---|
| Reflection, `core/event_handler_modules/memory_reflection.py` | per session `last_summarized_index`, `pending_summary` (one JSON object); in-flight set, tasks, flag | `handle_memory_reflection`, `_storage_task` | replies pass the trigger together; updates of the object undo each other; a crash between store and index | each message summarised; a failing range given up after three failures; one task per session | ReflectionWindow |
| Conversation store, cache and message limit, `storage/conversation_store*.py`, `core/managers/conversation_manager.py`, `message_utils.py`, `group_capture.py` | rows, counts, LRU cache, deduplication keys, write lock | add, read, trim, clear, count repair, metadata, cache fill | metadata writers commit on the same connection without the lock; late cache fills | count equals rows; the cache shows the newest messages; only summarised ones are trimmed | Conversation, ReflectionWindow |
| Session summary, `core/session_summary.py` | activity, marks, turn counters (also on file), summaries as atoms | touch, idle loop, commands, digests | a message during the summary; a crash between counter and digest | a mark means summarised; a turn makes one digest; chains end | SessionSummary |
| Memory engine, `core/managers/memory_engine.py` | five stores, log `memory_write_ops`, metadata objects, search cache | add, update, delete, batch delete, repair, decay, access times, clean-up, search | a failure or crash between any two stores; read-modify-write; a search overtaken by a delete | a completed operation is whole; what is half done is in the log; no memory loses its last version | WriteOpSaga, MemoryStore |
| Retrieval, `core/retrieval/` | three routes, fuse of the reranker | search, merge, rerank, filter | routes read at different times; routes and reranker fail | nothing deleted, superseded, foreign or hidden in the result | Retrieval |
| Recall, `core/event_handler_modules/memory_recall.py` | the request, the host's history, the stamp of the warm-up | the hook of a request | a request sent again; two requests at once | memories are carried once, a session is warmed once in six hours | Recall |
| Graph, `graph_memory_manager.py`, `storage/graph_store*.py` | nodes, edges, entries, texts, vectors | index, delete, batch delete, keyword route, page | two calls at once; an embedding that fails half way; edges shared by memories | the graph holds what was extracted, no reference dangles | Graph, GraphIndex |
| Indexes and migration, `core/validators/index_validator.py`, `storage/db_migration.py` | documents, text index, vectors, version rows, flag | migrate, check, rebuild, repair | any step fails or is cut off; memories change during a rebuild | every memory in every index; a version only when its steps ran | IndexStartup |
| Lifecycle, `main.py`, `core/plugin_initializer.py`, backup | two flags, retry task, loops, open stores | initialize, retry, wait, `terminate` | terminate during initialization; swallowed cancellation | one verdict; terminate ends everything | PluginLifecycle |
| Decay scheduler, `core/schedulers/decay_scheduler.py` | date on file, loop | catch-up, daily run | midnight, a crash before the date is saved | every day decays once | DailyDecay |
| Gate, `core/v2/security_gate.py`, `reflection_scheduler.py`, `page_api_modules/gate_handler.py`, `main.py` | candidates, fingerprints, learned words, timer, fuse | scan, round, verdict, backfill | backfills, rounds and the page at once; a chat that never pauses | a candidate becomes one memory; a round comes | Gate |
| Ecosystem, `core/v2/`, `core/events/event_bus.py` | causes, conflicts, traits, prophecies, queue | hook after a memory, hourly verification, subscribers | overtaken between a read and a write; publish during stop | one verdict; evidence kept; events handled | Ecosystem |
| Feelings, `core/v2/appraisal_engine.py`, `emotion_core.py` | last appraisal, emotional state, tags | appraise, wait, tag, save | an appraisal later than the memory, or of another chat; a failing database | the tag is of the message, or there is a reason; the trust is kept | Emotions |
| Story and bottle, `core/managers/v11_features.py`, `core/schedulers/v11_scheduler.py` | stories, marks, two timers | write, push, mark | a push that fails, a timer that is early | a day has one story, a memory is a bottle once | Stories |
| L3 synthesizer, reinforcement, archive | - | - | - | cannot work, see [below](#what-is-not-modelled) | - |
| Processors, tools, page API, dashboard, configuration, utilities, transfer, scripts, bundled code | - | prompts, parsing, adapters, I/O | - | - | - |

Interactions: `main.py` waits for the initializer and hands events to
`EventHandler`, which stores messages through `ConversationManager` and starts
storage tasks; a storage task calls the LLM and `MemoryEngine.add_memory`, which
writes the five stores and leaves a V2 hook running that publishes on the event
bus. The hook of a request appraises the message in a task of its own, searches
and injects. The scan of a reply feeds the gate, whose rounds and whose page add
memories too. The decay scheduler, the idle loop, the hourly loop and the story's
timers change the stores from their own tasks. `terminate()` stops all of them in
a fixed order.

## Models

Every await at which the code may really suspend is a step boundary; code between
two of them is one action. Database calls of the shared aiosqlite connection are
steps, calls of a synchronous sqlite3 connection (gate, feelings) are not. A crash
keeps what was committed and forgets the rest. History variables (named so in the
modules) are read by no action that models code: they record what a property needs
to know of the past, often the set of things `excused`: the actions say in their
comments which causes put something there, and the property says there is no other
cause.

**ReflectionWindow** - one session's sliding window. Messages are numbered; the
table is `first+1..next` and index *i* of the code is message `first+i+1`. `meta` is
the JSON object of the session row; `hnd`, `tsk`, `man`, `rst` are the handlers,
storage tasks, `/lmem summarize` and `/reset`. `ReadTotal`..`Dispatch` are
`handle_memory_reflection`, one action per await; `Task*`, `RecordPending`,
`AdvanceIndex`, `ClearPending` are `_storage_task`; `Limit*` and `Trim*` are
`enforce_message_limit`. `update_session_metadata` is a snapshot step and a write
step, so overlapping updates undo each other.

**Conversation** - messages of several sessions on the one connection. `db` is
committed, `conn` is what the connection sees. Adds, trims and clears hold the
write lock over two statements and a commit; writers of metadata commit without
it, and with it what a lock holder has half done (`leaked`). `cache` is the LRU
cache with its fills and invalidations, `seen` the deduplication.

**SessionSummary** - `touch`, the idle loop, the commands, turn counters in memory
and on file, digests, and the chain `prev`/`seq` of the summaries.

**WriteOpSaga** - `add_memory`, `delete_memory`, one batch of
`batch_delete_memories`, the log `memory_write_ops` and
`_repair_incomplete_write_ops`. The stores are sets of memories; atoms are counted
(to see duplicates), and the graph remembers which atoms it was built from. `co[o]`
is the coroutine of an operation and dies in a crash, `row[o]` its log row, which
does not. Failures come before or after the effect where the code cannot tell.

**MemoryStore** - the metadata objects under everything that reads one, awaits and
writes it back: searches with their cache (`gen`, `cache`), access times, decay,
`update_memory` with and without new content, superseding, the migration of
session ids, clean-up by stale ids, re-embedding, rebuilding of the graph. An add,
delete or batch delete is here the steps that others can see.

**Retrieval** - a search past the cache: the keyword, vector and graph route read
when they like while memories become old, lose entries, or go; then merge, load,
rerank (with its fuse), eligibility and scope. Which memories match is any subset.

**Recall** - the hook of a request: earlier injections are removed, a session that
rested is warmed up and stamped, memories are searched and injected by one of three
methods, and the host keeps what it sent as its history.

**Emotions** - the task that appraises a message (accepted, too soon, failed,
judged by the model or by rules), the trust in hundredths with its row, cache and
cap, the storage task that waits for the appraisal of its own message, and the tag
taken from whichever record is the last.

**Graph** and **GraphIndex** - rows of nodes, edges and entries with foreign keys,
and a vector per entry in another store, under overlapping `index_memory`,
`delete_memory` and batch deletes: one action per transaction. GraphIndex is the
promise to a search: which items of which memory can be found; an extraction makes
its items appear at once, a withdrawal takes the memory's items and from others no
more than relations both tell of. `FoundAsPromised` is the refinement, with
`found` mapped to the items of a memory's entries; it is checked and proved.

**IndexStartup** - the migration steps with their versions, the version row the
engine writes into an empty table, the consistency check, the full rebuild and both
repairs in batches with their failure ratio, at start and on command while memories
come and go.

**Gate** - `RuleGate.process` with likeness, thresholds and learned words, the
reflection round with its timer, grace, deferral, retry and fuse, the page's
verdicts, and the backfill of a reply. Four places add a candidate to the memories
and write the id to its row afterwards.

**Ecosystem** - the hook of a stored memory (cause, conflicts, trait, prophecy), the
hourly pass over due prophecies, and the event bus with start, stop and the restart
by `publish`.

**Stories** - the two timers of the V1.1 scheduler with a coarse clock, the story of
a day, the bottle with its mark, and another writer of the metadata.

**DailyDecay** - the clock is a day and whether it is 00:05; the state file holds a
day or nothing (missing, unreadable, emptied by an interrupted write). A run of *d*
days based on day *u* is counted for the days `u-d+1..u`.

**PluginLifecycle** - `_initialize_plugin`, the retry task, the stages of
`_complete_initialization`, handlers in `_ensure_plugin_ready`, what they leave
running, the prophecy loop and `terminate()`. A cancellation is a flag on the task;
its next step is what the code around its await does with `CancelledError`, which
matters because several blocks catch `BaseException`.

The `MC*` modules give values to the constants. Four of them put parts into one run
that share no variable (MCMemories: MemoryStore, Retrieval, Recall, Emotions;
MCSessions: Conversation, SessionSummary; MCUpkeep: Graph, DailyDecay; MCServices:
IndexStartup, Ecosystem, Stories). There the variable `part` is chosen in the initial
state and only that part moves, so that each part is explored on its own, never as a
product; their interaction is not what these runs are about.

Modules are linked by what they assume of each other. `PluginLifecycle` abstracts
the storage tasks of `ReflectionWindow` to one flag, and the wait of `shutdown()` it
relies on is `ShutdownReturns` and `QuietAfterClose` there; `TaskStore` of
`ReflectionWindow`, the backfill of `Gate` and the story of `Stories` are adds of
`WriteOpSaga`; what `Retrieval` calls a change of a memory is a write of
`MemoryStore`; the search of `Recall` is one of `Retrieval`.

## Runs

| Run | Module | Expect | Shows |
|---|---|---|---|
| `RW_window` | MCReflectionWindow | pass | `TypeOK`, `NoSilentSkip`, `InflightReleased`, `ShutdownReturns`: below the message limit the window passes over no message silently, the mark is withdrawn and `shutdown()` returns, with crashes and failures |
| `RW_all` | MCReflectionWindow | pass | `OneStorageTask`, `QuietAfterClose`, with trims, `/lmem summarize` and `/reset` |
| `WS_saga` | MCWriteOpSaga | pass | `OpsWhole` (completed adds and batch deletes are whole), `NoDuplicateAtoms`, `OrphansAreLogged`, `NothingForgotten` |
| `ME_memories` | MCMemories | pass | `CacheFresh`, `VersionsSound` (`OneVersion`), `Findable`; `OnlyRecallable`; `RequestsSound` (`OneInjection`, `WarmAgainExplained`); `EmotionsSound` (`TrustKept`, `TagExplained`) |
| `SE_sessions` | MCSessions | pass | `CountRight`, `CacheSound` (`StaleOnlyByRace`); `MarkedIsSummarised`, `DigestsSound` (`DigestOnce`, `ChainsGoBack`), `IdleIsMarked` |
| `UP_keep` | MCUpkeep | pass | `GraphWhole` (`Linked`, `SettledWhole`), `StrayExplained`, `ReadsWhole` (`RouteFinds`, `PageWhole`), `FoundAsPromised`; `RepeatsExplained`, `NoDayLost` |
| `GT_gate` | MCGate | pass | `RowsSound` (`StoredAgainExplained`), `RoundComes` |
| `SV_services` | MCServices | pass | `StoresWhole` (`IndexWhole`, `VersionHonest`), `StartEnds`; `RecordsStand` (`DecisionsStand`, `EvidenceKept`), `BusSound`, `WorkDone`; `StoriesOnce` (`StoryOnce`, `BottleAgainExplained`) |
| `LC_life` | MCPluginLifecycle | pass | `QuietAfterTerminate`, `StoresHeld` (`WritersHaveStores`), `VerdictFinal`, `InitSettles`, `TerminateReturnsIfHeeded` |
| `RW_trim` | MCReflectionWindow | violation | `OnlySummarizedDeleted` |
| `LC_stop` | MCPluginLifecycle | violation | `TerminateReturns` |
| `GR_own` | MCGraph | violation | `OnlyOwnDeleted` |

A property in front of brackets is the conjunction of those in them and of the type
invariant of its module. Every property has a mutant, a plausible error in the code
(an operator whose name ends in what is wrong, next to the right one) under which
TLC finds it violated.

## Bounds

`RW_*`: one handler and two task slots already give every overlap of a task with a
handler, a second task, `/reset` and `/lmem summarize` (each is its own coroutine);
the retry limit is the code's 3, and `RW_window` has five messages so that a range
can fail three times and be followed by another. `NoSilentSkip` is stated for
sessions below their limit: with trims it fails (`RW_trim`).

`WS_saga`: two memories (two in one batch, or one deleted while the other is added),
two atoms (some inserted, some not), three operations, two crashes, two failures, one
cancellation, and a repair query that returns at most two rows instead of 25, so that
one may be left for the next start. `DeleteInFlight = FALSE`: a memory is not deleted while another
operation is at it; two concurrent deletes may put its text back into BM25.

`ME_memories`: three ids of which one exists, two coroutines, two operations and what
they leave behind, one crash: an update that overlaps another, a search that overlaps
a delete. Three memories, two of the session, one public, and two changes during a
search with a limit of two results; the fuse opens at two failures. Two requests at
once and three in all, a warm-up that lasts one tick, one failure. Two messages (one
overtakes the other, or is refused), a trust that starts at the baseline or near
either end and a process that has had two of its three sweet words, one failure of
the database, one restart.

`SE_sessions`: two sessions, two coroutines, two messages, a cache of one list and a
limit of one message, so that eviction and trimming happen at once; two chats, three
turns with a digest every second, one rare event.

`UP_keep`: two memories that share an entity and a relation, two calls at once and
three in all, one crash, one entry without a vector; three days, with stops, failures,
late and early timers (`runs` saturates at 2). The code compares dates with today and
the day after only.

`GT_gate`: two sentences, one of them let in for its emotion and partly like the
other, two replies, one page visit, one failure, one crash; all waits of the timer are
one tick, the fuse opens at two failures.

`SV_services`: three old documents and one new one in batches of two, four versions
with the step that asks for a rebuild and the step that moves the text index, one
failure, one crash, two coroutines that rebuild; two memories of one topic that
contradict each other, one periodic, one trouble; two days, two memories, two
commands, one mishap.

`LC_*`: two handlers, two provider checks; everything else is unbounded.

Counters that only bound a behaviour (`cops`, `used`, `count`, `spent`, `crashes`...)
are conjuncts of the guards and named in the modules. The symmetry sets permute
handlers, tasks, coroutines, memories and messages that no property names, and are
used in no run with a liveness property (`WS_saga`'s `NothingForgotten` and
`UP_keep`'s refinement are about single steps).

## Fairness

`RW_window`: weak fairness per storage task and for the end of `shutdown()`: a ready
coroutine is resumed by the event loop, and LLM calls have timeouts. `LC_*`: weak
fairness for initialization, the prophecy loop, each handler, storage task, hook, and
`terminate()`. `SE_sessions`: for the steps of the idle loop. `GT_gate`: for the
minute (`Tick`), and for the loop that looks at the timer every minute (`Trigger`,
`Begin`); nothing is assumed of users, replies or the LLM. `SV_services`: for the
start, for each rebuild, for the hourly loop and for each task of the bus. Users need
not write, reset or stop anything. The other runs check safety only.

## What TLC refutes

Three runs expect a violation; `findings` in PROJECT.json quotes the promise each
refutes.

* `RW_trim`: a trim during a storage task shifts the indices; the task's late write
  moves the window over messages no memory was made of, and the next trim deletes
  them, against "只删除已被总结的消息" (`message_utils.py:188`).
* `LC_stop`: `terminate()` waits for ever for the prophecy loop, which catches its
  own cancellation in `except BaseException` and goes back to sleep.
* `GR_own`: deleting a memory deletes an edge another memory tells of too, and by
  cascade the other's entry, against "artifacts belonging to one source memory"
  (`graph_store_write.py:566`).

Other statements TLC refutes are kept in the modules with the configuration under
which it does (put the name in place of the properties there):

| Statement | Configuration | Why |
|---|---|---|
| `NoMessageTwice` | `RW_trim.cfg` | a task that starts after another ended works on the range read before |
| `ResetStartsOver` | `RW_all.cfg` | a task writes its old end index after the reset |
| `DeleteWhole` | `WS_saga.cfg` | a single delete cut off by a crash is replayed on graph and atoms only |
| `CancelledCleanedUp` | `WS_saga.cfg` | a cancelled add is recorded with a status the repair does not select |
| `NoDeletedServed` | `ME_memories.cfg` | a batch delete invalidates the cache before it deletes, and not after |
| `IndexNeverBack` | `ME_memories.cfg` | the stamp of a warm-up writes back an object read before the index advanced |
| `TagFitsMessage` | `ME_memories.cfg` | the docstring of `await_appraisal_task` promises a memory the tag of its own message or none; an appraisal that was refused, failed or late leaves another's |
| `SameDayOnce` | `UP_keep.cfg` | a start before 00:05 decays at once, and the timer again at 00:05 |
| `StoredOnce` | `GT_gate.cfg` | a candidate confirmed on the page gets no memory id, and the next scan stores it again |
| `VersionMeansMigrated` | `SV_services.cfg` | a database of before the version table is taken for new when its migration failed |

Behaviour the models or the reading for them brought up, which nothing promises
otherwise or which needs no model to see:

* Start and stop. After `terminate()` the event bus (started again by `publish`) and
  the reflection loop (started by a reply in flight) may run; a store opened by an
  initialization cancelled at that very await stays open; if the version backup
  raises, the plugin neither becomes ready nor reports a failure. A `publish` during
  `stop()` whose subscriber swallows the cancellation leaves two processors and a
  `stop()` that does not return.
* Engine. After a replay of single failed atoms the graph knows only those. An atom
  made from a session summary gets as parent the id of the newest *atom*, so it goes
  with an unrelated memory of that id; an insert recomputes the time to live, so a
  summary meant for 30 days lives 8.4. Failed vector repair raises IndexError when a
  whole chunk of documents is gone; two `/lmem rebuild-index` at once leave duplicate
  text rows.
* Sessions. `get_last_summary` reads rows by wrong indexes and raises, so the last
  summary is never injected; `generate_conversation_digest` is called with an argument
  it does not take (`command_handler.py:840`), so that command always fails; of
  `_init_persistent_counters` and `_save_counter` there are two definitions, the
  second counts. The stamp of a warm-up is lost in the first message of a session.
* Retrieval. A failure of the graph route fails the whole search; superseded memories
  come through it; multi-hop expansion expands nothing.
* Graph. Another memory's delete removes nodes just upserted and not yet linked; the
  transaction then fails and the engine tries once more. The page misses merged edges
  owned by another memory.
* Gate, ecosystem. `re_evaluate` may write "active" over a verdict given meanwhile;
  profile traits are read, changed and written back, so evidence can be lost;
  two memories written together each record the same conflict.
* Feelings. After one failed read the baseline replaces the trust earned so far, and
  the next save writes it to disk. The cap on sweet words holds per process, not per
  session. Memories of a persona other than "default" get no tag. The queue of
  rumination only grows: its consumer has no caller.
* Stories. Messages after 22:30 are in no story; a story whose push fails is not
  pushed again; an early timer can make a day's story twice.

## Proofs

The proofs hold for every value of the constants. The assumptions are those named
`...Assumption` in the modules (`BoundsAssumption`, `SagaAssumption`,
`LifecycleAssumption`, `StoreAssumption`, `RetrievalAssumption`, `RecallAssumption`,
`EmotionsAssumption`, `ConversationAssumption`, `SummaryAssumption`,
`GraphAssumption`, `DecayAssumption`, `GateAssumption`, `StartAssumption`,
`EcosystemAssumption`, `StoriesAssumption`), which say of the constants what kind of
values they are and which TLC evaluates in the runs. Two more are made only where the
table says so: `~DeleteInFlight`, no memory is deleted while another operation is at
it, and `BelowLimit`, the session is not reset and stays below its limit of messages,
so that nothing is trimmed. With trims `NoSilentSkip` is false (`RW_trim`).

Every invariant and every action property the passing runs check is proved, and so is
the refinement.

| Theorem | Module | States, for any execution |
|---|---|---|
| `TypeCorrect` | ReflectionWindowProofs | `TypeOK`: indices, snapshots and the pending range stay within the table's history, retries within three |
| `OneTask` | ReflectionWindowProofs | `OneStorageTask`, with any number of handlers and task slots |
| `QuietShutdown` | ReflectionWindowProofs | `QuietAfterClose` |
| `WindowSkipsNothing` | ReflectionWindowProofs | `NoSilentSkip`, if `BelowLimit` |
| `AtomsOnce` | WriteOpSagaProofs | `TypeOK` and `NoDuplicateAtoms`, for any memories, atoms, operations, crashes, failures and cancellations, whatever overlaps |
| `CompletedIsWhole` | WriteOpSagaProofs | `OpsWhole`, if `~DeleteInFlight` |
| `OrphansKnown` | WriteOpSagaProofs | `OrphansAreLogged`, if `~DeleteInFlight` |
| `StartsForgetNothing` | WriteOpSagaProofs | `NothingForgotten`, an action property |
| `QuietWhenStopped` | PluginLifecycleProofs | `QuietAfterTerminate`, for any number of handlers and of checks for a provider |
| `WritersHoldStores` | PluginLifecycleProofs | `StoresHeld` |
| `OneVerdict` | PluginLifecycleProofs | `VerdictFinal`, an action property |
| `NoStaleHit` | MemoryStoreProofs | `CacheFresh`, for any number of searches, deletes and writers at once |
| `VersionKept` | MemoryStoreProofs | `VersionsSound` |
| `MemoriesFindable` | MemoryStoreProofs | `Findable` |
| `RecallsOnlyRecallable` | RequestProofs | `OnlyRecallable`, for any memories, overlapping searches and changes |
| `FeelingsAreSound` | RequestProofs | `EmotionsSound`, for any messages, evidence, faults and restarts |
| `RequestsAreSound` | RequestProofs | `RequestsSound`, for any requests at once and any restarts |
| `CandidatesStoredOnce` | RequestProofs | `RowsSound`, for any sentences, likeness, limits and replies |
| `CountsAreRight` | SessionsProofs | `CountRight`, for any coroutines on the one connection |
| `CacheIsSound` | SessionsProofs | `CacheSound`, for any size of the cache |
| `MarksAreTrue` | SessionsProofs | `MarkedIsSummarised`, for any sessions, failures and restarts |
| `DigestsAreSound` | SessionsProofs | `DigestsSound` |
| `TypeCorrect` | UpkeepProofs | `TypeOK` of DailyDecay: no run is empty or of days to come |
| `NoUnexplainedRepeat` | UpkeepProofs | `RepeatsExplained`, for any number of days |
| `NoDayLostEver` | UpkeepProofs | `NoDayLost`, for any number of days |
| `GraphIsWhole` | UpkeepProofs | `GraphWhole`, for any memories, entities, extractions and overlapping calls |
| `StrayHasCause` | UpkeepProofs | `StrayExplained` |
| `ReadsAreWhole` | UpkeepProofs | `ReadsWhole` |
| `FindsAsPromised` | UpkeepProofs | `FoundAsPromised`: Graph implements GraphIndex |
| `RecordsAreKept` | ServicesProofs | `RecordsStand`, for any memories, hooks and hourly rounds |
| `BusIsSound` | ServicesProofs | `BusSound`, for any number of processors started |
| `StoriesComeOnce` | ServicesProofs | `StoriesOnce`, for any days, launches, faults and restarts |
| `StartsLeaveStoresWhole` | ServicesProofs | `StoresWhole`, for any number of documents, versions, batches and rebuilds at once |

A theorem about a module that shares a run with others is about that module's own
specification; in the run, `part` lets it move alone.

`ReflectionWindow`. `OneStorageTask` is not inductive: the code never counts its
tasks, it looks into the in-flight set. The invariant adds that a live task is in
that set (`TaskInv`), so `MayStart` refuses the second. `TypeOK` needs more than
types: a trim subtracts from the index what it deleted, and the result is a natural
number only because the store's lock lets one trim at a time see the table
(`LockInv`). The proof has one step per action; the lemmas `HandlerMoves` and
`TaskMoves` do what those of one actor have in common. `NoSilentSkip` speaks of the
index on file, and every coroutine writes back a whole metadata object it read
earlier: `SkipInv` therefore says of each index a handler, a task or the command
holds (in its object, its locals, its pending range) that all messages below it were
made a memory of or given up. That set only grows, so a late write of an old object
does no harm; below the limit nothing shifts the indices.

`WriteOpSaga`. `BaseInv` holds whatever overlaps: a coroutine and its log row agree
(`ShapeInv`), memories of two adds differ (`OwnInv`), no coroutine runs while the log
is replayed (`EngineInv`), and where an add is about to insert an atom there is none
(`AtomsInv`), which is why there are no duplicates. `SafeInv` needs `~DeleteInFlight`.
Then a memory belongs to one coroutine (`ExclInv`), so the place a coroutine has come
to says what the stores have of its memories (`StageInv`), and the place a replay has
come to as well (`RepInv`); an add that named its memory in the log has it in three
stores (`RowInv`); and what a memory without a document still has in graph or atoms
is held by a delete that is not settled (`OrphanInv`). `IInv` is `BaseInv /\
(~DeleteInFlight => SafeInv)`, shown by one lemma per action; those of coroutines rest
on `AddStep` and `DelStep`, those of the repair on the `Replay` lemmas.
`NothingForgotten` is about the step that ends the repair: while it runs, the rows
that wait for their first replay are at hand, or they and the replayed ones are as
many as the query returns (`CoveredInv`); the query's limit counts rows, so this is
an argument about cardinalities (`QueryCovers`).

`PluginLifecycle`. That nothing `terminate()` has ended comes back is not seen at the
step that ended it; it follows from what was ended before it. Once the retry task is
awaited no stage of the initialization runs (`InitOver`), so no store is opened and no
loop of a stage begins; after `shutdown()` a handler finds the flag, so no storage task
starts, and hooks come of storage tasks only (`WorkOver`). `LoopsOver` and
`StoresClosed` say what is over at each place of `terminate()`, `StoresOpen` what is
still open before it, which with `WorkersInv` (who writes was started when everything
was there) gives `WritersHaveStores`.

`MemoryStore`. A search may put into the cache what it read before a delete. What
keeps such an entry from being served is the generation: the delete raises it when the
rows are gone, so a search that ranked before holds an older one (`CacheInv`). That
overlapping updates leave a version is not seen at the delete of one of them: each
update makes a new version and deletes the one it replaced, so the invariant names the
version that survives, the one beside it (`FirmVersion`) or a later one its delete
leaves (`NextVersion`), and says that no two updates made the same memory
(`OwnVersion`). `Known` gives every missing vector or graph entry its cause. The many
writers of metadata are treated as classes of steps (`CalmStep`, `StillStep`).

`Recall`. What injections a request carries at each await (`CarriedInv`): those of the
history it was made from, none once it is cleaned, its own at the end. The last
warm-up is noted in the session's row, or its note is on the way, or it is excused
(`NotedInv`); and a note on the way is of a row that stays (`HeldInv`).

`Gate`. Four places store a candidate, and each writes the memory's id to the row
after an await. `OnceFor` says of a candidate without an excuse that one coroutine is at
it, and that a stored one has its id in the row or that coroutine is about to write it.
The limit of a round is a fact about cardinalities (`ForemostFew`): the candidates with
fewer than *n* better ones are at most *n*, as the last of them has the others before
it; that there is a last one is well-founded induction on numbers (`LeastOf`).

`Conversation`. The count is right while the write lock is free; between the
statements of one write it is not, and a writer of metadata may commit one half.
`LockInv`: who is at a statement holds the lock. `CountInv`: what the count is at each
of them, in the transaction and on disk. `NewInv`: a message about to be added is
nowhere yet. `StaleInv`: a list, cached or about to be, is the newest messages of its
session, or a writer is about to drop it, or it is excused.

`SessionSummary`. A session is marked after its summary, with awaits between; `MarkInv`
says that a summary under way has read all its session had told when last touched, or
that the session is among the late ones. `TurnsInv` relates the count on disk to the
one in memory and to the digests triggered, `ChainInv` gives a summary about to be
inserted its place in the chain.

`Emotions`. Without a fault the row follows the cache (`RowInv`) and an appraisal finds
the state loaded (`LoadedInv`), so the trust is what the evidence made it. The record a
memory takes its tag from is the last one made (`LastInv`); one's own was made earlier
(`MadeInv`) unless the storage task gave up waiting (`WaitInv`); so a foreign tag has
one of the named reasons.

`Retrieval`. `OnlyRecallable` speaks of the end of a search. On the way, memories only
age (`KnownInv`), what the routes have read was there when the search began
(`ReadInv`), and so was what waits to be ranked (`RankingInv`).

`DailyDecay`. Between a decay and the writing of its date the file says less than was
done, and only the coroutine's locals know better. `UpTo` names, for each place of
the coroutine, the day its locals stand for. `CoveredInv`: up to it (and up to the
date on file) no day was left out without a cause. `RanInv`: beyond it none was
decayed but the excused. `OrderInv` keeps dates out of the future; without it a
catch-up could be of a negative number of days.

`Graph`. `GraphInv` is the conjunction of what is to be shown (`Linked`, `SettledWhole`,
`StrayExplained`) with what makes it inductive: the ids a call holds are of rows that
are there (`HeldInv`: another call's delete takes them from it, which is why its next
transaction fails), every edge is of what its owner tells (`OwnInv`: deleting the
owner's edges can take from others relations only), a call is of the memories it
began with (`JobInv`), a memory a call is at is not settled, and a call that began
alone has it to itself (`AloneInv`), and such a call has its memory's entries exactly
as far as it has come (`StageInv`). One lemma per action shows that it keeps `GraphInv`
(`BeginInv`, `UpsertNodesInv`, `AddEdgesInv`, `AddEntriesInv`, `EmbedInv`,
`DeleteRowsInv`...). The refinement follows from three more: `AddEntries` is an
`Appear` of GraphIndex (`EntriesAppear`), `DeleteRows` a `Withdraw`
(`EntriesDisappear`, by `OwnInv`), and every other step a stutter.

`Stories`. `TaleInv` follows the story of a day from the loop that has read the day to
the row, `BottleInv` each memory from the launch that picked it to its mark: only one
of the daily and the commanded launch has it, it is sent once, and no other writer of
the metadata holds an older row of a marked one. Days and memories that slipped
through one of the named gaps are excepted.

`Ecosystem`. `FreshInv`: a memory whose hook has not come to a place has no record of
that place yet. `VerdictInv`: a prophecy that was judged is in no list a pass or a
subscriber still has before it. `ResolvedInv` and `EvidenceInv` say the same of a
conflict that was resolved and of evidence about to be written over. `BusInv` says
which task of the bus is alive in each state of the plugin, a `stop()` that waits for
one included.

`IndexStartup`. While a rebuild runs the indexes are not whole, and memories come and
go beside it. `TextInv` and `VecInv` say of each document that the index has it, that
its entry is lost for a reason, or that a rebuild is still to write it: `TextDue` and
`VecDue` say for each place of the rebuild which documents that are. For the text index
that is everything beyond the last id read, so the proof needs that a batch is the
first of what is left and leaves nothing out below its greatest id (`FirstOf`,
`GreatestOf`). `StepInv` says that the steps below the migration's are done, which is
what a version on record then means. `RebuildGoes` is what all steps of a rebuild have
in common.

Only model-checked: liveness (`InflightReleased`, `ShutdownReturns`, `InitSettles`,
`TerminateReturnsIfHeeded`, `IdleIsMarked`, `RoundComes`, `StartEnds`, `WorkDone`),
which depends on fairness and ENABLED and is beyond the prover. No module that is
proved about uses a RECURSIVE operator; induction over data is not used.

## What is not modelled

* Text: prompts, parsing of LLM answers, stop words, formatting, dashboards, HTTP
  adapters. They change no state the properties tell apart.
* Scores: ranking is floating-point arithmetic, outside TLC's integers. Which memories
  a query matches is any set.
* Of the emotional state, pleasure, arousal and dominance, which fade by an exponential.
* What cannot work: the L3 synthesizer and the warm-up's memories read a column `tier`
  of `memory_atoms` that no code creates; `record_reinforcement` and
  `get_due_reviews` call methods the atom store does not have; the archive scan reads a
  missing column. Each fails at once, is caught, and changes nothing.
* The photo sync (two callers may add a photo's memory twice), the evolver's
  `variant_of` edges, context traces (rows only appended), FAISS dimension checks,
  expiry and purge of atoms (single transactions).
* Code nothing imports or calls: `memory_engine_crud.py`, `memory_engine_batch.py`,
  `memory_engine_write_ops.py`, `memory_transfer.py`,
  `plugin_initializer_finalize.py`, `plugin_initializer_faiss.py`,
  `index_validator_rebuild.py`, `page_api_modules/{prompt_handler,
  memory_handler_update,memory_handler_io,consolidation_handler}.py`,
  `processors/{memory_processor_build,memory_processor_parse,self_reflection}.py`,
  `v2/health_report.py`, `v2/family_role_manager.py`, `core/memory_scope.py`,
  `core/utils/formatting.py`, `consolidation_manager.py`; and in modelled files
  `cleanup_expired_sessions`, `create_or_get_session`,
  `reset_summarized_index_if_needed`, `_try_restore_from_backup`,
  `get_migration_info`, `reembed_single`, `RuleGate.rescan`,
  `AtomStore.touch/reinforce/update_status`, `step_rumination`, `decay_all`.
  `ConflictDetector.resolve` has no caller either, yet the subscriber of its event
  is registered, so `Ecosystem.Resolve` models it as a call that may come at any time.
* SQLite, FAISS, aiosqlite, AstrBot: external; modelled by their use (a commit is
  atomic, a row id is not given out twice).
* `scripts/`, `assets/_dl_tmp/cnsenti`: one-off migration and bundled library.

`PROJECT.json` lists every component with its status.

## Plan

Done: the models above, and a proof of every invariant and action property the runs
check. What is left, in this order:

1. A refinement of an atomic set of memories by `WriteOpSaga`, for executions in which
   no single delete is cut off and no memory is deleted while another operation is at
   it: a memory appears when its add completes, and is gone from where its delete asks.
2. The parts of `PluginLifecycle` other modules rely on, as one statement about the
   shutdown that both modules refine.
3. What liveness needs of safety: that a storage task withdraws its mark at its last
   step, and that a rebuild's batches only move on, as action properties.
