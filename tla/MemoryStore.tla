---------------------------- MODULE MemoryStore ----------------------------
(***************************************************************************)
(* The memories of MemoryEngine as its coroutines see them: one row per    *)
(* memory whose metadata is a single JSON object, its vector and its graph *)
(* entries, and the cache of search results (core/managers/                *)
(* memory_engine.py with the hybrid and vector retrievers, the fact        *)
(* superseder and the eligibility filter).                                 *)
(*                                                                         *)
(* Every writer reads an object, awaits, and writes a whole object back.   *)
(* A job is one such coroutine between two awaits; tasks created with      *)
(* _create_tracked_task wait in `due' until they run.  The stores inside   *)
(* one add or delete and their repair after a crash are in WriteOpSaga;    *)
(* here an add, a delete and a batch delete are the steps other coroutines *)
(* can see.                                                                *)
(***************************************************************************)
EXTENDS Integers, FiniteSets

CONSTANTS
    Last,        \* the ids of the memories are 1 .. Last, given out in order
    First,       \* memories that exist at the start
    Jobs,        \* coroutines that run at once
    MaxOps,      \* bound: operations requested
    MaxCrashes,  \* bound: ends of the process
    Filtering    \* retrieval_eligibility_enabled

ASSUME StoreAssumption ==
    /\ Last \in Nat \ {0} /\ First \in 0 .. Last /\ MaxOps \in Nat /\ MaxCrashes \in Nat
    /\ Filtering \in BOOLEAN

VARIABLES
    row,       \* row[d]: the metadata of memory d, or Unborn, or Deleted
    vec,       \* memories with a vector
    graph,     \* memories with graph entries
    gen,       \* _search_cache_generation
    cache,     \* entries of _search_cache: generation of the key, memories
    job,       \* job[j]: the coroutine in slot j
    due,       \* tracked tasks that have not begun
    migrated,  \* the migration mark of the session
    ops,       \* operations requested so far
    crashes,   \* ends of the process so far
    fact,      \* history: fact[d], the memory whose content d replaced, or d
    unwanted,  \* history: facts somebody asked to delete
    gone,      \* history: memories a finished delete_memory removed
    lost       \* history: memories whose re-embedding did not end

vars == <<row, vec, graph, gen, cache, job, due, migrated, ops, crashes,
          fact, unwanted, gone, lost>>

Docs == 1 .. Last
Unborn == [imp |-> -1]
Deleted == [imp |-> -2]
\* importance (0 below the clean-up threshold), recent access, superseded,
\* session id in the old format, retrieval_eligible
Meta == [imp : 0 .. 1, acc : 0 .. 1, mark : BOOLEAN, old : BOOLEAN, elig : BOOLEAN]
NewMeta == [imp |-> 1, acc |-> 0, mark |-> FALSE, old |-> FALSE, elig |-> TRUE]

Ops == {"access", "decay", "patch", "content", "add", "delete", "batch",
        "cleanup", "supersede", "migrate", "search", "reembed", "regraph"}
Tasks == [op : {"access", "supersede", "migrate"}, doc : Docs]
Idle == [op |-> "none", pc |-> "none", doc |-> 0, new |-> 0, snap |-> <<>>,
         ids |-> {}, gen |-> 0]

Alive == {d \in Docs : row[d] \in Meta}
At(j, pc) == job[j].pc = pc
Go(j, pc) == job' = [job EXCEPT ![j].pc = pc]
End(j) == job' = [job EXCEPT ![j] = Idle]
Snapshot(D) == [d \in D |-> row[d]]
\* UPDATE documents SET metadata = ? WHERE id = ?: nothing for a missing row.
Written(new) == [d \in Docs |-> IF d \in DOMAIN new /\ d \in Alive THEN new[d] ELSE row[d]]

Init ==
    /\ row \in [Docs -> Meta \cup {Unborn}]
    /\ \A d \in Docs : IF d <= First THEN row[d] \in {NewMeta, [NewMeta EXCEPT !.imp = 0, !.old = TRUE]}
                                     ELSE row[d] = Unborn
    /\ vec = Alive /\ graph = Alive
    /\ gen = 0 /\ cache = {}
    /\ job = [j \in Jobs |-> Idle] /\ due = {}
    /\ migrated = FALSE /\ ops = 0 /\ crashes = 0
    /\ fact = [d \in Docs |-> d]
    /\ unwanted = {} /\ gone = {} /\ lost = {}

-----------------------------------------------------------------------------
(* The search cache.                                                       *)
Invalidate == gen' = gen + 1 /\ cache' = {}
Keep == UNCHANGED <<gen, cache>>
Hits == {e \in cache : e.gen = gen}

(* A request takes a free slot; a tracked task needs no request.           *)
Begin(j, rec) ==
    /\ At(j, "none") /\ ops < MaxOps
    /\ ops' = ops + 1
    /\ job' = [job EXCEPT ![j] = rec]
Request(j, op, pc) == Begin(j, [Idle EXCEPT !.op = op, !.pc = pc])
RequestOn(j, op, pc, d) == Begin(j, [Idle EXCEPT !.op = op, !.pc = pc, !.doc = d])

RunTask(j) ==
    /\ At(j, "none")
    /\ \E t \in due :
        /\ due' = due \ {t}
        /\ job' = [job EXCEPT ![j] = [Idle EXCEPT !.op = t.op, !.pc = "reading", !.doc = t.doc]]
    /\ UNCHANGED <<row, vec, graph, gen, cache, migrated, ops, crashes, fact, unwanted, gone, lost>>

Accesses(D) == {[op |-> "access", doc |-> d] : d \in D}

\* A hit under the present generation is returned at once.
SearchHit(j) ==
    /\ At(j, "none") /\ ops < MaxOps
    /\ ops' = ops + 1
    /\ \E e \in Hits : due' = due \cup Accesses(e.docs)
    /\ UNCHANGED <<row, vec, graph, gen, cache, job, migrated, crashes, fact, unwanted, gone, lost>>

\* No entry, or one past its time to live: it is dropped, the key with the
\* generation of now is kept, and the migration of the session is started.
SearchMiss(j) ==
    /\ Begin(j, [Idle EXCEPT !.op = "search", !.pc = "retrieving", !.gen = gen])
    /\ cache' = cache \ Hits
    /\ due' = due \cup {[op |-> "migrate", doc |-> 1]}
    /\ UNCHANGED <<row, vec, graph, gen, migrated, crashes, fact, unwanted, gone, lost>>

\* The routes find memories by text, vector or graph; reranking awaits.
SearchRetrieve(j) ==
    /\ At(j, "retrieving")
    /\ \E found \in SUBSET Alive :
        job' = [job EXCEPT ![j].pc = "ranked", ![j].ids = found]
    /\ UNCHANGED <<row, vec, graph, gen, cache, due, migrated, ops, crashes, fact, unwanted, gone, lost>>

\* The filter reads the flags afresh; rows that are gone count as eligible.
Eligible(D) == IF Filtering THEN {d \in D : d \notin Alive \/ row[d].elig} ELSE D
\* Mutant: the key is computed when the results are stored.
SearchEnd_KeyAtEnd(j) ==
    /\ At(j, "ranked")
    /\ LET found == Eligible(job[j].ids) IN
        /\ cache' = (cache \ Hits) \cup {[gen |-> gen, docs |-> found]}
        /\ due' = due \cup Accesses(found)
    /\ End(j)
    /\ UNCHANGED <<row, vec, graph, gen, migrated, ops, crashes, fact, unwanted, gone, lost>>
SearchEnd(j) ==
    /\ At(j, "ranked")
    /\ LET found == Eligible(job[j].ids) IN
        /\ cache' = {e \in cache : e.gen # job[j].gen} \cup {[gen |-> job[j].gen, docs |-> found]}
        /\ due' = due \cup Accesses(found)
    /\ End(j)
    /\ UNCHANGED <<row, vec, graph, gen, migrated, ops, crashes, fact, unwanted, gone, lost>>

-----------------------------------------------------------------------------
(* Writers of metadata.                                                    *)
AccessRead(j) ==
    /\ job[j].op = "access" /\ At(j, "reading")
    /\ IF job[j].doc \in Alive
       THEN job' = [job EXCEPT ![j].pc = "writing", ![j].snap = Snapshot({job[j].doc})]
       ELSE End(j)
    /\ UNCHANGED <<row, vec, graph, gen, cache, due, migrated, ops, crashes, fact, unwanted, gone, lost>>

\* The write may be refused (locked twice): the error is only logged.
AccessWrite(j) ==
    /\ job[j].op = "access" /\ At(j, "writing")
    /\ row' \in {row, Written([d \in DOMAIN job[j].snap |-> [job[j].snap[d] EXCEPT !.acc = 1]])}
    /\ End(j)
    /\ UNCHANGED <<vec, graph, gen, cache, due, migrated, ops, crashes, fact, unwanted, gone, lost>>

DecayStart(j) ==
    /\ Begin(j, [Idle EXCEPT !.op = "decay", !.pc = "computed", !.snap = Snapshot(Alive)])
    /\ UNCHANGED <<row, vec, graph, gen, cache, due, migrated, crashes, fact, unwanted, gone, lost>>
\* executemany over the objects of the one SELECT.
Decayed(m) == [m EXCEPT !.imp = 0, !.acc = 0]
DecayWrite(j) ==
    /\ job[j].op = "decay" /\ At(j, "computed")
    /\ \/ /\ row' = Written([d \in DOMAIN job[j].snap |-> Decayed(job[j].snap[d])])
          /\ Go(j, "committed")
       \/ UNCHANGED row /\ End(j)           \* the exception becomes 0
    /\ UNCHANGED <<vec, graph, gen, cache, due, migrated, ops, crashes, fact, unwanted, gone, lost>>

\* update_memory without content: exists?, then hybrid_retriever.
\* update_metadata reads again and writes the merged object.
PatchStart(j, d) ==
    /\ d \in Alive
    /\ RequestOn(j, "patch", "merging", d)
    /\ UNCHANGED <<row, vec, graph, gen, cache, due, migrated, crashes, fact, unwanted, gone, lost>>
PatchRead(j) ==
    /\ job[j].op = "patch" /\ At(j, "merging")
    /\ IF job[j].doc \in Alive
       THEN job' = [job EXCEPT ![j].pc = "patching", ![j].snap = Snapshot({job[j].doc})]
       ELSE End(j)
    /\ UNCHANGED <<row, vec, graph, gen, cache, due, migrated, ops, crashes, fact, unwanted, gone, lost>>
PatchWrite(j) ==
    /\ job[j].op = "patch" /\ At(j, "patching")
    /\ \E i \in 0 .. 1 :
        row' = Written([d \in DOMAIN job[j].snap |-> [job[j].snap[d] EXCEPT !.imp = i]])
    /\ Go(j, "indexing")
    /\ UNCHANGED <<vec, graph, gen, cache, due, migrated, ops, crashes, fact, unwanted, gone, lost>>
PatchIndex(j) ==
    /\ job[j].op = "patch" /\ At(j, "indexing")
    /\ \/ graph' = graph \cup {job[j].doc} /\ Go(j, "committed")
       \/ UNCHANGED graph /\ End(j)         \* raised: nothing is invalidated
    /\ UNCHANGED <<row, vec, gen, cache, due, migrated, ops, crashes, fact, unwanted, gone, lost>>

\* What decay, a patch and a rebuild of the graph end with.
WriterEnd(j) ==
    /\ At(j, "committed")
    /\ Invalidate /\ End(j)
    /\ UNCHANGED <<row, vec, graph, due, migrated, ops, crashes, fact, unwanted, gone, lost>>

\* A new memory with a version signal marks older rows of its domain that
\* have no status; one UPDATE per row, no invalidation.
SupersedeRead(j) ==
    /\ job[j].op = "supersede" /\ At(j, "reading")
    /\ \E D \in SUBSET {d \in Alive : d < job[j].doc /\ ~row[d].mark} :
        IF D = {} THEN End(j)
        ELSE job' = [job EXCEPT ![j].pc = "marking", ![j].snap = Snapshot(D)]
    /\ UNCHANGED <<row, vec, graph, gen, cache, due, migrated, ops, crashes, fact, unwanted, gone, lost>>
SupersedeWrite(j) ==
    /\ job[j].op = "supersede" /\ At(j, "marking")
    /\ row' = Written([d \in DOMAIN job[j].snap |-> [job[j].snap[d] EXCEPT !.mark = TRUE, !.imp = 0]])
    /\ End(j)
    /\ UNCHANGED <<vec, graph, gen, cache, due, migrated, ops, crashes, fact, unwanted, gone, lost>>

\* Rows in the old session format; the mark is a second commit.
MigrateRead(j) ==
    /\ job[j].op = "migrate" /\ At(j, "reading")
    /\ IF migrated THEN End(j)
       ELSE job' = [job EXCEPT ![j].pc = "migrating",
                               ![j].snap = Snapshot({d \in Alive : row[d].old})]
    /\ UNCHANGED <<row, vec, graph, gen, cache, due, migrated, ops, crashes, fact, unwanted, gone, lost>>
MigrateWrite(j) ==
    /\ job[j].op = "migrate" /\ At(j, "migrating")
    /\ \/ /\ row' = Written([d \in DOMAIN job[j].snap |-> [job[j].snap[d] EXCEPT !.old = FALSE]])
          /\ Go(j, "migrated")
       \/ UNCHANGED row /\ End(j)
    /\ UNCHANGED <<vec, graph, gen, cache, due, migrated, ops, crashes, fact, unwanted, gone, lost>>
MigrateMark(j) ==
    /\ job[j].op = "migrate" /\ At(j, "migrated")
    /\ migrated' = TRUE /\ End(j)
    /\ UNCHANGED <<row, vec, graph, gen, cache, due, ops, crashes, fact, unwanted, gone, lost>>

\* sync_parent_eligibility, one synchronous call: the last active atom of a
\* memory was archived.
LoseEligibility ==
    /\ \E d \in Alive : row[d].elig /\ row' = [row EXCEPT ![d].elig = FALSE]
    /\ UNCHANGED <<vec, graph, gen, cache, job, due, migrated, ops, crashes, fact, unwanted, gone, lost>>

-----------------------------------------------------------------------------
(* Memories come, are replaced and go.                                     *)
NextId == {d \in Docs : row[d] = Unborn /\ \A e \in 1 .. (d - 1) : row[e] # Unborn}

AddStart(j) ==
    /\ Request(j, "add", "adding")
    /\ UNCHANGED <<row, vec, graph, gen, cache, due, migrated, crashes, fact, unwanted, gone, lost>>

\* update_memory with content: the metadata read now goes to the new memory.
ContentStart(j, d) ==
    /\ d \in Alive
    /\ Begin(j, [Idle EXCEPT !.op = "content", !.pc = "adding", !.doc = d, !.snap = Snapshot({d})])
    /\ UNCHANGED <<row, vec, graph, gen, cache, due, migrated, crashes, fact, unwanted, gone, lost>>

\* Mutant: the old memory is deleted although the new one was not stored.
AddDocument_FailureIgnored(j) ==
    /\ At(j, "adding")
    /\ \/ \E n \in NextId :
            /\ row' = [row EXCEPT ![n] = IF job[j].op = "content" THEN job[j].snap[job[j].doc] ELSE NewMeta]
            /\ vec' = vec \cup {n}
            /\ fact' = [fact EXCEPT ![n] = IF job[j].op = "content" THEN fact[job[j].doc] ELSE n]
            /\ job' = [job EXCEPT ![j].pc = "added", ![j].new = n]
       \/ UNCHANGED <<row, vec, fact>> /\ IF job[j].op = "content" THEN Go(j, "deleting") ELSE End(j)
    /\ UNCHANGED <<graph, gen, cache, due, migrated, ops, crashes, unwanted, gone, lost>>
\* Document, text and vector; an exception ends the add and the update.
AddDocument(j) ==
    /\ At(j, "adding")
    /\ \/ \E n \in NextId :
            /\ row' = [row EXCEPT ![n] = IF job[j].op = "content" THEN job[j].snap[job[j].doc] ELSE NewMeta]
            /\ vec' = vec \cup {n}
            /\ fact' = [fact EXCEPT ![n] = IF job[j].op = "content" THEN fact[job[j].doc] ELSE n]
            /\ job' = [job EXCEPT ![j].pc = "added", ![j].new = n]
       \/ UNCHANGED <<row, vec, fact>> /\ End(j)
    /\ UNCHANGED <<graph, gen, cache, due, migrated, ops, crashes, unwanted, gone, lost>>
\* Graph entries, invalidation, the superseder's task; an update goes on to
\* delete the old memory.
AddEnd(j) ==
    /\ At(j, "added")
    /\ graph' = graph \cup {job[j].new}
    /\ Invalidate
    /\ due' = due \cup {[op |-> "supersede", doc |-> job[j].new]}
    /\ IF job[j].op = "content" THEN Go(j, "deleting") ELSE End(j)
    /\ UNCHANGED <<row, vec, migrated, ops, crashes, fact, unwanted, gone, lost>>

DeleteStart(j, d) ==
    /\ row[d] # Unborn
    /\ RequestOn(j, "delete", "deleting", d)
    /\ unwanted' = unwanted \cup {fact[d]}
    /\ UNCHANGED <<row, vec, graph, gen, cache, due, migrated, crashes, fact, gone, lost>>

\* The memory a delete is about: the old one, or on rollback the new one.
Target(j) == IF At(j, "undoing") THEN job[j].new ELSE job[j].doc
\* hybrid_retriever.delete_memory: a row that is already gone makes it fail,
\* unless the uuid of the row is still in the retriever's cache.
DeleteDocument(j) ==
    /\ job[j].pc \in {"deleting", "undoing"}
    /\ \/ /\ row' = [row EXCEPT ![Target(j)] = Deleted]
          /\ vec' = vec \ {Target(j)}
          /\ job' = [job EXCEPT ![j].pc = "deleted", ![j].ids = {Target(j)}]
       \/ /\ UNCHANGED <<row, vec>>
          /\ IF job[j].op = "content" /\ At(j, "deleting") THEN Go(j, "undoing") ELSE End(j)
    /\ UNCHANGED <<graph, gen, cache, due, migrated, ops, crashes, fact, unwanted, gone, lost>>
DeleteEnd(j) ==
    /\ At(j, "deleted")
    /\ graph' = graph \ job[j].ids
    /\ gone' = gone \cup job[j].ids
    /\ Invalidate /\ End(j)
    /\ UNCHANGED <<row, vec, due, migrated, ops, crashes, fact, unwanted, lost>>

\* cleanup_old_memories scans first and deletes what it found then.
CleanupScan(j) ==
    /\ Begin(j, [Idle EXCEPT !.op = "batch", !.pc = "scanned", !.ids = {d \in Alive : row[d].imp = 0}])
    /\ UNCHANGED <<row, vec, graph, gen, cache, due, migrated, crashes, fact, unwanted, gone, lost>>
\* batch_delete_memories, of these ids or of ids the caller names, clears
\* the cache before it deletes and not after.
BatchStart(j) ==
    /\ \/ \E D \in SUBSET Alive \ {{}} : Begin(j, [Idle EXCEPT !.op = "batch", !.pc = "clearing", !.ids = D])
       \/ At(j, "scanned") /\ Go(j, "clearing") /\ UNCHANGED ops
    /\ Invalidate
    /\ unwanted' = unwanted \cup {fact[d] : d \in job'[j].ids}
    /\ UNCHANGED <<row, vec, graph, due, migrated, crashes, fact, gone, lost>>
BatchDelete(j) ==
    /\ At(j, "clearing")
    /\ row' = [d \in Docs |-> IF d \in job[j].ids THEN Deleted ELSE row[d]]
    /\ vec' = vec \ job[j].ids
    /\ Go(j, "cleared")
    /\ UNCHANGED <<graph, gen, cache, due, migrated, ops, crashes, fact, unwanted, gone, lost>>
BatchEnd(j) ==
    /\ At(j, "cleared")
    /\ graph' = graph \ job[j].ids
    /\ End(j)
    /\ UNCHANGED <<row, vec, gen, cache, due, migrated, ops, crashes, fact, unwanted, gone, lost>>

-----------------------------------------------------------------------------
(* Vectors and graph entries made again.                                   *)
ReembedStart(j, d) ==
    /\ d \in Alive
    /\ RequestOn(j, "reembed", "embedding", d)
    /\ vec' = vec \ {d}
    /\ UNCHANGED <<row, graph, gen, cache, due, migrated, crashes, fact, unwanted, gone, lost>>
\* Mutant: the new vector is put in before the old one is deleted.
ReembedEnd_InsertFirst(j) ==
    /\ At(j, "embedding")
    /\ \/ vec' = vec \ {job[j].doc} /\ lost' = lost \ {job[j].doc}
       \/ UNCHANGED vec /\ lost' = lost \cup {job[j].doc}
    /\ End(j)
    /\ UNCHANGED <<row, graph, gen, cache, due, migrated, ops, crashes, fact, unwanted, gone>>
\* The vector is computed by the provider, which may fail.
ReembedEnd(j) ==
    /\ At(j, "embedding")
    /\ \/ vec' = vec \cup {job[j].doc} /\ lost' = lost \ {job[j].doc}
       \/ UNCHANGED vec /\ lost' = lost \cup {job[j].doc}
    /\ End(j)
    /\ UNCHANGED <<row, graph, gen, cache, due, migrated, ops, crashes, fact, unwanted, gone>>

RegraphStart(j) ==
    /\ Begin(j, [Idle EXCEPT !.op = "regraph", !.pc = "listed", !.ids = Alive])
    /\ UNCHANGED <<row, vec, graph, gen, cache, due, migrated, crashes, fact, unwanted, gone, lost>>
\* index_memory of the documents listed before, one await each.
RegraphIndex(j) ==
    /\ At(j, "listed")
    /\ IF job[j].ids = {} THEN Go(j, "committed") /\ UNCHANGED graph
       ELSE \E d \in job[j].ids :
            /\ graph' = graph \cup {d}
            /\ job' = [job EXCEPT ![j].ids = @ \ {d}]
    /\ UNCHANGED <<row, vec, gen, cache, due, migrated, ops, crashes, fact, unwanted, gone, lost>>

\* The process ends: coroutines, tasks and the cache are gone.
Crash ==
    /\ crashes < MaxCrashes
    /\ crashes' = crashes + 1
    /\ lost' = lost \cup {job[j].doc : j \in {k \in Jobs : At(k, "embedding")}}
    /\ job' = [j \in Jobs |-> Idle] /\ due' = {}
    /\ gen' = 0 /\ cache' = {}
    /\ UNCHANGED <<row, vec, graph, migrated, ops, fact, unwanted, gone>>

JobStep(j) ==
    \/ RunTask(j) \/ SearchHit(j) \/ SearchMiss(j) \/ SearchRetrieve(j) \/ SearchEnd(j)
    \/ AccessRead(j) \/ AccessWrite(j) \/ DecayStart(j) \/ DecayWrite(j)
    \/ PatchRead(j) \/ PatchWrite(j) \/ PatchIndex(j) \/ WriterEnd(j)
    \/ SupersedeRead(j) \/ SupersedeWrite(j)
    \/ MigrateRead(j) \/ MigrateWrite(j) \/ MigrateMark(j)
    \/ AddStart(j) \/ AddDocument(j) \/ AddEnd(j) \/ DeleteDocument(j) \/ DeleteEnd(j)
    \/ CleanupScan(j) \/ BatchStart(j) \/ BatchDelete(j) \/ BatchEnd(j)
    \/ ReembedEnd(j) \/ RegraphStart(j) \/ RegraphIndex(j)
    \/ \E d \in Docs : PatchStart(j, d) \/ ContentStart(j, d) \/ DeleteStart(j, d) \/ ReembedStart(j, d)

Next == (\E j \in Jobs : JobStep(j)) \/ LoseEligibility \/ Crash

Spec == Init /\ [][Next]_vars

-----------------------------------------------------------------------------
TypeOK ==
    /\ \A d \in Docs : row[d] \in Meta \cup {Unborn, Deleted}
    /\ vec \subseteq Docs /\ graph \subseteq Docs /\ lost \subseteq Docs
    /\ \A e \in cache : e.gen \in 0 .. gen /\ e.docs \subseteq Docs
    /\ due \subseteq Tasks

(* A search answered from the cache never returns a memory whose           *)
(* delete_memory had returned: the key of an entry holds the generation    *)
(* read before the retrieval began, and every delete raises it when the    *)
(* documents are gone.                                                     *)
CacheFresh == \A e \in Hits : e.docs \cap gone = {}

(* The same for every delete, batch deletes included, as the comment at    *)
(* memory_engine.py:557 says.  TLC refutes it: batch_delete_memories       *)
(* invalidates the cache before it deletes, and not after.                 *)
NoDeletedServed ==
    (\A j \in Jobs : job[j] = Idle) => \A e \in Hits : e.docs \subseteq Alive

(* However updates of a content overlap, fail or are cut off by a crash, a *)
(* memory nobody asked to delete keeps at least one version: the new one   *)
(* is made before the old one is deleted, and a rollback deletes only the  *)
(* version of its own update.                                              *)
OneVersion ==
    \A d \in Docs : row[d] # Unborn /\ fact[d] \notin unwanted
        => \E e \in Alive : fact[e] = fact[d]

(* A memory nobody asked to delete keeps a version (OneVersion), whatever  *)
(* updates overlap, and no variable leaves its type.                       *)
VersionsSound == TypeOK /\ OneVersion

(* A memory no coroutine is working on can be found by both routes: it has *)
(* a vector, unless a re-embedding of it failed or was cut off, and graph  *)
(* entries, unless the process ended while it was added.                   *)
Findable ==
    (\A j \in Jobs : job[j] = Idle) =>
        \A d \in Alive : (d \in vec \/ d \in lost) /\ (d \in graph \/ crashes > 0)

=============================================================================
