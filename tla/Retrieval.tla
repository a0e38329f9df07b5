----------------------------- MODULE Retrieval ------------------------------
(***************************************************************************)
(* A search of MemoryEngine.search_memories past its cache (which is in    *)
(* MemoryStore): the keyword, the vector and the graph route read at times *)
(* of their own while memories change, what they found is merged, loaded,  *)
(* reranked and filtered (core/retrieval/).                                *)
(*                                                                         *)
(* A memory is live, old (superseded or expired) or gone, and may keep     *)
(* graph entries for a while after it is gone.  Which memories a query     *)
(* matches is any subset; scores, and the order they make, are left out.   *)
(***************************************************************************)
EXTENDS Integers, FiniteSets, FiniteSetsExt

CONSTANTS
    Searches,         \* searches at once
    Memories, Mine,   \* all, and those of this session and persona
    Public,           \* those anybody may see
    TopK,             \* recall_engine.top_k
    Threshold, Rest,  \* fail_threshold and cool-down of the reranker
    MaxChanges        \* bound: changes of the memories

ASSUME RetrievalAssumption == (Mine \cup Public) \subseteq Memories /\ {TopK, Threshold, Rest, MaxChanges} \subseteq Nat

VARIABLES
    state,     \* state[m]: "live", "old" or "gone"
    ingraph,   \* memories with graph entries
    unfit,     \* memories with retrieval_eligible FALSE
    search,    \* search[s]: a search between two awaits
    ranker,    \* the fuse of the reranker
    changes    \* of the memories so far

searchvars == <<state, ingraph, unfit, search, ranker, changes>>
memvars == <<state, ingraph, unfit, changes>>

Routes == {"keyword", "vector", "graph"}
Nothing == [r \in Routes |-> {}]
\* stranger: only what is public may be seen; known (history): the memories
\* when the search began.
NoSearch == [pc |-> "none", todo |-> {}, broken |-> FALSE, live |-> Nothing, old |-> Nothing,
             found |-> {}, unfiltered |-> FALSE, stranger |-> FALSE, known |-> <<>>]
Searching(s, pc) == search[s].pc = pc

RetrievalInit ==
    /\ state = [m \in Memories |-> "live"] /\ ingraph = Memories /\ unfit = {}
    /\ search = [s \in Searches |-> NoSearch]
    /\ ranker = [fails |-> 0, rest |-> 0] /\ changes = 0

Begins(s) ==
    /\ Searching(s, "none")
    /\ search' = [search EXCEPT ![s].pc = "reading", ![s].todo = Routes,
                     ![s].known = [state |-> state, unfit |-> unfit]]
    /\ UNCHANGED <<memvars, ranker>>

-----------------------------------------------------------------------------
(* The routes.  Each filters by session and persona.                       *)
\* Rows of the full-text index are joined with the documents.
ByKeyword == {m \in Mine : state[m] # "gone"}
\* Vectors come with theirs.
ByVector == {m \in Mine : state[m] # "gone"}
\* Entries with the words, of nodes with the words, and of their neighbours.
EntriesByWord == ingraph \cap Mine
EntriesByVector == ingraph \cap Mine
InGraph == EntriesByWord \cup EntriesByVector
Readable(r) == CASE r = "keyword" -> ByKeyword [] r = "vector" -> ByVector [] r = "graph" -> InGraph
\* The keyword or the vector route may fail: the other is left.  A failure
\* of the graph route is raised when both have been awaited.
ReadRoute(s, r) ==
    /\ Searching(s, "reading") /\ r \in search[s].todo
    /\ \/ \E S \in SUBSET Readable(r) :
             search' = [search EXCEPT ![s].todo = @ \ {r},
                            ![s].live[r] = {m \in S : state[m] = "live"},
                            ![s].old[r] = {m \in S : state[m] # "live"}]
       \/ search' = [search EXCEPT ![s].todo = @ \ {r}, ![s].broken = @ \/ r = "graph"]
    /\ UNCHANGED <<memvars, ranker>>

-----------------------------------------------------------------------------
(* Both routes of the documents are fused; the metadata of what both found *)
(* is the keyword route's.                                                 *)
Fused(r) ==
    LET byKeyword == r.live["keyword"] \cup r.old["keyword"]
    IN [live |-> r.live["keyword"] \cup (r.live["vector"] \ byKeyword),
        old |-> r.old["keyword"] \cup (r.old["vector"] \ byKeyword)]
Weighted(r) == Fused(r).live
ByGraph(r) == r.live["graph"] \cup r.old["graph"]
\* Mutant: what the graph knows and the documents do not is kept.
Loaded_KeepsGone(S) == S
\* A memory only the graph knows is loaded, or skipped.
Loaded(S) == {m \in S : state[m] # "gone"}
Merged(r) == Weighted(r) \cup Loaded(ByGraph(r) \ Weighted(r))
Best(S) == {T \in SUBSET S : Cardinality(T) = Min({TopK, Cardinality(S)})}

\* The privacy filter, before the reranker, and the filter of what has lost
\* its eligibility, after it: rows that are not there are eligible, and the
\* filter may fail.
Visible(stranger, S) == IF stranger THEN S \cap Public ELSE S
Fit(S) == S \ {m \in unfit : state[m] # "gone"}
Result(s, S, stranger) ==
    \E unfiltered \in BOOLEAN :
        search' = [search EXCEPT ![s].pc = "found", ![s].unfiltered = unfiltered, ![s].stranger = stranger,
                                 ![s].found = IF unfiltered THEN S ELSE Fit(S)]
Merge(s) ==
    /\ Searching(s, "reading") /\ search[s].todo = {}
    /\ \/ search[s].broken /\ search' = [search EXCEPT ![s] = NoSearch]
       \/ /\ ~search[s].broken
          /\ \E stranger \in BOOLEAN, T \in Best(Merged(search[s])) :
                LET S == Visible(stranger, T) IN
                \* without a reranker, with one or none found, or while it rests
                \/ Result(s, S, stranger)
                \/ Cardinality(S) > 1 /\ ranker.rest = 0
                   /\ search' = [search EXCEPT ![s].pc = "ranking", ![s].found = S,
                                               ![s].stranger = stranger]
    /\ UNCHANGED <<memvars, ranker>>

\* The answer changes the order; a time-out, an error or nothing of use is a
\* failure, after which the order stays.
RankFails(r) ==
    LET n == r.fails + 1
    IN [fails |-> Min({n, Threshold}), rest |-> IF n >= Threshold THEN Rest ELSE r.rest]
Ranked(s) ==
    /\ Searching(s, "ranking")
    /\ ranker' \in {RankFails(ranker), [fails |-> 0, rest |-> 0]}
    /\ Result(s, search[s].found, search[s].stranger)
    /\ UNCHANGED memvars
Rests == ranker' = [ranker EXCEPT !.rest = Max({@ - 1, 0})] /\ UNCHANGED <<memvars, search>>
Returns(s) ==
    /\ Searching(s, "found") /\ search' = [search EXCEPT ![s] = NoSearch]
    /\ UNCHANGED <<memvars, ranker>>

-----------------------------------------------------------------------------
(* Meanwhile memories change: the fact superseder, deletes (the document,  *)
(* then the graph) and the archive.  Those of other sessions need not.     *)
Supersede(m) ==
    /\ state[m] = "live" /\ state' = [state EXCEPT ![m] = "old"]
    /\ UNCHANGED <<ingraph, unfit>>
DropDocument(m) ==
    /\ state[m] # "gone" /\ state' = [state EXCEPT ![m] = "gone"]
    /\ UNCHANGED <<ingraph, unfit>>
DropEntries(m) ==
    /\ state[m] = "gone" /\ m \in ingraph /\ ingraph' = ingraph \ {m}
    /\ UNCHANGED <<state, unfit>>
LoseEligible(m) ==
    /\ state[m] # "gone" /\ m \notin unfit /\ unfit' = unfit \cup {m}
    /\ UNCHANGED <<state, ingraph>>
MemoryChanges ==
    /\ changes < MaxChanges /\ changes' = changes + 1
    /\ \E m \in Mine : Supersede(m) \/ DropDocument(m) \/ DropEntries(m) \/ LoseEligible(m)
    /\ UNCHANGED <<search, ranker>>

SearchStep(s) ==
    \/ Begins(s) \/ \E r \in Routes : ReadRoute(s, r)
    \/ Merge(s) \/ Ranked(s) \/ Returns(s)
RetrievalNext == (\E s \in Searches : SearchStep(s)) \/ MemoryChanges \/ Rests

-----------------------------------------------------------------------------
(* A memory a search returns is of the session and persona asked for and   *)
(* of a scope its asker may see.  It was not deleted when the search began,*)
(* even if its graph entries were still there; if it was superseded by     *)
(* then only the graph route found it, and if it had lost its eligibility  *)
(* by then, the filter failed or it was deleted meanwhile: whatever changes*)
(* while the routes read.                                                  *)
OfTheSession(s) ==
    search[s].found \subseteq Mine /\ (search[s].stranger => search[s].found \subseteq Public)
NotDeleted(s) == \A m \in search[s].found : search[s].known.state[m] # "gone"
OldByGraphOnly(s) ==
    \A m \in search[s].found : search[s].known.state[m] = "old" => m \in ByGraph(search[s])
FitUnlessFailed(s) ==
    \A m \in search[s].found \cap search[s].known.unfit : search[s].unfiltered \/ state[m] = "gone"
OnlyRecallable ==
    \A s \in Searches : Searching(s, "found") =>
        OfTheSession(s) /\ NotDeleted(s) /\ OldByGraphOnly(s) /\ FitUnlessFailed(s)
=============================================================================
