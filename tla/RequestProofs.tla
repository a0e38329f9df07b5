----------------------------- MODULE RequestProofs ---------------------------
(***************************************************************************)
(* Proofs about what a request does with the memories, for any memories,   *)
(* messages, requests and searches at once, faults and restarts.           *)
(*                                                                         *)
(* Retrieval.  OnlyRecallable speaks of the end of a search.  The          *)
(* invariant says what is known on the way: memories only age (KnownInv),  *)
(* what the routes have read was there when the search began (ReadInv),    *)
(* and so is what waits to be ranked (RankingInv).                         *)
(*                                                                         *)
(* Emotions.  TrustKept needs that without a fault the row follows the     *)
(* cache (RowInv) and that an appraisal finds the state loaded (LoadedInv).*)
(* TagExplained needs that a record read is the last one made (LastInv),   *)
(* that one's own was made before (MadeInv) unless the storage task gave   *)
(* up waiting (WaitInv).                                                   *)
(*                                                                         *)
(* Recall.  OneInjection needs what a request carries at each await        *)
(* (CarriedInv), and WarmAgainExplained that a warm-up is noted in the     *)
(* session, or being noted, or has an excuse (NotedInv).                   *)
(*                                                                         *)
(* Gate.  A reply confirms and stores what the judge left: RowsSound needs *)
(* that one coroutine is at a candidate, and that what is stored is marked *)
(* or about to be (OnceFor), for every candidate that has no excuse.       *)
(***************************************************************************)
EXTENDS Retrieval, Emotions, Recall, Gate, FiniteSetTheorems, SequenceTheorems,
        WellFoundedInduction, NaturalsInduction, TLAPS

-----------------------------------------------------------------------------
(* Retrieval: what a search returns may be recalled.                       *)
States == {"live", "old", "gone"}
Known == [state : [Memories -> States], unfit : SUBSET Memories]
Search == [pc : {"none", "reading", "ranking", "found"}, todo : SUBSET Routes, broken : BOOLEAN,
           live : [Routes -> SUBSET Mine], old : [Routes -> SUBSET Mine], found : SUBSET Mine,
           unfiltered : BOOLEAN, stranger : BOOLEAN, known : Known \cup {<<>>}]

SearchTypes ==
    /\ state \in [Memories -> States] /\ unfit \subseteq Memories
    /\ search \in [Searches -> Search]
    /\ \A s \in Searches : search[s].pc = "none" => search[s] = NoSearch

\* Memories never get younger, nor eligible again.
AgedFrom(k) ==
    /\ k \in Known /\ k.unfit \subseteq unfit
    /\ \A m \in Memories : k.state[m] # "live" => state[m] \in {k.state[m], "gone"}
KnownInv == \A s \in Searches : search[s].pc # "none" => AgedFrom(search[s].known)

\* What a route read as live was so at the beginning; the routes of the
\* documents read nothing that was gone by then.
ReadInv ==
    \A s \in Searches : search[s].pc # "none" =>
        /\ \A r \in Routes : \A m \in search[s].live[r] : search[s].known.state[m] = "live"
        /\ \A r \in {"keyword", "vector"} : \A m \in search[s].old[r] : search[s].known.state[m] # "gone"

RankingInv ==
    \A s \in Searches : search[s].pc \in {"ranking", "found"} =>
        OfTheSession(s) /\ NotDeleted(s) /\ OldByGraphOnly(s)

SearchInv == SearchTypes /\ KnownInv /\ ReadInv /\ RankingInv /\ OnlyRecallable

-----------------------------------------------------------------------------
LEMMA NothingType == Nothing \in [Routes -> SUBSET Mine]
  BY DEF Nothing

LEMMA NoSearchType == NoSearch \in Search
  BY NothingType DEF NoSearch, Search

LEMMA SearchInitInv == RetrievalInit => SearchInv
<1> SUFFICES ASSUME RetrievalInit PROVE SearchInv
  OBVIOUS
<1>1. SearchTypes
  BY NoSearchType DEF RetrievalInit, SearchTypes, States
<1>2. \A s \in Searches : search[s].pc = "none"
  BY DEF RetrievalInit, NoSearch
<1> QED  BY <1>1, <1>2 DEF SearchInv, KnownInv, ReadInv, RankingInv, OnlyRecallable, Searching

-----------------------------------------------------------------------------
(* Steps of a search: the other searches, and the memories, are as before. *)
LEMMA SearchMoves ==
  ASSUME SearchInv, NEW s \in Searches, NEW q \in Search, search' = [search EXCEPT ![s] = q],
         UNCHANGED memvars,
         q.pc = "none" => q = NoSearch,
         q.pc # "none" =>
            /\ AgedFrom(q.known)
            /\ \A r \in Routes : \A m \in q.live[r] : q.known.state[m] = "live"
            /\ \A r \in {"keyword", "vector"} : \A m \in q.old[r] : q.known.state[m] # "gone",
         q.pc \in {"ranking", "found"} =>
            /\ q.stranger => q.found \subseteq Public
            /\ \A m \in q.found : q.known.state[m] # "gone"
            /\ \A m \in q.found : q.known.state[m] = "old" => m \in ByGraph(q),
         q.pc = "found" =>
            \A m \in q.found \cap q.known.unfit : q.unfiltered \/ state[m] = "gone"
  PROVE SearchInv'
<1>1. search \in [Searches -> Search] /\ UNCHANGED <<state, unfit>>
  BY DEF SearchInv, SearchTypes, memvars
<1>2. search' \in [Searches -> Search] /\ search'[s] = q
      /\ \A z \in Searches : z # s => search'[z] = search[z]
  BY <1>1
<1>3. SearchTypes'
  BY <1>1, <1>2 DEF SearchInv, SearchTypes
<1>4. KnownInv' /\ ReadInv'
  BY <1>1, <1>2 DEF SearchInv, KnownInv, ReadInv, AgedFrom
<1>5. q.found \subseteq Mine
  BY DEF Search
<1>6. RankingInv'
  BY <1>1, <1>2, <1>5 DEF SearchInv, RankingInv, OfTheSession, NotDeleted, OldByGraphOnly, ByGraph
<1>7. OnlyRecallable'
  BY <1>1, <1>2, <1>6 DEF SearchInv, RankingInv, OnlyRecallable, Searching, OfTheSession, NotDeleted,
     OldByGraphOnly, FitUnlessFailed, ByGraph
<1> QED  BY <1>3, <1>4, <1>6, <1>7 DEF SearchInv

LEMMA BeginsInv == ASSUME SearchInv, NEW s \in Searches, Begins(s) PROVE SearchInv'
<1> DEFINE k == [state |-> state, unfit |-> unfit]
<1> DEFINE q == [NoSearch EXCEPT !.pc = "reading", !.todo = Routes, !.known = k]
<1>1. search[s] = NoSearch /\ k \in Known
  BY DEF Begins, Searching, SearchInv, SearchTypes, Known
<1>4. search' = [search EXCEPT ![s] = q] /\ UNCHANGED memvars
  BY <1>1 DEF Begins, SearchInv, SearchTypes
<1> HIDE DEF k
<1>2. q.pc = "reading" /\ q.known = k /\ q.live = Nothing /\ q.old = Nothing
  BY DEF NoSearch
<1>3. q \in Search
  BY <1>1, NoSearchType DEF Search
<1>5. AgedFrom(k)
  BY <1>1 DEF AgedFrom, k
<1>6. \A r \in Routes : q.live[r] = {} /\ q.old[r] = {}
  BY <1>2 DEF Nothing
<1>7. {"keyword", "vector"} \subseteq Routes
  BY DEF Routes
<1> HIDE DEF q
<1> QED  BY <1>2, <1>3, <1>4, <1>5, <1>6, <1>7, SearchMoves

LEMMA ReturnsInv == ASSUME SearchInv, NEW s \in Searches, Returns(s) PROVE SearchInv'
  BY NoSearchType, SearchMoves DEF Returns, NoSearch

\* A route finds memories as they are, so they were no younger before.
LEMMA ReadRouteInv == ASSUME SearchInv, NEW s \in Searches, NEW r \in Routes, ReadRoute(s, r) PROVE SearchInv'
<1>0. search[s] \in Search /\ search[s].pc = "reading" /\ AgedFrom(search[s].known) /\ UNCHANGED memvars
      /\ search \in [Searches -> Search]
  BY DEF ReadRoute, Searching, SearchInv, SearchTypes, KnownInv
<1>1. ASSUME NEW S \in SUBSET Readable(r),
             search' = [search EXCEPT ![s].todo = @ \ {r},
                            ![s].live[r] = {m \in S : state[m] = "live"},
                            ![s].old[r] = {m \in S : state[m] # "live"}]
      PROVE SearchInv'
  <2> DEFINE young == {m \in S : state[m] = "live"}
  <2> DEFINE aged == {m \in S : state[m] # "live"}
  <2> DEFINE q == [search[s] EXCEPT !.todo = @ \ {r}, !.live[r] = young, !.old[r] = aged]
  <2>1. S \subseteq Mine /\ Mine \subseteq Memories
        /\ (r \in {"keyword", "vector"} => \A m \in S : state[m] # "gone")
    BY RetrievalAssumption DEF Readable, ByKeyword, ByVector, InGraph, EntriesByWord, EntriesByVector, Routes
  <2>2. young \subseteq Mine /\ aged \subseteq Mine
    BY <2>1
  <2>3. \A m \in young : search[s].known.state[m] = "live"
    BY <1>0, <2>1 DEF AgedFrom, SearchInv, SearchTypes, States, Known
  <2>4. r \in {"keyword", "vector"} => \A m \in aged : search[s].known.state[m] # "gone"
    BY <1>0, <2>1 DEF AgedFrom, SearchInv, SearchTypes, States, Known
  <2>5. search' = [search EXCEPT ![s] = q]
    BY <1>0, <1>1
  <2> HIDE DEF young, aged
  <2>6. /\ q.live = [search[s].live EXCEPT ![r] = young] /\ q.old = [search[s].old EXCEPT ![r] = aged]
        /\ q.pc = "reading" /\ q.known = search[s].known
        /\ q \in Search
    BY <1>0, <2>2 DEF Search
  <2>7. /\ \A z \in Routes : \A m \in search[s].live[z] : search[s].known.state[m] = "live"
        /\ \A z \in {"keyword", "vector"} : \A m \in search[s].old[z] : search[s].known.state[m] # "gone"
    BY <1>0 DEF SearchInv, ReadInv
  <2>8. \A z \in Routes : q.live[z] = (IF z = r THEN young ELSE search[s].live[z])
                          /\ q.old[z] = (IF z = r THEN aged ELSE search[s].old[z])
    BY <1>0, <2>6 DEF Search
  <2>9. {"keyword", "vector"} \subseteq Routes
    BY DEF Routes
  <2>10. \A z \in Routes : \A m \in q.live[z] : q.known.state[m] = "live"
    BY <2>3, <2>6, <2>7, <2>8
  <2>11. \A z \in {"keyword", "vector"} : \A m \in q.old[z] : q.known.state[m] # "gone"
    BY <2>4, <2>6, <2>7, <2>8, <2>9
  <2>12. AgedFrom(q.known)
    BY <1>0, <2>6
  <2> HIDE DEF q
  <2> QED  BY <1>0, <2>5, <2>6, <2>10, <2>11, <2>12, SearchMoves
<1>2. ASSUME search' = [search EXCEPT ![s].todo = @ \ {r}, ![s].broken = @ \/ r = "graph"]
      PROVE SearchInv'
  <2> DEFINE q == [search[s] EXCEPT !.todo = @ \ {r}, !.broken = @ \/ r = "graph"]
  <2>1. search' = [search EXCEPT ![s] = q]
    BY <1>0, <1>2
  <2>2. /\ q \in Search /\ q.pc = "reading" /\ q.known = search[s].known
        /\ q.live = search[s].live /\ q.old = search[s].old
    BY <1>0 DEF Search
  <2>3. /\ \A z \in Routes : \A m \in search[s].live[z] : search[s].known.state[m] = "live"
        /\ \A z \in {"keyword", "vector"} : \A m \in search[s].old[z] : search[s].known.state[m] # "gone"
    BY <1>0 DEF SearchInv, ReadInv
  <2> HIDE DEF q
  <2> QED  BY <1>0, <2>1, <2>2, <2>3, SearchMoves
<1> QED  BY <1>1, <1>2 DEF ReadRoute

\* What the routes found and the graph added was there when the search began,
\* and what was old by then only the graph knew.
LEMMA MergedFacts ==
  ASSUME SearchInv, NEW s \in Searches, search[s].pc = "reading", NEW m \in Merged(search[s])
  PROVE /\ m \in Mine
        /\ search[s].known.state[m] # "gone"
        /\ search[s].known.state[m] = "old" => m \in ByGraph(search[s])
<1> DEFINE r == search[s]
<1>0. {"keyword", "vector", "graph"} = Routes
  BY DEF Routes
<1>1. r \in Search /\ Mine \subseteq Memories
      /\ \A z \in Routes : \A n \in r.live[z] : r.known.state[n] = "live"
  BY RetrievalAssumption DEF SearchInv, SearchTypes, ReadInv
<1>2. CASE m \in Weighted(r)
  <2>1. m \in r.live["keyword"] \cup r.live["vector"]
    BY <1>2 DEF Weighted, Fused
  <2> QED  BY <1>0, <1>1, <2>1 DEF Search
<1>3. CASE m \in Loaded(ByGraph(r) \ Weighted(r))
  <2>1. m \in ByGraph(r) /\ state[m] # "gone"
    BY <1>3 DEF Loaded
  <2>2. m \in Mine
    BY <1>0, <1>1, <2>1 DEF ByGraph, Search
  <2> QED  BY <1>1, <2>1, <2>2 DEF SearchInv, KnownInv, AgedFrom
<1> QED  BY <1>2, <1>3 DEF Merged

\* The two filters, on candidates that may be recalled.
LEMMA ResultInv ==
  ASSUME SearchInv, UNCHANGED memvars, NEW s \in Searches, search[s].pc \in {"reading", "ranking"},
         NEW S \in SUBSET Mine, NEW stranger \in BOOLEAN, Result(s, S, stranger),
         stranger => S \subseteq Public,
         \A m \in S : /\ search[s].known.state[m] # "gone"
                      /\ search[s].known.state[m] = "old" => m \in ByGraph(search[s])
  PROVE SearchInv'
<1>0. search[s] \in Search /\ AgedFrom(search[s].known)
      /\ (\A z \in Routes : \A m \in search[s].live[z] : search[s].known.state[m] = "live")
      /\ (\A z \in {"keyword", "vector"} : \A m \in search[s].old[z] : search[s].known.state[m] # "gone")
      /\ search \in [Searches -> Search]
  BY DEF SearchInv, SearchTypes, KnownInv, ReadInv
<1>1. PICK unfiltered \in BOOLEAN :
        search' = [search EXCEPT ![s].pc = "found", ![s].unfiltered = unfiltered, ![s].stranger = stranger,
                                 ![s].found = IF unfiltered THEN S ELSE Fit(S)]
  BY DEF Result
<1> DEFINE F == IF unfiltered THEN S ELSE Fit(S)
<1> DEFINE q == [search[s] EXCEPT !.pc = "found", !.unfiltered = unfiltered, !.stranger = stranger, !.found = F]
<1>2. search' = [search EXCEPT ![s] = q]
  BY <1>0, <1>1
<1>3. F \subseteq S /\ F \subseteq Mine
  BY DEF Fit
<1>4. \A m \in F \cap search[s].known.unfit : unfiltered \/ state[m] = "gone"
  BY <1>0 DEF Fit, AgedFrom
<1> HIDE DEF F
<1>5. /\ q.pc = "found" /\ q.unfiltered = unfiltered /\ q.stranger = stranger /\ q.found = F
      /\ q.live = search[s].live /\ q.old = search[s].old /\ q.known = search[s].known
      /\ q \in Search
  BY <1>0, <1>3 DEF Search
<1>6. ByGraph(q) = ByGraph(search[s])
  BY <1>5 DEF ByGraph
<1> HIDE DEF q
<1> QED  BY <1>0, <1>2, <1>3, <1>4, <1>5, <1>6, SearchMoves, ZenonT(40)

LEMMA MergeInv == ASSUME SearchInv, NEW s \in Searches, Merge(s) PROVE SearchInv'
<1>0. search[s].pc = "reading" /\ UNCHANGED memvars /\ search \in [Searches -> Search] /\ search[s] \in Search
  BY DEF Merge, Searching, SearchInv, SearchTypes
<1>1. CASE search' = [search EXCEPT ![s] = NoSearch]
  BY <1>0, <1>1, NoSearchType, SearchMoves DEF NoSearch
<1>2. ASSUME NEW stranger \in BOOLEAN, NEW T \in Best(Merged(search[s])),
             \/ Result(s, Visible(stranger, T), stranger)
             \/ search' = [search EXCEPT ![s].pc = "ranking", ![s].found = Visible(stranger, T),
                                         ![s].stranger = stranger]
      PROVE SearchInv'
  <2> DEFINE S == Visible(stranger, T)
  <2>1. S \subseteq Merged(search[s]) /\ (stranger => S \subseteq Public)
    BY DEF Best, Visible
  <2>2. /\ S \subseteq Mine
        /\ \A m \in S : /\ search[s].known.state[m] # "gone"
                        /\ search[s].known.state[m] = "old" => m \in ByGraph(search[s])
    BY <1>0, <2>1, MergedFacts
  <2> HIDE DEF S
  <2>3. CASE Result(s, S, stranger)
    BY <1>0, <2>1, <2>2, <2>3, ResultInv
  <2>4. CASE search' = [search EXCEPT ![s].pc = "ranking", ![s].found = S, ![s].stranger = stranger]
    <3> DEFINE q == [search[s] EXCEPT !.pc = "ranking", !.found = S, !.stranger = stranger]
    <3>1. search' = [search EXCEPT ![s] = q]
      BY <1>0, <2>4
    <3>2. /\ q.pc = "ranking" /\ q.stranger = stranger /\ q.found = S
          /\ q.live = search[s].live /\ q.old = search[s].old /\ q.known = search[s].known
          /\ q \in Search
      BY <1>0, <2>2 DEF Search
    <3>3. ByGraph(q) = ByGraph(search[s])
      BY <3>2 DEF ByGraph
    <3>4. AgedFrom(search[s].known)
          /\ (\A z \in Routes : \A m \in search[s].live[z] : search[s].known.state[m] = "live")
          /\ (\A z \in {"keyword", "vector"} : \A m \in search[s].old[z] : search[s].known.state[m] # "gone")
      BY <1>0 DEF SearchInv, KnownInv, ReadInv
    <3> HIDE DEF q
    <3> QED  BY <1>0, <2>1, <2>2, <3>1, <3>2, <3>3, <3>4, SearchMoves
  <2> QED  BY <1>2, <2>3, <2>4 DEF S
<1> QED  BY <1>1, <1>2 DEF Merge

LEMMA RankedInv == ASSUME SearchInv, NEW s \in Searches, Ranked(s) PROVE SearchInv'
<1>1. search[s].pc = "ranking" /\ UNCHANGED memvars /\ search[s] \in Search
  BY DEF Ranked, Searching, SearchInv, SearchTypes
<1>2. search[s].found \subseteq Mine /\ search[s].stranger \in BOOLEAN
      /\ Result(s, search[s].found, search[s].stranger)
  BY <1>1 DEF Ranked, Search
<1>3. OfTheSession(s) /\ NotDeleted(s) /\ OldByGraphOnly(s)
  BY <1>1 DEF SearchInv, RankingInv
<1> QED  BY <1>1, <1>2, <1>3, ResultInv DEF OfTheSession, NotDeleted, OldByGraphOnly

-----------------------------------------------------------------------------
\* What is said of the memories stays true when they change.
LEMMA MemoryChangesInv == ASSUME SearchInv, MemoryChanges PROVE SearchInv'
<1>0. UNCHANGED search /\ Mine \subseteq Memories
  BY RetrievalAssumption DEF MemoryChanges
<1>1. state \in [Memories -> States] /\ unfit \subseteq Memories
  BY DEF SearchInv, SearchTypes
<1>2. PICK m \in Mine : Supersede(m) \/ DropDocument(m) \/ DropEntries(m) \/ LoseEligible(m)
  BY DEF MemoryChanges
<1>3. /\ state' \in [Memories -> States] /\ unfit \subseteq unfit' /\ unfit' \subseteq Memories
      /\ \A n \in Memories : /\ state[n] # "live" => state'[n] \in {state[n], "gone"}
  BY <1>0, <1>1, <1>2 DEF Supersede, DropDocument, DropEntries, LoseEligible, States
<1>4. SearchTypes'
  BY <1>0, <1>3 DEF SearchInv, SearchTypes
<1>5. \A k : AgedFrom(k) => AgedFrom(k)'
  BY <1>1, <1>3 DEF AgedFrom, Known, States
<1>6. KnownInv' /\ ReadInv' /\ RankingInv'
  BY <1>0, <1>5 DEF SearchInv, KnownInv, ReadInv, RankingInv, OfTheSession, NotDeleted, OldByGraphOnly, ByGraph
<1>7. OnlyRecallable'
  <2> SUFFICES ASSUME NEW s \in Searches, search[s].pc = "found" PROVE FitUnlessFailed(s)'
    BY <1>0, <1>6 DEF OnlyRecallable, RankingInv, Searching
  <2>1. FitUnlessFailed(s) /\ search[s].found \subseteq Memories
    BY <1>0 DEF SearchInv, SearchTypes, Search, OnlyRecallable, Searching
  <2> QED  BY <1>0, <1>3, <2>1 DEF FitUnlessFailed
<1> QED  BY <1>4, <1>6, <1>7 DEF SearchInv

LEMMA SearchNextInv == SearchInv /\ [RetrievalNext]_searchvars => SearchInv'
<1> SUFFICES ASSUME SearchInv, [RetrievalNext]_searchvars PROVE SearchInv'
  OBVIOUS
<1>1. ASSUME NEW s \in Searches, SearchStep(s) PROVE SearchInv'
  BY <1>1, BeginsInv, ReadRouteInv, MergeInv, RankedInv, ReturnsInv DEF SearchStep
<1>2. CASE Rests \/ UNCHANGED searchvars
  <2>1. UNCHANGED <<state, unfit, search>>
    BY <1>2 DEF Rests, searchvars, memvars
  <2> QED  BY <2>1 DEF SearchInv, SearchTypes, KnownInv, AgedFrom, ReadInv, RankingInv, OnlyRecallable, Searching,
                  OfTheSession, NotDeleted, OldByGraphOnly, FitUnlessFailed, ByGraph
<1> QED  BY <1>1, <1>2, MemoryChangesInv DEF RetrievalNext

LEMMA SearchInvariance == RetrievalInit /\ [][RetrievalNext]_searchvars => []SearchInv
  BY SearchInitInv, SearchNextInv, PTL

(* However many searches run at once and whatever the memories do while    *)
(* their routes read: what a search returns is of its session and scope,   *)
(* was not deleted when the search began, and is superseded or unfit only  *)
(* for the reasons named.                                                  *)
THEOREM RecallsOnlyRecallable == RetrievalInit /\ [][RetrievalNext]_searchvars => []OnlyRecallable
<1>1. SearchInv => OnlyRecallable
  BY DEF SearchInv
<1> QED  BY <1>1, SearchInvariance, PTL

-----------------------------------------------------------------------------
(* Emotions: the trust and the tags.                                       *)
EmoTypes ==
    /\ EmoTypeOK
    /\ trust \in [here : Floor .. Ceil \cup {Unknown}, kept : Floor .. Ceil \cup {Unknown}, sweet : 0 .. SweetCap]
    /\ spent \in [faults : Nat, restarts : Nat]
    /\ finished \in Seq(Messages) /\ late \subseteq Messages
    /\ settled \in Floor .. Ceil

\* Without a fault the row is what the evidence made, the cache too.
RowInv ==
    spent.faults = 0 =>
        /\ connected /\ settled = FromRow(trust)
        /\ trust.here # Unknown => settled = trust.here

LoadedInv == \A m \in Messages : eval[m] = "running" => trust.here # Unknown

\* The record in use is the last one made.
LastInv == recent # NoRecord => Len(finished) > 0 /\ finished[Len(finished)] = recent.of

\* A message whose appraisal left a record is among those finished.
MadeInv == \A m \in Messages : eval[m] = "recorded" => \E i \in DOMAIN finished : finished[i] = m

\* A storage task follows its request, and adds the memory when the appraisal
\* is over or twelve seconds are.
WaitInv ==
    \A m \in Messages :
        /\ store[m] # "none" => eval[m] # "none"
        /\ store[m] = "adding" => eval[m] # "running" \/ m \in late

EmoInv == /\ EmoTypes /\ RowInv /\ LoadedInv /\ LastInv /\ MadeInv /\ WaitInv /\ TagExplained

-----------------------------------------------------------------------------
(* Lemmas about the arithmetic of the trust.                               *)

LEMMA MinOf == ASSUME NEW a \in Int, NEW b \in Int PROVE Min({a, b}) = IF a <= b THEN a ELSE b
  BY DEF Min
LEMMA MaxOf == ASSUME NEW a \in Int, NEW b \in Int PROVE Max({a, b}) = IF a >= b THEN a ELSE b
  BY DEF Max

LEMMA ClampedType == ASSUME NEW v \in Int PROVE Clamped(v) \in Floor .. Ceil
<1> DEFINE low == Min({Ceil, v})
<1>0. Floor = 15 /\ Ceil = 98 /\ Floor \in Int /\ Ceil \in Int
  BY DEF Floor, Ceil
<1>1. low = IF Ceil <= v THEN Ceil ELSE v
  BY <1>0, MinOf
<1>2. low \in Int /\ low <= 98
  BY <1>0, <1>1
<1> HIDE DEF low
<1>3. Max({Floor, low}) = IF Floor >= low THEN Floor ELSE low
  BY <1>0, <1>2, MaxOf
<1>4. Max({Floor, low}) \in Floor .. Ceil
  BY <1>0, <1>2, <1>3
<1> QED  BY <1>4 DEF Clamped, low

LEMMA WeightType == ASSUME NEW e \in Evidence PROVE Weight(e) \in Int
  BY DEF Weight, Evidence

\* What sweet words move stays within their cap.
LEMMA SettleType ==
  ASSUME NEW t \in [here : Floor .. Ceil, kept : Floor .. Ceil \cup {Unknown}, sweet : 0 .. SweetCap],
         NEW e \in Evidence
  PROVE /\ Delta(t, e) \in Int
        /\ Settle(t, e) \in [here : Floor .. Ceil, kept : Floor .. Ceil \cup {Unknown}, sweet : 0 .. SweetCap]
        /\ Settle(t, e).here = IF Delta(t, e) = 0 THEN t.here ELSE Clamped(t.here + Delta(t, e))
        /\ Settle(t, e).kept = t.kept
<1>1. t.here \in Int /\ t.sweet \in 0 .. 3
  BY DEF Floor, Ceil, SweetCap
<1>a. ASSUME e = "sweet_words" PROVE Delta(t, e) = IF 1 <= 3 - t.sweet THEN 1 ELSE 3 - t.sweet
  <2>1. Weight(e) = 1
    BY <1>a DEF Weight
  <2>2. Delta(t, e) = Min({1, 3 - t.sweet})
    BY <1>a, <2>1 DEF Delta, SweetCap
  <2>3. 3 - t.sweet \in Int
    BY <1>1
  <2>4. Min({1, 3 - t.sweet}) = IF 1 <= 3 - t.sweet THEN 1 ELSE 3 - t.sweet
    BY <2>3, MinOf
  <2> QED  BY <2>2, <2>3, <2>4
<1>b. ASSUME e # "sweet_words" PROVE Delta(t, e) \in Int
  BY <1>b, WeightType DEF Delta
<1>2. Delta(t, e) \in Int
  BY <1>a, <1>b, <1>1
<1>3. e = "sweet_words" => t.sweet + Delta(t, e) \in 0 .. 3
  BY <1>a, <1>1
<1>4. Clamped(t.here + Delta(t, e)) \in Floor .. Ceil
  BY <1>1, <1>2, ClampedType
<1> QED  BY <1>2, <1>3, <1>4 DEF Settle, SweetCap

-----------------------------------------------------------------------------
LEMMA EmoInitInv == EmoInit => EmoInv
<1> SUFFICES ASSUME EmoInit PROVE EmoInv
  OBVIOUS
<1>1. PICK row \in {Unknown, 16, 97}, sweet \in {0, SweetCap - 1} :
        /\ trust = [here |-> IF sweet > 0 THEN row ELSE Unknown, kept |-> row, sweet |-> sweet]
        /\ sweet > 0 => row # Unknown
        /\ settled = IF row = Unknown THEN Baseline ELSE row
  BY DEF EmoInit
<1>2. trust \in [here : Floor .. Ceil \cup {Unknown}, kept : Floor .. Ceil \cup {Unknown}, sweet : 0 .. SweetCap]
  BY <1>1 DEF Unknown, Floor, Ceil, SweetCap
<1>3. settled \in Floor .. Ceil
  BY <1>1 DEF Floor, Ceil, Unknown, Baseline
<1>4. EmoTypeOK
  BY <1>2, Zenon DEF EmoInit, EmoTypeOK
<1>5. finished \in Seq(Messages) /\ spent \in [faults : Nat, restarts : Nat]
  BY DEF EmoInit
<1>6. EmoTypes
  BY <1>2, <1>3, <1>4, <1>5 DEF EmoInit, EmoTypes
<1>7. RowInv
  BY <1>1 DEF EmoInit, RowInv, FromRow, Unknown
<1>8. LoadedInv /\ LastInv /\ MadeInv /\ WaitInv
  BY DEF EmoInit, LoadedInv, LastInv, MadeInv, WaitInv
<1>9. TagExplained
  BY EmotionsAssumption DEF EmoInit, TagExplained
<1> QED  BY <1>6, <1>7, <1>8, <1>9 DEF EmoInv

-----------------------------------------------------------------------------
(* Steps.                                                                  *)

\* Loading the state changes nothing the evidence is compared with.
LEMMA LoadFacts ==
  ASSUME EmoInv, Load
  PROVE /\ trust' \in [here : Floor .. Ceil, kept : Floor .. Ceil \cup {Unknown}, sweet : 0 .. SweetCap]
        /\ trust'.here # Unknown
        /\ spent' \in [faults : Nat, restarts : Nat]
        /\ spent'.faults = 0 => /\ spent.faults = 0
                                /\ trust'.kept = trust.kept
                                /\ trust'.here = IF trust.here = Unknown THEN FromRow(trust) ELSE trust.here
<1>0. Baseline \in Floor .. Ceil /\ Unknown \notin Floor .. Ceil
  BY DEF Baseline, Floor, Ceil, Unknown
<1>1. trust \in [here : Floor .. Ceil \cup {Unknown}, kept : Floor .. Ceil \cup {Unknown}, sweet : 0 .. SweetCap]
      /\ spent \in [faults : Nat, restarts : Nat]
  BY DEF EmoInv, EmoTypes
<1>2. FromRow(trust) \in Floor .. Ceil
  BY <1>0, <1>1 DEF FromRow
<1>3. CASE trust.here # Unknown /\ UNCHANGED trust /\ EmoSound
  BY <1>0, <1>1, <1>3 DEF EmoSound
<1>4. CASE trust.here = Unknown /\ trust' = [trust EXCEPT !.here = FromRow(trust)] /\ EmoSound
  BY <1>0, <1>1, <1>2, <1>4 DEF EmoSound
<1>5. CASE trust.here = Unknown /\ trust' = [trust EXCEPT !.here = Baseline] /\ EmoFault
  BY <1>0, <1>1, <1>5 DEF EmoFault
<1> QED  BY <1>3, <1>4, <1>5 DEF Load

LEMMA HearInv == ASSUME EmoInv, NEW m \in Messages, Hear(m) PROVE EmoInv'
<1>0. Load /\ eval[m] = "none"
      /\ UNCHANGED <<recent, store, tag, connected, finished, late, settled>>
  BY DEF Hear
<1>1. eval \in [Messages -> {"none", "skipped", "running", "failed", "recorded"}]
  BY DEF EmoInv, EmoTypes, EmoTypeOK
<1>2. PICK to \in {"skipped", "running"} : eval' = [eval EXCEPT ![m] = to]
  BY DEF Hear
<1>3. cooling' \in BOOLEAN
  BY DEF Hear, EmoInv, EmoTypes, EmoTypeOK
<1>4. EmoTypes'
  BY <1>0, <1>1, <1>2, <1>3, LoadFacts DEF EmoInv, EmoTypes, EmoTypeOK
<1>5. RowInv'
  BY <1>0, LoadFacts DEF EmoInv, RowInv, FromRow
<1>6. LoadedInv' /\ LastInv' /\ MadeInv' /\ WaitInv'
  BY <1>0, <1>1, <1>2, LoadFacts DEF EmoInv, LoadedInv, LastInv, MadeInv, WaitInv
<1>7. TagExplained'
  BY <1>0, <1>1, <1>2 DEF EmoInv, TagExplained, After
<1> QED  BY <1>4, <1>5, <1>6, <1>7 DEF EmoInv

\* What is appended leaves the order of the rest.
LEMMA AfterKept ==
  ASSUME finished \in Seq(Messages), NEW m \in Messages, finished' = Append(finished, m)
  PROVE \A n, k \in Messages : After(n, k) => After(n, k)'
<1>1. DOMAIN finished' = 1 .. Len(finished) + 1 /\ DOMAIN finished = 1 .. Len(finished)
      /\ Len(finished) \in Nat
  OBVIOUS
<1>2. \A i \in DOMAIN finished : i \in DOMAIN finished' /\ finished'[i] = finished[i]
  OBVIOUS
<1> QED  BY <1>2 DEF After

\* An appraisal moves the trust and what the evidence makes of it alike.
LEMMA AppraiseFacts ==
  ASSUME EmoInv, NEW m \in Messages, eval[m] = "running",
         NEW e \in Evidence \cup {None}, Appraise(m, e)
  PROVE /\ trust' \in [here : Floor .. Ceil, kept : Floor .. Ceil \cup {Unknown}, sweet : 0 .. SweetCap]
        /\ settled' \in Floor .. Ceil
        /\ spent' \in [faults : Nat, restarts : Nat]
        /\ spent'.faults = 0 => /\ spent.faults = 0
                                /\ settled' = trust'.here
                                /\ connected => trust'.kept = trust'.here
<1> DEFINE t == IF e = None THEN trust ELSE Settle(trust, e)
<1>0. Unknown \notin Floor .. Ceil /\ None \notin Evidence
  BY DEF Unknown, Floor, Ceil, None, Evidence
<1>1. trust \in [here : Floor .. Ceil, kept : Floor .. Ceil \cup {Unknown}, sweet : 0 .. SweetCap]
  BY <1>0 DEF EmoInv, EmoTypes, LoadedInv
<1>2. /\ spent \in [faults : Nat, restarts : Nat] /\ settled \in Floor .. Ceil
      /\ spent.faults = 0 => connected /\ settled = trust.here
  BY <1>0, <1>1 DEF EmoInv, EmoTypes, RowInv
<1>3. t \in [here : Floor .. Ceil, kept : Floor .. Ceil \cup {Unknown}, sweet : 0 .. SweetCap]
  BY <1>1, SettleType
<1>4. settled' \in Floor .. Ceil /\ (spent.faults = 0 => settled' = t.here)
  <2>1. CASE e = None
    BY <1>1, <1>2, <2>1 DEF Appraise
  <2>2. CASE e # None
    <3>1. /\ Delta(trust, e) \in Int
          /\ t.here = IF Delta(trust, e) = 0 THEN trust.here ELSE Clamped(trust.here + Delta(trust, e))
      BY <1>1, <2>2, SettleType
    <3>2. settled' = IF Delta(trust, e) = 0 THEN settled ELSE Clamped(settled + Delta(trust, e))
      BY <2>2 DEF Appraise
    <3>3. settled + Delta(trust, e) \in Int
      BY <1>2, <3>1 DEF Floor, Ceil
    <3>4. Clamped(settled + Delta(trust, e)) \in Floor .. Ceil
      BY <3>3, ClampedType
    <3> QED  BY <1>2, <3>1, <3>2, <3>4
  <2> QED  BY <2>1, <2>2
<1>5. \/ trust' = Saved(t) /\ EmoSound
      \/ trust' = t /\ EmoFault
  BY DEF Appraise
<1> HIDE DEF t
<1>6. Saved(t) \in [here : Floor .. Ceil, kept : Floor .. Ceil \cup {Unknown}, sweet : 0 .. SweetCap]
      /\ Saved(t).here = t.here /\ (connected => Saved(t).kept = t.here)
  BY <1>3 DEF Saved
<1> QED  BY <1>2, <1>3, <1>4, <1>5, <1>6 DEF EmoSound, EmoFault

LEMMA AppraisalEndsInv == ASSUME EmoInv, NEW m \in Messages, AppraisalEnds(m) PROVE EmoInv'
<1>0. eval[m] = "running" /\ UNCHANGED <<cooling, store, tag, connected, late>>
  BY DEF AppraisalEnds
<1>1. eval \in [Messages -> {"none", "skipped", "running", "failed", "recorded"}]
      /\ finished \in Seq(Messages)
  BY DEF EmoInv, EmoTypes, EmoTypeOK
<1>2. ASSUME NEW a \in FromModel \cup FromRules, Appraise(m, a.evidence),
             recent' = [of |-> m, labelled |-> a.labelled],
             eval' = [eval EXCEPT ![m] = "recorded"]
      PROVE EmoInv'
  <2>1. a.evidence \in Evidence \cup {None} /\ a.labelled \in BOOLEAN
    BY EmotionsAssumption DEF FromModel, FromRules
  <2>2. finished' = Append(finished, m)
    BY <1>2 DEF Appraise
  <2>3. /\ finished' \in Seq(Messages) /\ Len(finished') > 0 /\ finished'[Len(finished')] = m
        /\ Len(finished') \in DOMAIN finished'
    BY <1>1, <2>2
  <2>4. \A i \in DOMAIN finished : i \in DOMAIN finished' /\ finished'[i] = finished[i]
    BY <1>1, <2>2
  <2>5. EmoTypes'
    BY <1>0, <1>1, <1>2, <2>1, <2>3, AppraiseFacts DEF EmoInv, EmoTypes, EmoTypeOK
  <2>6. RowInv'
    BY <1>0, <1>2, <2>1, AppraiseFacts DEF EmoInv, RowInv, FromRow, Unknown, Floor, Ceil
  <2>7. LoadedInv'
    BY <1>0, <1>2, <2>1, AppraiseFacts DEF LoadedInv, Unknown, Floor, Ceil
  <2>8. LastInv' /\ MadeInv'
    BY <1>1, <1>2, <2>3, <2>4 DEF EmoInv, LastInv, MadeInv
  <2>9. WaitInv'
    BY <1>0, <1>1, <1>2 DEF EmoInv, WaitInv
  <2>10. TagExplained'
    BY <1>0, <1>1, <1>2, <2>2, AfterKept DEF EmoInv, TagExplained
  <2> QED  BY <2>5, <2>6, <2>7, <2>8, <2>9, <2>10 DEF EmoInv
<1>3. ASSUME eval' = [eval EXCEPT ![m] = "failed"],
             EmoSound /\ UNCHANGED <<recent, trust, finished, settled>>
      PROVE EmoInv'
  <2>1. EmoTypes' /\ RowInv'
    BY <1>0, <1>1, <1>3 DEF EmoInv, EmoTypes, EmoTypeOK, RowInv, FromRow, EmoSound
  <2>2. LoadedInv' /\ LastInv' /\ MadeInv' /\ WaitInv'
    BY <1>0, <1>1, <1>3 DEF EmoInv, LoadedInv, LastInv, MadeInv, WaitInv
  <2>3. TagExplained'
    BY <1>0, <1>1, <1>3 DEF EmoInv, TagExplained, After
  <2> QED  BY <2>1, <2>2, <2>3 DEF EmoInv
<1> QED  BY <1>2, <1>3 DEF AppraisalEnds

\* The steps of a storage task that leave the feelings and the tags alone.
LEMMA StoreMoves ==
  ASSUME EmoInv, NEW m \in Messages, NEW from, NEW to \in {"summarising", "waiting", "adding", "ended"},
         StoreTo(m, from, to), eval[m] # "none",
         to = "adding" => eval[m] # "running" \/ m \in late',
         late \subseteq late', late' \subseteq Messages,
         UNCHANGED <<eval, cooling, recent, tag, trust, connected, spent, finished, settled>>
  PROVE EmoInv'
<1>1. store' = [store EXCEPT ![m] = to]
      /\ store \in [Messages -> {"none", "summarising", "waiting", "adding", "ended"}]
  BY DEF StoreTo, EmoInv, EmoTypes, EmoTypeOK
<1>2. EmoTypes' /\ RowInv' /\ LoadedInv' /\ LastInv' /\ MadeInv'
  BY <1>1 DEF EmoInv, EmoTypes, EmoTypeOK, RowInv, FromRow, LoadedInv, LastInv, MadeInv
<1>3. WaitInv'
  BY <1>1 DEF EmoInv, WaitInv
<1>4. TagExplained'
  BY DEF EmoInv, TagExplained, After
<1> QED  BY <1>2, <1>3, <1>4 DEF EmoInv

LEMMA AnswerInv == ASSUME EmoInv, NEW m \in Messages, Answer(m) PROVE EmoInv'
  BY StoreMoves DEF Answer, EmoInv, EmoTypes

LEMMA SummarisedInv == ASSUME EmoInv, NEW m \in Messages, Summarised(m) PROVE EmoInv'
<1>1. eval[m] # "none" /\ late \subseteq Messages
  BY DEF Summarised, StoreTo, EmoInv, EmoTypes, WaitInv
<1> QED  BY <1>1, StoreMoves DEF Summarised

LEMMA AwaitedInv == ASSUME EmoInv, NEW m \in Messages, Awaited(m) PROVE EmoInv'
<1>1. eval[m] # "none" /\ late \subseteq Messages
  BY DEF Awaited, StoreTo, EmoInv, EmoTypes, WaitInv
<1> QED  BY <1>1, StoreMoves DEF Awaited, Appraised

LEMMA TimesOutInv == ASSUME EmoInv, NEW m \in Messages, TimesOut(m) PROVE EmoInv'
<1>1. late \subseteq late' /\ late' \subseteq Messages /\ m \in late'
  BY DEF TimesOut, EmoInv, EmoTypes
<1> QED  BY <1>1, StoreMoves DEF TimesOut

\* A tag is of the last record; who has one made it before.
LEMMA AddMemoryInv == ASSUME EmoInv, NEW m \in Messages, AddMemory(m) PROVE EmoInv'
<1>0. store[m] = "adding" /\ store' = [store EXCEPT ![m] = "ended"]
      /\ UNCHANGED <<eval, cooling, recent, trust, connected, spent, finished, late, settled>>
  BY DEF AddMemory, StoreTo
<1>1. PICK default \in BOOLEAN : tag' = [tag EXCEPT ![m] = Tagged(default)]
  BY DEF AddMemory
<1>2. /\ eval \in [Messages -> {"none", "skipped", "running", "failed", "recorded"}]
      /\ store \in [Messages -> {"none", "summarising", "waiting", "adding", "ended"}]
      /\ tag \in [Messages -> Messages \cup {None}]
      /\ recent \in [of : Messages, labelled : BOOLEAN] \cup {NoRecord}
      /\ finished \in Seq(Messages)
  BY DEF EmoInv, EmoTypes, EmoTypeOK
<1>3. Tagged(default) \in Messages \cup {None}
      /\ (Tagged(default) # None => recent # NoRecord /\ Tagged(default) = recent.of)
  BY <1>2 DEF Tagged, NoRecord
<1>4. EmoTypes'
  BY <1>0, <1>1, <1>2, <1>3 DEF EmoInv, EmoTypes, EmoTypeOK
<1>5. RowInv' /\ LoadedInv' /\ LastInv' /\ MadeInv'
  BY <1>0 DEF EmoInv, RowInv, FromRow, LoadedInv, LastInv, MadeInv
<1>6. WaitInv'
  BY <1>0, <1>2 DEF EmoInv, WaitInv
<1>7. ASSUME NEW k \in Messages, tag'[k] \in Messages \ {k}
      PROVE eval[k] \in {"skipped", "failed"} \/ k \in late \/ After(tag'[k], k)
  <2>1. CASE k # m
    BY <1>1, <1>2, <1>7, <2>1 DEF EmoInv, TagExplained
  <2>2. CASE k = m
    <3>1. recent # NoRecord /\ tag'[k] = recent.of
      BY <1>1, <1>2, <1>3, <1>7, <2>2, EmotionsAssumption
    <3>2. Len(finished) \in DOMAIN finished /\ finished[Len(finished)] = tag'[k]
      BY <1>2, <3>1 DEF EmoInv, LastInv
    <3>3. SUFFICES ASSUME eval[k] = "recorded" PROVE After(tag'[k], k)
      BY <1>0, <1>2, <2>2 DEF EmoInv, WaitInv
    <3>4. PICK i \in DOMAIN finished : finished[i] = k
      BY <3>3 DEF EmoInv, MadeInv
    <3>5. i # Len(finished) /\ i \in 1 .. Len(finished) /\ Len(finished) \in Nat
      BY <1>2, <1>7, <3>2, <3>4
    <3> QED  BY <3>2, <3>4, <3>5 DEF After
  <2> QED  BY <2>1, <2>2
<1>8. TagExplained'
  BY <1>0, <1>7 DEF TagExplained, After
<1> QED  BY <1>4, <1>5, <1>6, <1>8 DEF EmoInv

LEMMA TimeInv == ASSUME EmoInv, CoolsDown \/ Expires PROVE EmoInv'
<1>1. /\ UNCHANGED <<eval, store, tag, trust, connected, spent, finished, late, settled>>
      /\ recent' \in {recent, NoRecord} /\ cooling' \in BOOLEAN
  BY DEF CoolsDown, Expires, EmoInv, EmoTypes, EmoTypeOK
<1>2. EmoTypes' /\ RowInv'
  BY <1>1 DEF EmoInv, EmoTypes, EmoTypeOK, RowInv, FromRow
<1>3. LoadedInv' /\ LastInv' /\ MadeInv' /\ WaitInv' /\ TagExplained'
  BY <1>1 DEF EmoInv, LoadedInv, LastInv, MadeInv, WaitInv, TagExplained, After
<1> QED  BY <1>2, <1>3 DEF EmoInv

LEMMA RestartInv == ASSUME EmoInv, Restart PROVE EmoInv'
<1>0. /\ eval' = [m \in Messages |-> IF eval[m] = "running" THEN "failed" ELSE eval[m]]
      /\ store' = [m \in Messages |-> IF store[m] = "none" THEN "none" ELSE "ended"]
      /\ cooling' = FALSE /\ recent' = NoRecord
      /\ trust' = [trust EXCEPT !.here = Unknown, !.sweet = 0]
      /\ UNCHANGED <<tag, finished, late, settled>>
  BY DEF Restart
<1>1. PICK ok \in BOOLEAN :
        /\ connected' = ok
        /\ spent' = [faults |-> spent.faults + (IF ok THEN 0 ELSE 1), restarts |-> spent.restarts + 1]
  BY DEF Restart
<1>2. trust \in [here : Floor .. Ceil \cup {Unknown}, kept : Floor .. Ceil \cup {Unknown}, sweet : 0 .. SweetCap]
      /\ spent \in [faults : Nat, restarts : Nat]
      /\ eval \in [Messages -> {"none", "skipped", "running", "failed", "recorded"}]
      /\ store \in [Messages -> {"none", "summarising", "waiting", "adding", "ended"}]
  BY DEF EmoInv, EmoTypes, EmoTypeOK
<1>3. /\ trust' \in [here : Floor .. Ceil \cup {Unknown}, kept : Floor .. Ceil \cup {Unknown}, sweet : 0 .. SweetCap]
      /\ trust'.here = Unknown /\ trust'.kept = trust.kept
  <2>1. trust' = [here |-> Unknown, kept |-> trust.kept, sweet |-> 0]
    BY <1>0, <1>2
  <2> QED  BY <1>2, <2>1 DEF SweetCap
<1>4. spent' \in [faults : Nat, restarts : Nat] /\ (spent'.faults = 0 => spent.faults = 0 /\ connected')
  BY <1>1, <1>2
<1>5. EmoTypes'
  BY <1>0, <1>1, <1>2, <1>3, <1>4 DEF EmoInv, EmoTypes, EmoTypeOK
<1>6. RowInv'
  BY <1>0, <1>3, <1>4 DEF EmoInv, RowInv, FromRow
<1>7. LoadedInv' /\ LastInv' /\ MadeInv' /\ WaitInv'
  BY <1>0, <1>2 DEF EmoInv, LoadedInv, LastInv, MadeInv, WaitInv
<1>8. TagExplained'
  BY <1>0, <1>2 DEF EmoInv, TagExplained, After
<1> QED  BY <1>5, <1>6, <1>7, <1>8 DEF EmoInv

LEMMA EmoNextInv == EmoInv /\ [EmoNext]_emovars => EmoInv'
<1> SUFFICES ASSUME EmoInv, [EmoNext]_emovars PROVE EmoInv'
  OBVIOUS
<1>1. ASSUME NEW m \in Messages, EmoStep(m) PROVE EmoInv'
  BY <1>1, HearInv, AppraisalEndsInv, AnswerInv, SummarisedInv, AwaitedInv, TimesOutInv,
     AddMemoryInv DEF EmoStep
<1>2. CASE UNCHANGED emovars
  BY <1>2 DEF emovars, EmoInv, EmoTypes, EmoTypeOK, RowInv, FromRow, LoadedInv, LastInv, MadeInv,
              WaitInv, TagExplained, After
<1> QED  BY <1>1, <1>2, TimeInv, RestartInv DEF EmoNext

LEMMA EmoInvariance == EmoSpec => []EmoInv
  BY EmoInitInv, EmoNextInv, PTL DEF EmoSpec

(* Whatever the messages, faults and restarts: the trust is what the       *)
(* evidence made it while the database answers, and a memory has another   *)
(* message's tag only if its own left no record, came too late or was made *)
(* before the other's.                                                     *)
THEOREM FeelingsAreSound == EmoSpec => []EmotionsSound
<1>1. EmoInv => EmotionsSound
  BY DEF EmoInv, EmotionsSound, EmoTypes, RowInv, TrustKept
<1> QED  BY <1>1, EmoInvariance, PTL
-----------------------------------------------------------------------------
(* Recall: the memories go with a request once, and when a session is      *)
(* warmed up again.                                                        *)
Ages == 0 .. Never
Meta == [warmed : Ages, index : Nat]
Hook == [pc : {"none", "warm", "stamp", "stamping", "body", "storing", "searching", "sending"},
         calls : Nat, parts : Nat, own : Nat, warm : BOOLEAN, age : Ages, meta : Meta \cup {<<>>}]
HookTypes ==
    /\ session \in [exists : BOOLEAN, meta : Meta]
    /\ history \in Nat /\ hook \in [Hooks -> Hook]
    /\ task \in [pc : {"none", "writing"}, meta : Meta \cup {<<>>}, index : Nat]
    /\ warmth \in [age : Ages, excused : BOOLEAN, again : BOOLEAN]

\* Who is to write an object back has read it, from a row that stays.
HeldInv ==
    /\ \A h \in Hooks : Now(h, "stamping") => session.exists /\ hook[h].meta \in Meta
    /\ task.pc = "writing" => session.exists /\ task.meta \in Meta

\* The injections a request carries: those of the history it was made from,
\* none once it is cleaned, its own at the end.
Injections(r) == r.calls + r.parts + r.own
CarriedInv ==
    /\ history <= 1
    /\ \A h \in Hooks :
        /\ Now(h, "sending") => Injections(hook[h]) <= 1
        /\ Now(h, "storing") \/ Now(h, "searching") => Injections(hook[h]) = 0
        /\ ~(Now(h, "sending") \/ Now(h, "storing") \/ Now(h, "searching")) =>
              hook[h].calls <= 1 /\ hook[h].parts = 0 /\ hook[h].own = 0

\* The last warm-up, if it was within six hours, is being noted, or noted.
BeingNoted == \E h \in Hooks : hook[h].pc \in {"stamp", "stamping"}
Noted == session.exists /\ session.meta.warmed <= warmth.age
NotedInv ==
    /\ ~warmth.again
    /\ warmth.age <= WarmFor => warmth.excused \/ BeingNoted \/ Noted

HookInv == HookTypes /\ HeldInv /\ CarriedInv /\ NotedInv

LEMMA WarmForNat == WarmFor \in Nat /\ Never \in Nat /\ Never = WarmFor + 1
  BY RecallAssumption DEF Never

LEMMA LaterAge ==
    ASSUME NEW a \in Ages
    PROVE  Later(a) \in Ages /\ Later(a) >= a /\ (a = Never => Later(a) = Never)
  <1>1. a + 1 \in Int /\ Never \in Int /\ a \in Int
    BY WarmForNat DEF Ages
  <1>2. Later(a) = IF a + 1 <= Never THEN a + 1 ELSE Never
    BY <1>1, MinOf DEF Later
  <1>3. QED
    BY <1>1, <1>2, WarmForNat DEF Ages

LEMMA LaterKeeps ==
    ASSUME NEW a \in Ages, NEW b \in Ages, a <= b
    PROVE  Later(a) <= Later(b)
  <1>1. a + 1 \in Int /\ b + 1 \in Int /\ Never \in Int /\ a \in Int /\ b \in Int
    BY WarmForNat DEF Ages
  <1>2. /\ Later(a) = IF a + 1 <= Never THEN a + 1 ELSE Never
        /\ Later(b) = IF b + 1 <= Never THEN b + 1 ELSE Never
    BY <1>1, MinOf DEF Later
  <1>3. QED
    BY <1>1, <1>2

LEMMA AgedMeta ==
    ASSUME NEW m \in Meta \cup {<<>>}
    PROVE  /\ Aged(m) \in Meta \cup {<<>>}
           /\ m \in Meta => Aged(m) \in Meta /\ (Aged(m).warmed = m.warmed \/ Aged(m).warmed = Later(m.warmed))
  <1>1. CASE m = <<>>
    BY <1>1 DEF Aged
  <1>2. CASE m # <<>>
    <2>1. Aged(m) = [m EXCEPT !.warmed = Later(@)] /\ m \in Meta
      BY <1>2 DEF Aged
    <2>2. Later(m.warmed) \in Ages
      BY <2>1, LaterAge DEF Meta
    <2>3. QED
      BY <2>1, <2>2 DEF Meta
  <1>3. QED
    BY <1>1, <1>2

LEMMA NoHookType == NoHook \in Hook /\ NoHook.pc = "none"
  BY WarmForNat DEF NoHook, Hook, Ages

\* One hook goes on to another place, with another record.
LEMMA OneHook ==
    ASSUME HookTypes, NEW h \in Hooks, NEW r \in Hook, hook' = [hook EXCEPT ![h] = r]
    PROVE  hook' \in [Hooks -> Hook] /\ hook'[h] = r /\ \A g \in Hooks \ {h} : hook'[g] = hook[g]
  BY DEF HookTypes

LEMMA RecallInitInv == RecallInit => HookInv
  <1> SUFFICES ASSUME RecallInit
               PROVE  HookInv
    OBVIOUS
  <1>1. Never \in Ages /\ 0 \in Ages
    BY WarmForNat DEF Ages
  <1>2. HookTypes
    BY <1>1, NoHookType DEF RecallInit, HookTypes, Meta, NoTask
  <1>3. \A h \in Hooks : hook[h] = NoHook
    BY DEF RecallInit
  <1>4. HeldInv
    BY <1>3, NoHookType DEF RecallInit, HeldInv, Now, NoTask
  <1>5. CarriedInv
    BY <1>3 DEF RecallInit, CarriedInv, Now, NoHook
  <1>6. NotedInv
    BY WarmForNat DEF RecallInit, NotedInv
  <1>7. QED
    BY <1>2, <1>4, <1>5, <1>6 DEF HookInv

\* What a hook may become, with what it carries.
Fine(r) ==
    /\ r \in Hook
    /\ r.pc = "sending" => Injections(r) <= 1
    /\ r.pc \in {"storing", "searching"} => Injections(r) = 0
    /\ r.pc \notin {"sending", "storing", "searching"} => r.calls <= 1 /\ r.parts = 0 /\ r.own = 0

LEMMA FineHooks == HookTypes /\ CarriedInv => \A h \in Hooks : Fine(hook[h])
  BY DEF HookTypes, CarriedInv, Now, Fine

LEMMA CarriedOn ==
    ASSUME HookTypes, HookTypes', CarriedInv, NEW h \in Hooks, NEW r, hook' = [hook EXCEPT ![h] = r], Fine(r), history' <= 1
    PROVE  CarriedInv'
  <1>1. \A g \in Hooks : Fine(hook'[g])
    BY FineHooks DEF HookTypes
  <1>2. QED
    BY <1>1 DEF CarriedInv, Now, Fine

LEMMA HeldOn ==
    ASSUME HookTypes, HeldInv, NEW h \in Hooks, NEW r, hook' = [hook EXCEPT ![h] = r],
           r.pc = "stamping" => session'.exists /\ r.meta \in Meta,
           session.exists => session'.exists,
           task' = task \/ (task'.pc = "writing" => session'.exists /\ task'.meta \in Meta)
    PROVE  HeldInv'
  <1>1. ASSUME NEW g \in Hooks, hook'[g].pc = "stamping"
        PROVE  session'.exists /\ hook'[g].meta \in Meta
    BY <1>1 DEF HookTypes, HeldInv, Now
  <1>2. QED
    BY <1>1 DEF HeldInv, Now

LEMMA NotedOn ==
    ASSUME HookTypes, NotedInv, NEW h \in Hooks, NEW r \in Hook, hook' = [hook EXCEPT ![h] = r], warmth' = warmth,
           hook[h].pc \notin {"stamp", "stamping"},
           session.exists => session'.exists, session'.meta = session.meta
    PROVE  NotedInv'
  <1>1. BeingNoted => BeingNoted'
    BY DEF HookTypes, BeingNoted
  <1>2. Noted => Noted'
    BY DEF Noted
  <1>3. QED
    BY <1>1, <1>2 DEF NotedInv

\* The steps of a hook that does not warm up: one lemma for all of them.
LEMMA PlainStep ==
    ASSUME HookInv, NEW h \in Hooks, NEW r, hook' = [hook EXCEPT ![h] = r], Fine(r), r.pc # "stamping",
           hook[h].pc \notin {"stamp", "stamping"},
           UNCHANGED <<task, warmth>>, session' \in [exists : BOOLEAN, meta : Meta],
           session.exists => session'.exists, session'.meta = session.meta,
           history' \in Nat, history' <= 1
    PROVE  HookInv'
  <1>0. HookTypes /\ HeldInv /\ CarriedInv /\ NotedInv /\ r \in Hook
    BY DEF HookInv, Fine
  <1>1. HookTypes'
    BY <1>0, OneHook DEF HookTypes
  <1>2. HeldInv'
    BY <1>0, HeldOn
  <1>3. CarriedInv'
    BY <1>0, <1>1, CarriedOn
  <1>4. NotedInv'
    BY <1>0, NotedOn
  <1>5. QED
    BY <1>1, <1>2, <1>3, <1>4 DEF HookInv

LEMMA ArriveKeeps == HookInv /\ (\E h \in Hooks : Arrive(h)) => HookInv'
  <1> SUFFICES ASSUME HookInv, NEW h \in Hooks, Arrive(h)
               PROVE  HookInv'
    OBVIOUS
  <1> DEFINE q == [NoHook EXCEPT !.pc = "warm"]
             r == [NoHook EXCEPT !.pc = "warm", !.calls = history]
  <1>0. HookTypes /\ CarriedInv
    BY DEF HookInv
  <1>1. history \in Nat /\ history <= 1 /\ session \in [exists : BOOLEAN, meta : Meta]
    BY <1>0 DEF HookTypes, CarriedInv
  <1>2. q \in Hook /\ q.pc = "warm" /\ q.parts = 0 /\ q.own = 0
    BY NoHookType DEF NoHook, Hook
  <1>3. r \in Hook /\ r.pc = "warm" /\ r.calls = history /\ r.parts = 0 /\ r.own = 0
    BY NoHookType, <1>1 DEF NoHook, Hook
  <1>4. hook[h].pc = "none" /\ hook' = [hook EXCEPT ![h] = r] /\ UNCHANGED <<session, history, task, warmth>>
    BY DEF Arrive, Now
  <1> HIDE DEF r
  <1>5. Fine(r)
    BY <1>1, <1>3 DEF Fine
  <1>6. QED
    BY <1>1, <1>3, <1>4, <1>5, PlainStep

LEMMA CleanKeeps == HookInv /\ (\E h \in Hooks : Clean(h)) => HookInv'
  <1> SUFFICES ASSUME HookInv, NEW h \in Hooks, Clean(h)
               PROVE  HookInv'
    OBVIOUS
  <1>0. /\ Fine(hook[h]) /\ hook[h].pc = "body" /\ hook \in [Hooks -> Hook]
        /\ history \in Nat /\ history <= 1 /\ session \in [exists : BOOLEAN, meta : Meta]
        /\ UNCHANGED <<session, history, task, warmth>>
    BY FineHooks DEF HookInv, HookTypes, CarriedInv, Clean, Now
  <1>1. CASE hook' = [hook EXCEPT ![h].pc = "sending"]
    <2> DEFINE r == [hook[h] EXCEPT !.pc = "sending"]
    <2>0. hook[h] \in Hook /\ hook[h].calls <= 1 /\ hook[h].parts = 0 /\ hook[h].own = 0
      BY <1>0 DEF Fine
    <2>1. /\ r \in Hook /\ r.pc = "sending"
          /\ r.calls = hook[h].calls /\ r.parts = hook[h].parts /\ r.own = hook[h].own
      BY <2>0 DEF Hook
    <2>2. hook' = [hook EXCEPT ![h] = r]
      BY <1>0, <1>1
    <2> HIDE DEF r
    <2>3. Fine(r)
      BY <2>0, <2>1 DEF Fine, Injections, Hook
    <2>4. QED
      BY <1>0, <2>1, <2>2, <2>3, PlainStep
  <1>2. CASE hook' = [hook EXCEPT ![h] = Cleaned([@ EXCEPT !.pc = "storing"])]
    <2> DEFINE q == [hook[h] EXCEPT !.pc = "storing"]
               r == [q EXCEPT !.calls = 0, !.parts = 0, !.warm = FALSE]
    <2>1. q \in Hook /\ q.pc = "storing" /\ q.own = 0
      BY <1>0 DEF Fine, Hook
    <2>2. hook' = [hook EXCEPT ![h] = r]
      BY <1>0, <1>2 DEF Cleaned
    <2> HIDE DEF q
    <2>3. r \in Hook /\ r.pc = "storing" /\ r.calls = 0 /\ r.parts = 0 /\ r.own = 0
      BY <2>1 DEF Hook
    <2> HIDE DEF r
    <2>4. Fine(r)
      BY <2>3 DEF Fine, Injections
    <2>5. QED
      BY <1>0, <2>2, <2>3, <2>4, PlainStep
  <1>3. QED
    BY <1>1, <1>2 DEF Clean

LEMMA StoreMessageKeeps == HookInv /\ (\E h \in Hooks : StoreMessage(h)) => HookInv'
  <1> SUFFICES ASSUME HookInv, NEW h \in Hooks, StoreMessage(h)
               PROVE  HookInv'
    OBVIOUS
  <1>0. /\ Fine(hook[h]) /\ hook[h].pc = "storing" /\ hook \in [Hooks -> Hook]
        /\ history \in Nat /\ history <= 1 /\ session \in [exists : BOOLEAN, meta : Meta]
        /\ UNCHANGED <<history, task, warmth>>
    BY FineHooks DEF HookInv, HookTypes, CarriedInv, StoreMessage, Now
  <1>1. /\ session' \in [exists : BOOLEAN, meta : Meta] /\ session'.meta = session.meta
        /\ session.exists => session'.exists
    BY <1>0 DEF StoreMessage
  <1>2. PICK pc \in {"sending", "searching"} : hook' = [hook EXCEPT ![h].pc = pc]
    BY DEF StoreMessage
  <1> DEFINE r == [hook[h] EXCEPT !.pc = pc]
  <1>3. r \in Hook /\ r.pc = pc /\ Injections(r) = 0
    BY <1>0 DEF Fine, Hook, Injections
  <1>4. hook' = [hook EXCEPT ![h] = r]
    BY <1>0, <1>2
  <1> HIDE DEF r
  <1>5. Fine(r)
    BY <1>3 DEF Fine
  <1>6. QED
    BY <1>0, <1>1, <1>3, <1>4, <1>5, PlainStep

LEMMA InjectKeeps == HookInv /\ (\E h \in Hooks : Inject(h)) => HookInv'
  <1> SUFFICES ASSUME HookInv, NEW h \in Hooks, Inject(h)
               PROVE  HookInv'
    OBVIOUS
  <1> DEFINE q == [hook[h] EXCEPT !.pc = "sending"]
  <1>0. /\ Fine(hook[h]) /\ hook[h].pc = "searching" /\ hook \in [Hooks -> Hook]
        /\ history \in Nat /\ history <= 1 /\ session \in [exists : BOOLEAN, meta : Meta]
        /\ UNCHANGED <<session, history, task, warmth>>
    BY FineHooks DEF HookInv, HookTypes, CarriedInv, Inject, Now
  <1>7. hook[h] \in Hook /\ hook[h].calls = 0 /\ hook[h].parts = 0 /\ hook[h].own = 0
    BY <1>0 DEF Fine, Hook, Injections
  <1>1. q \in Hook /\ q.pc = "sending" /\ q.calls = 0 /\ q.parts = 0 /\ q.own = 0
    BY <1>7 DEF Hook
  <1>2. \E r \in {q, AsCall(q), AsPart(q), AsText(q)} : hook' = [hook EXCEPT ![h] = r]
    BY DEF Inject, Injected
  <1> HIDE DEF q
  <1>3. PICK r \in {q, AsCall(q), AsPart(q), AsText(q)} : hook' = [hook EXCEPT ![h] = r]
    BY <1>2
  <1>4. r \in Hook /\ r.pc = "sending" /\ Injections(r) <= 1
    <2>1. CASE r = q
      BY <1>1, <2>1 DEF Injections
    <2>2. CASE r = AsCall(q)
      BY <1>1, <2>2 DEF Injections, AsCall, Hook
    <2>3. CASE r = AsPart(q)
      BY <1>1, <2>3 DEF Injections, AsPart, Hook
    <2>4. CASE r = AsText(q)
      BY <1>1, <2>4 DEF Injections, AsText, Hook
    <2>5. QED
      BY <2>1, <2>2, <2>3, <2>4
  <1>5. Fine(r)
    BY <1>4 DEF Fine
  <1>6. QED
    BY <1>0, <1>3, <1>4, <1>5, PlainStep

LEMMA SendKeeps == HookInv /\ (\E h \in Hooks : Send(h)) => HookInv'
  <1> SUFFICES ASSUME HookInv, NEW h \in Hooks, Send(h)
               PROVE  HookInv'
    OBVIOUS
  <1>0. /\ Fine(hook[h]) /\ hook[h].pc = "sending" /\ hook' = [hook EXCEPT ![h] = NoHook]
        /\ session \in [exists : BOOLEAN, meta : Meta] /\ history' = hook[h].calls
        /\ UNCHANGED <<session, task, warmth>>
    BY FineHooks DEF HookInv, Send, Now, HookTypes
  <1>1. history' \in Nat /\ history' <= 1
    BY <1>0 DEF Fine, Injections, Hook
  <1>2. Fine(NoHook) /\ NoHook.pc = "none"
    BY NoHookType DEF Fine, NoHook
  <1>3. QED
    BY <1>0, <1>1, <1>2, PlainStep

-----------------------------------------------------------------------------
(* The warm-up and its note.                                               *)
LEMMA WarmUpKeeps == HookInv /\ (\E h \in Hooks : WarmUp(h)) => HookInv'
  <1> SUFFICES ASSUME HookInv, NEW h \in Hooks, WarmUp(h)
               PROVE  HookInv'
    OBVIOUS
  <1>0. /\ HookTypes /\ HeldInv /\ CarriedInv /\ NotedInv
        /\ Fine(hook[h]) /\ hook[h].pc = "warm" /\ hook \in [Hooks -> Hook] /\ history \in Nat /\ history <= 1
        /\ session \in [exists : BOOLEAN, meta : Meta] /\ warmth \in [age : Ages, excused : BOOLEAN, again : BOOLEAN]
        /\ UNCHANGED <<session, history, task>>
    BY FineHooks DEF HookInv, WarmUp, Now, HookTypes, CarriedInv
  <1>1. hook[h] \in Hook /\ hook[h].calls <= 1 /\ hook[h].parts = 0 /\ hook[h].own = 0
    BY <1>0 DEF Fine
  <1>2. CASE hook' = [hook EXCEPT ![h].pc = "body"] /\ UNCHANGED warmth
    <2> DEFINE r == [hook[h] EXCEPT !.pc = "body"]
    <2>1. r \in Hook /\ r.pc = "body" /\ r.calls = hook[h].calls /\ r.parts = hook[h].parts /\ r.own = hook[h].own
      BY <1>1 DEF Hook
    <2>2. hook' = [hook EXCEPT ![h] = r]
      BY <1>0, <1>2
    <2> HIDE DEF r
    <2>3. Fine(r)
      BY <1>1, <2>1 DEF Fine
    <2>4. QED
      BY <1>0, <1>2, <2>1, <2>2, <2>3, PlainStep
  <1>3. ASSUME NEW misread \in BOOLEAN, Warmed(h, misread), misread \/ ~Cooling
        PROVE  HookInv'
    <2> DEFINE q == [hook[h] EXCEPT !.pc = "stamp"]
               r == [q EXCEPT !.warm = TRUE]
    <2>1. q \in Hook /\ q.pc = "stamp" /\ q.calls = hook[h].calls /\ q.parts = hook[h].parts /\ q.own = hook[h].own
      BY <1>1 DEF Hook
    <2>2. hook' = [hook EXCEPT ![h] = r]
      BY <1>0, <1>3 DEF Warmed
    <2> HIDE DEF q
    <2>3. r \in Hook /\ r.pc = "stamp" /\ r.calls = q.calls /\ r.parts = q.parts /\ r.own = q.own
      BY <2>1 DEF Hook
    <2> HIDE DEF r
    <2>4. Fine(r)
      BY <1>1, <2>1, <2>3 DEF Fine
    <2>5. hook' \in [Hooks -> Hook] /\ hook'[h].pc = "stamp" /\ \A g \in Hooks \ {h} : hook'[g] = hook[g]
      BY <1>0, <2>2, <2>3, OneHook
    <2> DEFINE again == warmth.again \/ (warmth.age <= WarmFor /\ ~warmth.excused /\ ~Overlap(h) /\ ~misread)
    <2>6. warmth' = [[warmth EXCEPT !.age = 0] EXCEPT !.again = again]
      BY <1>3 DEF Warmed
    <2>7. ~again
      <3>1. CASE misread
        BY <1>0, <3>1 DEF NotedInv
      <3>2. CASE ~Cooling
        <4>1. ~Noted \/ ~(warmth.age <= WarmFor)
          BY <1>0, <3>2, WarmForNat DEF Noted, Cooling, Meta, Ages
        <4>2. BeingNoted => Overlap(h)
          BY <1>0 DEF BeingNoted, Overlap
        <4>3. QED
          BY <1>0, <4>1, <4>2 DEF NotedInv
      <3>3. QED
        BY <1>3, <3>1, <3>2
    <2>14. again = FALSE
      BY <2>7
    <2> HIDE DEF again
    <2> DEFINE v == [warmth EXCEPT !.age = 0]
    <2>15. v \in [age : Ages, excused : BOOLEAN, again : BOOLEAN]
      BY <1>0, WarmForNat DEF Ages
    <2>16. warmth' = [v EXCEPT !.again = FALSE]
      BY <2>6, <2>14
    <2> HIDE DEF v
    <2>8. warmth' \in [age : Ages, excused : BOOLEAN, again : BOOLEAN] /\ warmth'.again = FALSE
      BY <2>15, <2>16
    <2>9. HookTypes'
      BY <1>0, <2>5, <2>8 DEF HookTypes
    <2>10. HeldInv'
      BY <1>0, <2>2, <2>3, HeldOn
    <2>11. CarriedInv'
      BY <1>0, <2>2, <2>4, <2>9, CarriedOn
    <2>12. NotedInv'
      BY <2>5, <2>8 DEF NotedInv, BeingNoted
    <2>13. QED
      BY <2>9, <2>10, <2>11, <2>12 DEF HookInv
  <1>4. QED
    BY <1>2, <1>3 DEF WarmUp

LEMMA StampReadKeeps == HookInv /\ (\E h \in Hooks : StampRead(h)) => HookInv'
  <1> SUFFICES ASSUME HookInv, NEW h \in Hooks, StampRead(h)
               PROVE  HookInv'
    OBVIOUS
  <1>0. /\ HookTypes /\ HeldInv /\ CarriedInv /\ NotedInv
        /\ Fine(hook[h]) /\ hook[h].pc = "stamp" /\ hook \in [Hooks -> Hook] /\ history <= 1
        /\ session \in [exists : BOOLEAN, meta : Meta] /\ warmth \in [age : Ages, excused : BOOLEAN, again : BOOLEAN]
        /\ UNCHANGED <<session, history, task>>
    BY FineHooks DEF HookInv, StampRead, Now, HookTypes, CarriedInv
  <1>1. hook[h] \in Hook /\ hook[h].calls <= 1 /\ hook[h].parts = 0 /\ hook[h].own = 0
    BY <1>0 DEF Fine
  <1>2. CASE session.exists /\ hook' = [hook EXCEPT ![h].pc = "stamping", ![h].meta = session.meta] /\ UNCHANGED warmth
    <2> DEFINE q == [hook[h] EXCEPT !.pc = "stamping"]
               r == [q EXCEPT !.meta = session.meta]
    <2>1. q \in Hook /\ q.pc = "stamping" /\ q.calls = hook[h].calls /\ q.parts = hook[h].parts /\ q.own = hook[h].own
      BY <1>1 DEF Hook
    <2>2. hook' = [hook EXCEPT ![h] = r]
      BY <1>0, <1>2
    <2> HIDE DEF q
    <2>3. session.meta \in Meta
      BY <1>0
    <2>4. /\ r \in Hook /\ r.pc = "stamping" /\ r.calls = q.calls /\ r.parts = q.parts /\ r.own = q.own
          /\ r.meta = session.meta
      BY <2>1, <2>3 DEF Hook
    <2> HIDE DEF r
    <2>5. Fine(r)
      BY <1>1, <2>1, <2>4 DEF Fine
    <2>6. HookTypes'
      BY <1>0, <1>2, <2>2, <2>4, OneHook DEF HookTypes
    <2>12. HookTypes /\ HeldInv /\ session' = session /\ task' = task /\ session.exists
      BY <1>0, <1>2
    <2>13. r.pc = "stamping" => session'.exists /\ r.meta \in Meta
      BY <2>3, <2>4, <2>12
    <2>7. HeldInv'
      BY <2>2, <2>12, <2>13, HeldOn
    <2>8. CarriedInv'
      BY <1>0, <2>2, <2>5, <2>6, CarriedOn
    <2>9. BeingNoted'
      BY <1>0, <2>2, <2>4 DEF BeingNoted
    <2>10. NotedInv'
      BY <1>0, <1>2, <2>9 DEF NotedInv
    <2>11. QED
      BY <2>6, <2>7, <2>8, <2>10 DEF HookInv
  <1>3. CASE hook' = [hook EXCEPT ![h].pc = "body", ![h].age = 0] /\ warmth' = [warmth EXCEPT !.excused = TRUE]
    <2> DEFINE q == [hook[h] EXCEPT !.pc = "body"]
               r == [q EXCEPT !.age = 0]
    <2>1. q \in Hook /\ q.pc = "body" /\ q.calls = hook[h].calls /\ q.parts = hook[h].parts /\ q.own = hook[h].own
      BY <1>1 DEF Hook
    <2>2. hook' = [hook EXCEPT ![h] = r]
      BY <1>0, <1>3
    <2> HIDE DEF q
    <2>3. r \in Hook /\ r.pc = "body" /\ r.calls = q.calls /\ r.parts = q.parts /\ r.own = q.own
      BY <2>1, WarmForNat DEF Hook, Ages
    <2> HIDE DEF r
    <2>4. Fine(r)
      BY <1>1, <2>1, <2>3 DEF Fine
    <2>5. /\ warmth' \in [age : Ages, excused : BOOLEAN, again : BOOLEAN]
          /\ warmth'.excused /\ warmth'.again = warmth.again
      BY <1>0, <1>3
    <2>6. HookTypes'
      BY <1>0, <2>2, <2>3, <2>5, OneHook DEF HookTypes
    <2>7. HeldInv'
      BY <1>0, <2>2, <2>3, HeldOn
    <2>8. CarriedInv'
      BY <1>0, <2>2, <2>4, <2>6, CarriedOn
    <2>9. NotedInv'
      BY <1>0, <2>5 DEF NotedInv
    <2>10. QED
      BY <2>6, <2>7, <2>8, <2>9 DEF HookInv
  <1>4. QED
    BY <1>2, <1>3 DEF StampRead

LEMMA UpdatedMeta ==
    /\ \A m \in Meta, a \in Ages : Updated(m, "warmed", a) \in Meta /\ Updated(m, "warmed", a).warmed = a
    /\ \A m \in Meta, i \in Nat : Updated(m, "index", i) \in Meta /\ Updated(m, "index", i).warmed = m.warmed
  BY DEF Updated, Meta

LEMMA StampWriteKeeps == HookInv /\ (\E h \in Hooks : StampWrite(h)) => HookInv'
  <1> SUFFICES ASSUME HookInv, NEW h \in Hooks, StampWrite(h)
               PROVE  HookInv'
    OBVIOUS
  <1> DEFINE q == [hook[h] EXCEPT !.pc = "body"]
             p == [q EXCEPT !.age = 0]
             r == [p EXCEPT !.meta = <<>>]
  <1>0. /\ HookTypes /\ HeldInv /\ CarriedInv /\ NotedInv
        /\ Fine(hook[h]) /\ hook[h].pc = "stamping" /\ hook \in [Hooks -> Hook] /\ history <= 1
        /\ session \in [exists : BOOLEAN, meta : Meta] /\ warmth \in [age : Ages, excused : BOOLEAN, again : BOOLEAN]
        /\ session.exists /\ hook[h].meta \in Meta /\ hook[h].age \in Ages
        /\ UNCHANGED <<history, task>>
    BY FineHooks DEF HookInv, StampWrite, Now, HookTypes, CarriedInv, HeldInv, Hook
  <1>1. hook[h] \in Hook /\ hook[h].calls <= 1 /\ hook[h].parts = 0 /\ hook[h].own = 0
    BY <1>0 DEF Fine
  <1>2. q \in Hook /\ q.pc = "body" /\ q.calls = hook[h].calls /\ q.parts = hook[h].parts /\ q.own = hook[h].own
    BY <1>1 DEF Hook
  <1>3. hook' = [hook EXCEPT ![h] = r]
    BY <1>0 DEF StampWrite
  <1> HIDE DEF q
  <1>4. p \in Hook /\ p.pc = "body" /\ p.calls = q.calls /\ p.parts = q.parts /\ p.own = q.own
    BY <1>2, WarmForNat DEF Hook, Ages
  <1> HIDE DEF p
  <1>5. r \in Hook /\ r.pc = "body" /\ r.calls = p.calls /\ r.parts = p.parts /\ r.own = p.own
    BY <1>4 DEF Hook
  <1> HIDE DEF r
  <1>6. Fine(r)
    BY <1>1, <1>2, <1>4, <1>5 DEF Fine
  <1>7. /\ session' \in [exists : BOOLEAN, meta : Meta] /\ session'.exists
        /\ warmth' \in [age : Ages, excused : BOOLEAN, again : BOOLEAN] /\ ~warmth'.again
        /\ warmth'.excused \/ Noted'
    <2>1. CASE /\ session' = [session EXCEPT !.meta = Updated(hook[h].meta, "warmed", hook[h].age)]
               /\ warmth' = [warmth EXCEPT !.excused = hook[h].age > warmth.age]
      <3>1. Updated(hook[h].meta, "warmed", hook[h].age) \in Meta /\ Updated(hook[h].meta, "warmed", hook[h].age).warmed = hook[h].age
        BY <1>0, UpdatedMeta
      <3>2. session' \in [exists : BOOLEAN, meta : Meta] /\ session'.exists /\ session'.meta.warmed = hook[h].age
        BY <1>0, <2>1, <3>1
      <3> DEFINE newer == hook[h].age > warmth.age
      <3>6. newer \in BOOLEAN /\ warmth' = [warmth EXCEPT !.excused = newer]
        BY <2>1
      <3>7. newer \/ ~ hook[h].age > warmth.age
        OBVIOUS
      <3> HIDE DEF newer
      <3>3. /\ warmth' \in [age : Ages, excused : BOOLEAN, again : BOOLEAN] /\ warmth'.again = warmth.again
            /\ warmth'.age = warmth.age /\ warmth'.excused = newer
        BY <1>0, <3>6
      <3>4. warmth.age \in Nat /\ hook[h].age \in Nat
        BY <1>0, WarmForNat DEF Ages
      <3>5. QED
        BY <1>0, <3>2, <3>3, <3>4, <3>7 DEF Noted, NotedInv
    <2>2. CASE warmth' = [warmth EXCEPT !.excused = TRUE] /\ UNCHANGED session
      BY <1>0, <2>2 DEF NotedInv
    <2>3. QED
      BY <2>1, <2>2 DEF StampWrite
  <1>8. HookTypes'
    BY <1>0, <1>3, <1>5, <1>7, OneHook DEF HookTypes
  <1>9. HeldInv'
    BY <1>0, <1>3, <1>5, <1>7, HeldOn
  <1>10. CarriedInv'
    BY <1>0, <1>3, <1>6, <1>8, CarriedOn
  <1>11. NotedInv'
    BY <1>7 DEF NotedInv
  <1>12. QED
    BY <1>8, <1>9, <1>10, <1>11 DEF HookInv

-----------------------------------------------------------------------------
(* The storage task, and the clock.                                        *)
LEMMA TaskReadKeeps == HookInv /\ TaskRead => HookInv'
  <1> SUFFICES ASSUME HookInv, TaskRead
               PROVE  HookInv'
    OBVIOUS
  <1>0. /\ HookTypes /\ HeldInv /\ CarriedInv /\ NotedInv
        /\ session.exists /\ session.meta \in Meta /\ session.meta.index \in Nat
        /\ UNCHANGED <<session, history, hook, warmth>>
    BY DEF HookInv, TaskRead, HookTypes, Meta
  <1>1. task' = [pc |-> "writing", meta |-> session.meta, index |-> session.meta.index + 1]
    BY DEF TaskRead
  <1>2. task' \in [pc : {"none", "writing"}, meta : Meta \cup {<<>>}, index : Nat] /\ task'.meta \in Meta
    BY <1>0, <1>1
  <1>3. HookTypes'
    BY <1>0, <1>2 DEF HookTypes
  <1>4. HeldInv'
    BY <1>0, <1>2 DEF HeldInv, Now
  <1>5. CarriedInv' /\ NotedInv'
    BY <1>0 DEF CarriedInv, NotedInv, BeingNoted, Noted, Now
  <1>6. QED
    BY <1>3, <1>4, <1>5 DEF HookInv

LEMMA TaskWriteKeeps == HookInv /\ TaskWrite => HookInv'
  <1> SUFFICES ASSUME HookInv, TaskWrite
               PROVE  HookInv'
    OBVIOUS
  <1> DEFINE m == Updated(task.meta, "index", task.index)
             older == warmth.excused \/ task.meta.warmed > session.meta.warmed
  <1>0. /\ HookTypes /\ HeldInv /\ CarriedInv /\ NotedInv
        /\ session \in [exists : BOOLEAN, meta : Meta] /\ warmth \in [age : Ages, excused : BOOLEAN, again : BOOLEAN]
        /\ session.exists /\ task.meta \in Meta /\ task.index \in Nat
        /\ UNCHANGED <<history, hook>>
    BY DEF HookInv, TaskWrite, HookTypes, HeldInv
  <1>1. m \in Meta /\ m.warmed = task.meta.warmed
    BY <1>0, UpdatedMeta
  <1>2. task' = NoTask /\ session' = [session EXCEPT !.meta = m] /\ warmth' = [warmth EXCEPT !.excused = older]
    BY DEF TaskWrite
  <1>3. older \in BOOLEAN
    BY <1>0
  <1>4. older \/ (~warmth.excused /\ ~ task.meta.warmed > session.meta.warmed)
    OBVIOUS
  <1>5. warmth.age \in Nat /\ task.meta.warmed \in Nat /\ session.meta.warmed \in Nat
    BY <1>0, WarmForNat DEF Meta, Ages
  <1> HIDE DEF m, older
  <1>6. session' \in [exists : BOOLEAN, meta : Meta] /\ session'.exists /\ session'.meta = m
    BY <1>0, <1>1, <1>2
  <1>7. /\ warmth' \in [age : Ages, excused : BOOLEAN, again : BOOLEAN] /\ warmth'.again = warmth.again
        /\ warmth'.age = warmth.age /\ warmth'.excused = older
    BY <1>0, <1>2, <1>3
  <1>8. HookTypes'
    BY <1>0, <1>2, <1>6, <1>7 DEF HookTypes, NoTask
  <1>9. HeldInv'
    BY <1>0, <1>2, <1>6 DEF HeldInv, Now, NoTask
  <1>10. CarriedInv'
    BY <1>0 DEF CarriedInv, Now
  <1>11. ASSUME warmth'.age <= WarmFor, ~warmth'.excused
         PROVE  BeingNoted' \/ Noted'
    <2>1. BeingNoted \/ Noted
      BY <1>0, <1>4, <1>7, <1>11 DEF NotedInv
    <2>2. BeingNoted => BeingNoted'
      BY <1>0 DEF BeingNoted
    <2>3. Noted => Noted'
      BY <1>1, <1>4, <1>5, <1>6, <1>7, <1>11 DEF Noted
    <2>4. QED
      BY <2>1, <2>2, <2>3
  <1>12. NotedInv'
    BY <1>0, <1>7, <1>11 DEF NotedInv
  <1>13. QED
    BY <1>8, <1>9, <1>10, <1>12 DEF HookInv

\* What the clock does to a hook: it stays where it is, with what it carries.
OlderHook(r) ==
    IF r.pc \in {"stamp", "stamping"} THEN [r EXCEPT !.age = Later(@), !.meta = Aged(@)] ELSE r

LEMMA OlderHookIs ==
    ASSUME NEW r \in Hook
    PROVE  /\ OlderHook(r) \in Hook /\ OlderHook(r).pc = r.pc
           /\ OlderHook(r).calls = r.calls /\ OlderHook(r).parts = r.parts /\ OlderHook(r).own = r.own
           /\ r.meta \in Meta => OlderHook(r).meta \in Meta
  <1>1. CASE r.pc \notin {"stamp", "stamping"}
    BY <1>1 DEF OlderHook
  <1>2. CASE r.pc \in {"stamp", "stamping"}
    <2> DEFINE q == [r EXCEPT !.age = Later(r.age)]
               s == [q EXCEPT !.meta = Aged(r.meta)]
    <2>1. Later(r.age) \in Ages /\ Aged(r.meta) \in Meta \cup {<<>>} /\ (r.meta \in Meta => Aged(r.meta) \in Meta)
      BY LaterAge, AgedMeta DEF Hook
    <2>2. q \in Hook /\ q.pc = r.pc /\ q.calls = r.calls /\ q.parts = r.parts /\ q.own = r.own
      BY <2>1 DEF Hook
    <2>3. OlderHook(r) = s
      BY <1>2 DEF OlderHook, Hook
    <2> HIDE DEF q
    <2>4. s \in Hook /\ s.pc = q.pc /\ s.calls = q.calls /\ s.parts = q.parts /\ s.own = q.own /\ s.meta = Aged(r.meta)
      BY <2>1, <2>2 DEF Hook
    <2> HIDE DEF s
    <2>5. QED
      BY <2>1, <2>2, <2>3, <2>4
  <1>3. QED
    BY <1>1, <1>2

LEMMA TimePassesKeeps == HookInv /\ TimePasses => HookInv'
  <1> SUFFICES ASSUME HookInv, TimePasses
               PROVE  HookInv'
    OBVIOUS
  <1>0. /\ HookTypes /\ HeldInv /\ CarriedInv /\ NotedInv
        /\ session \in [exists : BOOLEAN, meta : Meta] /\ warmth \in [age : Ages, excused : BOOLEAN, again : BOOLEAN]
        /\ hook \in [Hooks -> Hook] /\ task \in [pc : {"none", "writing"}, meta : Meta \cup {<<>>}, index : Nat]
        /\ UNCHANGED history
    BY DEF HookInv, TimePasses, HookTypes
  <1>1. /\ session' = [session EXCEPT !.meta = Aged(session.meta)]
        /\ task' = [task EXCEPT !.meta = Aged(task.meta)]
        /\ warmth' = [warmth EXCEPT !.age = Later(warmth.age)]
    BY DEF TimePasses
  <1>2. hook' = [h \in Hooks |-> OlderHook(hook[h])]
    BY DEF TimePasses, OlderHook
  <1>3. /\ Aged(session.meta) \in Meta
        /\ Aged(session.meta).warmed = session.meta.warmed \/ Aged(session.meta).warmed = Later(session.meta.warmed)
        /\ Aged(task.meta) \in Meta \cup {<<>>} /\ (task.meta \in Meta => Aged(task.meta) \in Meta)
    BY <1>0, AgedMeta
  <1>4. /\ session' \in [exists : BOOLEAN, meta : Meta] /\ session'.exists = session.exists
        /\ session'.meta = Aged(session.meta)
    BY <1>0, <1>1, <1>3
  <1>5. /\ task' \in [pc : {"none", "writing"}, meta : Meta \cup {<<>>}, index : Nat]
        /\ task'.pc = task.pc /\ (task.meta \in Meta => task'.meta \in Meta)
    BY <1>0, <1>1, <1>3
  <1>6. warmth.age \in Ages /\ Later(warmth.age) \in Ages /\ Later(warmth.age) >= warmth.age
    BY <1>0, LaterAge
  <1>7. /\ warmth' \in [age : Ages, excused : BOOLEAN, again : BOOLEAN] /\ warmth'.again = warmth.again
        /\ warmth'.excused = warmth.excused /\ warmth'.age = Later(warmth.age)
    BY <1>0, <1>1, <1>6
  <1>8. \A h \in Hooks :
          /\ hook'[h] \in Hook /\ hook'[h].pc = hook[h].pc
          /\ hook'[h].calls = hook[h].calls /\ hook'[h].parts = hook[h].parts /\ hook'[h].own = hook[h].own
          /\ hook[h].meta \in Meta => hook'[h].meta \in Meta
    BY <1>0, <1>2, OlderHookIs
  <1>9. HookTypes'
    BY <1>0, <1>2, <1>4, <1>5, <1>7, <1>8 DEF HookTypes
  <1>10. HeldInv'
    BY <1>0, <1>4, <1>5, <1>8 DEF HeldInv, Now
  <1>11. CarriedInv'
    BY <1>0, <1>8 DEF CarriedInv, Now, Injections
  <1>12. ASSUME warmth'.age <= WarmFor, ~warmth'.excused
         PROVE  BeingNoted' \/ Noted'
    <2>1. warmth.age \in Nat /\ Later(warmth.age) \in Nat /\ WarmFor \in Nat
      BY <1>6, WarmForNat DEF Ages
    <2>2. BeingNoted \/ Noted
      BY <1>0, <1>6, <1>7, <1>12, <2>1 DEF NotedInv
    <2>3. BeingNoted => BeingNoted'
      BY <1>8 DEF BeingNoted
    <2>4. ASSUME Noted
          PROVE  Noted'
      <3>1. session.meta.warmed \in Ages /\ session.meta.warmed <= warmth.age /\ session.exists
        BY <1>0, <2>4 DEF Noted, Meta
      <3>2. Later(session.meta.warmed) <= Later(warmth.age)
        BY <1>6, <3>1, LaterKeeps
      <3>3. session.meta.warmed <= Later(warmth.age)
        BY <1>6, <2>1, <3>1, WarmForNat DEF Ages
      <3>4. session'.meta.warmed <= warmth'.age
        BY <1>3, <1>4, <1>7, <3>2, <3>3
      <3>5. QED
        BY <1>4, <3>1, <3>4 DEF Noted
    <2>5. QED
      BY <2>2, <2>3, <2>4
  <1>13. NotedInv'
    BY <1>0, <1>7, <1>12 DEF NotedInv
  <1>14. QED
    BY <1>9, <1>10, <1>11, <1>13 DEF HookInv

-----------------------------------------------------------------------------
LEMMA RecallNextInv == HookInv /\ [RecallNext]_recallvars => HookInv'
  <1> SUFFICES ASSUME HookInv, [RecallNext]_recallvars
               PROVE  HookInv'
    OBVIOUS
  <1>1. CASE \E h \in Hooks : HookStep(h)
    BY <1>1, ArriveKeeps, WarmUpKeeps, StampReadKeeps, StampWriteKeeps, CleanKeeps, StoreMessageKeeps,
       InjectKeeps, SendKeeps DEF HookStep
  <1>2. CASE UNCHANGED recallvars
    BY <1>2 DEF recallvars, HookInv, HookTypes, HeldInv, CarriedInv, NotedInv, BeingNoted, Noted, Now
  <1>3. QED
    BY <1>1, <1>2, TaskReadKeeps, TaskWriteKeeps, TimePassesKeeps DEF RecallNext

(* Whatever overlaps, fails or is written over: a request carries the      *)
(* memories once, and a session is warmed again within six hours only when *)
(* one of the named causes kept the first warm-up from being noted.        *)
THEOREM RequestsAreSound == RecallInit /\ [][RecallNext]_recallvars => []RequestsSound
  <1>1. HookInv => RequestsSound
    BY DEF HookInv, HookTypes, CarriedInv, NotedInv, RequestsSound, OneInjection, WarmAgainExplained, Now, Injections
  <1>2. QED
    BY <1>1, RecallInitInv, RecallNextInv, PTL

-----------------------------------------------------------------------------
(* Gate: a candidate becomes a memory twice only for a reason.             *)
RowState == [text : Texts, score : Int, status : {"candidate", "pending", "closed", "confirmed"},
             mem : BOOLEAN, stored : 0 .. 2]
Scheduler == [armed : BOOLEAN, since : 0 .. Idle + Defer, quiet : Nat, fuse : Nat, retry : Nat,
              failures : 0 .. FuseFailures]
\* At n rows.
ReplyAt(n) == {x \in [pc : {"none", "adding", "stored"}, todo : SUBSET (1 .. n), doing : 0 .. n] :
                  x.doing = 0 <=> x.pc = "none"}
RoundAt(n) == {x \in [pc : {"off", "begin", "llm", "adding", "stored"}, open : SUBSET (1 .. n),
                      doing : 0 .. n] :
                  /\ x.doing # 0 <=> x.pc \in {"adding", "stored"}
                  /\ Cardinality(x.open) <= MaxRound}

\* One coroutine is at a candidate, and what was stored is marked or its
\* coroutine is about to mark it.
OnceFor(c, row, rep, rnd, pg) ==
    /\ row.stored <= 1
    /\ \A r \in Replies : rep[r].doing = c =>
          /\ \A q \in Replies : rep[q].doing = c => q = r
          /\ rnd.doing # c /\ pg # c
          /\ row.stored = 1 <=> rep[r].pc = "stored"
    /\ rnd.doing = c => pg # c /\ (row.stored = 1 <=> rnd.pc = "stored")
    /\ pg = c => row.stored = 0
    /\ row.stored = 1 =>
          row.mem \/ (\E r \in Replies : rep[r].doing = c) \/ rnd.doing = c \/ pg = c
OnceIn(rs, rep, rnd, pg, exc) ==
    \A c \in 1 .. Len(rs) : c \in exc \/ OnceFor(c, rs[c], rep, rnd, pg)
Sound(rs, rep, rnd, pg, exc) ==
    /\ rs \in Seq(RowState) /\ rep \in [Replies -> ReplyAt(Len(rs))]
    /\ rnd \in RoundAt(Len(rs)) /\ pg \in 0 .. Len(rs)
    /\ OnceIn(rs, rep, rnd, pg, exc)

GateInv ==
    /\ Sound(rows, reply, round, page, excused)
    /\ Len(rows) <= MaxRows /\ prints \subseteq Texts /\ manual \subseteq Texts
    /\ sch \in Scheduler

-----------------------------------------------------------------------------
(* The library's operators, and the rows.                                  *)
LEMMA LeastOf ==
    ASSUME NEW S, S \subseteq Nat, S # {}
    PROVE  \E x \in S : \A y \in S : x <= y
  <1> DEFINE R == {p \in Nat \X Nat : p[1] < p[2]}
  <1>1. R = OpToRel(<, Nat)
    BY DEF OpToRel
  <1>2. IsWellFoundedOn(R, Nat)
    BY <1>1, NatLessThanWellFounded
  <1>3. \E x \in S : \A y \in S : ~ (<<y, x>> \in R)
    <2> HIDE DEF R
    <2> QED BY <1>2, WFMin
  <1>4. PICK x \in S : \A y \in S : ~ (<<y, x>> \in R)
    BY <1>3
  <1>5. ASSUME NEW y \in S PROVE x <= y
    <2>1. <<y, x>> \notin R /\ x \in Nat /\ y \in Nat
      BY <1>4
    <2> QED BY <2>1
  <1> QED BY <1>5

LEMMA MinIn ==
    ASSUME NEW S, S \subseteq Nat, S # {}
    PROVE  Min(S) \in S
  BY LeastOf DEF Min

LEMMA SeqOf ==
    ASSUME NEW S, NEW n \in Nat, NEW f \in [1 .. n -> S]
    PROVE  f \in Seq(S) /\ Len(f) = n /\ DOMAIN f = 1 .. n
  <1>1. f \in Seq(S)
    BY SeqDef
  <1>2. Len(f) \in Nat /\ DOMAIN f = 1 .. Len(f)
    BY <1>1, LenProperties
  <1>3. 1 .. Len(f) = 1 .. n
    BY <1>2
  <1>4. Len(f) = n
    BY <1>2, <1>3
  <1> QED BY <1>1, <1>4

LEMMA CardShrinks ==
    ASSUME NEW n \in Nat, NEW S \in SUBSET (1 .. n), NEW T \in SUBSET S
    PROVE  Cardinality(T) \in Nat /\ Cardinality(T) <= Cardinality(S)
  <1>1. IsFiniteSet(1 .. n)
    BY FS_Interval
  <1>2. IsFiniteSet(S)
    BY <1>1, FS_Subset
  <1> QED BY <1>2, FS_Subset, FS_CardinalityType

\* A row was added, perhaps, and what is known of the memories is as it was.
Grown(rs, new) ==
    /\ new \in Seq(RowState) /\ Len(rs) <= Len(new)
    /\ \A c \in 1 .. Len(rs) : new[c].mem = rs[c].mem /\ new[c].stored = rs[c].stored
    /\ \A c \in 1 .. Len(new) : c > Len(rs) => new[c].stored = 0

LEMMA RowChanged ==
    ASSUME NEW rs \in Seq(RowState), NEW c \in 1 .. Len(rs), NEW row \in RowState
    PROVE  LET new == [rs EXCEPT ![c] = row] IN
           /\ new \in Seq(RowState) /\ Len(new) = Len(rs)
           /\ \A d \in 1 .. Len(rs) : new[d] = IF d = c THEN row ELSE rs[d]
  BY ExceptSeq

LEMMA GrownByOne ==
    ASSUME NEW rs \in Seq(RowState), NEW row \in RowState, row.stored = 0
    PROVE  Grown(rs, Append(rs, row)) /\ Len(Append(rs, row)) = Len(rs) + 1
  <1>1. /\ Append(rs, row) \in Seq(RowState) /\ Len(Append(rs, row)) = Len(rs) + 1
        /\ \A c \in 1 .. Len(rs) : Append(rs, row)[c] = rs[c]
        /\ Append(rs, row)[Len(rs) + 1] = row /\ Len(rs) \in Nat
    OBVIOUS
  <1>2. \A c \in 1 .. Len(rs) + 1 : c > Len(rs) => c = Len(rs) + 1
    BY <1>1
  <1> QED BY <1>1, <1>2 DEF Grown

LEMMA GrownNot ==
    ASSUME NEW rs \in Seq(RowState)
    PROVE  Grown(rs, rs)
  <1>1. Len(rs) \in Nat
    OBVIOUS
  <1> QED BY <1>1 DEF Grown

LEMMA GrownByField ==
    ASSUME NEW rs \in Seq(RowState), NEW f \in [1 .. Len(rs) -> RowState],
           \A c \in 1 .. Len(rs) : f[c].mem = rs[c].mem /\ f[c].stored = rs[c].stored
    PROVE  Grown(rs, f) /\ Len(f) = Len(rs)
  <1>1. Len(rs) \in Nat
    OBVIOUS
  <1>2. f \in Seq(RowState) /\ Len(f) = Len(rs)
    BY <1>1, SeqOf
  <1> QED BY <1>1, <1>2 DEF Grown

LEMMA EnterGrows ==
    ASSUME NEW rs \in Seq(RowState), NEW t \in Texts
    PROVE  Grown(rs, Enter(rs, t))
  <1> DEFINE s == Worth(t)
             near == {c \in DOMAIN rs : c > Len(rs) - Recent}
             best == Max({0} \cup {Likeness[rs[c].text, t] : c \in near})
             twin == Max({0} \cup {c \in near : Likeness[rs[c].text, t] = best})
             final == IF best >= PenaltyJ THEN (s * Penalty) \div 100 ELSE s
             raised == [rs EXCEPT ![twin].score = Max({@, s})]
  <1>1. s \in Int /\ Penalty \in Int
    BY GateAssumption DEF Worth
  <1>2. final \in Int
    <2>1. (s * Penalty) \div 100 \in Int
      <3>1. s * Penalty \in Int
        BY <1>1
      <3> QED BY <3>1
    <2> QED BY <1>1, <2>1
  <1>3. \A v \in Int, st \in {"closed", "candidate"} :
          Row(t, v, st) \in RowState /\ Row(t, v, st).stored = 0
    BY DEF Row, RowState
  <1>4. Grown(rs, raised)
    <2>1. rs \in [1 .. Len(rs) -> RowState] /\ Len(rs) \in Nat
      BY LenProperties
    <2>2. \A c \in 1 .. Len(rs) : rs[c].score \in Int /\ Max({rs[c].score, s}) \in Int
      BY <1>1, <2>1, MaxOf DEF RowState
    <2> HIDE DEF s, twin
    <2>3. \A c \in 1 .. Len(rs) : raised[c] = IF c = twin THEN [rs[c] EXCEPT !.score = Max({rs[c].score, s})]
                                               ELSE rs[c]
      BY <2>1
    <2>4. \A c \in 1 .. Len(rs) : [rs[c] EXCEPT !.score = Max({rs[c].score, s})] \in RowState
      BY <2>1, <2>2 DEF RowState
    <2>5. DOMAIN raised = 1 .. Len(rs) /\ raised = [c \in DOMAIN raised |-> raised[c]]
      BY <2>1
    <2>6. raised \in [1 .. Len(rs) -> RowState]
      BY <2>1, <2>3, <2>4, <2>5
    <2>7. \A c \in 1 .. Len(rs) : raised[c].mem = rs[c].mem /\ raised[c].stored = rs[c].stored
      BY <2>1, <2>3 DEF RowState
    <2> HIDE DEF raised
    <2> QED BY <2>6, <2>7, GrownByField
  <1>5. Enter(rs, t) \in {rs, raised, Append(rs, Row(t, s, "closed")), Append(rs, Row(t, final, "candidate"))}
    BY DEF Enter
  <1> HIDE DEF s, final, raised
  <1> QED BY <1>1, <1>2, <1>3, <1>4, <1>5, GrownByOne, GrownNot

-----------------------------------------------------------------------------
(* What the coroutines do with a candidate.                                *)
LEMMA SoundAt ==
    ASSUME NEW rs, NEW rep, NEW rnd, NEW pg, NEW exc, Sound(rs, rep, rnd, pg, exc)
    PROVE  /\ Len(rs) \in Nat /\ DOMAIN rs = 1 .. Len(rs) /\ rs \in [1 .. Len(rs) -> RowState]
           /\ \A r \in Replies :
                 /\ rep[r].todo \in SUBSET (1 .. Len(rs)) /\ rep[r].doing \in 0 .. Len(rs)
                 /\ rep[r].pc \in {"none", "adding", "stored"}
                 /\ rep[r].doing = 0 <=> rep[r].pc = "none"
           /\ rnd.open \in SUBSET (1 .. Len(rs)) /\ rnd.doing \in 0 .. Len(rs)
           /\ rnd.doing # 0 <=> rnd.pc \in {"adding", "stored"}
           /\ Cardinality(rnd.open) <= MaxRound
           /\ pg \in 0 .. Len(rs)
  <1>1. rs \in Seq(RowState)
    BY DEF Sound
  <1>2. Len(rs) \in Nat /\ DOMAIN rs = 1 .. Len(rs) /\ rs \in [1 .. Len(rs) -> RowState]
    BY <1>1, LenProperties
  <1>3. \A r \in Replies : rep[r] \in ReplyAt(Len(rs))
    BY DEF Sound
  <1>4. rnd \in RoundAt(Len(rs)) /\ pg \in 0 .. Len(rs)
    BY DEF Sound
  <1> QED BY <1>2, <1>3, <1>4 DEF ReplyAt, RoundAt

LEMMA NoneTyped ==
    ASSUME NEW n \in Nat
    PROVE  NoReply \in ReplyAt(n) /\ NoRound \in RoundAt(n)
  <1>1. NoReply \in ReplyAt(n)
    BY DEF NoReply, ReplyAt
  <1>2. Cardinality({}) = 0 /\ 0 <= MaxRound
    BY FS_EmptySet, GateAssumption
  <1>3. NoRound \in RoundAt(n)
    BY <1>2 DEF NoRound, RoundAt
  <1> QED BY <1>1, <1>3

LEMMA GrownSound ==
    ASSUME NEW rs, NEW rep, NEW rnd, NEW pg, NEW exc, Sound(rs, rep, rnd, pg, exc),
           NEW new, Grown(rs, new)
    PROVE  Sound(new, rep, rnd, pg, exc)
  <1> DEFINE n == Len(rs)  m == Len(new)
  <1>1. new \in Seq(RowState) /\ n \in Nat /\ m \in Nat /\ n <= m
    BY SoundAt, LenProperties DEF Grown
  <1>2. ReplyAt(n) \subseteq ReplyAt(m) /\ RoundAt(n) \subseteq RoundAt(m) /\ 0 .. n \subseteq 0 .. m
    <2> HIDE DEF n, m
    <2>1. 1 .. n \subseteq 1 .. m /\ 0 .. n \subseteq 0 .. m
      BY <1>1
    <2>2. ReplyAt(n) \subseteq ReplyAt(m)
      BY <2>1 DEF ReplyAt
    <2>3. RoundAt(n) \subseteq RoundAt(m)
      BY <2>1 DEF RoundAt
    <2> QED BY <2>1, <2>2, <2>3
  <1>3. rep \in [Replies -> ReplyAt(m)] /\ rnd \in RoundAt(m) /\ pg \in 0 .. m
    <2> HIDE DEF m
    <2> QED BY <1>2 DEF Sound, n
  <1>4. ASSUME NEW c \in 1 .. m PROVE c \in exc \/ OnceFor(c, new[c], rep, rnd, pg)
    <2>1. CASE c <= n
      <3>1. c \in 1 .. n /\ new[c].mem = rs[c].mem /\ new[c].stored = rs[c].stored
        BY <1>1, <2>1 DEF Grown
      <3>2. c \in exc \/ OnceFor(c, rs[c], rep, rnd, pg)
        BY <3>1 DEF Sound, OnceIn
      <3> QED BY <3>1, <3>2 DEF OnceFor
    <2>2. CASE c > n
      <3>1. new[c].stored = 0
        BY <2>2 DEF Grown
      <3>2. (\A r \in Replies : rep[r].doing # c) /\ rnd.doing # c /\ pg # c
        BY <1>1, <2>2, SoundAt
      <3> QED BY <3>1, <3>2 DEF OnceFor
    <2> QED BY <1>1, <2>1, <2>2
  <1> QED BY <1>1, <1>3, <1>4 DEF Sound, OnceIn

LEMMA MoreExcused ==
    ASSUME NEW rs, NEW rep, NEW rnd, NEW pg, NEW exc, Sound(rs, rep, rnd, pg, exc),
           NEW more, exc \subseteq more
    PROVE  Sound(rs, rep, rnd, pg, more)
  BY DEF Sound, OnceIn

\* It gives up a candidate that is not stored, or that is excused for it.
LEMMA FreeReply ==
    ASSUME NEW rs, NEW rep, NEW rnd, NEW pg, NEW exc, Sound(rs, rep, rnd, pg, exc),
           NEW r \in Replies, rep[r].pc # "stored" \/ rep[r].doing \in exc
    PROVE  Sound(rs, [rep EXCEPT ![r] = NoReply], rnd, pg, exc)
  <1> DEFINE new == [rep EXCEPT ![r] = NoReply]
  <1>1. Len(rs) \in Nat /\ rep \in [Replies -> ReplyAt(Len(rs))]
    BY SoundAt DEF Sound
  <1>2. new \in [Replies -> ReplyAt(Len(rs))]
    BY <1>1, NoneTyped
  <1>3. new[r].doing = 0 /\ \A q \in Replies : q # r => new[q] = rep[q]
    BY <1>1 DEF NoReply
  <1> HIDE DEF new
  <1>4. ASSUME NEW c \in 1 .. Len(rs), c \notin exc, OnceFor(c, rs[c], rep, rnd, pg)
        PROVE  OnceFor(c, rs[c], new, rnd, pg)
    <2>1. c # 0
      BY <1>1
    <2>2. rep[r].doing = c => rs[c].stored # 1
      BY <1>4 DEF OnceFor
    <2>3. rs[c].stored = 1 => rs[c].mem \/ (\E q \in Replies : new[q].doing = c) \/ rnd.doing = c \/ pg = c
      BY <1>3, <1>4, <2>2 DEF OnceFor
    <2> QED BY <1>3, <1>4, <2>1, <2>3 DEF OnceFor
  <1> QED BY <1>2, <1>4 DEF Sound, OnceIn, new

LEMMA FreeRound ==
    ASSUME NEW rs, NEW rep, NEW rnd, NEW pg, NEW exc, Sound(rs, rep, rnd, pg, exc),
           rnd.pc # "stored" \/ rnd.doing \in exc,
           NEW new \in RoundAt(Len(rs)), new.doing = 0
    PROVE  Sound(rs, rep, new, pg, exc)
  <1>1. Len(rs) \in Nat
    BY SoundAt
  <1>2. ASSUME NEW c \in 1 .. Len(rs), c \notin exc, OnceFor(c, rs[c], rep, rnd, pg)
        PROVE  OnceFor(c, rs[c], rep, new, pg)
    <2>1. c # 0 /\ new.doing # c
      BY <1>1
    <2>2. rnd.doing = c => rs[c].stored # 1
      BY <1>2 DEF OnceFor
    <2> QED BY <1>2, <2>1, <2>2 DEF OnceFor
  <1> QED BY <1>2 DEF Sound, OnceIn

LEMMA FreePage ==
    ASSUME NEW rs, NEW rep, NEW rnd, NEW pg, NEW exc, Sound(rs, rep, rnd, pg, exc)
    PROVE  Sound(rs, rep, rnd, 0, exc)
  <1>1. Len(rs) \in Nat /\ 0 \in 0 .. Len(rs)
    BY SoundAt
  <1>2. ASSUME NEW c \in 1 .. Len(rs), OnceFor(c, rs[c], rep, rnd, pg)
        PROVE  OnceFor(c, rs[c], rep, rnd, 0)
    <2>1. c # 0
      BY <1>1
    <2> QED BY <1>2, <2>1 DEF OnceFor
  <1> QED BY <1>1, <1>2 DEF Sound, OnceIn

\* It takes a candidate nobody is at and that is not marked, or it is excused.
Untaken(c, rs, rep, rnd, pg) ==
    /\ \A q \in Replies : rep[q].doing # c
    /\ rnd.doing # c /\ pg # c /\ ~rs[c].mem

LEMMA TakeReply ==
    ASSUME NEW rs, NEW rep, NEW rnd, NEW pg, NEW exc, Sound(rs, rep, rnd, pg, exc),
           NEW r \in Replies, rep[r].doing = 0, NEW c \in 1 .. Len(rs),
           c \in exc \/ Untaken(c, rs, rep, rnd, pg),
           NEW new \in ReplyAt(Len(rs)), new.doing = c, new.pc = "adding"
    PROVE  Sound(rs, [rep EXCEPT ![r] = new], rnd, pg, exc)
  <1> DEFINE nrep == [rep EXCEPT ![r] = new]
  <1>1. Len(rs) \in Nat /\ rep \in [Replies -> ReplyAt(Len(rs))]
    BY SoundAt DEF Sound
  <1>2. nrep \in [Replies -> ReplyAt(Len(rs))]
    BY <1>1
  <1>3. nrep[r] = new /\ \A q \in Replies : q # r => nrep[q] = rep[q]
    BY <1>1
  <1> HIDE DEF nrep
  <1>4. ASSUME NEW d \in 1 .. Len(rs), d \notin exc, OnceFor(d, rs[d], rep, rnd, pg)
        PROVE  OnceFor(d, rs[d], nrep, rnd, pg)
    <2>0. rs[d].stored \in 0 .. 2
      BY SoundAt DEF RowState
    <2>1. CASE d = c
      <3>1. Untaken(d, rs, rep, rnd, pg)
        BY <1>4, <2>1
      <3>2. rs[d].stored = 0
        BY <1>4, <2>0, <3>1 DEF Untaken, OnceFor
      <3>3. \A q \in Replies : nrep[q].doing = d => q = r
        BY <1>3, <3>1 DEF Untaken
      <3>4. nrep[r].pc = "adding" /\ rnd.doing # d /\ pg # d
        BY <1>3, <3>1 DEF Untaken
      <3> QED BY <3>2, <3>3, <3>4 DEF OnceFor
    <2>2. CASE d # c
      <3>1. \A q \in Replies : nrep[q].doing = d <=> rep[q].doing = d /\ q # r
        BY <1>1, <1>3, <2>2
      <3>2. \A q \in Replies : rep[q].doing = d => nrep[q] = rep[q]
        BY <1>1, <1>3, <3>1
      <3>3. rep[r].doing # d
        BY <1>1
      <3> QED BY <1>4, <3>1, <3>2, <3>3 DEF OnceFor
    <2> QED BY <2>1, <2>2
  <1> QED BY <1>2, <1>4 DEF Sound, OnceIn, nrep

LEMMA TakeRound ==
    ASSUME NEW rs, NEW rep, NEW rnd, NEW pg, NEW exc, Sound(rs, rep, rnd, pg, exc),
           rnd.doing = 0, NEW c \in 1 .. Len(rs),
           c \in exc \/ Untaken(c, rs, rep, rnd, pg),
           NEW new \in RoundAt(Len(rs)), new.doing = c, new.pc = "adding"
    PROVE  Sound(rs, rep, new, pg, exc)
  <1>1. Len(rs) \in Nat
    BY SoundAt
  <1>2. ASSUME NEW d \in 1 .. Len(rs), d \notin exc, OnceFor(d, rs[d], rep, rnd, pg)
        PROVE  OnceFor(d, rs[d], rep, new, pg)
    <2>0. rs[d].stored \in 0 .. 2 /\ d # 0
      BY <1>1, SoundAt DEF RowState
    <2>1. CASE d = c
      <3>1. Untaken(d, rs, rep, rnd, pg)
        BY <1>2, <2>1
      <3>2. rs[d].stored = 0
        BY <1>2, <2>0, <3>1 DEF Untaken, OnceFor
      <3> QED BY <2>1, <3>1, <3>2 DEF Untaken, OnceFor
    <2>2. CASE d # c
      BY <1>2, <2>0, <2>2 DEF OnceFor
    <2> QED BY <2>1, <2>2
  <1> QED BY <1>2 DEF Sound, OnceIn

LEMMA TakePage ==
    ASSUME NEW rs, NEW rep, NEW rnd, NEW exc, Sound(rs, rep, rnd, 0, exc),
           NEW c \in 1 .. Len(rs), c \in exc \/ Untaken(c, rs, rep, rnd, 0)
    PROVE  Sound(rs, rep, rnd, c, exc)
  <1>1. Len(rs) \in Nat /\ c \in 0 .. Len(rs)
    BY SoundAt
  <1>2. ASSUME NEW d \in 1 .. Len(rs), d \notin exc, OnceFor(d, rs[d], rep, rnd, 0)
        PROVE  OnceFor(d, rs[d], rep, rnd, c)
    <2>0. rs[d].stored \in 0 .. 2 /\ d # 0
      BY <1>1, SoundAt DEF RowState
    <2>1. CASE d = c
      <3>1. Untaken(d, rs, rep, rnd, 0)
        BY <1>2, <2>1
      <3>2. rs[d].stored = 0
        BY <1>2, <2>0, <3>1 DEF Untaken, OnceFor
      <3> QED BY <3>1, <3>2 DEF Untaken, OnceFor
    <2>2. CASE d # c
      BY <1>2, <2>0, <2>2 DEF OnceFor
    <2> QED BY <2>1, <2>2
  <1> QED BY <1>1, <1>2 DEF Sound, OnceIn

\* The memory is there.
LEMMA StoredRow ==
    ASSUME NEW rs \in Seq(RowState), NEW c \in 1 .. Len(rs)
    PROVE  /\ Stored(rs, c) \in Seq(RowState) /\ Len(Stored(rs, c)) = Len(rs)
           /\ \A d \in 1 .. Len(rs) : d # c => Stored(rs, c)[d] = rs[d]
           /\ rs[c].stored = 0 => Stored(rs, c)[c].stored = 1
  <1> DEFINE n == Min({rs[c].stored + 1, 2})
             row == [rs[c] EXCEPT !.stored = n]
  <1>1. rs \in [1 .. Len(rs) -> RowState] /\ Len(rs) \in Nat
    BY LenProperties
  <1>2. rs[c] \in RowState /\ rs[c].stored \in 0 .. 2
    BY <1>1 DEF RowState
  <1>3. n \in 0 .. 2 /\ (rs[c].stored = 0 => n = 1)
    <2>1. n = IF rs[c].stored + 1 <= 2 THEN rs[c].stored + 1 ELSE 2
      BY <1>2, MinOf
    <2> QED BY <1>2, <2>1
  <1> HIDE DEF n
  <1>4. row \in RowState /\ row.stored = n
    BY <1>2, <1>3 DEF RowState
  <1>5. Stored(rs, c) = [rs EXCEPT ![c] = row]
    BY <1>1 DEF Stored, n
  <1> HIDE DEF row
  <1> QED BY <1>3, <1>4, <1>5, RowChanged

LEMMA MarkedRow ==
    ASSUME NEW rs \in Seq(RowState), NEW c \in 1 .. Len(rs)
    PROVE  LET new == [rs EXCEPT ![c].mem = TRUE] IN
           /\ new \in Seq(RowState) /\ Len(new) = Len(rs)
           /\ \A d \in 1 .. Len(rs) : new[d].stored = rs[d].stored /\ (d # c => new[d] = rs[d])
           /\ new[c].mem
  <1> DEFINE row == [rs[c] EXCEPT !.mem = TRUE]
             new == [rs EXCEPT ![c].mem = TRUE]
  <1>1. rs \in [1 .. Len(rs) -> RowState] /\ Len(rs) \in Nat
    BY LenProperties
  <1>2. row \in RowState /\ row.mem /\ row.stored = rs[c].stored
    BY <1>1 DEF RowState
  <1>3. new = [rs EXCEPT ![c] = row]
    BY <1>1
  <1> HIDE DEF row, new
  <1> QED BY <1>1, <1>2, <1>3, RowChanged DEF new

LEMMA StoreReply ==
    ASSUME NEW rs, NEW rep, NEW rnd, NEW pg, NEW exc, Sound(rs, rep, rnd, pg, exc),
           NEW r \in Replies, rep[r].pc = "adding"
    PROVE  Sound(Stored(rs, rep[r].doing), [rep EXCEPT ![r].pc = "stored"], rnd, pg, exc)
           /\ Len(Stored(rs, rep[r].doing)) = Len(rs)
  <1> DEFINE c == rep[r].doing
             nrs == Stored(rs, c)
             nrep == [rep EXCEPT ![r].pc = "stored"]
  <1>1. Len(rs) \in Nat /\ rep \in [Replies -> ReplyAt(Len(rs))] /\ rs \in Seq(RowState)
    BY SoundAt DEF Sound
  <1>2. c \in 1 .. Len(rs)
    BY <1>1, SoundAt
  <1>3. /\ nrs \in Seq(RowState) /\ Len(nrs) = Len(rs)
        /\ \A d \in 1 .. Len(rs) : d # c => nrs[d] = rs[d]
        /\ rs[c].stored = 0 => nrs[c].stored = 1
    BY <1>1, <1>2, StoredRow
  <1>4. nrep \in [Replies -> ReplyAt(Len(rs))]
    <2>1. [rep[r] EXCEPT !.pc = "stored"] \in ReplyAt(Len(rs))
      BY <1>1, <1>2 DEF ReplyAt
    <2> QED BY <1>1, <2>1
  <1>5. nrep[r].doing = c /\ nrep[r].pc = "stored" /\ \A q \in Replies : q # r => nrep[q] = rep[q]
    BY <1>1 DEF ReplyAt
  <1>6. c \in 0 .. Len(rs) /\ rs[c].stored \in 0 .. 2
    BY <1>1, <1>2, SoundAt DEF RowState
  <1> HIDE DEF nrep, nrs, c
  <1>7. ASSUME NEW d \in 1 .. Len(rs), d \notin exc, OnceFor(d, rs[d], rep, rnd, pg)
        PROVE  OnceFor(d, nrs[d], nrep, rnd, pg)
    <2>1. CASE d = c
      <3>1. /\ \A q \in Replies : rep[q].doing = d => q = r
            /\ rnd.doing # d /\ pg # d /\ rs[d].stored # 1 /\ rs[d].stored <= 1
        BY <1>7, <2>1 DEF OnceFor, c
      <3>2. nrs[d].stored = 1
        BY <1>3, <1>6, <2>1, <3>1
      <3>3. \A q \in Replies : nrep[q].doing = d => q = r
        BY <1>5, <3>1
      <3> QED BY <1>5, <2>1, <3>1, <3>2, <3>3 DEF OnceFor
    <2>2. CASE d # c
      <3>1. nrs[d] = rs[d] /\ rep[r].doing # d
        BY <1>3, <2>2 DEF c
      <3>2. \A q \in Replies : nrep[q].doing = d <=> rep[q].doing = d
        BY <1>5, <2>2, <3>1
      <3>3. \A q \in Replies : rep[q].doing = d => nrep[q] = rep[q]
        BY <1>5, <3>1
      <3> QED BY <1>7, <3>1, <3>2, <3>3 DEF OnceFor
    <2> QED BY <2>1, <2>2
  <1>8. Sound(nrs, nrep, rnd, pg, exc)
    BY <1>3, <1>4, <1>7 DEF Sound, OnceIn
  <1> QED BY <1>3, <1>8 DEF nrs, nrep, c

LEMMA StoreRound ==
    ASSUME NEW rs, NEW rep, NEW rnd, NEW pg, NEW exc, Sound(rs, rep, rnd, pg, exc),
           rnd.pc = "adding"
    PROVE  Sound(Stored(rs, rnd.doing), rep, [rnd EXCEPT !.pc = "stored"], pg, exc)
           /\ Len(Stored(rs, rnd.doing)) = Len(rs)
  <1> DEFINE c == rnd.doing
             nrs == Stored(rs, c)
             nrnd == [rnd EXCEPT !.pc = "stored"]
  <1>1. Len(rs) \in Nat /\ rnd \in RoundAt(Len(rs)) /\ rs \in Seq(RowState)
    BY SoundAt DEF Sound
  <1>2. c \in 1 .. Len(rs)
    BY <1>1, SoundAt
  <1>3. /\ nrs \in Seq(RowState) /\ Len(nrs) = Len(rs)
        /\ \A d \in 1 .. Len(rs) : d # c => nrs[d] = rs[d]
        /\ rs[c].stored = 0 => nrs[c].stored = 1
    BY <1>1, <1>2, StoredRow
  <1>4. nrnd \in RoundAt(Len(rs)) /\ nrnd.doing = c /\ nrnd.pc = "stored"
    BY <1>1, <1>2 DEF RoundAt
  <1>5. rs[c].stored \in 0 .. 2
    BY <1>1, <1>2, SoundAt DEF RowState
  <1> HIDE DEF nrnd, nrs, c
  <1>6. ASSUME NEW d \in 1 .. Len(rs), d \notin exc, OnceFor(d, rs[d], rep, rnd, pg)
        PROVE  OnceFor(d, nrs[d], rep, nrnd, pg)
    <2>1. CASE d = c
      <3>1. /\ \A q \in Replies : rep[q].doing # d
            /\ pg # d /\ rs[d].stored # 1 /\ rs[d].stored <= 1
        BY <1>6, <2>1 DEF OnceFor, c
      <3>2. nrs[d].stored = 1
        BY <1>3, <1>5, <2>1, <3>1
      <3> QED BY <1>4, <2>1, <3>1, <3>2 DEF OnceFor
    <2>2. CASE d # c
      <3>1. nrs[d] = rs[d] /\ rnd.doing # d
        BY <1>3, <2>2 DEF c
      <3> QED BY <1>4, <1>6, <2>2, <3>1 DEF OnceFor
    <2> QED BY <2>1, <2>2
  <1>7. Sound(nrs, rep, nrnd, pg, exc)
    BY <1>3, <1>4, <1>6 DEF Sound, OnceIn
  <1> QED BY <1>3, <1>7 DEF nrs, nrnd, c

LEMMA StorePage ==
    ASSUME NEW rs, NEW rep, NEW rnd, NEW pg, NEW exc, Sound(rs, rep, rnd, pg, exc), pg # 0
    PROVE  Sound(Stored(rs, pg), rep, rnd, 0, exc \cup {pg}) /\ Len(Stored(rs, pg)) = Len(rs)
  <1> DEFINE nrs == Stored(rs, pg)
  <1>1. Len(rs) \in Nat /\ rs \in Seq(RowState) /\ pg \in 1 .. Len(rs)
    BY SoundAt DEF Sound
  <1>2. nrs \in Seq(RowState) /\ Len(nrs) = Len(rs) /\ \A d \in 1 .. Len(rs) : d # pg => nrs[d] = rs[d]
    BY <1>1, StoredRow
  <1> HIDE DEF nrs
  <1>3. Sound(rs, rep, rnd, 0, exc)
    BY FreePage
  <1>4. \A d \in 1 .. Len(rs) : d \in exc \cup {pg} \/ OnceFor(d, nrs[d], rep, rnd, 0)
    BY <1>2, <1>3 DEF Sound, OnceIn
  <1>5. Sound(nrs, rep, rnd, 0, exc \cup {pg})
    BY <1>2, <1>3, <1>4 DEF Sound, OnceIn
  <1> QED BY <1>2, <1>5 DEF nrs

\* The id is written to the row: the coroutine may leave it.
LEMMA MarkReply ==
    ASSUME NEW rs, NEW rep, NEW rnd, NEW pg, NEW exc, Sound(rs, rep, rnd, pg, exc),
           NEW r \in Replies, rep[r].pc = "stored"
    PROVE  LET nrs == [rs EXCEPT ![rep[r].doing].mem = TRUE] IN
           Sound(nrs, [rep EXCEPT ![r] = NoReply], rnd, pg, exc) /\ Len(nrs) = Len(rs)
  <1> DEFINE c == rep[r].doing
             nrs == [rs EXCEPT ![c].mem = TRUE]
             nrep == [rep EXCEPT ![r] = NoReply]
  <1>1. Len(rs) \in Nat /\ rep \in [Replies -> ReplyAt(Len(rs))] /\ rs \in Seq(RowState)
    BY SoundAt DEF Sound
  <1>2. c \in 1 .. Len(rs)
    BY <1>1, SoundAt
  <1>3. /\ nrs \in Seq(RowState) /\ Len(nrs) = Len(rs) /\ nrs[c].mem
        /\ \A d \in 1 .. Len(rs) : nrs[d].stored = rs[d].stored /\ (d # c => nrs[d] = rs[d])
    BY <1>1, <1>2, MarkedRow
  <1>4. nrep \in [Replies -> ReplyAt(Len(rs))]
    BY <1>1, NoneTyped
  <1>5. nrep[r].doing = 0 /\ \A q \in Replies : q # r => nrep[q] = rep[q]
    BY <1>1 DEF NoReply
  <1> HIDE DEF nrep, nrs, c
  <1>6. ASSUME NEW d \in 1 .. Len(rs), d \notin exc, OnceFor(d, rs[d], rep, rnd, pg)
        PROVE  OnceFor(d, nrs[d], nrep, rnd, pg)
    <2>0. d # 0 /\ nrs[d].stored = rs[d].stored
      BY <1>1, <1>3
    <2>1. CASE d = c
      <3>1. /\ \A q \in Replies : rep[q].doing = d => q = r
            /\ rnd.doing # d /\ pg # d /\ rs[d].stored <= 1
        BY <1>6, <2>1 DEF OnceFor, c
      <3>2. \A q \in Replies : nrep[q].doing # d
        BY <1>5, <2>0, <3>1
      <3> QED BY <1>3, <2>0, <2>1, <3>1, <3>2 DEF OnceFor
    <2>2. CASE d # c
      <3>1. nrs[d] = rs[d] /\ rep[r].doing # d
        BY <1>3, <2>2 DEF c
      <3>2. \A q \in Replies : nrep[q].doing = d <=> rep[q].doing = d
        BY <1>5, <2>0, <3>1
      <3>3. \A q \in Replies : rep[q].doing = d => nrep[q] = rep[q]
        BY <1>5, <3>1
      <3> QED BY <1>6, <3>1, <3>2, <3>3 DEF OnceFor
    <2> QED BY <2>1, <2>2
  <1>7. Sound(nrs, nrep, rnd, pg, exc)
    BY <1>3, <1>4, <1>6 DEF Sound, OnceIn
  <1> QED BY <1>3, <1>7 DEF nrs, nrep, c

LEMMA MarkRound ==
    ASSUME NEW rs, NEW rep, NEW rnd, NEW pg, NEW exc, Sound(rs, rep, rnd, pg, exc),
           rnd.pc = "stored"
    PROVE  LET nrs == [rs EXCEPT ![rnd.doing].mem = TRUE] IN
           Sound(nrs, rep, NoRound, pg, exc) /\ Len(nrs) = Len(rs)
  <1> DEFINE c == rnd.doing
             nrs == [rs EXCEPT ![c].mem = TRUE]
  <1>1. Len(rs) \in Nat /\ rs \in Seq(RowState) /\ NoRound \in RoundAt(Len(rs)) /\ NoRound.doing = 0
    BY SoundAt, NoneTyped DEF Sound, NoRound
  <1>2. c \in 1 .. Len(rs)
    BY <1>1, SoundAt
  <1>3. /\ nrs \in Seq(RowState) /\ Len(nrs) = Len(rs) /\ nrs[c].mem
        /\ \A d \in 1 .. Len(rs) : nrs[d].stored = rs[d].stored /\ (d # c => nrs[d] = rs[d])
    BY <1>1, <1>2, MarkedRow
  <1> HIDE DEF nrs, c
  <1>6. ASSUME NEW d \in 1 .. Len(rs), d \notin exc, OnceFor(d, rs[d], rep, rnd, pg)
        PROVE  OnceFor(d, nrs[d], rep, NoRound, pg)
    <2>0. d # 0 /\ nrs[d].stored = rs[d].stored /\ NoRound.doing # d
      BY <1>1, <1>3
    <2>1. CASE d = c
      <3>1. (\A q \in Replies : rep[q].doing # d) /\ pg # d /\ rs[d].stored <= 1
        BY <1>6, <2>1 DEF OnceFor, c
      <3> QED BY <1>3, <2>0, <2>1, <3>1 DEF OnceFor
    <2>2. CASE d # c
      <3>1. nrs[d] = rs[d] /\ rnd.doing # d
        BY <1>3, <2>2 DEF c
      <3> QED BY <1>6, <2>0, <3>1 DEF OnceFor
    <2> QED BY <2>1, <2>2
  <1>7. Sound(nrs, rep, NoRound, pg, exc)
    BY <1>1, <1>3, <1>6 DEF Sound, OnceIn
  <1> QED BY <1>3, <1>7 DEF nrs, c

-----------------------------------------------------------------------------
(* The actions.                                                            *)
LEMMA UserMessageTyped ==
    ASSUME sch \in Scheduler, OnUserMessage
    PROVE  sch' \in Scheduler
  <1> DEFINE arm == ~sch.armed /\ ~Busy
             since == IF arm THEN 0 ELSE sch.since
  <1>1. since \in 0 .. Idle + Defer /\ arm \in BOOLEAN
    BY GateAssumption DEF Scheduler, Busy
  <1>2. (sch.armed \/ arm) \in BOOLEAN
    OBVIOUS
  <1>3. sch' = [sch EXCEPT !.quiet = 0, !.fuse = 0, !.armed = sch.armed \/ arm, !.since = since]
    BY DEF OnUserMessage
  <1> HIDE DEF arm, since
  <1> QED BY <1>1, <1>2, <1>3 DEF Scheduler

LEMMA ScanKeeps ==
    ASSUME NEW rs \in Seq(RowState), sch \in Scheduler, Scanned(rs)
    PROVE  Grown(rs, rows') /\ Len(rows') <= MaxRows /\ sch' \in Scheduler
  <1>1. Grown(rs, rows')
    BY EnterGrows, GrownNot DEF Scanned
  <1>2. sch' \in Scheduler
    BY UserMessageTyped DEF Scanned
  <1> QED BY <1>1, <1>2 DEF Scanned

LEMMA AgainOrUntaken ==
    ASSUME NEW c, NEW rs
    PROVE  c \in excused \cup Again(c, rs) \/ Untaken(c, rs, reply, round, page)
  BY DEF Again, Adding, Untaken

LEMMA BackfillKeeps ==
    ASSUME GateInv, NEW r \in Replies, NEW rs, Len(rs) <= MaxRows,
           Sound(rs, [reply EXCEPT ![r] = NoReply], round, page, excused),
           NEW todo \in SUBSET (1 .. Len(rs)), Backfill(r, rs, todo), UNCHANGED <<round, page>>
    PROVE  /\ Sound(rows', reply', round', page', excused')
           /\ Len(rows') <= MaxRows /\ sch' \in Scheduler
  <1> DEFINE rep0 == [reply EXCEPT ![r] = NoReply]
  <1>1. /\ Len(rs) \in Nat /\ rs \in Seq(RowState) /\ sch \in Scheduler
        /\ Sound(rs, rep0, round', page', excused)
    BY SoundAt DEF Sound, GateInv
  <1>2. CASE todo = {}
    <2>1. reply' = rep0 /\ Scanned(rs) /\ excused' = excused
      BY <1>2 DEF Backfill
    <2>2. Grown(rs, rows') /\ Len(rows') <= MaxRows /\ sch' \in Scheduler
      BY <1>1, <2>1, ScanKeeps
    <2> HIDE DEF rep0
    <2> QED BY <1>1, <2>1, <2>2, GrownSound
  <1>3. CASE todo # {}
    <2> DEFINE c == Min(todo)
               new == [pc |-> "adding", todo |-> todo \ {c}, doing |-> c]
    <2>1. c \in todo /\ c \in 1 .. Len(rs)
      <3>1. todo \subseteq Nat
        BY <1>1
      <3> QED BY <1>3, <3>1, MinIn
    <2>2. /\ reply' = [reply EXCEPT ![r] = new] /\ rows' = rs /\ sch' = sch
          /\ excused' = excused \cup Again(c, rs)
      BY <1>3 DEF Backfill
    <2> HIDE DEF c
    <2>3. new \in ReplyAt(Len(rs)) /\ new.doing = c /\ new.pc = "adding"
      <3>1. todo \ {c} \in SUBSET (1 .. Len(rs)) /\ c \in 0 .. Len(rs) /\ c # 0
        BY <1>1, <2>1
      <3> QED BY <3>1 DEF ReplyAt
    <2> HIDE DEF new
    <2>4. reply \in [Replies -> ReplyAt(Len(rows))]
      BY DEF GateInv, Sound
    <2>5. rep0[r].doing = 0 /\ (\A q \in Replies : q # r => rep0[q] = reply[q])
          /\ [reply EXCEPT ![r] = new] = [rep0 EXCEPT ![r] = new]
      BY <2>4 DEF NoReply
    <2>6. c \in excused' \/ Untaken(c, rs, rep0, round', page')
      <3>1. c \in excused' \/ Untaken(c, rs, reply, round, page)
        BY <2>2, AgainOrUntaken
      <3>2. c # 0
        BY <1>1, <2>1
      <3> QED BY <2>5, <3>1, <3>2 DEF Untaken
    <2>7. Sound(rs, rep0, round', page', excused')
      BY <1>1, <2>2, MoreExcused
    <2> HIDE DEF rep0
    <2>8. Sound(rs, [rep0 EXCEPT ![r] = new], round', page', excused')
      BY <2>1, <2>3, <2>5, <2>6, <2>7, TakeReply
    <2> QED BY <1>1, <2>2, <2>5, <2>8
  <1> QED BY <1>2, <1>3

LEMMA ReplyKeeps ==
    ASSUME GateInv, NEW r \in Replies, ReplyArrives(r) \/ ReplyStep(r)
    PROVE  GateInv'
  <1> DEFINE R == reply[r]
  <1>1. /\ Sound(rows, reply, round, page, excused) /\ Len(rows) <= MaxRows
        /\ Len(rows) \in Nat /\ DOMAIN rows = 1 .. Len(rows)
        /\ R.todo \in SUBSET (1 .. Len(rows)) /\ R.doing \in 0 .. Len(rows)
        /\ sch \in Scheduler
    BY SoundAt DEF GateInv
  <1>2. prints' = prints /\ manual' = manual /\ round' = round /\ page' = page
    BY DEF ReplyArrives, ReplyStep, BackfillStored, BackfillFails, BackfillMark, BackfillMarkFails
  <1>3. ASSUME Sound(rows', reply', round', page', excused'), Len(rows') <= MaxRows, sch' \in Scheduler
        PROVE  GateInv'
    BY <1>2, <1>3 DEF GateInv
  <1>4. CASE ReplyArrives(r)
    <2>1. R = NoReply /\ R.pc = "none"
      BY <1>4 DEF ReplyArrives, NoReply
    <2>2. Sound(rows, [reply EXCEPT ![r] = NoReply], round, page, excused)
      BY <1>1, <2>1, FreeReply
    <2>3. {c \in Having(rows, "confirmed") : ~rows[c].mem} \in SUBSET (1 .. Len(rows))
      BY <1>1 DEF Having
    <2> QED BY <1>1, <1>2, <1>3, <1>4, <2>2, <2>3, BackfillKeeps DEF ReplyArrives
  <1>5. CASE BackfillStored(r)
    <2>1. R.pc = "adding" /\ rows' = Stored(rows, R.doing) /\ reply' = [reply EXCEPT ![r].pc = "stored"]
          /\ sch' = sch /\ excused' = excused
      BY <1>5 DEF BackfillStored
    <2>2. Sound(rows', reply', round', page', excused') /\ Len(rows') = Len(rows)
      BY <1>1, <1>2, <2>1, StoreReply
    <2> QED BY <1>1, <1>3, <2>1, <2>2
  <1>6. CASE BackfillFails(r)
    <2>1. R.pc = "adding" /\ Backfill(r, rows, R.todo)
      BY <1>6 DEF BackfillFails
    <2>2. Sound(rows, [reply EXCEPT ![r] = NoReply], round, page, excused)
      BY <1>1, <2>1, FreeReply
    <2> QED BY <1>1, <1>2, <1>3, <2>1, <2>2, BackfillKeeps
  <1>7. CASE BackfillMark(r)
    <2> DEFINE rs == [rows EXCEPT ![R.doing].mem = TRUE]
    <2>1. R.pc = "stored" /\ Backfill(r, rs, R.todo)
      BY <1>7 DEF BackfillMark
    <2>2. Sound(rs, [reply EXCEPT ![r] = NoReply], round, page, excused) /\ Len(rs) = Len(rows)
      BY <1>1, <2>1, MarkReply
    <2> HIDE DEF rs
    <2> QED BY <1>1, <1>2, <1>3, <2>1, <2>2, BackfillKeeps
  <1>8. CASE BackfillMarkFails(r)
    <2>1. /\ R.pc = "stored" /\ reply' = [reply EXCEPT ![r] = NoReply] /\ Scanned(rows)
          /\ excused' = excused \cup {R.doing}
      BY <1>8 DEF BackfillMarkFails
    <2>2. Sound(rows, reply, round, page, excused')
      BY <1>1, <2>1, MoreExcused
    <2>3. Sound(rows, reply', round', page', excused')
      BY <1>2, <2>1, <2>2, FreeReply
    <2>4. Grown(rows, rows') /\ Len(rows') <= MaxRows /\ sch' \in Scheduler
      BY <1>1, <2>1, ScanKeeps DEF Sound
    <2> QED BY <1>3, <2>3, <2>4, GrownSound
  <1> QED BY <1>4, <1>5, <1>6, <1>7, <1>8 DEF ReplyStep

\* The round.
LEMMA NoRoundTaken ==
    ASSUME NEW n \in Nat, NEW S \in SUBSET (1 .. n), Cardinality(S) <= MaxRound,
           NEW T \in SUBSET S, NEW c \in 1 .. n
    PROVE  [pc |-> "adding", open |-> T, doing |-> c] \in RoundAt(n)
  <1>1. Cardinality(T) \in Nat /\ Cardinality(T) <= Cardinality(S)
    BY CardShrinks
  <1>2. Cardinality(S) \in Nat
    BY CardShrinks
  <1>3. Cardinality(T) <= MaxRound
    BY <1>1, <1>2, GateAssumption
  <1>4. T \in SUBSET (1 .. n) /\ c \in 0 .. n /\ c # 0
    OBVIOUS
  <1> QED BY <1>3, <1>4 DEF RoundAt

LEMMA EndTyped ==
    ASSUME sch \in Scheduler, NEW rs, RoundEnds(rs)
    PROVE  sch' \in Scheduler
  <1> DEFINE since == IF sch.quiet >= Quiet THEN Idle ELSE 0
  <1>1. since \in 0 .. Idle + Defer /\ 0 \in Nat /\ 0 \in 0 .. FuseFailures
    BY GateAssumption
  <1>2. \/ sch' = [[sch EXCEPT !.failures = 0, !.retry = 0] EXCEPT !.armed = FALSE]
        \/ sch' = [[sch EXCEPT !.failures = 0, !.retry = 0] EXCEPT !.armed = TRUE, !.since = since]
    BY DEF RoundEnds
  <1> HIDE DEF since
  <1> QED BY <1>1, <1>2 DEF Scheduler

LEMMA JudgesKeeps ==
    ASSUME GateInv, NEW rs, Len(rs) = Len(rows),
           Sound(rs, reply, NoRound, page, excused),
           RoundJudges(rs), UNCHANGED <<reply, page>>
    PROVE  /\ Sound(rows', reply', round', page', excused')
           /\ Len(rows') <= MaxRows /\ sch' \in Scheduler
  <1> DEFINE open == round.open \cap Having(rs, "candidate")
  <1>1. /\ Len(rs) \in Nat /\ DOMAIN rs = 1 .. Len(rs) /\ rs \in [1 .. Len(rs) -> RowState]
        /\ rs \in Seq(RowState)
    BY SoundAt DEF Sound
  <1>2. round.open \in SUBSET (1 .. Len(rs)) /\ Cardinality(round.open) <= MaxRound
    BY SoundAt DEF GateInv
  <1>3. PICK D \in SUBSET open : \E f \in [D -> {"pending", "closed"}] :
           LET judged == [c \in DOMAIN rs |-> IF c \in D THEN [rs[c] EXCEPT !.status = f[c]] ELSE rs[c]]
           IN \/ RoundEnds(judged)
              \/ \E c \in open \ D :
                  /\ rows' = [judged EXCEPT ![c].status = "confirmed"]
                  /\ Learn(c, rs)
                  /\ round' = [pc |-> "adding", open |-> open \ (D \cup {c}), doing |-> c]
                  /\ excused' = excused \cup Again(c, rs)
                  /\ UNCHANGED sch
    BY DEF RoundJudges
  <1>4. PICK f \in [D -> {"pending", "closed"}] :
           LET judged == [c \in DOMAIN rs |-> IF c \in D THEN [rs[c] EXCEPT !.status = f[c]] ELSE rs[c]]
           IN \/ RoundEnds(judged)
              \/ \E c \in open \ D :
                  /\ rows' = [judged EXCEPT ![c].status = "confirmed"]
                  /\ Learn(c, rs)
                  /\ round' = [pc |-> "adding", open |-> open \ (D \cup {c}), doing |-> c]
                  /\ excused' = excused \cup Again(c, rs)
                  /\ UNCHANGED sch
    BY <1>3
  <1> DEFINE judged == [c \in DOMAIN rs |-> IF c \in D THEN [rs[c] EXCEPT !.status = f[c]] ELSE rs[c]]
  <1>5. /\ judged \in [1 .. Len(rs) -> RowState]
        /\ \A c \in 1 .. Len(rs) : judged[c].mem = rs[c].mem /\ judged[c].stored = rs[c].stored
    <2>1. \A c \in 1 .. Len(rs) : judged[c] = IF c \in D THEN [rs[c] EXCEPT !.status = f[c]] ELSE rs[c]
      BY <1>1
    <2>2. \A c \in D : [rs[c] EXCEPT !.status = f[c]] \in RowState
      <3>1. \A c \in D : rs[c] \in RowState /\ f[c] \in {"pending", "closed"}
        BY <1>1, <1>2
      <3> QED BY <3>1 DEF RowState
    <2>3. \A c \in 1 .. Len(rs) : judged[c] \in RowState
      BY <1>1, <2>1, <2>2
    <2>4. \A c \in 1 .. Len(rs) : judged[c].mem = rs[c].mem /\ judged[c].stored = rs[c].stored
      BY <1>1, <2>1 DEF RowState
    <2> QED BY <1>1, <2>3, <2>4
  <1>6. \/ RoundEnds(judged)
        \/ \E c \in open \ D :
             /\ rows' = [judged EXCEPT ![c].status = "confirmed"]
             /\ round' = [pc |-> "adding", open |-> open \ (D \cup {c}), doing |-> c]
             /\ excused' = excused \cup Again(c, rs)
             /\ UNCHANGED sch
    BY <1>4
  <1> HIDE DEF judged
  <1>7. Grown(rs, judged) /\ Len(judged) = Len(rs)
    BY <1>1, <1>5, GrownByField
  <1>8. /\ Sound(judged, reply, NoRound, page, excused) /\ judged \in Seq(RowState)
        /\ Len(rows) <= MaxRows /\ sch \in Scheduler
    BY <1>7, GrownSound DEF GateInv, Grown
  <1>9. CASE RoundEnds(judged)
    <2>1. rows' = judged /\ round' = NoRound /\ excused' = excused
      BY <1>9 DEF RoundEnds
    <2> QED BY <1>7, <1>8, <1>9, <2>1, EndTyped
  <1>10. ASSUME NEW c \in open \ D,
                rows' = [judged EXCEPT ![c].status = "confirmed"],
                round' = [pc |-> "adding", open |-> open \ (D \cup {c}), doing |-> c],
                excused' = excused \cup Again(c, rs),
                UNCHANGED sch
         PROVE  /\ Sound(rows', reply', round', page', excused')
                /\ Len(rows') <= MaxRows /\ sch' \in Scheduler
    <2>1. c \in 1 .. Len(judged) /\ c \in 1 .. Len(rs)
      BY <1>2, <1>7
    <2>2. Grown(judged, rows') /\ Len(rows') = Len(judged)
      <3>1. judged \in [1 .. Len(judged) -> RowState] /\ DOMAIN judged = 1 .. Len(judged)
        BY <1>5, <1>7
      <3>2. [judged[c] EXCEPT !.status = "confirmed"] \in RowState
        BY <2>1, <3>1 DEF RowState
      <3>3. rows' = [judged EXCEPT ![c] = [judged[c] EXCEPT !.status = "confirmed"]]
        BY <1>10
      <3>4. rows' \in [1 .. Len(judged) -> RowState]
        BY <3>1, <3>2, <3>3
      <3>5. \A d \in 1 .. Len(judged) : rows'[d].mem = judged[d].mem /\ rows'[d].stored = judged[d].stored
        BY <2>1, <3>1, <3>3 DEF RowState
      <3> QED BY <1>8, <3>4, <3>5, GrownByField
    <2>3. Sound(rows', reply', NoRound, page', excused)
      BY <1>8, <2>2, GrownSound
    <2>4. Sound(rows', reply', NoRound, page', excused')
      BY <1>10, <2>3, MoreExcused
    <2>5. c \in excused' \/ Untaken(c, rows', reply', NoRound, page')
      <3>1. c \in excused' \/ Untaken(c, rs, reply, round, page)
        BY <1>10, AgainOrUntaken
      <3>2. rows'[c].mem = rs[c].mem
        BY <1>7, <2>1, <2>2 DEF Grown
      <3>3. NoRound.doing # c
        BY <1>1, <2>1 DEF NoRound
      <3> QED BY <3>1, <3>2, <3>3 DEF Untaken
    <2>6. round' \in RoundAt(Len(rows')) /\ round'.doing = c /\ round'.pc = "adding"
      <3>1. Len(rows') = Len(rs) /\ open \ (D \cup {c}) \in SUBSET round.open
        BY <1>7, <2>2
      <3>2. round' \in RoundAt(Len(rs))
        BY <1>1, <1>2, <1>10, <2>1, <3>1, NoRoundTaken
      <3> QED BY <1>10, <3>1, <3>2
    <2>7. Sound(rows', reply', round', page', excused')
      <3>1. c \in 1 .. Len(rows') /\ NoRound.doing = 0
        BY <2>1, <2>2 DEF NoRound
      <3> QED BY <2>4, <2>5, <2>6, <3>1, TakeRound
    <2> QED BY <1>7, <1>8, <1>10, <2>2, <2>7
  <1> QED BY <1>6, <1>9, <1>10

\* A round takes no more than it may.
LEMMA ForemostFew ==
    ASSUME NEW n \in Nat, NEW S \in SUBSET (1 .. Len(rows)), rows \in Seq(RowState)
    PROVE  Foremost(S, n) \in SUBSET S /\ Cardinality(Foremost(S, n)) <= n
  <1> DEFINE better(c) == {x \in S : rows[x].score > rows[c].score
                                       \/ (rows[x].score = rows[c].score /\ x < c)}
             rank(c) == Cardinality(better(c))
             F == Foremost(S, n)
  <1>1. Len(rows) \in Nat /\ rows \in [1 .. Len(rows) -> RowState] /\ S \subseteq Nat
    BY LenProperties
  <1>2. \A c \in S : rows[c].score \in Int
    BY <1>1 DEF RowState
  <1>3. \A T \in SUBSET S : IsFiniteSet(T) /\ Cardinality(T) \in Nat
    <2>1. IsFiniteSet(1 .. Len(rows))
      BY <1>1, FS_Interval
    <2>2. IsFiniteSet(S)
      BY <2>1, FS_Subset
    <2> QED BY <2>2, FS_Subset, FS_CardinalityType
  <1>4. F \in SUBSET S /\ \A c \in F : rank(c) < n
    BY DEF Foremost
  <1>5. CASE F = {}
    BY <1>4, <1>5, FS_EmptySet
  <1>6. CASE F # {}
    <2> DEFINE left == {n - rank(c) : c \in F}
    <2> HIDE DEF F
    <2>1. \A c \in F : better(c) \in SUBSET S /\ rank(c) \in Nat
      BY <1>3
    <2>2. \A c \in F : n - rank(c) \in Nat
      <3> HIDE DEF rank
      <3> QED BY <1>4, <2>1
    <2>3. left \subseteq Nat /\ left # {}
      <3> HIDE DEF rank
      <3> QED BY <1>6, <2>2
    <2>4. PICK m \in left : \A y \in left : m <= y
      <3> HIDE DEF left
      <3> QED BY <2>3, LeastOf
    <2>5. PICK w \in F : m = n - rank(w)
      BY <2>4
    <2>6. \A c \in F : rank(c) <= rank(w)
      <3> SUFFICES ASSUME NEW c \in F PROVE rank(c) <= rank(w)
        OBVIOUS
      <3>1. m <= n - rank(c)
        BY <2>4
      <3>2. rank(c) \in Nat /\ rank(w) \in Nat
        BY <2>1
      <3> HIDE DEF rank, left
      <3> QED BY <2>5, <3>1, <3>2
    <2>7. ASSUME NEW c \in F, c # w PROVE c \in better(w)
      <3> SUFFICES ASSUME c \notin better(w) PROVE FALSE
        OBVIOUS
      <3>1. c \in S /\ w \in S /\ c \in Int /\ w \in Int /\ rows[c].score \in Int /\ rows[w].score \in Int
        BY <1>1, <1>2, <1>4
      <3>2. w \in better(c)
        BY <2>7, <3>1
      <3>3. \A x \in better(w) : x \in better(c)
        <4>1. \A x \in S : x \in Int /\ rows[x].score \in Int
          BY <1>1, <1>2
        <4> QED BY <3>1, <3>2, <4>1
      <3>4. w \notin better(w)
        BY <3>1
      <3>5. better(w) \in SUBSET (better(c) \ {w}) /\ better(c) \in SUBSET S /\ IsFiniteSet(better(c))
        BY <1>3, <3>3, <3>4
      <3> HIDE DEF better
      <3>6. IsFiniteSet(better(c) \ {w}) /\ Cardinality(better(c) \ {w}) = Cardinality(better(c)) - 1
        BY <3>2, <3>5, FS_RemoveElement
      <3>7. Cardinality(better(w)) <= Cardinality(better(c) \ {w})
        BY <3>5, <3>6, FS_Subset
      <3>8. rank(c) <= rank(w) /\ rank(c) \in Nat /\ rank(w) \in Nat
        BY <2>1, <2>6
      <3> QED BY <3>6, <3>7, <3>8
    <2>8. F \ {w} \in SUBSET better(w) /\ better(w) \in SUBSET S
      BY <2>7
    <2> HIDE DEF better
    <2>9. Cardinality(F \ {w}) <= rank(w)
      BY <1>3, <2>8, FS_Subset
    <2>10. Cardinality(F \ {w}) = Cardinality(F) - 1
      BY <1>3, <1>4, <2>5, FS_RemoveElement
    <2>11. Cardinality(F) \in Nat /\ rank(w) \in Nat /\ rank(w) < n
      BY <1>3, <1>4, <2>1, <2>5
    <2> HIDE DEF rank
    <2>12. Cardinality(F) <= n
      BY <2>9, <2>10, <2>11
    <2> QED BY <1>4, <2>12 DEF F
  <1> QED BY <1>5, <1>6

LEMMA LlmFailTyped ==
    ASSUME sch \in Scheduler, RoundLlmFails
    PROVE  sch' \in Scheduler
  <1> DEFINE n == Min({sch.failures + 1, FuseFailures})
  <1>1. sch.failures \in 0 .. FuseFailures /\ FuseFailures \in Nat
    BY GateAssumption DEF Scheduler
  <1>2. n \in 0 .. FuseFailures
    <2>1. n = IF sch.failures + 1 <= FuseFailures THEN sch.failures + 1 ELSE FuseFailures
      BY <1>1, MinOf
    <2> QED BY <1>1, <2>1
  <1>3. \/ sch' = [sch EXCEPT !.failures = n, !.fuse = FuseCooldown, !.armed = FALSE]
        \/ sch' = [sch EXCEPT !.failures = n, !.armed = TRUE, !.since = Idle, !.retry = RetryDelay]
    BY DEF RoundLlmFails
  <1>4. FuseCooldown \in Nat /\ RetryDelay \in Nat /\ Idle \in 0 .. Idle + Defer
    BY GateAssumption
  <1> HIDE DEF n
  <1> QED BY <1>2, <1>3, <1>4 DEF Scheduler

LEMMA RoundKeeps ==
    ASSUME GateInv, RoundStep
    PROVE  GateInv'
  <1>1. /\ Sound(rows, reply, round, page, excused) /\ Len(rows) <= MaxRows
        /\ Len(rows) \in Nat /\ DOMAIN rows = 1 .. Len(rows) /\ rows \in Seq(RowState)
        /\ NoRound \in RoundAt(Len(rows)) /\ NoRound.doing = 0
        /\ sch \in Scheduler
    BY SoundAt, NoneTyped DEF GateInv, Sound, NoRound
  <1>2. prints' = prints /\ manual' = manual /\ reply' = reply /\ page' = page
    BY DEF RoundStep, Begin, RoundLlmFails, RoundAnswer, RoundStored, RoundAddFails, RoundMark, RoundBreaks,
           roundsame
  <1>3. ASSUME Sound(rows', reply', round', page', excused'), Len(rows') <= MaxRows, sch' \in Scheduler
        PROVE  GateInv'
    BY <1>2, <1>3 DEF GateInv
  <1>4. CASE Begin
    <2>1. /\ round.pc = "begin" /\ rows' = rows /\ excused' = excused
          /\ sch' = [sch EXCEPT !.armed = FALSE]
          /\ \/ round' = NoRound
             \/ round' = [pc |-> "llm", open |-> Foremost(Candidates, MaxRound), doing |-> 0]
      BY <1>4 DEF Begin
    <2>2. Candidates \in SUBSET (1 .. Len(rows)) /\ MaxRound \in Nat
      BY <1>1, GateAssumption DEF Candidates, Having
    <2>3. Foremost(Candidates, MaxRound) \in SUBSET (1 .. Len(rows))
          /\ Cardinality(Foremost(Candidates, MaxRound)) <= MaxRound
      BY <1>1, <2>2, ForemostFew
    <2>4. [pc |-> "llm", open |-> Foremost(Candidates, MaxRound), doing |-> 0] \in RoundAt(Len(rows))
      BY <1>1, <2>3 DEF RoundAt
    <2>5. round' \in RoundAt(Len(rows)) /\ round'.doing = 0
      BY <1>1, <2>1, <2>4
    <2>6. Sound(rows, reply, round', page, excused)
      BY <1>1, <2>1, <2>5, FreeRound
    <2>7. sch' \in Scheduler
      BY <1>1, <2>1 DEF Scheduler
    <2> QED BY <1>1, <1>2, <1>3, <2>1, <2>6, <2>7
  <1>5. CASE RoundLlmFails
    <2>1. round.pc = "llm" /\ rows' = rows /\ excused' = excused /\ round' = NoRound
      BY <1>5 DEF RoundLlmFails
    <2>2. Sound(rows, reply, NoRound, page, excused)
      BY <1>1, <2>1, FreeRound
    <2> QED BY <1>1, <1>2, <1>3, <1>5, <2>1, <2>2, LlmFailTyped
  <1>6. CASE RoundAnswer
    <2>1. round.pc = "llm" /\ RoundJudges(rows)
      BY <1>6 DEF RoundAnswer
    <2>2. Sound(rows, reply, NoRound, page, excused)
      BY <1>1, <2>1, FreeRound
    <2> QED BY <1>2, <1>3, <2>1, <2>2, JudgesKeeps
  <1>7. CASE RoundStored
    <2>1. /\ round.pc = "adding" /\ rows' = Stored(rows, round.doing)
          /\ round' = [round EXCEPT !.pc = "stored"] /\ sch' = sch /\ excused' = excused
      BY <1>7 DEF RoundStored
    <2>2. Sound(rows', reply', round', page', excused') /\ Len(rows') = Len(rows)
      BY <1>1, <1>2, <2>1, StoreRound
    <2> QED BY <1>1, <1>3, <2>1, <2>2
  <1>8. CASE RoundAddFails
    <2>1. round.pc = "adding" /\ RoundJudges(rows)
      BY <1>8 DEF RoundAddFails
    <2>2. Sound(rows, reply, NoRound, page, excused)
      BY <1>1, <2>1, FreeRound
    <2> QED BY <1>2, <1>3, <2>1, <2>2, JudgesKeeps
  <1>9. CASE RoundMark
    <2> DEFINE rs == [rows EXCEPT ![round.doing].mem = TRUE]
    <2>1. round.pc = "stored" /\ RoundJudges(rs)
      BY <1>9 DEF RoundMark
    <2>2. Sound(rs, reply, NoRound, page, excused) /\ Len(rs) = Len(rows)
      BY <1>1, <2>1, MarkRound
    <2> HIDE DEF rs
    <2> QED BY <1>2, <1>3, <2>1, <2>2, JudgesKeeps
  <1>10. CASE RoundBreaks
    <2>1. /\ rows' = rows /\ sch' = sch /\ round' = NoRound
          /\ excused' = IF round.pc = "stored" THEN excused \cup {round.doing} ELSE excused
      BY <1>10 DEF RoundBreaks, roundsame
    <2>2. Sound(rows, reply, round, page, excused') /\ (round.pc # "stored" \/ round.doing \in excused')
      BY <1>1, <2>1, MoreExcused
    <2>3. Sound(rows, reply, NoRound, page, excused')
      BY <1>1, <2>2, FreeRound
    <2> QED BY <1>1, <1>2, <1>3, <2>1, <2>3
  <1> QED BY <1>4, <1>5, <1>6, <1>7, <1>8, <1>9, <1>10 DEF RoundStep

\* What else there is.
LEMMA TickTyped ==
    ASSUME sch \in Scheduler, Tick
    PROVE  sch' \in Scheduler
  <1>1. /\ sch.since \in 0 .. Idle + Defer /\ sch.quiet \in Nat /\ sch.fuse \in Nat /\ sch.retry \in Nat
        /\ Idle + Defer \in Nat /\ Grace \in Nat /\ Quiet \in Nat
    BY GateAssumption DEF Scheduler
  <1>2. Max({Grace, Quiet}) \in Nat
    BY <1>1, MaxOf
  <1>3. Older(sch.since, Idle + Defer) \in 0 .. Idle + Defer
    BY <1>1 DEF Older
  <1>4. Older(sch.quiet, Max({Grace, Quiet})) \in Nat
    BY <1>1, <1>2 DEF Older
  <1>5. Less(sch.fuse) \in Nat /\ Less(sch.retry) \in Nat
    BY <1>1 DEF Less
  <1>6. sch' = [sch EXCEPT !.since = Older(sch.since, Idle + Defer),
                           !.quiet = Older(sch.quiet, Max({Grace, Quiet})),
                           !.fuse = Less(sch.fuse), !.retry = Less(sch.retry)]
    BY DEF Tick
  <1> QED BY <1>3, <1>4, <1>5, <1>6 DEF Scheduler

LEMMA StatusChanged ==
    ASSUME NEW c \in 1 .. Len(rows), rows \in Seq(RowState),
           NEW status \in {"candidate", "pending", "closed", "confirmed"},
           rows' = [rows EXCEPT ![c].status = status]
    PROVE  Grown(rows, rows') /\ Len(rows') = Len(rows)
  <1> DEFINE row == [rows[c] EXCEPT !.status = status]
  <1>1. rows \in [1 .. Len(rows) -> RowState] /\ DOMAIN rows = 1 .. Len(rows)
    BY LenProperties
  <1>2. row \in RowState /\ row.mem = rows[c].mem /\ row.stored = rows[c].stored
    BY <1>1 DEF RowState
  <1>3. rows' = [rows EXCEPT ![c] = row]
    OBVIOUS
  <1> HIDE DEF row
  <1>4. rows' \in [1 .. Len(rows) -> RowState]
    BY <1>1, <1>2, <1>3
  <1>5. \A d \in 1 .. Len(rows) : rows'[d].mem = rows[d].mem /\ rows'[d].stored = rows[d].stored
    BY <1>1, <1>2, <1>3
  <1> QED BY <1>4, <1>5, GrownByField

LEMMA VerdictKeeps ==
    ASSUME GateInv, NEW c \in DOMAIN rows, NEW status \in {"confirmed", "pending", "closed"},
           PageVerdict(c, status)
    PROVE  GateInv'
  <1>1. /\ Sound(rows, reply, round, page, excused) /\ Len(rows) <= MaxRows
        /\ Len(rows) \in Nat /\ c \in 1 .. Len(rows) /\ rows \in Seq(RowState)
    BY SoundAt DEF GateInv, Sound
  <1>2. /\ page = 0 /\ rows' = [rows EXCEPT ![c].status = status]
        /\ \/ page' = c /\ excused' = excused \cup Again(c, rows)
           \/ page' = page /\ excused' = excused
        /\ prints' = prints /\ manual' = manual /\ reply' = reply /\ round' = round /\ sch' = sch
    BY DEF PageVerdict, pagesame
  <1>3. Grown(rows, rows') /\ Len(rows') = Len(rows)
    BY <1>1, <1>2, StatusChanged
  <1>4. Sound(rows', reply', round', 0, excused) /\ Len(rows') <= MaxRows
    BY <1>1, <1>2, <1>3, GrownSound
  <1>5. Sound(rows', reply', round', page', excused')
    <2>1. CASE page' = page /\ excused' = excused
      BY <1>2, <1>4, <2>1
    <2>2. CASE page' = c /\ excused' = excused \cup Again(c, rows)
      <3>1. Sound(rows', reply', round', 0, excused')
        BY <1>4, <2>2, MoreExcused
      <3>2. c \in excused' \/ Untaken(c, rows, reply, round, page)
        BY <2>2, AgainOrUntaken
      <3>3. rows'[c].mem = rows[c].mem
        BY <1>1, <1>3 DEF Grown
      <3>4. c \in excused' \/ Untaken(c, rows', reply', round', 0)
        BY <1>2, <3>2, <3>3 DEF Untaken
      <3>5. c \in 1 .. Len(rows')
        BY <1>1, <1>3
      <3> QED BY <2>2, <3>1, <3>4, <3>5, TakePage
    <2> QED BY <1>2, <2>1, <2>2
  <1> QED BY <1>2, <1>4, <1>5 DEF GateInv

LEMMA CrashKeeps ==
    ASSUME GateInv, Crash
    PROVE  GateInv'
  <1>1. /\ Sound(rows, reply, round, page, excused) /\ Len(rows) <= MaxRows
        /\ Len(rows) \in Nat /\ DOMAIN rows = 1 .. Len(rows) /\ rows \in Seq(RowState)
        /\ NoRound \in RoundAt(Len(rows)) /\ NoReply \in ReplyAt(Len(rows))
    BY SoundAt, NoneTyped DEF GateInv, Sound
  <1>2. /\ reply' = [r \in Replies |-> NoReply] /\ page' = 0 /\ round' = NoRound /\ sch' = Fresh
        /\ rows' = rows /\ prints' = prints /\ manual' = manual
    BY DEF Crash
  <1>3. excused' = excused \cup {c \in DOMAIN rows : \/ round.pc = "stored" /\ round.doing = c
                                      \/ \E r \in Replies : reply[r].pc = "stored" /\ reply[r].doing = c}
    BY DEF Crash
  <1>4. ASSUME NEW c \in 1 .. Len(rows), c \notin excused'
        PROVE  OnceFor(c, rows[c], reply', round', page')
    <2>1. c \notin excused /\ OnceFor(c, rows[c], reply, round, page)
      BY <1>1, <1>3, <1>4 DEF Sound, OnceIn
    <2>2. /\ ~ (round.pc = "stored" /\ round.doing = c)
          /\ \A r \in Replies : ~ (reply[r].pc = "stored" /\ reply[r].doing = c)
      BY <1>1, <1>3, <1>4
    <2>3. rows[c].stored = 1 => rows[c].mem
      BY <2>1, <2>2 DEF OnceFor
    <2>4. c # 0 /\ (\A r \in Replies : reply'[r].doing # c) /\ round'.doing # c /\ page' # c
      BY <1>1, <1>2 DEF NoReply, NoRound
    <2> QED BY <2>1, <2>3, <2>4 DEF OnceFor
  <1>5. Sound(rows', reply', round', page', excused')
    BY <1>1, <1>2, <1>4 DEF Sound, OnceIn
  <1>6. sch' \in Scheduler
    <2>1. 0 \in 0 .. Idle + Defer /\ 0 \in 0 .. FuseFailures
      BY GateAssumption
    <2> QED BY <1>2, <2>1 DEF Fresh, Scheduler
  <1> QED BY <1>1, <1>2, <1>5, <1>6 DEF GateInv

LEMMA GateStarts ==
    Init => GateInv
  <1> SUFFICES ASSUME Init PROVE GateInv
    OBVIOUS
  <1>1. /\ rows = <<>> /\ prints = {} /\ manual = {} /\ reply = [r \in Replies |-> NoReply] /\ page = 0
        /\ sch = Fresh /\ round = NoRound
    BY DEF Init
  <1>2. rows \in Seq(RowState) /\ Len(rows) = 0 /\ 0 <= MaxRows
    BY <1>1, GateAssumption
  <1>3. NoRound \in RoundAt(0) /\ NoReply \in ReplyAt(0)
    BY NoneTyped
  <1>4. Sound(rows, reply, round, page, excused)
    BY <1>1, <1>2, <1>3 DEF Sound, OnceIn
  <1>5. sch \in Scheduler
    <2>1. 0 \in 0 .. Idle + Defer /\ 0 \in 0 .. FuseFailures
      BY GateAssumption
    <2> QED BY <1>1, <2>1 DEF Fresh, Scheduler
  <1> QED BY <1>1, <1>2, <1>4, <1>5 DEF GateInv

LEMMA GateKept ==
    GateInv /\ [Next]_vars => GateInv'
  <1> SUFFICES ASSUME GateInv, [Next]_vars PROVE GateInv'
    OBVIOUS
  <1>1. /\ Sound(rows, reply, round, page, excused) /\ Len(rows) <= MaxRows
        /\ DOMAIN rows = 1 .. Len(rows) /\ rows \in Seq(RowState)
        /\ NoRound \in RoundAt(Len(rows)) /\ NoRound.doing = 0
        /\ prints \subseteq Texts /\ manual \subseteq Texts /\ sch \in Scheduler
    BY SoundAt, NoneTyped DEF GateInv, Sound, NoRound
  <1>2. CASE Tick
    <2>1. sch' \in Scheduler
      BY <1>1, <1>2, TickTyped
    <2> QED BY <1>1, <1>2, <2>1 DEF Tick, gatevars, workvars, GateInv
  <1>3. CASE Trigger
    <2>1. /\ round.pc = "off" /\ round' = [NoRound EXCEPT !.pc = "begin"] /\ reply' = reply /\ page' = page
          /\ rows' = rows /\ prints' = prints /\ manual' = manual /\ sch' = sch /\ excused' = excused
      BY <1>3 DEF Trigger, gatevars
    <2>2. round' \in RoundAt(Len(rows)) /\ round'.doing = 0
      BY <1>1, <2>1 DEF NoRound, RoundAt
    <2>3. Sound(rows, reply, round', page, excused)
      BY <1>1, <2>1, <2>2, FreeRound
    <2> QED BY <1>1, <2>1, <2>3 DEF GateInv
  <1>4. CASE RoundStep
    BY <1>4, RoundKeeps
  <1>5. CASE \E r \in Replies : ReplyArrives(r) \/ ReplyStep(r)
    BY <1>5, ReplyKeeps
  <1>6. ASSUME NEW c \in DOMAIN rows, Restore(c) PROVE GateInv'
    <2>1. /\ rows' = [rows EXCEPT ![c].status = "candidate"] /\ reply' = reply /\ round' = round /\ page' = page
          /\ prints' = prints /\ manual' = manual /\ sch' = sch /\ excused' = excused
      BY <1>6 DEF Restore, pagesame
    <2>2. Grown(rows, rows') /\ Len(rows') = Len(rows)
      BY <1>1, <1>6, <2>1, StatusChanged
    <2>3. Sound(rows', reply, round, page, excused)
      BY <1>1, <2>2, GrownSound
    <2> QED BY <1>1, <2>1, <2>2, <2>3 DEF GateInv
  <1>7. ASSUME NEW c \in DOMAIN rows, NEW s \in {"confirmed", "pending", "closed"}, PageVerdict(c, s)
        PROVE  GateInv'
    BY <1>7, VerdictKeeps
  <1>8. CASE PageStored
    <2>1. /\ page # 0 /\ rows' = Stored(rows, page) /\ excused' = excused \cup {page} /\ page' = 0
          /\ reply' = reply /\ round' = round /\ prints' = prints /\ manual' = manual /\ sch' = sch
      BY <1>8 DEF PageStored, pagesame
    <2>2. Sound(rows', reply, round, 0, excused') /\ Len(rows') = Len(rows)
      BY <1>1, <2>1, StorePage
    <2> QED BY <1>1, <2>1, <2>2 DEF GateInv
  <1>9. CASE PageFails
    <2>1. /\ page' = 0 /\ rows' = rows /\ excused' = excused
          /\ reply' = reply /\ round' = round /\ prints' = prints /\ manual' = manual /\ sch' = sch
      BY <1>9 DEF PageFails, pagesame
    <2>2. Sound(rows, reply, round, 0, excused)
      BY <1>1, FreePage
    <2> QED BY <1>1, <2>1, <2>2 DEF GateInv
  <1>10. ASSUME NEW t \in Texts, Memorize(t) \/ Revoke(t) PROVE GateInv'
    BY <1>1, <1>10 DEF Memorize, Revoke, workvars, GateInv
  <1>11. CASE Midnight
    BY <1>1, <1>11 DEF Midnight, workvars, GateInv
  <1>12. CASE Crash
    BY <1>12, CrashKeeps
  <1>13. CASE UNCHANGED vars
    BY <1>13 DEF vars, gatevars, workvars, GateInv
  <1>14. CASE \/ \E c \in DOMAIN rows : \/ Restore(c)
                                       \/ \E s \in {"confirmed", "pending", "closed"} : PageVerdict(c, s)
              \/ \E t \in Texts : Memorize(t) \/ Revoke(t)
    BY <1>6, <1>7, <1>10, <1>14
  <1> QED BY <1>2, <1>3, <1>4, <1>5, <1>8, <1>9, <1>11, <1>12, <1>13, <1>14 DEF Next

LEMMA GateInvSound ==
    GateInv => RowsSound
  <1> SUFFICES ASSUME GateInv PROVE RowsSound
    OBVIOUS
  <1>1. /\ DOMAIN rows = 1 .. Len(rows) /\ rows \in [1 .. Len(rows) -> RowState]
        /\ round.doing \in 0 .. Len(rows) /\ round.open \subseteq 1 .. Len(rows)
        /\ Cardinality(round.open) <= MaxRound
    BY SoundAt DEF GateInv
  <1>2. TypeOK
    BY <1>1 DEF TypeOK, GateInv, Scheduler
  <1>3. ASSUME NEW c \in DOMAIN rows, rows[c].stored > 1 PROVE c \in excused
    <2>1. c \in excused \/ OnceFor(c, rows[c], reply, round, page)
      BY <1>1 DEF GateInv, Sound, OnceIn
    <2>2. rows[c].stored \in 0 .. 2
      BY <1>1 DEF RowState
    <2> QED BY <1>3, <2>1, <2>2 DEF OnceFor
  <1> QED BY <1>2, <1>3 DEF RowsSound, StoredAgainExplained

\* A confirmed candidate becomes a memory a second time only for a reason
\* (RowsSound), whatever sentences, scores, limits and times there are.
THEOREM CandidatesStoredOnce ==
    Spec => []RowsSound
  <1> QED BY GateStarts, GateKept, GateInvSound, PTL DEF Spec
====
