------------------------------- MODULE Graph ---------------------------------
(***************************************************************************)
(* The memory graph (storage/graph_store*.py) and its manager              *)
(* (core/managers/graph_memory_manager.py): nodes, edges and entries in    *)
(* SQLite, with foreign keys on, and a vector of each entry in a store of  *)
(* its own.  One action per transaction, or per await between two of them. *)
(*                                                                         *)
(* An item of a memory is an entity (a node key) or a relation             *)
(* <<source, type, target>>; an entry is an item of a memory.  Row ids are *)
(* never used again: a call that holds an id holds a key of which the row  *)
(* has not been deleted since.                                             *)
(***************************************************************************)
EXTENDS Integers, FiniteSets, Sequences
Fn == INSTANCE Functions

CONSTANTS
    Sources, Entities,
    Facts, Topics,   \* of each memory's metadata: sets of entities
    People,          \* of each memory's metadata: a sequence of entities
    Atoms,           \* of each memory: [fact, entities] of each atom
    GraphJobs,       \* slots for calls of the manager
    MaxGraphOps, MaxGraphCrashes, MaxSkipped,   \* bounds: calls, crashes, entries left without a vector
    ShownNodes       \* limit_nodes of the page

RelationTypes == {"describes", "mentioned_in", "co_occurs_with"}
Relations == Entities \X RelationTypes \X Entities
Items == Entities \cup Relations

ASSUME GraphAssumption ==
    /\ Facts \in [Sources -> SUBSET Entities] /\ Topics \in [Sources -> SUBSET Entities]
    /\ People \in [Sources -> Seq(Entities)]
    /\ Atoms \in [Sources -> SUBSET [fact : Entities, entities : SUBSET Entities]]
    /\ Entities \cap Relations = {}
    /\ {MaxGraphOps, MaxGraphCrashes, MaxSkipped, ShownNodes} \subseteq Nat

VARIABLES
    nodes,     \* entities with a row
    edges,     \* [of, owner]: one row per relation, and the memory that made it
    entries,   \* <<memory, item>>: rows, each linked to its nodes and its edge
    texts,     \* entries in the full-text table
    vecs,      \* entries whose row names a vector
    stray,     \* entries for which there is a vector no row names
    call,      \* call[j]: a call of the manager between two awaits
    settled,   \* history: what the last call of a memory left, if it was alone
    cascaded,  \* history: entries that went with the edge of another memory
    forgiven,   \* history: entries whose vector may have been left behind
    gops, gcrashes

tables == <<nodes, edges, entries, texts, vecs, stray>>
graphvars == <<tables, call, settled, cascaded, forgiven, gops, gcrashes>>

-----------------------------------------------------------------------------
(* What is extracted of a memory: from its metadata, or from its atoms.  A *)
(* memory of which nothing is told, whose summary becomes a node, is left  *)
(* out.                                                                    *)
Pairs(n) == {p \in (1..n) \X (1..n) : p[1] < p[2]}
FromText(m) ==
    [entities |-> Facts[m] \cup Topics[m] \cup Fn!Range(People[m]),
     relations |-> (Topics[m] \X {"describes"} \X Facts[m])
        \cup (Fn!Range(People[m]) \X {"mentioned_in"} \X Facts[m])
        \cup {<<People[m][p[1]], "co_occurs_with", People[m][p[2]]>> : p \in Pairs(Len(People[m]))}]
FromAtoms(m) ==
    [entities |-> UNION {{a.fact} \cup a.entities : a \in Atoms[m]},
     relations |-> UNION {a.entities \X {"describes"} \X {a.fact} : a \in Atoms[m]}]
Modes == {"text", "atoms"}
Extract(m, mode) == IF mode = "atoms" /\ Atoms[m] # {} THEN FromAtoms(m) ELSE FromText(m)
ItemsOf(m, mode) == Extract(m, mode).entities \cup Extract(m, mode).relations
EntriesOf(m, mode) == {m} \X ItemsOf(m, mode)

Ends(r) == {r[1], r[3]}
\* The nodes an entry is linked to.
NodesOf(e) == IF e[2] \in Relations THEN Ends(e[2]) ELSE {e[2]}
Related(E) == {d.of : d \in E}

NoJob == [pc |-> "none", mems |-> {}, mode |-> "gone", alone |-> TRUE,
          nodes |-> {}, edges |-> {}, rows |-> {}, made |-> {}, doomed |-> {}]
Stage(j, pc) == call[j].pc = pc
TheMemory(j) == CHOOSE m \in Sources : call[j].mems = {m}

GraphInit ==
    /\ nodes = {} /\ edges = {} /\ entries = {} /\ texts = {} /\ vecs = {} /\ stray = {}
    /\ call = [j \in GraphJobs |-> NoJob]
    /\ settled = [m \in Sources |-> "gone"] /\ cascaded = {} /\ forgiven = {}
    /\ gops = 0 /\ gcrashes = 0

-----------------------------------------------------------------------------
(* Calls.  index_memory begins with delete_memory.                         *)
Begin(j, M, mode) ==
    /\ Stage(j, "none") /\ gops < MaxGraphOps /\ gops' = gops + 1
    /\ LET rivals == {k \in GraphJobs : call[k].mems \cap M # {}}
       IN call' = [k \in GraphJobs |->
            IF k = j THEN [NoJob EXCEPT !.pc = "delete", !.mems = M, !.mode = mode, !.alone = rivals = {}]
            ELSE [call[k] EXCEPT !.alone = @ /\ k \notin rivals]]
    /\ settled' = [m \in Sources |-> IF m \in M THEN "unsettled" ELSE settled[m]]
    /\ UNCHANGED <<tables, cascaded, forgiven, gcrashes>>
Index(j) == \E m \in Sources, mode \in Modes : Begin(j, {m}, mode)
Delete(j) == \E M \in SUBSET Sources \ {{}} : Begin(j, M, "gone")

\* The call returns, or raises; a memory it leaves alone is settled.
Return(j, ok) ==
    /\ call' = [call EXCEPT ![j] = NoJob]
    /\ settled' = [m \in Sources |->
         IF m \in call[j].mems /\ call[j].alone /\ ok THEN call[j].mode ELSE settled[m]]

-----------------------------------------------------------------------------
(* One transaction deletes the entries of the memories, their edges and    *)
(* every node nothing refers to.  With an edge go the entries of other     *)
(* memories that were merged into it (ON DELETE CASCADE); their text rows  *)
(* and vectors stay.                                                       *)
\* Mutant: nodes that only entries refer to are deleted too.
Unused_ByEdges(E, T) == {n \in nodes : n \notin UNION {Ends(r) : r \in Related(E)}}
Unused(E, T) ==
    {n \in nodes : n \notin (UNION {Ends(r) : r \in Related(E)}) \cup (UNION {NodesOf(e) : e \in T})}
\* Mutant: the edges of the memories' nodes are deleted.
Away_Touching(M) == {d \in edges : \E e \in entries : e[1] \in M /\ NodesOf(e) \cap Ends(d.of) # {}}
Away(M) == {d \in edges : d.owner \in M}
DeleteRows(j) ==
    LET M == call[j].mems
        own == {e \in entries : e[1] \in M}
        away == Away(M)
        others == {e \in entries \ own : e[2] \in Related(away)}
        unused == Unused(edges \ away, entries \ (own \cup others))
    IN /\ Stage(j, "delete")
       /\ entries' = entries \ (own \cup others) /\ texts' = texts \ own
       /\ edges' = edges \ away /\ nodes' = nodes \ unused
       /\ vecs' = vecs \ (own \cup others) /\ stray' = stray \cup (vecs \cap others)
       /\ cascaded' = (cascaded \ own) \cup others /\ forgiven' = forgiven \cup others
       /\ call' = [k \in GraphJobs |->
            [call[k] EXCEPT !.nodes = @ \ unused, !.edges = @ \ Related(away),
                           !.rows = @ \ (own \cup others),
                           !.doomed = IF k = j THEN vecs \cap own ELSE @,
                           !.pc = IF k = j THEN "unembed" ELSE @]]
       /\ UNCHANGED <<settled, gops, gcrashes>>

\* The vectors of the deleted entries, one await each; the store may fail at
\* any of them.
DeleteVectors(j) ==
    /\ Stage(j, "unembed")
    /\ IF call[j].mode = "gone" THEN Return(j, TRUE)
       ELSE call' = [call EXCEPT ![j].pc = "nodes", ![j].doomed = {}] /\ UNCHANGED settled
    /\ UNCHANGED <<tables, cascaded, forgiven, gops, gcrashes>>
DeleteVectorFails(j) ==
    /\ Stage(j, "unembed")
    /\ \E left \in SUBSET call[j].doomed \ {{}} :
          stray' = stray \cup left /\ forgiven' = forgiven \cup left
    /\ Return(j, FALSE)
    /\ UNCHANGED <<nodes, edges, entries, texts, vecs, cascaded, gops, gcrashes>>

-----------------------------------------------------------------------------
(* Indexing: nodes, edges and entries in a transaction each.               *)
UpsertNodes(j) ==
    LET new == Extract(TheMemory(j), call[j].mode).entities
    IN /\ Stage(j, "nodes") /\ nodes' = nodes \cup new
       /\ call' = [call EXCEPT ![j].pc = "edges", ![j].nodes = new]
       /\ UNCHANGED <<edges, entries, texts, vecs, stray, settled, cascaded, forgiven, gops, gcrashes>>

\* The memory's own edge is updated; an edge of another memory between the
\* same nodes takes the new one in; else a row is inserted, which the foreign
\* keys allow while the nodes are there.
Exact(m, r) == [of |-> r, owner |-> m] \in edges
Insertable(j, r) == Ends(r) \subseteq call[j].nodes
NewEdges(m, R) == {[of |-> r, owner |-> m] : r \in R \ Related(edges)}
AddEdges(j) ==
    LET m == TheMemory(j)
        R == Extract(m, call[j].mode).relations
    IN /\ Stage(j, "edges")
       /\ \A r \in R : Exact(m, r) \/ Insertable(j, r)
       /\ edges' = edges \cup NewEdges(m, R)
       /\ call' = [call EXCEPT ![j].pc = "entries", ![j].edges = R]
       /\ UNCHANGED <<nodes, entries, texts, vecs, stray, settled, cascaded, forgiven, gops, gcrashes>>
\* Nodes nothing referred to yet have been deleted with another memory: the
\* transaction is rolled back.
AddEdgesFails(j) ==
    /\ Stage(j, "edges")
    /\ \E r \in Extract(TheMemory(j), call[j].mode).relations :
          ~Exact(TheMemory(j), r) /\ ~Insertable(j, r)
    /\ Return(j, FALSE)
    /\ UNCHANGED <<tables, cascaded, forgiven, gops, gcrashes>>

Linkable(j, e) == NodesOf(e) \subseteq call[j].nodes /\ (e[2] \in Relations => e[2] \in call[j].edges)
AddEntries(j) ==
    LET new == EntriesOf(TheMemory(j), call[j].mode)
    IN /\ Stage(j, "entries")
       /\ \A e \in new : Linkable(j, e)
       /\ entries' = entries \cup new /\ texts' = texts \cup new /\ cascaded' = cascaded \ new
       /\ call' = [call EXCEPT ![j].pc = "embed", ![j].rows = new]
       /\ UNCHANGED <<nodes, edges, vecs, stray, settled, forgiven, gops, gcrashes>>
AddEntriesFails(j) ==
    /\ Stage(j, "entries")
    /\ \E e \in EntriesOf(TheMemory(j), call[j].mode) : ~Linkable(j, e)
    /\ Return(j, FALSE)
    /\ UNCHANGED <<tables, cascaded, forgiven, gops, gcrashes>>

\* An entry is embedded after another; a transient error that lasts leaves
\* one out, any other ends the call, but what was embedded is recorded.
Embed(j) ==
    /\ Stage(j, "embed")
    /\ \E skipped \in SUBSET EntriesOf(TheMemory(j), call[j].mode), pc \in {"record", "raise"} :
          /\ Cardinality(skipped) <= MaxSkipped
          /\ call' = [call EXCEPT ![j].pc = pc, ![j].made = EntriesOf(TheMemory(j), call[j].mode) \ skipped]
    /\ UNCHANGED <<tables, settled, cascaded, forgiven, gops, gcrashes>>
\* Mutant: an error skips the update.
Named_OnlyWhenDone(j) == IF Stage(j, "raise") THEN {} ELSE call[j].made \cap call[j].rows
Named(j) == call[j].made \cap call[j].rows
\* Rows that are gone are not updated, and a vector a row named before is
\* named no more.
Record(j) ==
    /\ Stage(j, "record") \/ Stage(j, "raise")
    /\ vecs' = vecs \cup Named(j)
    /\ stray' = stray \cup (call[j].made \ Named(j)) \cup (vecs \cap Named(j))
    /\ forgiven' = forgiven \cup (call[j].made \ call[j].rows) \cup (vecs \cap call[j].rows)
    /\ Return(j, Stage(j, "record"))
    /\ UNCHANGED <<nodes, edges, entries, texts, cascaded, gops, gcrashes>>

GraphCrash ==
    /\ gcrashes < MaxGraphCrashes /\ gcrashes' = gcrashes + 1
    /\ LET left == UNION {call[j].made \cup call[j].doomed : j \in GraphJobs}
       IN stray' = stray \cup left /\ forgiven' = forgiven \cup left
    /\ call' = [j \in GraphJobs |-> NoJob]
    /\ UNCHANGED <<nodes, edges, entries, texts, vecs, settled, cascaded, gops>>

IndexStep(j) ==
    \/ Index(j) \/ UpsertNodes(j) \/ AddEdges(j) \/ AddEdgesFails(j)
    \/ AddEntries(j) \/ AddEntriesFails(j) \/ Embed(j) \/ Record(j)
DeleteStep(j) == Delete(j) \/ DeleteRows(j) \/ DeleteVectors(j) \/ DeleteVectorFails(j)
GraphNext == (\E j \in GraphJobs : IndexStep(j) \/ DeleteStep(j)) \/ GraphCrash
GraphSpec == GraphInit /\ [][GraphNext]_graphvars

-----------------------------------------------------------------------------
(* Reads.  The keyword route finds entries with one of the words, entries  *)
(* of nodes with one, and those of their neighbours, two hops away.        *)
TextHits(W) == {e \in texts \cap entries : NodesOf(e) \cap W # {}}
EntriesAt(N) == {e \in entries : NodesOf(e) \cap N # {}}
Neighbours(N) == (UNION {Ends(r) : r \in {q \in Related(edges) : Ends(q) \cap N # {}}}) \ N
Route(W) ==
    LET near == Neighbours(W \cap nodes)
        far == Neighbours(near) \ W
    IN {e[1] : e \in TextHits(W) \cup EntriesAt((W \cap nodes) \cup near \cup far)}

(* The page shows some memories: the nodes of their entries and their own  *)
(* edges between those; of too many nodes the heaviest, then less edges    *)
(* and entries.  limit_entries and limit_edges are not reached.            *)
ShownEntries(M) == {e \in entries : e[1] \in M}
NodesOn(M) == UNION {NodesOf(e) : e \in ShownEntries(M)}
EdgesOn(M) == {d \in edges : d.owner \in M /\ Ends(d.of) \subseteq NodesOn(M)}
Weight(M, n) ==
    LET at == {e \in ShownEntries(M) : n \in NodesOf(e)}
    IN 100 * Cardinality(at) + 75 * Cardinality({e[1] : e \in at})
       + 35 * Cardinality({d \in EdgesOn(M) : n \in Ends(d.of)})
Heaviest(M) ==
    {N \in SUBSET NodesOn(M) :
        /\ Cardinality(N) <= ShownNodes
        /\ Cardinality(N) = ShownNodes \/ N = NodesOn(M)
        /\ \A n \in N, k \in NodesOn(M) \ N : Weight(M, n) >= Weight(M, k)}
\* Mutant: the edges of all the memories' nodes.
Page_AllEdges(M, N) ==
    [nodes |-> N, edges |-> EdgesOn(M), entries |-> {e \in ShownEntries(M) : NodesOf(e) \cap N # {}}]
Page(M, N) ==
    [nodes |-> N, edges |-> {d \in EdgesOn(M) : Ends(d.of) \subseteq N},
     entries |-> {e \in ShownEntries(M) : NodesOf(e) \cap N # {}}]

\* The memories a page is of: one, the recent ones, or for a word what the
\* engine found and what has an entry at its node.
Overview == {e[1] : e \in entries}
Asked(w) == {found \cup {e[1] : e \in EntriesAt({w} \cap nodes)} : found \in SUBSET Sources}
Views == {{m} : m \in Sources} \cup {Overview} \cup UNION {Asked(w) : w \in Entities}
-----------------------------------------------------------------------------
GraphTypeOK ==
    /\ nodes \subseteq Entities /\ edges \subseteq [of : Relations, owner : Sources]
    /\ entries \subseteq Sources \X Items /\ vecs \subseteq entries /\ entries \subseteq texts
    /\ {texts, stray, cascaded, forgiven} \subseteq SUBSET (Sources \X Items)
    /\ \A j \in GraphJobs : call[j].mems \subseteq Sources /\ call[j].mode \in Modes \cup {"gone"}
    /\ settled \in [Sources -> Modes \cup {"gone", "unsettled"}]

(* Every edge has its two nodes and every entry its nodes and its edge; of *)
(* a memory its last call settled, the graph holds what was extracted and  *)
(* nothing else, less the entries that went with an edge of another memory,*)
(* whatever other calls did at the same time.                              *)
Linked ==
    /\ \A d \in edges : Ends(d.of) \subseteq nodes
    /\ \A e \in entries : NodesOf(e) \subseteq nodes /\ (e[2] \in Relations => e[2] \in Related(edges))
Kept(m) == IF settled[m] = "gone" THEN {} ELSE EntriesOf(m, settled[m])
SettledWhole ==
    \A m \in Sources : settled[m] # "unsettled" =>
        {e \in entries : e[1] = m} = Kept(m) \ cascaded
GraphWhole == GraphTypeOK /\ Linked /\ SettledWhole

(* A search for a word finds every settled memory that tells of it, by the *)
(* text of its entries, and no deleted one; what the page shows of         *)
(* memories has both ends of each edge, and each node an entry.            *)
RouteFinds ==
    \A w \in Entities, m \in Sources :
        /\ settled[m] \in Modes /\ w \in Extract(m, settled[m]).entities => m \in Route({w})
        /\ settled[m] = "gone" => m \notin Route({w})
PageWhole ==
    \A M \in Views : \A N \in Heaviest(M) :
        LET p == Page(M, N) IN
        /\ \A d \in p.edges : Ends(d.of) \subseteq p.nodes
        /\ p.nodes \subseteq UNION {NodesOf(e) : e \in p.entries}
ReadsWhole == RouteFinds /\ PageWhole

(* A vector no row names, which a search still finds, is left only by a    *)
(* crash, a failure of the vector store while deleting, two calls for one  *)
(* memory at once, or with an entry that went with another memory's edge.  *)
StrayExplained == stray \subseteq forgiven

(* delete_memory deletes "graph artifacts belonging to one source memory": *)
(* no entry of another memory goes.                                        *)
OnlyOwnDeleted ==
    [][\A j \in GraphJobs : DeleteRows(j) => \A e \in entries \ entries' : e[1] \in call[j].mems]_graphvars

(* A search finds items as GraphIndex promises: an extraction at once, and *)
(* a loss only of a withdrawn memory or of a relation shared with one.     *)
Found == [m \in Sources |-> {e[2] : e \in {x \in entries : x[1] = m}}]
Index_ == INSTANCE GraphIndex WITH
    found <- Found, Memories <- Sources, Contents <- [m \in Sources |-> {ItemsOf(m, mode) : mode \in Modes}]
FoundAsPromised == Index_!Promise
=============================================================================
