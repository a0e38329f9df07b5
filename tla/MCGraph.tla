------------------------------ MODULE MCGraph --------------------------------
EXTENDS Graph, TLC
CONSTANTS s1, s2, f, t, a
MCFacts == [m \in {s1, s2} |-> {f}]
MCTopics == (s1 :> {t} @@ s2 :> {})
MCPeople == (s1 :> <<>> @@ s2 :> <<a>>)
MCAtoms == (s1 :> {} @@ s2 :> {[fact |-> f, entities |-> {t}]})

Symmetric == Permutations(GraphJobs)
=============================================================================
