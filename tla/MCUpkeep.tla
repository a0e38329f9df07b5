------------------------------ MODULE MCUpkeep -------------------------------
(* The memory graph and the daily decay, which share no variable: a        *)
(* behaviour is one of the one or of the other.                            *)
EXTENDS MCGraph, MCDailyDecay

VARIABLE part
allvars == <<part, graphvars, vars>>

AllInit == part \in {"graph", "decay"} /\ GraphInit /\ Init /\ (part = "graph" => ~late)
AllNext ==
    /\ part' = part
    /\ \/ part = "graph" /\ GraphNext /\ UNCHANGED vars
       \/ part = "decay" /\ Next /\ UNCHANGED graphvars
AllSpec == AllInit /\ [][AllNext]_allvars
=============================================================================
