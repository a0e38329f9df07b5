----------------------------- MODULE MCServices ------------------------------
(* The start of the stores, what follows a stored memory, and the daily    *)
(* story and bottle, which share no variable: a behaviour is one of one of *)
(* them, and of the story or of the bottle, which share the clock and the  *)
(* scheduler.                                                              *)
EXTENDS IndexStartup, Ecosystem, Stories

\* All memories are about one topic and each two contradict each other.
MCTopic == [m \in Mems |-> 1]
MCOpposed == {p \in Mems \X Mems : p[1] > p[2]}

VARIABLE part
allvars == <<part, vars, ecovars, storyvars>>

AllInit ==
    /\ part \in {"start", "ecosystem", "story", "bottle"}
    /\ Init /\ EcoInit /\ StoriesInit
    /\ part # "start" => docs = {} /\ row = Current /\ vec = {}
In(p) == part = p /\ UNCHANGED part
Start == In("start") /\ UNCHANGED <<ecovars, storyvars>>
Eco == In("ecosystem") /\ UNCHANGED <<vars, storyvars>>
AllNext ==
    \/ Start /\ Next
    \/ Eco /\ EcoNext
    \/ In("story") /\ (StoryStep \/ Outside) /\ UNCHANGED <<vars, ecovars>>
    \/ In("bottle") /\ (BottleStep \/ Outside) /\ UNCHANGED <<vars, ecovars>>
\* The fairness of the parts.
AllSpec ==
    /\ AllInit /\ [][AllNext]_allvars
    /\ WF_allvars(Start /\ StartStep) /\ \A r \in Rebuilders : WF_allvars(Start /\ Rebuild(r))
    /\ WF_allvars(Eco /\ LoopStep) /\ \A i \in Processors : WF_allvars(Eco /\ BusStep(i))
=============================================================================
