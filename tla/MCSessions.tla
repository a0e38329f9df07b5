------------------------------ MODULE MCSessions -----------------------------
(* The messages of sessions and their summaries, which share no state but  *)
(* the messages read: a behaviour is one of the one or of the other.       *)
EXTENDS Conversation, SessionSummary

VARIABLE part
allvars == <<part, cvars, svars>>

Init == part \in {"messages", "summaries"} /\ ConvInit /\ SumInit
Next ==
    /\ part' = part
    /\ \/ part = "messages" /\ ConvNext /\ UNCHANGED svars
       \/ part = "summaries" /\ SumNext /\ UNCHANGED cvars
Spec == Init /\ [][Next]_allvars
        /\ WF_allvars(part = "summaries" /\ LoopStep /\ UNCHANGED <<part, cvars>>)
=============================================================================
