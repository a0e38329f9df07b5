----------------------------- MODULE MCMemories ------------------------------
(* The store of the memories, a search in it, the hook of a request, and   *)
(* the feelings: parts that share no variable, each a behaviour of its own.*)
EXTENDS MemoryStore, Retrieval, Recall, Emotions, TLC

VARIABLE part
allvars == <<part, vars, searchvars, recallvars, emovars>>

AllInit ==
    /\ part \in {"store", "search", "hook", "emotion"}
    /\ Init /\ RetrievalInit /\ RecallInit /\ EmoInit
    /\ part # "store" => \A d \in Alive : row[d] = NewMeta
    /\ part # "emotion" => trust.kept = Unknown
AllNext ==
    /\ part' = part
    /\ \/ part = "store" /\ Next /\ UNCHANGED <<searchvars, recallvars, emovars>>
       \/ part = "search" /\ RetrievalNext /\ UNCHANGED <<vars, recallvars, emovars>>
       \/ part = "hook" /\ RecallNext /\ UNCHANGED <<vars, searchvars, emovars>>
       \/ part = "emotion" /\ EmoNext /\ UNCHANGED <<vars, searchvars, recallvars>>
AllSpec == AllInit /\ [][AllNext]_allvars
(* Slots of coroutines, and messages, are interchangeable.                 *)
Symmetric == Permutations(Jobs) \cup Permutations(Messages)
=============================================================================
