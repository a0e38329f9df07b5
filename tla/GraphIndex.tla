----------------------------- MODULE GraphIndex ------------------------------
(***************************************************************************)
(* What the memory graph promises to a search: which items (entities and   *)
(* relations) of which memory can be found.  The items one extraction made *)
(* appear together; the items of withdrawn memories disappear together,    *)
(* and take from other memories no more than relations both tell of.       *)
(***************************************************************************)
CONSTANTS Memories, Items, Relations,
    Contents    \* Contents[m]: the sets of items an extraction of m may make

VARIABLE found

Empty == found = [m \in Memories |-> {}]
Told(M) == UNION {UNION Contents[m] : m \in M}

Appear(m) == \E C \in Contents[m] : found' = [found EXCEPT ![m] = @ \cup C]
Withdraw(M) ==
    /\ found' \in [Memories -> SUBSET Items]
    /\ \A m \in M : found'[m] = {}
    /\ \A n \in Memories \ M :
         found'[n] \subseteq found[n] /\ found[n] \ found'[n] \subseteq Relations \cap Told(M)

Move == \/ \E m \in Memories : Appear(m)
        \/ \E M \in SUBSET Memories : Withdraw(M)
Promise == Empty /\ [][Move]_found
=============================================================================
