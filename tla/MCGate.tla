------------------------------- MODULE MCGate -------------------------------
(* Two sentences: the second is partly like the first and let in for its   *)
(* emotion.                                                                *)
EXTENDS Gate

MCTexts == {"a", "b"}
MCScore == [a |-> 60, b |-> 40]
MCExpress == {"b"}
MCLiable == MCTexts
MCLikeness == [p \in MCTexts \X MCTexts |-> IF p[1] = p[2] THEN 100 ELSE 50]
=============================================================================
