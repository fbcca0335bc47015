--------------------------- MODULE MCAiGeneration ---------------------------
(* The estimates of the two kinds of profile: 9 cents and 2; 27 cents is    *)
(* what 8000 tokens read and the 16000 a response may have cost.            *)
EXTENDS AiGeneration, TLC

CONSTANTS drafting, rewrite, c1, c2, g1, g2, g3

MCReservation == [p \in Profiles |-> IF p = drafting THEN 9 ELSE 2]
=============================================================================
