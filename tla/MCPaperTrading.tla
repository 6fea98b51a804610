--------------------------- MODULE MCPaperTrading ---------------------------
(* Model-checking instance of PaperTrading: the reservations.               *)
EXTENDS PaperTrading, TLC

CONSTANTS p1, p2, limit1, market1

MCReserve == [o \in Orders |-> IF o \in Limit THEN 2 ELSE 0]

Symmetry ==
    Permutations(Processes) \cup Permutations(Limit) \cup Permutations(Orders \ Limit)
=============================================================================
