---------------------------- MODULE MCTradingGate ----------------------------
(* Model-checking instance of TradingGate.                                  *)
EXTENDS TradingGate, TLC

CONSTANTS p1, p2, a1, a2, z1, o1, o2, u1

Symmetry == Permutations(Activations) \cup Permutations(Orders)
=============================================================================
