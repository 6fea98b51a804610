----------------------------- MODULE MCSettlement -----------------------------
(* Model-checking instance of Settlement.                                   *)
EXTENDS Settlement, TLC

CONSTANTS p1, p2, w1, w2

TwoPayments == {p1, p2}
OneWorker   == {w1}
TwoWorkers  == {w1, w2}

\* Payments and workers are interchangeable.
Symmetry == Permutations(Payment) \cup Permutations(Worker)
=============================================================================
