-------------------------- MODULE MCFillStreamWorker --------------------------
(* Model-checking instance of FillStreamWorker.                             *)
EXTENDS FillStreamWorker

CONSTANTS i1, i2, i3, p1, p2

TwoInstances   == {i1, i2}
ThreeInstances == {i1, i2, i3}
OnePair        == {p1}
TwoPairs       == {p1, p2}
=============================================================================
