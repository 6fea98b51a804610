----------------------- MODULE MCDistributedIdempotency -----------------------
(* Model-checking instance of DistributedIdempotency.                       *)
EXTENDS DistributedIdempotency

CONSTANTS r1, r2, r3

ThreeRequests == {r1, r2, r3}
=============================================================================
