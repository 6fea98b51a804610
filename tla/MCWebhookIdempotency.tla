------------------------- MODULE MCWebhookIdempotency -------------------------
(* Model-checking instance of WebhookIdempotency.                           *)
EXTENDS WebhookIdempotency

CONSTANTS d1, d2, d3

TwoDeliveries   == {d1, d2}
ThreeDeliveries == {d1, d2, d3}
=============================================================================
