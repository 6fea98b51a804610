---------------------------- MODULE SerialAttempts ----------------------------
(***************************************************************************)
(* What the durable layer promises a payment event, with no cache, no rows *)
(* and no clocks: attempts at the event come one after the other, only the *)
(* one under way has effects, and when one of them has closed the event,   *)
(* nothing more happens to it. An attempt may also end in nothing, by an   *)
(* error, a crash or a mark that is lost; then another may follow.         *)
(***************************************************************************)
CONSTANT Deliveries

VARIABLES
    attempt, \* the delivery that is being handled, if any
    applied, \* the deliveries whose effects were applied
    closed   \* the event is completed for ever

vars == <<attempt, applied, closed>>

Init == attempt = {} /\ applied = {} /\ closed = FALSE

Begin(d) ==
    /\ ~closed /\ attempt = {}
    /\ attempt' = {d}
    /\ UNCHANGED <<applied, closed>>

Apply(d) ==
    /\ attempt = {d}
    /\ applied' = applied \cup {d}
    /\ UNCHANGED <<attempt, closed>>

End(d) ==
    /\ attempt = {d}
    /\ attempt' = {}
    /\ closed' \in BOOLEAN
    /\ UNCHANGED applied

Next == \E d \in Deliveries : Begin(d) \/ Apply(d) \/ End(d)

Spec == Init /\ [][Next]_vars
=============================================================================
