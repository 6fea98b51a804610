----------------------------- MODULE TradingGate -----------------------------
(***************************************************************************)
(* The gate of ExecutionEngine.execute_with_idempotency: an order asks     *)
(* GlobalKillSwitch.is_active, then tenant_halt.is_halted, and goes on to  *)
(* the exchange only if both say no. Beside it run the transitions of the  *)
(* switch and of the halt, failing Redis calls and restarting processes.   *)
(***************************************************************************)
EXTENDS GlobalKillSwitch, TenantHalt

vars == <<processVars, switchVars, haltVars>>

TypeOK == ProcessTypeOK /\ SwitchTypeOK /\ HaltTypeOK

Init == ProcessInit /\ SwitchInit /\ HaltInit

-----------------------------------------------------------------------------
(* is_active                                                               *)

Here(o) == order[o].proc

\* The process is still to act on an off that is no more: on the answer of a
\* GET, or on the SET of a reset.
OffOnItsWay(p) ==
    \/ \E o \in Orders :
         order[o].proc = p /\ order[o].at \in {"answered", "probed"} /\ ~order[o].saw
    \/ \E z \in Resets : reset[z].proc = p /\ reset[z].at = "cleared"

\* With a latch, and no probe due, the order is refused at once: no step.
Arrives(o, p) ==
    /\ order[o].at = "idle"
    /\ ~(latch[p] /\ waits[p])
    /\ order' = [order EXCEPT ![o] =
            [at |-> IF latch[p] THEN "queued" ELSE "reading", proc |-> p, saw |-> FALSE,
             off |-> ~switch \/ OffOnItsWay(p), free |-> ~halt]]
    /\ UNCHANGED <<linked, faults, switchVars, haltVars>>

\* is_active answered FALSE: is_halted looks into the mirror at once.
IsActiveSaysNo(o) == IF mirror[Here(o)] THEN Leaves(o) ELSE Waits(o, "asking")

\* A probe that another order has completed is not repeated.
TakesProbeLock(o) ==
    /\ order[o].at = "queued"
    /\ \A x \in Orders : Here(x) = Here(o) => order[x].at \notin {"probing", "probed"}
    /\ CASE latch[Here(o)] -> Waits(o, "probing")
         [] ~latch[Here(o)] /\ last[Here(o)] -> Leaves(o)
         [] OTHER -> IsActiveSaysNo(o)
    /\ UNCHANGED <<linked, faults, switchVars, haltVars>>

\* The GET is executed; its answer is on its way.
ReadsSwitch(o) ==
    /\ order[o].at \in {"reading", "probing"} /\ Answers(Here(o))
    /\ IsTold(o, IF order[o].at = "reading" THEN "answered" ELSE "probed", switch)
    /\ UNCHANGED <<linked, switchVars, haltVars>>

\* Mutant: a key that cannot be read is a key that is not set.
CannotReadSwitchFailsOpen(o) ==
    /\ order[o].at \in {"reading", "probing"} /\ Fails(Here(o))
    /\ Waits(o, "asking")
    /\ UNCHANGED <<linked, switchVars, haltVars>>

\* RedisUnavailable: the latch is engaged, or kept; the order is refused.
CannotReadSwitch(o) ==
    LET p == Here(o) IN
    /\ order[o].at \in {"reading", "probing"} /\ Fails(p)
    /\ latch' = IF order[o].at = "reading" THEN [latch EXCEPT ![p] = TRUE] ELSE latch
    /\ waits' = [waits EXCEPT ![p] = TRUE]
    /\ last' = [last EXCEPT ![p] = TRUE]
    /\ Leaves(o)
    /\ UNCHANGED <<linked, switch, holds, lock, act, reset, standing, haltVars>>

\* Mutant: a probe lifts the latch only if the key has a value.
IsActiveDecidesKeepsLatch(o) ==
    LET p == Here(o) IN
    /\ order[o].at \in {"answered", "probed"}
    /\ IF order[o].at = "probed" /\ order[o].saw THEN SetLatch(p, FALSE) ELSE UNCHANGED latchVars
    /\ IF order[o].saw \/ order[o].at = "probed" THEN Leaves(o) ELSE IsActiveSaysNo(o)
    /\ UNCHANGED <<linked, faults, switch, holds, lock, act, reset, standing, haltVars>>

\* The answer arrives. That of a probe lifts the latch.
IsActiveDecides(o) ==
    LET p == Here(o) IN
    /\ order[o].at \in {"answered", "probed"}
    /\ last' = [last EXCEPT ![p] = order[o].saw]
    /\ IF order[o].at = "probed"
       THEN latch' = [latch EXCEPT ![p] = FALSE] /\ waits' = [waits EXCEPT ![p] = FALSE]
       ELSE UNCHANGED <<latch, waits>>
    /\ IF order[o].saw THEN Leaves(o) ELSE IsActiveSaysNo(o)
    /\ UNCHANGED <<linked, faults, switch, holds, lock, act, reset, standing, haltVars>>

-----------------------------------------------------------------------------
(* is_halted                                                               *)

\* The GET; a manager that never connected is taken for a deployment without
\* a shared store, and the order passes.
ReadsHalt(o) ==
    /\ order[o].at = "asking"
    /\ IF linked[Here(o)] THEN IsTold(o, "told", halt) ELSE Waits(o, "passed")
    /\ UNCHANGED <<linked, faults, switchVars, haltVars>>

\* Mutant: a halt that cannot be read is no halt.
CannotReadHaltFailsOpen(o) ==
    /\ order[o].at = "asking" /\ linked[Here(o)] /\ Fault
    /\ Waits(o, "passed")
    /\ UNCHANGED <<linked, switchVars, haltVars>>

\* TenantHaltUnknown
CannotReadHalt(o) ==
    /\ order[o].at = "asking" /\ linked[Here(o)] /\ Fault
    /\ Leaves(o)
    /\ UNCHANGED <<linked, switchVars, haltVars>>

\* The answer overwrites the mirror.
IsHaltedDecides(o) ==
    /\ order[o].at = "told"
    /\ mirror' = [mirror EXCEPT ![Here(o)] = order[o].saw]
    /\ IF order[o].saw THEN Leaves(o) ELSE Waits(o, "passed")
    /\ UNCHANGED <<linked, faults, switchVars, halt, toggle>>

GoesOn(o) ==
    /\ order[o].at = "passed"
    /\ Leaves(o)
    /\ UNCHANGED <<linked, faults, switchVars, haltVars>>

Check(o) ==
    \/ TakesProbeLock(o) \/ ReadsSwitch(o) \/ CannotReadSwitch(o) \/ IsActiveDecides(o)
    \/ ReadsHalt(o) \/ CannotReadHalt(o) \/ IsHaltedDecides(o) \/ GoesOn(o)

-----------------------------------------------------------------------------

Restarts(p) ==
    /\ Fault
    /\ linked' = [linked EXCEPT ![p] = FALSE]
    /\ order' = [o \in Orders |-> IF order[o].proc = p THEN Nowhere ELSE order[o]]
    /\ SwitchForgets(p)
    /\ HaltForgets(p)

Connects(p) == Link(p) /\ UNCHANGED <<switchVars, haltVars>>

Next ==
    \/ \E o \in Orders : Check(o) \/ \E p \in Processes : Arrives(o, p)
    \/ Transition /\ UNCHANGED haltVars
    \/ Toggled /\ UNCHANGED switchVars
    \/ LockExpires /\ UNCHANGED haltVars
    \/ \E p \in Processes : Connects(p) \/ Restarts(p) \/ (ProbeIsDue(p) /\ UNCHANGED haltVars)

Spec == Init /\ [][Next]_vars

\* Every process's bots keep asking, checks and transitions go on, time passes,
\* a connection is made in the end.
FairSpec ==
    /\ Spec
    /\ \A o \in Orders : WF_vars(Check(o))
    /\ \A p \in Processes :
         /\ SF_vars(\E o \in Orders : Arrives(o, p))
         /\ WF_vars(Connects(p))
         /\ WF_vars(ProbeIsDue(p) /\ UNCHANGED haltVars)

-----------------------------------------------------------------------------
(* Properties                                                              *)

\* For an order that passed the gate, the switch was really off and the tenant
\* really free, in Redis, at a moment the order was there or its process was
\* still to learn of (OffOnItsWay): no failed call, restart, local copy or
\* missing connection stands in for either. That a process without a
\* connection reads no halt does not matter, because is_active refuses its
\* orders before (the order of checks in execute_with_idempotency).
PassedWhileAllowed == \A o \in Orders :
    order[o].at = "passed" => order[o].off /\ order[o].free

\* A halt whose activation took the transition lock and wrote key and hold
\* keeps the switch engaged until a reset that was shown it: no reset that read
\* the holds before lets it go.
UnreviewedHaltStands == standing # {} => switch

\* A latch engaged by an outage, or by an activation that could not be written,
\* is lifted once Redis answers: transient failures do not block a process for
\* ever.
LatchIsLifted == \A p \in Processes : []<>(latch[p] => switch)
=============================================================================
