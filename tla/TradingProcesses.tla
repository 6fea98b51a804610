--------------------------- MODULE TradingProcesses ---------------------------
(***************************************************************************)
(* The worker processes that run orders through the gate at the head of    *)
(* ExecutionEngine.execute_with_idempotency, and the Redis connection      *)
(* (backend/redis_manager.py) each of them reads the safety controls over. *)
(***************************************************************************)
EXTENDS Naturals, FiniteSets

CONSTANTS
    Processes, \* gunicorn and ECS workers
    Orders,    \* orders at the gate; a member is used again when it has left
    None,
    MaxFaults  \* bounds failed Redis calls and crashes

ASSUME ProcessAssumption ==
    /\ None \notin Processes \cup Orders
    /\ MaxFaults \in Nat

VARIABLES
    linked, \* the process's RedisManager has connected once
    order,  \* where each order is at the gate, and what it was told
    faults

processVars == <<linked, order, faults>>

(* An order waits for the probe lock, for the answer of a GET of the kill  *)
(* switch (in a probe or not), then for that of the tenant's halt. saw is  *)
(* the answer it was given. The rest is history, for the properties: has   *)
(* the switch been off, has the tenant been free, since the order came.    *)
Asking  == {"queued", "reading", "probing", "asking"}
Told    == {"answered", "probed", "told"}
Nowhere == [at |-> "idle", proc |-> None, saw |-> FALSE,
            off |-> FALSE, free |-> FALSE]

OrderStates == [at : Asking \cup Told \cup {"idle", "passed"},
                proc : Processes \cup {None}, saw : BOOLEAN,
                off : BOOLEAN, free : BOOLEAN]

OrderTypeOK ==
    /\ order \in [Orders -> OrderStates]
    /\ \A o \in Orders : order[o].at = "idle" <=> order[o].proc = None

ProcessTypeOK ==
    /\ linked \in [Processes -> BOOLEAN]
    /\ OrderTypeOK
    /\ faults \in 0..MaxFaults

ProcessInit ==
    /\ linked = [p \in Processes |-> FALSE]
    /\ order = [o \in Orders |-> Nowhere]
    /\ faults = 0

Fault == faults < MaxFaults /\ faults' = faults + 1

\* A call of process p is answered; it raises, over a connection or for want
\* of one.
Answers(p) == linked[p] /\ UNCHANGED faults
Fails(p) == (~linked[p] /\ UNCHANGED faults) \/ Fault

\* A write of Redis that failed: it may have been executed all the same.
MaybeDone(p, old, new) == {old} \cup (IF linked[p] THEN {new} ELSE {})

\* initialize: all three databases answered the ping.
Link(p) ==
    /\ ~linked[p]
    /\ linked' = [linked EXCEPT ![p] = TRUE]
    /\ UNCHANGED <<order, faults>>

Waits(o, place) == order' = [order EXCEPT ![o].at = place]
IsTold(o, place, value) == order' = [order EXCEPT ![o].at = place, ![o].saw = value]
Leaves(o) == order' = [order EXCEPT ![o] = Nowhere]

\* History: every order at the gate has lived to see it.
SeesOff == [o \in Orders |->
    IF order[o].at = "idle" THEN order[o] ELSE [order[o] EXCEPT !.off = TRUE]]
SeesFree == [o \in Orders |->
    IF order[o].at = "idle" THEN order[o] ELSE [order[o] EXCEPT !.free = TRUE]]

=============================================================================
