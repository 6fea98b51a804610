------------------------------ MODULE LeaderLease ------------------------------
(***************************************************************************)
(* core/leader_lease.py try_acquire_or_renew: one renewable Redis lease    *)
(* that elects, among the processes that all run the same background loop, *)
(* the one that does the loop's work this cycle. The loops of the order    *)
(* watchdog, the reconciliation scheduler and the exchange reconciliation  *)
(* are this module's Spec; FillStreamWorker builds on its actions.         *)
(*                                                                         *)
(* Time is counted in poll intervals: a Tick is one interval, a lease      *)
(* lives for LeaseTicks of them, and a loop sleeps for one.                *)
(***************************************************************************)
EXTENDS Naturals, FiniteSets

CONSTANTS
    Instances,   \* the processes, each with its own instance_id
    NoInstance,  \* stands for "no instance"
    LeaseTicks,  \* ttl_seconds in poll intervals
    Stalls       \* TRUE: a cycle may take longer than a poll interval

ASSUME InstanceAssumption == NoInstance \notin Instances
\* "Must exceed the loop's own interval".
ASSUME LeaseAssumption == LeaseTicks \in Nat /\ LeaseTicks > 1
ASSUME StallAssumption == Stalls \in BOOLEAN

VARIABLES
    holder,  \* the instance_id under the lease key
    left,    \* what is left of the key's TTL
    pc,      \* where each process is in its cycle
    wake     \* what is left of each process's sleep

leaseVars == <<holder, left, pc, wake>>

Reading  == {"reading", "renewing", "acquiring"}
MidCycle == Reading \cup {"leading", "following"}
Alive(i) == pc[i] # "down"

LeaseTypeOK ==
    /\ holder \in Instances \cup {NoInstance}
    /\ left \in 0..LeaseTicks
    /\ holder = NoInstance <=> left = 0
    /\ pc \in [Instances -> MidCycle \cup {"sleeping", "down"}]
    /\ wake \in [Instances -> 0..1]

LeaseInit ==
    /\ holder = NoInstance
    /\ left = 0
    /\ pc = [i \in Instances |-> "sleeping"]
    /\ wake = [i \in Instances |-> 0]

Goto(i, place) == pc' = [pc EXCEPT ![i] = place]

-----------------------------------------------------------------------------
(* try_acquire_or_renew                                                    *)

\* SET key i EX ttl, with or without NX.
Grant(i) == holder' = i /\ left' = LeaseTicks /\ UNCHANGED wake

Begin(i) ==
    /\ pc[i] = "sleeping" /\ wake[i] = 0
    /\ Goto(i, "reading")
    /\ UNCHANGED <<holder, left, wake>>

\* GET key: "still me" or not.
ReadHolder(i) ==
    /\ pc[i] = "reading"
    /\ Goto(i, IF holder = i THEN "renewing" ELSE "acquiring")
    /\ UNCHANGED <<holder, left, wake>>

\* The plain SET, a call of its own: it writes over whatever is there by now.
Renew(i) ==
    /\ pc[i] = "renewing"
    /\ Grant(i)
    /\ Goto(i, "leading")

\* SET NX.
Acquire(i) ==
    /\ pc[i] = "acquiring"
    /\ \/ /\ holder = NoInstance
          /\ Grant(i)
          /\ Goto(i, "leading")
       \/ /\ holder # NoInstance
          /\ Goto(i, "following")
          /\ UNCHANGED <<holder, left, wake>>

\* Mutant: a failing call is taken for leadership.
LeaseFailsOpen(i) ==
    /\ pc[i] \in Reading
    /\ Goto(i, "leading")
    /\ UNCHANGED <<holder, left, wake>>

\* Any failing call answers False; the SET may have been executed.
LeaseFails(i) ==
    /\ pc[i] \in Reading
    /\ Goto(i, "following")
    /\ \/ UNCHANGED <<holder, left, wake>>
       \/ pc[i] = "renewing" /\ Grant(i)
       \/ pc[i] = "acquiring" /\ holder = NoInstance /\ Grant(i)

TryAcquireOrRenew(i) == Begin(i) \/ ReadHolder(i) \/ Renew(i) \/ Acquire(i)

-----------------------------------------------------------------------------
(* The loop around it                                                      *)

Sleep(i) ==
    /\ Goto(i, "sleeping")
    /\ wake' = [wake EXCEPT ![i] = 1]
    /\ UNCHANGED <<holder, left>>

\* The leader has done the cycle's work, the others have skipped it.
FinishCycle(i) ==
    /\ pc[i] \in {"leading", "following"}
    /\ Sleep(i)

\* The process ends; the one that replaces it has an id of its own.
Exit(i) ==
    /\ Alive(i)
    /\ Goto(i, "down")
    /\ UNCHANGED <<holder, left, wake>>

\* Mutant: time does not wear the lease out.
LeaseKeeps == UNCHANGED <<holder, left>>

\* Redis drops the key when its TTL has run out.
LeaseWearsOut ==
    /\ left' = IF left = 0 THEN 0 ELSE left - 1
    /\ holder' = IF left' = 0 THEN NoInstance ELSE holder

\* A process that is awake is done with its cycle before the next interval.
Punctual ==
    \A i \in Instances :
        pc[i] \notin MidCycle /\ (pc[i] = "sleeping" => wake[i] = 1)

Tick ==
    /\ Stalls \/ Punctual
    /\ LeaseWearsOut
    /\ wake' = [i \in Instances |-> 0]
    /\ UNCHANGED pc

LeaseNext ==
    \/ Tick
    \/ \E i \in Instances :
          TryAcquireOrRenew(i) \/ LeaseFails(i) \/ FinishCycle(i) \/ Exit(i)

LeaseSpec == LeaseInit /\ [][LeaseNext]_leaseVars

-----------------------------------------------------------------------------
(* Properties                                                              *)

\* "Exactly one at a time": at most one process is doing the leader's work.
OneLeader ==
    \A i, j \in Instances : pc[i] = "leading" /\ pc[j] = "leading" => i = j

\* A leader works under its own unexpired lease.
LeaderHoldsLease == \A i \in Instances : pc[i] = "leading" => holder = i
=============================================================================
