------------------------ MODULE FillStreamWorker_proof ------------------------
(***************************************************************************)
(* Proofs about LeaderLease and FillStreamWorker, for any number of        *)
(* processes and pairs and any lease longer than a poll interval, when no  *)
(* cycle outlasts the interval.                                            *)
(***************************************************************************)
EXTENDS FillStreamWorker, TLAPS

LEMMA Constants ==
    /\ NoInstance \notin Instances
    /\ LeaseTicks \in Nat /\ LeaseTicks > 1
  BY InstanceAssumption, LeaseAssumption

(* The cycle stands on a lease nobody can take before time passes.         *)
CycleInv ==
    \A i \in Instances :
        /\ pc[i] = "renewing" => holder = i
        /\ pc[i] = "leading" => holder = i /\ left = LeaseTicks

LeaseInv == LeaseTypeOK /\ CycleInv

LEMMA LeaseInvInit == LeaseInit => LeaseInv
  BY Constants DEF LeaseInit, LeaseInv, LeaseTypeOK, CycleInv, MidCycle, Reading

(* One step of one process, or of time, keeps the lease invariant.         *)
LEMMA ElectionKeeps ==
    ASSUME LeaseInv, NEW i \in Instances, TryAcquireOrRenew(i) \/ LeaseFails(i)
    PROVE  LeaseInv'
<1> USE Constants DEF LeaseInv, LeaseTypeOK, CycleInv, MidCycle, Reading, Goto
<1>1. CASE Begin(i)
  BY <1>1 DEF Begin
<1>2. CASE ReadHolder(i)
  BY <1>2 DEF ReadHolder
<1>3. CASE Renew(i)
  BY <1>3 DEF Renew, Grant
<1>4. CASE Acquire(i)
  BY <1>4 DEF Acquire, Grant
<1>5. CASE LeaseFails(i)
  BY <1>5 DEF LeaseFails, Grant
<1> QED
  BY <1>1, <1>2, <1>3, <1>4, <1>5 DEF TryAcquireOrRenew

LEMMA SleepKeeps ==
    ASSUME LeaseInv, NEW i \in Instances, pc[i] \in {"leading", "following"}, Sleep(i)
    PROVE  LeaseInv'
  BY DEF LeaseInv, LeaseTypeOK, CycleInv, MidCycle, Reading, Sleep, Goto

LEMMA ExitKeeps ==
    ASSUME LeaseInv, NEW i \in Instances, Exit(i)
    PROVE  LeaseInv'
  BY DEF LeaseInv, LeaseTypeOK, CycleInv, MidCycle, Reading, Exit, Goto

LEMMA TickKeeps ==
    ASSUME LeaseInv, ~Stalls, Tick
    PROVE  LeaseInv'
  BY Constants DEF LeaseInv, LeaseTypeOK, CycleInv, MidCycle, Reading, Tick, Punctual, LeaseWearsOut

LEMMA LeaseInvStep ==
    ASSUME LeaseInv, ~Stalls, [LeaseNext]_leaseVars
    PROVE  LeaseInv'
<1>1. CASE UNCHANGED leaseVars
  BY <1>1 DEF LeaseInv, LeaseTypeOK, CycleInv, leaseVars
<1>2. ASSUME NEW i \in Instances, FinishCycle(i) PROVE LeaseInv'
  BY <1>2, SleepKeeps DEF FinishCycle
<1> QED
  BY <1>1, <1>2, ElectionKeeps, ExitKeeps, TickKeeps DEF LeaseNext

(* Type correctness of the lease. *)
THEOREM LeaseTypeCorrect == ~Stalls => (LeaseSpec => []LeaseTypeOK)
<1> SUFFICES ASSUME ~Stalls PROVE LeaseSpec => []LeaseTypeOK
  OBVIOUS
<1>1. LeaseInv => LeaseTypeOK
  BY DEF LeaseInv
<1>2. LeaseInv /\ [LeaseNext]_leaseVars => LeaseInv'
  BY LeaseInvStep
<1> QED
  BY <1>1, <1>2, LeaseInvInit, PTL DEF LeaseSpec

(* When cycles end within the poll interval, at most one process leads.    *)
THEOREM LeaseExcludes == ~Stalls => (LeaseSpec => []OneLeader)
<1> SUFFICES ASSUME ~Stalls PROVE LeaseSpec => []OneLeader
  OBVIOUS
<1>1. LeaseInv => OneLeader
  BY DEF LeaseInv, CycleInv, OneLeader
<1>2. LeaseInv /\ [LeaseNext]_leaseVars => LeaseInv'
  BY LeaseInvStep
<1> QED
  BY <1>1, <1>2, LeaseInvInit, PTL DEF LeaseSpec

(* Under the same condition the leader's lease has not expired.            *)
THEOREM LeaderOwnsLease == ~Stalls => (LeaseSpec => []LeaderHoldsLease)
<1> SUFFICES ASSUME ~Stalls PROVE LeaseSpec => []LeaderHoldsLease
  OBVIOUS
<1>1. LeaseInv => LeaderHoldsLease
  BY DEF LeaseInv, CycleInv, LeaderHoldsLease
<1>2. LeaseInv /\ [LeaseNext]_leaseVars => LeaseInv'
  BY LeaseInvStep
<1> QED
  BY <1>1, <1>2, LeaseInvInit, PTL DEF LeaseSpec

-----------------------------------------------------------------------------
(* The streams                                                             *)

Inv ==
    /\ LeaseInv
    /\ TypeOK
    /\ StreamsOutlastNoLease
    /\ \A i \in Instances : pc[i] = "down" => Streaming(i) = {}

LEMMA InvInit == Init => Inv
  BY LeaseInvInit DEF Init, Inv, LeaseInv, TypeOK, StreamsOutlastNoLease, Streaming,
     NoStreams, Tasks

LEMMA InvStep == ASSUME Inv, ~Stalls, [Next]_vars PROVE Inv'
<1> USE Constants DEF Inv
<1>1. CASE UNCHANGED vars
  BY <1>1 DEF vars, LeaseInv, LeaseTypeOK, CycleInv, TypeOK, StreamsOutlastNoLease, Streaming
<1>2. ASSUME NEW i \in Instances, Election(i) \/ ElectionFails(i) PROVE Inv'
  <2>1. LeaseInv' /\ UNCHANGED <<wanted, stream>>
    BY <1>2, ElectionKeeps DEF Election, ElectionFails
  <2>2. TypeOK'
    BY <2>1 DEF LeaseInv, TypeOK
  <2>3. \A j \in Instances : Streaming(j)' = Streaming(j)
    BY <2>1 DEF Streaming
  <2>4. \A j \in Instances : Streaming(j) # {} => holder' = j /\ left' >= left /\ wake' = wake
    BY <1>2 DEF Election, ElectionFails, TryAcquireOrRenew, LeaseFails, Begin, ReadHolder,
       Renew, Acquire, Grant, StreamsOutlastNoLease, LeaseInv, LeaseTypeOK, CycleInv
  <2>5. \A j \in Instances : /\ pc'[j] = "sleeping" => pc[j] = "sleeping"
                             /\ pc'[j] = "down" => pc[j] = "down"
    BY <1>2 DEF Election, ElectionFails, TryAcquireOrRenew, LeaseFails, Begin, ReadHolder,
       Renew, Acquire, Goto, LeaseInv, LeaseTypeOK, Reading
  <2>6. StreamsOutlastNoLease'
    BY <2>1, <2>3, <2>4, <2>5 DEF StreamsOutlastNoLease, LeaseInv, LeaseTypeOK
  <2> QED
    BY <2>1, <2>2, <2>3, <2>5, <2>6
<1>3. ASSUME NEW i \in Instances, Lead(i) PROVE Inv'
  <2> USE <1>3 DEF Lead
  <2>1. LeaseInv'
    BY SleepKeeps
  <2>2. stream' \in [Instances -> [Pairs -> Tasks]]
    BY DEF ReconcilePairs, TypeOK, Tasks
  <2>3. /\ holder = i /\ left = LeaseTicks /\ UNCHANGED <<holder, left>>
        /\ wake'[i] = 1 /\ pc'[i] = "sleeping"
    BY DEF Sleep, Goto, LeaseInv, CycleInv, LeaseTypeOK
  <2>4. \A j \in Instances \ {i} : Streaming(j)' = {}
    BY <2>3 DEF ReconcilePairs, Streaming, StreamsOutlastNoLease, TypeOK
  <2>5. StreamsOutlastNoLease'
    BY <2>3, <2>4 DEF StreamsOutlastNoLease
  <2> QED
    BY <2>1, <2>2, <2>3, <2>4, <2>5 DEF TypeOK, LeaseInv
<1>4. ASSUME NEW i \in Instances, LeadFails(i) PROVE Inv'
  <2> USE <1>4 DEF LeadFails
  <2>1. LeaseInv'
    BY SleepKeeps
  <2>2. /\ holder = i /\ left = LeaseTicks /\ UNCHANGED <<holder, left>>
        /\ wake'[i] = 1 /\ pc'[i] = "sleeping"
    BY DEF Sleep, Goto, LeaseInv, CycleInv, LeaseTypeOK
  <2>3. \A j \in Instances : Streaming(j)' = Streaming(j)
    BY DEF Streaming
  <2> QED
    BY <2>1, <2>2, <2>3 DEF TypeOK, LeaseInv, StreamsOutlastNoLease, Sleep, Goto, LeaseTypeOK
<1>5. ASSUME NEW i \in Instances, StandDown(i) PROVE Inv'
  <2> USE <1>5 DEF StandDown
  <2>1. LeaseInv'
    BY SleepKeeps
  <2>2. stream' \in [Instances -> [Pairs -> Tasks]]
    BY DEF NoStreams, TypeOK, Tasks
  <2>3. Streaming(i)' = {} /\ \A j \in Instances \ {i} : Streaming(j)' = Streaming(j)
    BY DEF Streaming, NoStreams, TypeOK
  <2> QED
    BY <2>1, <2>2, <2>3 DEF TypeOK, LeaseInv, StreamsOutlastNoLease, Sleep, Goto, LeaseTypeOK
<1>6. ASSUME NEW i \in Instances, ProcessExits(i) PROVE Inv'
  <2> USE <1>6 DEF ProcessExits
  <2>1. LeaseInv'
    BY ExitKeeps
  <2>2. stream' \in [Instances -> [Pairs -> Tasks]]
    BY DEF NoStreams, TypeOK, Tasks
  <2>3. Streaming(i)' = {} /\ \A j \in Instances \ {i} : Streaming(j)' = Streaming(j)
    BY DEF Streaming, NoStreams, TypeOK
  <2> QED
    BY <2>1, <2>2, <2>3 DEF TypeOK, LeaseInv, StreamsOutlastNoLease, Exit, Goto, LeaseTypeOK
<1>7. ASSUME NEW i \in Instances, NEW p \in Pairs, Connect(i, p) \/ ConnectFails(i, p)
      PROVE  Inv'
  <2>1. LeaseInv'
    BY <1>7 DEF Connect, ConnectFails, LeaseInv, LeaseTypeOK, CycleInv
  <2>2. stream' \in [Instances -> [Pairs -> Tasks]]
    BY <1>7 DEF Connect, ConnectFails, TypeOK, Tasks
  <2>3. \A j \in Instances : Streaming(j)' = Streaming(j)
    BY <1>7 DEF Connect, ConnectFails, Streaming, TypeOK, Tasks
  <2> QED
    BY <1>7, <2>1, <2>2, <2>3 DEF Connect, ConnectFails, TypeOK, LeaseInv, StreamsOutlastNoLease
<1>8. CASE DeploymentChanges
  BY <1>8 DEF DeploymentChanges, LeaseInv, LeaseTypeOK, CycleInv, TypeOK, StreamsOutlastNoLease,
     Streaming
<1>9. CASE TimePasses
  <2> USE <1>9 DEF TimePasses
  <2>1. LeaseInv'
    BY TickKeeps
  <2>2. \A j \in Instances : Streaming(j)' = Streaming(j)
    BY DEF Streaming
  <2>3. ASSUME NEW j \in Instances, Streaming(j) # {}
        PROVE  holder' = j /\ left' > wake'[j]
    <3>1. pc[j] = "sleeping" /\ wake[j] = 1 /\ left > 1 /\ holder = j
      BY <2>3 DEF Tick, Punctual, StreamsOutlastNoLease, LeaseInv, LeaseTypeOK
    <3> QED
      BY <3>1 DEF Tick, LeaseWearsOut, LeaseInv, LeaseTypeOK
  <2> QED
    BY <2>1, <2>2, <2>3 DEF TypeOK, LeaseInv, StreamsOutlastNoLease, Tick
<1> QED
  BY <1>1, <1>2, <1>3, <1>4, <1>5, <1>6, <1>7, <1>8, <1>9 DEF Next, Calm, Worker

(* Type correctness of the worker.                                         *)
THEOREM TypeCorrect == ~Stalls => (Spec => []TypeOK)
<1> SUFFICES ASSUME ~Stalls PROVE Spec => []TypeOK
  OBVIOUS
<1>1. Inv => TypeOK
  BY DEF Inv
<1>2. Inv /\ [Next]_vars => Inv'
  BY InvStep
<1> QED
  BY <1>1, <1>2, InvInit, PTL DEF Spec

(* When cycles end within the poll interval, at most one process has       *)
(* streams open: no fill has two writers.                                  *)
THEOREM OneWriter == ~Stalls => (Spec => []OneStreamer)
<1> SUFFICES ASSUME ~Stalls PROVE Spec => []OneStreamer
  OBVIOUS
<1>1. Inv => OneStreamer
  BY DEF Inv, StreamsOutlastNoLease, OneStreamer
<1>2. Inv /\ [Next]_vars => Inv'
  BY InvStep
<1> QED
  BY <1>1, <1>2, InvInit, PTL DEF Spec

(* Under the same condition a sleeping streamer wakes before its lease ends. *)
THEOREM StreamsKeepLease == ~Stalls => (Spec => []StreamsOutlastNoLease)
<1> SUFFICES ASSUME ~Stalls PROVE Spec => []StreamsOutlastNoLease
  OBVIOUS
<1>1. Inv => StreamsOutlastNoLease
  BY DEF Inv
<1>2. Inv /\ [Next]_vars => Inv'
  BY InvStep
<1> QED
  BY <1>1, <1>2, InvInit, PTL DEF Spec
-----------------------------------------------------------------------------
(* The worker is one of the loops of LeaderLease                           *)

LEMMA StepsTheLoop == [Next]_vars => [LeaseNext]_leaseVars
<1> SUFFICES ASSUME Next PROVE [LeaseNext]_leaseVars
  BY DEF vars, leaseVars
<1>1. CASE TimePasses
  BY <1>1 DEF TimePasses, LeaseNext
<1>2. CASE DeploymentChanges
  BY <1>2 DEF DeploymentChanges, leaseVars
<1>3. ASSUME NEW i \in Instances, Election(i) \/ ElectionFails(i) PROVE LeaseNext
  BY <1>3 DEF Election, ElectionFails, LeaseNext
<1>4. ASSUME NEW i \in Instances, Lead(i) \/ LeadFails(i) \/ StandDown(i) PROVE LeaseNext
  BY <1>4 DEF Lead, LeadFails, StandDown, FinishCycle, LeaseNext
<1>5. ASSUME NEW i \in Instances, ProcessExits(i) PROVE LeaseNext
  BY <1>5 DEF ProcessExits, LeaseNext
<1>6. ASSUME NEW i \in Instances, NEW p \in Pairs, Connect(i, p) \/ ConnectFails(i, p)
      PROVE  UNCHANGED leaseVars
  BY <1>6 DEF Connect, ConnectFails, leaseVars
<1> QED
  BY <1>1, <1>2, <1>3, <1>4, <1>5, <1>6 DEF Next, Calm, Worker

(* Whatever the streams do, and however long cycles take, the worker's     *)
(* process_iteration is a cycle of the loop LeaderLease specifies.         *)
THEOREM RunsTheLoop == Spec => LeaseSpec
<1>1. Init => LeaseInit
  BY DEF Init
<1> QED
  BY <1>1, StepsTheLoop, PTL DEF Spec, LeaseSpec

(* So a fill worker that reconciles its streams holds the lease, and is    *)
(* the only one that does.                                                 *)
THEOREM WorkerLeads ==
    ~Stalls => (Spec => [](LeaderHoldsLease /\ OneLeader))
  BY RunsTheLoop, LeaderOwnsLease, LeaseExcludes, PTL
=============================================================================
