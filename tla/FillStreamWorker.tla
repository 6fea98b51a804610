--------------------------- MODULE FillStreamWorker ---------------------------
(***************************************************************************)
(* workers/exchange_fill_worker.py over the lease of LeaderLease: the      *)
(* leader keeps one private order stream open for every (tenant, venue)    *)
(* pair with a live deployment. Unlike the loops of LeaderLease its work   *)
(* does not end with the cycle: the streams stay open while it sleeps.     *)
(*                                                                         *)
(* The loop of core/worker_base.py skips its cycle, lease check included,  *)
(* and sleeps for two intervals under backpressure. Nothing in the program *)
(* feeds that controller (update_queue_size has no caller), so the branch  *)
(* is never taken and has no action here.                                  *)
(***************************************************************************)
EXTENDS LeaderLease

CONSTANTS
    Pairs  \* the (tenant, venue) pairs

VARIABLES
    wanted,  \* the pairs of live-mode rows of strategy_deployments
    stream   \* the listener task of each pair in each process

vars == <<holder, left, pc, wake, wanted, stream>>

\* A listener task has not begun to connect, is in its loop, or is over; a
\* task that is over still counts as a running one for the worker.
Tasks == {"none", "connecting", "open", "dead"}
Streaming(i) == {p \in Pairs : stream[i][p] # "none"}

TypeOK ==
    /\ LeaseTypeOK
    /\ wanted \subseteq Pairs
    /\ stream \in [Instances -> [Pairs -> Tasks]]

NoStreams == [p \in Pairs |-> "none"]

Init ==
    /\ LeaseInit
    /\ wanted = {}
    /\ stream = [i \in Instances |-> NoStreams]

-----------------------------------------------------------------------------
(* process_iteration, after try_acquire_or_renew                           *)

\* Mutant: streams of retired pairs are left open.
ReconcilePairsAddOnly(i) ==
    stream' = [stream EXCEPT ![i] = [p \in Pairs |->
        IF p \in wanted /\ @[p] = "none" THEN "connecting" ELSE @[p]]]

\* _reconcile_pairs: open what is wanted and not yet streamed, close the rest.
ReconcilePairs(i) ==
    stream' = [stream EXCEPT ![i] = [p \in Pairs |->
        IF p \notin wanted THEN "none"
        ELSE IF @[p] = "none" THEN "connecting" ELSE @[p]]]

Lead(i) ==
    /\ pc[i] = "leading"
    /\ ReconcilePairs(i)
    /\ Sleep(i)
    /\ UNCHANGED wanted

\* The chain does not start, or the live rows cannot be read: the streams are
\* left as they are.
LeadFails(i) ==
    /\ pc[i] = "leading"
    /\ Sleep(i)
    /\ UNCHANGED <<wanted, stream>>

\* Mutant: a process that lost the lease only stops reconciling.
StandDownLazily(i) ==
    /\ pc[i] = "following"
    /\ Sleep(i)
    /\ UNCHANGED <<wanted, stream>>

\* Not the leader, or leadership is unverifiable: _stop_chain.
StandDown(i) ==
    /\ pc[i] = "following"
    /\ stream' = [stream EXCEPT ![i] = NoStreams]
    /\ Sleep(i)
    /\ UNCHANGED wanted

-----------------------------------------------------------------------------
(* The listener tasks, the deployments and the processes                   *)

Connect(i, p) ==
    /\ stream[i][p] = "connecting"
    /\ stream' = [stream EXCEPT ![i][p] = "open"]
    /\ UNCHANGED <<holder, left, pc, wake, wanted>>

\* No usable credential, or get_or_create_exchange raises: the task returns.
ConnectFails(i, p) ==
    /\ stream[i][p] = "connecting"
    /\ stream' = [stream EXCEPT ![i][p] = "dead"]
    /\ UNCHANGED <<holder, left, pc, wake, wanted>>

\* A live deployment starts or ends.
DeploymentChanges ==
    /\ \E p \in Pairs : wanted' = IF p \in wanted THEN wanted \ {p} ELSE wanted \cup {p}
    /\ UNCHANGED <<holder, left, pc, wake, stream>>

Election(i) == TryAcquireOrRenew(i) /\ UNCHANGED <<wanted, stream>>

ElectionFails(i) == LeaseFails(i) /\ UNCHANGED <<wanted, stream>>

ProcessExits(i) ==
    /\ Exit(i)
    /\ stream' = [stream EXCEPT ![i] = NoStreams]
    /\ UNCHANGED wanted

TimePasses == Tick /\ UNCHANGED <<wanted, stream>>

Worker(i) == Election(i) \/ Lead(i) \/ StandDown(i)

Calm ==
    \/ TimePasses
    \/ DeploymentChanges
    \/ \E i \in Instances :
         \/ Worker(i) \/ ProcessExits(i)
         \/ \E p \in Pairs : Connect(i, p) \/ ConnectFails(i, p)

Next == Calm \/ \E i \in Instances : ElectionFails(i) \/ LeadFails(i)

Spec == Init /\ [][Next]_vars

\* Time passes, cycles and connection attempts end, and Redis and the database
\* fail only finitely often.
FairSpec ==
    /\ Spec
    /\ <>[][Calm]_vars
    /\ WF_vars(TimePasses)
    /\ \A i \in Instances :
         /\ WF_vars(Worker(i))
         /\ \A p \in Pairs : WF_vars(Connect(i, p) \/ ConnectFails(i, p))

-----------------------------------------------------------------------------
(* Properties                                                              *)

\* No fill has two writers: two processes never stream the same pair.
OneStreamer ==
    \A i, j \in Instances :
        Streaming(i) # {} /\ Streaming(j) # {} => i = j

\* A process that sleeps with open streams will wake up before its lease ends.
StreamsOutlastNoLease ==
    \A i \in Instances :
        Streaming(i) # {} =>
            /\ holder = i
            /\ pc[i] = "sleeping" => left > wake[i]

\* As long as a process is alive, every pair that stays live gets a stream, or
\* an attempt at one.
LivePairIsStreamed ==
    \A p \in Pairs :
        []<>(p \in wanted =>
                \/ \E i \in Instances : stream[i][p] \in {"open", "dead"}
                \/ \A i \in Instances : pc[i] = "down")

\* A retired pair does not keep its stream.
RetiredPairIsClosed ==
    \A i \in Instances, p \in Pairs :
        []<>(p \notin wanted => stream[i][p] = "none")
=============================================================================
