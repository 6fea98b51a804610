------------------------ MODULE DistributedIdempotency ------------------------
(***************************************************************************)
(* core/distributed_idempotency.py: the Redis lock-or-result cell that     *)
(* keeps two pods from placing the same order twice.                       *)
(*                                                                         *)
(* Every order has one Redis key, idempotency:{tenant}:{client_order_id}.  *)
(* Keys do not interact, so the module follows ONE key and the calls of    *)
(* execute_with_idempotency made for it: a call is a member of Requests,   *)
(* and, as each call mints a fresh uuid4 owner token, also its own token.  *)
(* A retry by the client is a further member of Requests.                  *)
(*                                                                         *)
(* The layer talks to Redis through SharedRedisManager: eval_lua raises    *)
(* when Redis fails, but get answers None, set False and delete 0, in      *)
(* production too, so only the first call of the layer can fail closed.    *)
(***************************************************************************)
EXTENDS Naturals, FiniteSets

CONSTANTS
    Requests,     \* calls of execute_with_idempotency for the one key
    NoRequest,    \* stands for "no call"
    MaxAttempts,  \* MAX_RETRY_ATTEMPTS, the rounds of the waiting loop
    Production,   \* _is_production(): an exception is raised, not waved through
    PromptOwners, \* TRUE: no live owner outlives its PROCESSING_TTL
    ResultsLast   \* TRUE: no retry arrives after the RESULT_TTL has run out

ASSUME RequestAssumption == NoRequest \notin Requests
ASSUME AttemptAssumption == MaxAttempts \in Nat \ {0}
ASSUME ModeAssumption == {Production, PromptOwners, ResultsLast} \subseteq BOOLEAN

VARIABLES
    cell,     \* the value under the Redis key
    pc,       \* where each call is
    attempt,  \* rounds of the waiting loop each call has used up
    answer,   \* the call whose result a returned call handed to its caller
    effects,  \* history: calls whose operation took effect at the exchange
    recorded  \* history: calls whose result was stored and has not expired

vars == <<cell, pc, attempt, answer, effects, recorded>>

-----------------------------------------------------------------------------
(* The cell: absent, "processing:<owner token>", or a JSON result.         *)

Absent    == [tag |-> "absent", by |-> NoRequest]
Lock(r)   == [tag |-> "lock",   by |-> r]
Result(r) == [tag |-> "result", by |-> r]
Cells     == {Absent} \cup {Lock(r) : r \in Requests}
                      \cup {Result(r) : r \in Requests}

(* Where a call that owns the lock can be, and where a call is over.       *)
Holding  == {"executing", "storing", "releasing", "deleting"}
Finished == {"returned", "blocked", "raised", "crashed"}
Places   == {"idle", "waiting", "acquiring"} \cup Holding \cup Finished

TypeOK ==
    /\ cell \in Cells
    /\ pc \in [Requests -> Places]
    /\ attempt \in [Requests -> 0..MaxAttempts]
    /\ answer \in [Requests -> Requests \cup {NoRequest}]
    /\ effects \subseteq Requests
    /\ recorded \subseteq Requests

Init ==
    /\ cell = Absent
    /\ pc = [r \in Requests |-> "idle"]
    /\ attempt = [r \in Requests |-> 0]
    /\ answer = [r \in Requests |-> NoRequest]
    /\ effects = {}
    /\ recorded = {}

-----------------------------------------------------------------------------
(* Building blocks                                                         *)

Goto(r, place) == pc' = [pc EXCEPT ![r] = place]

\* Hand the cached result to the caller.
Replay(r) ==
    /\ cell.tag = "result"
    /\ answer' = [answer EXCEPT ![r] = cell.by]
    /\ Goto(r, "returned")
    /\ UNCHANGED <<cell, attempt, effects, recorded>>

\* Hand its own result to the caller.
AnswerOwn(r) ==
    /\ answer' = [answer EXCEPT ![r] = r]
    /\ Goto(r, "returned")

\* Mutant: the waiting loop starts over instead of giving up.
UseUpAttemptForEver(r) ==
    /\ attempt' = [attempt EXCEPT ![r] = (@ + 1) % MaxAttempts]
    /\ Goto(r, "waiting")

\* One round of the waiting loop is used up; the last one ends in
\* DuplicateOrderError.
UseUpAttempt(r) ==
    /\ attempt' = [attempt EXCEPT ![r] = @ + 1]
    /\ Goto(r, IF attempt[r] + 1 < MaxAttempts THEN "waiting" ELSE "blocked")

\* Mutant: SET without NX.
TakeLockByForce(r) == cell' = Lock(r)

\* SET key "processing:<token>" NX EX 60, and the outcome of the Lua script on
\* a free key.
TakeLock(r) ==
    /\ cell = Absent
    /\ cell' = Lock(r)

\* A Redis call that fails may or may not have been executed by the server.
MaybeTakeLock(r) == TakeLock(r) \/ UNCHANGED cell

-----------------------------------------------------------------------------
(* execute_with_idempotency, up to the operation                           *)

\* The atomic check-and-set.
AtomicCheckAndSet(r) ==
    /\ pc[r] = "idle"
    /\ \/ Replay(r)
       \/ /\ TakeLock(r)
          /\ Goto(r, "executing")
          /\ UNCHANGED <<attempt, answer, effects, recorded>>
       \/ /\ cell.tag = "lock"
          /\ Goto(r, "waiting")
          /\ UNCHANGED <<cell, attempt, answer, effects, recorded>>

\* The same with Redis failing, the one failure the layer gets to see: raised in
\* production, "not acquired" elsewhere.
AtomicCheckAndSetFails(r) ==
    /\ pc[r] = "idle"
    /\ MaybeTakeLock(r)
    /\ Goto(r, IF Production THEN "raised" ELSE "waiting")
    /\ UNCHANGED <<attempt, answer, effects, recorded>>

\* check_idempotency, after one sleep of the waiting loop.
Recheck(r) ==
    /\ pc[r] = "waiting"
    /\ \/ Replay(r)
       \/ /\ cell.tag = "lock"
          /\ UseUpAttempt(r)
          /\ UNCHANGED <<cell, answer, effects, recorded>>
       \/ /\ cell.tag = "absent"
          /\ Goto(r, "acquiring")
          /\ UNCHANGED <<cell, attempt, answer, effects, recorded>>

\* A GET that fails answers None: it reads as "new request".
RecheckFails(r) ==
    /\ pc[r] = "waiting"
    /\ Goto(r, "acquiring")
    /\ UNCHANGED <<cell, attempt, answer, effects, recorded>>

\* start_processing: the key was free when it was checked, it may not be now.
StartProcessing(r) ==
    /\ pc[r] = "acquiring"
    /\ \/ /\ TakeLock(r)
          /\ Goto(r, "executing")
          /\ UNCHANGED attempt
       \/ /\ cell # Absent
          /\ UseUpAttempt(r)
          /\ UNCHANGED cell
    /\ UNCHANGED <<answer, effects, recorded>>

\* A SET NX that fails answers False: it reads as a lock held by another call,
\* be it this call's own.
StartProcessingFails(r) ==
    /\ pc[r] = "acquiring"
    /\ MaybeTakeLock(r)
    /\ UseUpAttempt(r)
    /\ UNCHANGED <<answer, effects, recorded>>

-----------------------------------------------------------------------------
(* The operation, store_result and release_processing_lock                 *)

\* Mutant: the lock is given up as soon as the operation is done.
OperationSucceedsUnlocking(r) ==
    /\ pc[r] = "executing"
    /\ effects' = effects \cup {r}
    /\ cell' = Absent
    /\ Goto(r, "storing")
    /\ UNCHANGED <<attempt, answer, recorded>>

OperationSucceeds(r) ==
    /\ pc[r] = "executing"
    /\ effects' = effects \cup {r}
    /\ Goto(r, "storing")
    /\ UNCHANGED <<cell, attempt, answer, recorded>>

OperationRaises(r) ==
    /\ pc[r] = "executing"
    /\ Goto(r, "releasing")
    /\ UNCHANGED <<cell, attempt, answer, effects, recorded>>

\* An unconditional SET of the JSON result.
WriteResult(r) ==
    /\ cell' = Result(r)
    /\ recorded' = recorded \cup {r}

StoreResult(r) ==
    /\ pc[r] = "storing"
    /\ WriteResult(r)
    /\ AnswerOwn(r)
    /\ UNCHANGED <<attempt, effects>>

\* A SET that fails answers False, which nobody looks at: the result is handed
\* out all the same, and what is left under the key is the lock.
StoreResultFails(r) ==
    /\ pc[r] = "storing"
    /\ WriteResult(r) \/ UNCHANGED <<cell, recorded>>
    /\ AnswerOwn(r)
    /\ UNCHANGED <<attempt, effects>>

\* json.dumps refuses the result, which need not be a plain dict: in production
\* that raises, although the operation has run, and the except clause releases
\* the lock. Elsewhere the result is handed out.
ResultRefused(r) ==
    /\ pc[r] = "storing"
    /\ IF Production THEN Goto(r, "releasing") /\ UNCHANGED answer ELSE AnswerOwn(r)
    /\ UNCHANGED <<cell, attempt, effects, recorded>>

\* The GET of the compare-and-delete; a failing GET leaves the lock alone.
ReleaseRead(r) ==
    /\ pc[r] = "releasing"
    /\ Goto(r, "raised") \/ (cell = Lock(r) /\ Goto(r, "deleting"))
    /\ UNCHANGED <<cell, attempt, answer, effects, recorded>>

\* The DELETE, a call of its own: it deletes whatever is there by now.
ReleaseDelete(r) ==
    /\ pc[r] = "deleting"
    /\ cell' = Absent \/ UNCHANGED cell
    /\ Goto(r, "raised")
    /\ UNCHANGED <<attempt, answer, effects, recorded>>

-----------------------------------------------------------------------------
(* The environment                                                         *)

\* The process dies, or the task is cancelled: CancelledError is no Exception,
\* so the except clause does not run and the lock stays.
Crash(r) ==
    /\ pc[r] \notin Finished \cup {"idle"}
    /\ Goto(r, "crashed")
    /\ UNCHANGED <<cell, attempt, answer, effects, recorded>>

\* Mutant: SET NX without EX.
LockNeverExpires == FALSE

\* PROCESSING_TTL runs out.
LockExpires ==
    /\ cell.tag = "lock"
    /\ PromptOwners => pc[cell.by] \notin Holding
    /\ cell' = Absent
    /\ UNCHANGED <<pc, attempt, answer, effects, recorded>>

\* RESULT_TTL runs out.
ResultExpires ==
    /\ cell.tag = "result"
    /\ ~ResultsLast
    /\ cell' = Absent
    /\ recorded' = recorded \ {cell.by}
    /\ UNCHANGED <<pc, attempt, answer, effects>>

Call(r) ==
    \/ AtomicCheckAndSet(r)
    \/ AtomicCheckAndSetFails(r)
    \/ Recheck(r)
    \/ RecheckFails(r)
    \/ StartProcessing(r)
    \/ StartProcessingFails(r)
    \/ OperationSucceeds(r)
    \/ OperationRaises(r)
    \/ StoreResult(r)
    \/ StoreResultFails(r)
    \/ ResultRefused(r)
    \/ ReleaseRead(r)
    \/ ReleaseDelete(r)

Next ==
    \/ \E r \in Requests : Call(r) \/ Crash(r)
    \/ LockExpires
    \/ ResultExpires

Spec == Init /\ [][Next]_vars

\* A call that has begun is run by its event loop to its end, and a TTL runs
\* out; a crash never has to happen.
FairSpec ==
    /\ Spec
    /\ \A r \in Requests : WF_vars(pc[r] # "idle" /\ Call(r))
    /\ WF_vars(LockExpires)

-----------------------------------------------------------------------------
(* Properties                                                              *)

\* At any time at most one pod runs, or has just run and not yet recorded, the
\* operation of an order: what the lock is for.
SingleExecutor ==
    \A r, s \in Requests :
        {pc[r], pc[s]} \subseteq {"executing", "storing"} => r = s

\* The lock is the executor's own as long as it works: the DELETE that ends a
\* failed call can only hit that call's own lock.
ExecutorHoldsLock ==
    \A r \in Requests :
        pc[r] \in {"executing", "storing", "deleting"} => cell = Lock(r)

\* A caller that returns while a result is on record returns with that result,
\* whether it read it or has just stored its own: no second result is stored over
\* a first, and nobody is told anything else than what a later retry will be told.
RecordIsTold ==
    [][\A r \in Requests :
          pc[r] # "returned" /\ pc'[r] = "returned" /\ recorded' # {}
          => recorded' = {answer'[r]}]_vars

\* A stored result ends only with its RESULT_TTL: it is never overwritten, and
\* never deleted by the release of another call.
ResultIsFinal == [][cell.tag = "result" => cell' = cell \/ ResultExpires]_vars

\* What the layer is meant for, no duplicate order across pods: all callers that
\* got an answer for the order got the same one. The code does not keep it: the
\* result of a failed SET is handed out, and a retry executes the order again.
AnswersAgree ==
    \A r, s \in Requests :
        {pc[r], pc[s]} \subseteq {"returned"} => answer[r] = answer[s]

(* The promise, and what of this module's state stands for it.             *)
Order == INSTANCE AtMostOneOutcome WITH
    outcome <- recorded,
    ran     <- effects,
    told    <- answer

\* The lock-or-result cell implements what it can promise of Redis as it is: as
\* long as a result is on record the operation never takes effect again and every
\* caller is told that result; without one a caller is told only its own.
ImplementsAtMostOneOutcome == Order!Spec

\* Every call that has begun ends: a cached answer, its own, an error, or a crash.
EveryCallEnds ==
    \A r \in Requests : pc[r] # "idle" ~> pc[r] \in Finished

\* A lock never outlives its owner for ever: a later retry can get through.
LockIsFreed == cell.tag = "lock" ~> cell.tag # "lock"
=============================================================================
