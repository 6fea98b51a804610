---------------------- MODULE DistributedIdempotency_proof ----------------------
(***************************************************************************)
(* Proofs about DistributedIdempotency, for any number of calls, any       *)
(* length of the waiting loop and any interleaving.                        *)
(***************************************************************************)
EXTENDS DistributedIdempotency, TLAPS

(* The constants' assumptions in the form the provers use.                 *)
LEMMA Constants ==
    /\ NoRequest \notin Requests
    /\ MaxAttempts \in Nat /\ MaxAttempts > 0
    /\ Production \in BOOLEAN /\ PromptOwners \in BOOLEAN /\ ResultsLast \in BOOLEAN
  BY RequestAssumption, AttemptAssumption, ModeAssumption

(* Unused attempts: a call in the waiting loop has at least one left.      *)
AttemptLeft ==
    \A r \in Requests : pc[r] \in {"idle", "waiting", "acquiring"} => attempt[r] < MaxAttempts

TypeInv == TypeOK /\ AttemptLeft

LEMMA CellFacts ==
    ASSUME TypeOK
    PROVE  /\ cell.tag \in {"absent", "lock", "result"}
           /\ cell.by \in Requests \cup {NoRequest}
           /\ cell.tag = "absent" <=> cell = Absent
           /\ cell.tag = "lock" => cell.by \in Requests /\ cell = Lock(cell.by)
           /\ cell.tag = "result" => cell.by \in Requests /\ cell = Result(cell.by)
  BY DEF TypeOK, Cells, Absent, Lock, Result

LEMMA TypeInit == Init => TypeInv
  BY Constants DEF Init, TypeInv, TypeOK, AttemptLeft, Cells, Places, Holding, Finished

LEMMA TypeStep == TypeInv /\ [Next]_vars => TypeInv'
<1> SUFFICES ASSUME TypeInv, [Next]_vars PROVE TypeInv'
  OBVIOUS
<1> USE Constants, CellFacts DEF TypeInv, TypeOK, AttemptLeft, Cells, Places, Holding, Finished
<1>1. CASE UNCHANGED vars
  BY <1>1 DEF vars
<1>2. ASSUME NEW r \in Requests, AtomicCheckAndSet(r) PROVE TypeInv'
  BY <1>2 DEF AtomicCheckAndSet, Replay, TakeLock, Goto
<1>3. ASSUME NEW r \in Requests, AtomicCheckAndSetFails(r) PROVE TypeInv'
  BY <1>3 DEF AtomicCheckAndSetFails, MaybeTakeLock, TakeLock, Goto
<1>4. ASSUME NEW r \in Requests, Recheck(r) PROVE TypeInv'
  BY <1>4 DEF Recheck, Replay, UseUpAttempt, Goto
<1>5. ASSUME NEW r \in Requests, RecheckFails(r) PROVE TypeInv'
  BY <1>5 DEF RecheckFails, Goto
<1>6. ASSUME NEW r \in Requests, StartProcessing(r) PROVE TypeInv'
  BY <1>6 DEF StartProcessing, TakeLock, UseUpAttempt, Goto
<1>7. ASSUME NEW r \in Requests, StartProcessingFails(r) PROVE TypeInv'
  BY <1>7 DEF StartProcessingFails, MaybeTakeLock, TakeLock, UseUpAttempt, Goto
<1>8. ASSUME NEW r \in Requests, OperationSucceeds(r) \/ OperationRaises(r) PROVE TypeInv'
  BY <1>8 DEF OperationSucceeds, OperationRaises, Goto
<1>9. ASSUME NEW r \in Requests, StoreResult(r) \/ StoreResultFails(r) \/ ResultRefused(r)
      PROVE  TypeInv'
  BY <1>9 DEF StoreResult, StoreResultFails, ResultRefused, WriteResult, AnswerOwn, Goto
<1>10. ASSUME NEW r \in Requests, ReleaseRead(r) \/ ReleaseDelete(r) PROVE TypeInv'
  BY <1>10 DEF ReleaseRead, ReleaseDelete, Goto
<1>11. ASSUME NEW r \in Requests, Crash(r) PROVE TypeInv'
  BY <1>11 DEF Crash, Goto
<1>12. CASE LockExpires \/ ResultExpires
  BY <1>12 DEF LockExpires, ResultExpires
<1> QED
  BY <1>1, <1>2, <1>3, <1>4, <1>5, <1>6, <1>7, <1>8, <1>9, <1>10, <1>11, <1>12 DEF Next, Call

(* Type correctness of the lock-or-result protocol.                        *)
THEOREM TypeCorrect == Spec => []TypeOK
<1>1. TypeInv => TypeOK
  BY DEF TypeInv
<1> QED
  BY <1>1, TypeInit, TypeStep, PTL DEF Spec

-----------------------------------------------------------------------------
(* Owners that finish within PROCESSING_TTL: the lock excludes.            *)

LEMMA ExecutorStep ==
    ASSUME PromptOwners, TypeInv, ExecutorHoldsLock, [Next]_vars
    PROVE  ExecutorHoldsLock'
<1> USE Constants, CellFacts DEF TypeInv, TypeOK, ExecutorHoldsLock
<1> DEFINE Owner(r) == pc[r] \in {"executing", "storing", "deleting"}
<1> SUFFICES ASSUME NEW q \in Requests, Owner(q)' PROVE cell' = Lock(q)
  OBVIOUS
<1> USE DEF Absent, Lock, Result
<1>1. CASE UNCHANGED vars
  BY <1>1 DEF vars
<1>2. ASSUME NEW r \in Requests, AtomicCheckAndSet(r) \/ AtomicCheckAndSetFails(r)
      PROVE  cell' = Lock(q)
  BY <1>2 DEF AtomicCheckAndSet, AtomicCheckAndSetFails, Replay, MaybeTakeLock, TakeLock, Goto
<1>3. ASSUME NEW r \in Requests, Recheck(r) \/ RecheckFails(r) PROVE cell' = Lock(q)
  BY <1>3 DEF Recheck, RecheckFails, Replay, UseUpAttempt, Goto
<1>4. ASSUME NEW r \in Requests, StartProcessing(r) \/ StartProcessingFails(r)
      PROVE  cell' = Lock(q)
  BY <1>4 DEF StartProcessing, StartProcessingFails, MaybeTakeLock, TakeLock, UseUpAttempt, Goto
<1>5. ASSUME NEW r \in Requests, OperationSucceeds(r) \/ OperationRaises(r)
      PROVE  cell' = Lock(q)
  BY <1>5 DEF OperationSucceeds, OperationRaises, Goto
<1>6. ASSUME NEW r \in Requests, StoreResult(r) \/ StoreResultFails(r) \/ ResultRefused(r)
      PROVE  cell' = Lock(q)
  <2>1. cell = Lock(r) /\ pc'[r] \in {"returned", "releasing"}
    BY <1>6 DEF StoreResult, StoreResultFails, ResultRefused, AnswerOwn, Goto
  <2>2. q # r /\ Owner(q)
    BY <1>6, <2>1 DEF StoreResult, StoreResultFails, ResultRefused, AnswerOwn, Goto
  <2> QED
    BY <2>1, <2>2
<1>7. ASSUME NEW r \in Requests, ReleaseRead(r) \/ ReleaseDelete(r) PROVE cell' = Lock(q)
  <2>1. CASE ReleaseRead(r)
    BY <2>1 DEF ReleaseRead, Goto
  <2>2. CASE ReleaseDelete(r)
    BY <2>2 DEF ReleaseDelete, Goto
  <2> QED
    BY <1>7, <2>1, <2>2
<1>8. ASSUME NEW r \in Requests, Crash(r) PROVE cell' = Lock(q)
  BY <1>8 DEF Crash, Goto
<1>9. CASE LockExpires \/ ResultExpires
  BY <1>9 DEF LockExpires, ResultExpires, Holding
<1> QED
  BY <1>1, <1>2, <1>3, <1>4, <1>5, <1>6, <1>7, <1>8, <1>9 DEF Next, Call

LEMMA HolderIsUnique == ExecutorHoldsLock => SingleExecutor
  BY DEF ExecutorHoldsLock, SingleExecutor, Lock

(* As long as no owner outlives its TTL, one pod at a time runs the        *)
(* operation of an order, in production or not, whatever Redis call fails. *)
THEOREM OneExecutor == PromptOwners => (Spec => []SingleExecutor)
<1> SUFFICES ASSUME PromptOwners PROVE Spec => []SingleExecutor
  OBVIOUS
<1> DEFINE Inv == TypeInv /\ ExecutorHoldsLock
<1>1. Init => Inv
  BY TypeInit DEF Init, ExecutorHoldsLock
<1>2. Inv /\ [Next]_vars => Inv'
  BY TypeStep, ExecutorStep
<1>3. Inv => SingleExecutor
  BY HolderIsUnique
<1> HIDE DEF Inv
<1> QED
  BY <1>1, <1>2, <1>3, PTL DEF Spec

(* The executor's lock is its own until it lets go of it: the DELETE that   *)
(* ends a failed call, a Redis call of its own, hits no other call's lock.  *)
THEOREM OwnersHoldTheLock == PromptOwners => (Spec => []ExecutorHoldsLock)
<1> SUFFICES ASSUME PromptOwners PROVE Spec => []ExecutorHoldsLock
  OBVIOUS
<1> DEFINE Inv == TypeInv /\ ExecutorHoldsLock
<1>1. Init => Inv
  BY TypeInit DEF Init, ExecutorHoldsLock
<1>2. Inv /\ [Next]_vars => Inv'
  BY TypeStep, ExecutorStep
<1>3. Inv => ExecutorHoldsLock
  OBVIOUS
<1> HIDE DEF Inv
<1> QED
  BY <1>1, <1>2, <1>3, PTL DEF Spec

-----------------------------------------------------------------------------
(* One outcome on record at a time.                                        *)

(* What ties the cell to the histories: a result under the key is the only *)
(* one on record and comes from an operation that ran; a result on record  *)
(* is under the key.                                                       *)
OutcomeInv ==
    /\ recorded = IF cell.tag = "result" THEN {cell.by} ELSE {}
    /\ cell.tag = "result" => cell.by \in effects
    /\ \A r \in Requests : pc[r] = "storing" => r \in effects

LEMMA OutcomeStep ==
    ASSUME PromptOwners, TypeInv, ExecutorHoldsLock, OutcomeInv, [Next]_vars
    PROVE  OutcomeInv'
<1> USE Constants, CellFacts DEF TypeInv, TypeOK, OutcomeInv, Absent, Lock, Result
<1>1. CASE UNCHANGED vars
  BY <1>1 DEF vars
<1>2. ASSUME NEW r \in Requests, AtomicCheckAndSet(r) \/ AtomicCheckAndSetFails(r)
      PROVE  OutcomeInv'
  BY <1>2 DEF AtomicCheckAndSet, AtomicCheckAndSetFails, Replay, MaybeTakeLock, TakeLock, Goto
<1>3. ASSUME NEW r \in Requests, Recheck(r) \/ RecheckFails(r) PROVE OutcomeInv'
  BY <1>3 DEF Recheck, RecheckFails, Replay, UseUpAttempt, Goto
<1>4. ASSUME NEW r \in Requests, StartProcessing(r) \/ StartProcessingFails(r)
      PROVE  OutcomeInv'
  BY <1>4 DEF StartProcessing, StartProcessingFails, MaybeTakeLock, TakeLock, UseUpAttempt, Goto
<1>5. ASSUME NEW r \in Requests, OperationSucceeds(r) \/ OperationRaises(r)
      PROVE  OutcomeInv'
  BY <1>5 DEF OperationSucceeds, OperationRaises, Goto
<1>6. ASSUME NEW r \in Requests, StoreResult(r) \/ StoreResultFails(r) \/ ResultRefused(r)
      PROVE  OutcomeInv'
  <2>1. cell = Lock(r) /\ recorded = {} /\ r \in effects
    BY <1>6 DEF StoreResult, StoreResultFails, ResultRefused, ExecutorHoldsLock
  <2>2. CASE StoreResult(r)
    BY <2>1, <2>2 DEF StoreResult, WriteResult, AnswerOwn, Goto
  <2>3. CASE StoreResultFails(r)
    BY <2>1, <2>3 DEF StoreResultFails, WriteResult, AnswerOwn, Goto
  <2>4. CASE ResultRefused(r)
    BY <2>1, <2>4 DEF ResultRefused, AnswerOwn, Goto
  <2> QED
    BY <1>6, <2>2, <2>3, <2>4
<1>7. ASSUME NEW r \in Requests, ReleaseRead(r) \/ ReleaseDelete(r) PROVE OutcomeInv'
  <2>1. CASE ReleaseRead(r)
    BY <2>1 DEF ReleaseRead, Goto
  <2>2. CASE ReleaseDelete(r)
    <3>1. cell = Lock(r)
      BY <2>2 DEF ReleaseDelete, ExecutorHoldsLock
    <3> QED
      BY <2>2, <3>1 DEF ReleaseDelete, Goto
  <2> QED
    BY <1>7, <2>1, <2>2
<1>8. ASSUME NEW r \in Requests, Crash(r) PROVE OutcomeInv'
  BY <1>8 DEF Crash, Goto
<1>9. CASE LockExpires \/ ResultExpires
  BY <1>9 DEF LockExpires, ResultExpires
<1> QED
  BY <1>1, <1>2, <1>3, <1>4, <1>5, <1>6, <1>7, <1>8, <1>9 DEF Next, Call

IndInv == TypeInv /\ ExecutorHoldsLock /\ OutcomeInv

LEMMA IndInvInit == Init => IndInv
  BY TypeInit DEF Init, IndInv, ExecutorHoldsLock, OutcomeInv, Absent

LEMMA IndInvStep == PromptOwners /\ IndInv /\ [Next]_vars => IndInv'
  BY TypeStep, ExecutorStep, OutcomeStep DEF IndInv

(* A caller that returns while a result is on record is told that result,  *)
(* read or just stored, whatever Redis call failed and whoever crashed.    *)
THEOREM ToldWhatIsOnRecord == PromptOwners => (Spec => RecordIsTold)
<1> DEFINE Told(r) == pc[r] # "returned" /\ pc'[r] = "returned" /\ recorded' # {}
                      => recorded' = {answer'[r]}
<1> SUFFICES ASSUME PromptOwners PROVE Spec => [][\A r \in Requests : Told(r)]_vars
  BY DEF RecordIsTold
<1>1. ASSUME IndInv, Next PROVE \A r \in Requests : Told(r)
  <2> SUFFICES ASSUME NEW q \in Requests, pc[q] # "returned", pc'[q] = "returned",
                      recorded' # {}
               PROVE  recorded' = {answer'[q]}
    OBVIOUS
  <2> USE <1>1, CellFacts DEF IndInv, TypeInv, TypeOK, OutcomeInv
  <2>1. ASSUME NEW r \in Requests, Replay(r) PROVE recorded' = {answer'[q]}
    BY <2>1 DEF Replay, Goto
  <2>2. ASSUME NEW r \in Requests, pc[r] = "storing", AnswerOwn(r),
               WriteResult(r) \/ UNCHANGED <<cell, recorded>>
        PROVE  recorded' = {answer'[q]}
    <3>1. recorded = {} /\ q = r
      BY <2>2 DEF ExecutorHoldsLock, AnswerOwn, Goto, Lock
    <3> QED
      BY <2>2, <3>1 DEF AnswerOwn, WriteResult
  <2>3. ASSUME NEW r \in Requests, Call(r) \/ Crash(r) PROVE recorded' = {answer'[q]}
    BY <2>1, <2>2, <2>3 DEF Call, AtomicCheckAndSet, AtomicCheckAndSetFails, Recheck,
       RecheckFails, StartProcessing, StartProcessingFails, OperationSucceeds,
       OperationRaises, StoreResult, StoreResultFails, ResultRefused, ReleaseRead,
       ReleaseDelete, Crash, UseUpAttempt, Goto
  <2> QED
    BY <2>3 DEF Next, LockExpires, ResultExpires
<1> QED
  BY <1>1, IndInvInit, IndInvStep, PTL DEF Spec

-----------------------------------------------------------------------------
(* The refinement of AtMostOneOutcome.                                     *)

LEMMA RefinementInit == Init => Order!Init
  BY DEF Init, Order!Init

LEMMA RefinementStep ==
    ASSUME PromptOwners, IndInv, [Next]_vars
    PROVE  [Order!Next]_(Order!vars)
<1> USE Constants, CellFacts DEF IndInv, TypeInv, TypeOK, Absent, Lock, Result
<1> DEFINE Same == recorded' = recorded /\ effects' = effects /\ answer' = answer
<1>0. Same => UNCHANGED Order!vars
  BY DEF Order!vars
<1>1. CASE UNCHANGED vars
  BY <1>0, <1>1 DEF vars
<1>2. ASSUME NEW r \in Requests, Replay(r) PROVE Order!Next
  <2>1. Order!Tell(r)
    BY <1>2 DEF Replay, Order!Tell, OutcomeInv
  <2> QED
    BY <2>1 DEF Order!Next
<1>3. ASSUME NEW r \in Requests, AtomicCheckAndSet(r) \/ AtomicCheckAndSetFails(r)
      PROVE  [Order!Next]_(Order!vars)
  <2>1. Replay(r) \/ Same
    BY <1>3 DEF AtomicCheckAndSet, AtomicCheckAndSetFails, MaybeTakeLock, TakeLock
  <2> QED
    BY <1>0, <1>2, <2>1
<1>4. ASSUME NEW r \in Requests, Recheck(r) \/ RecheckFails(r)
      PROVE  [Order!Next]_(Order!vars)
  <2>1. Replay(r) \/ Same
    BY <1>4 DEF Recheck, RecheckFails
  <2> QED
    BY <1>0, <1>2, <2>1
<1>5. ASSUME NEW r \in Requests, StartProcessing(r) \/ StartProcessingFails(r)
      PROVE  [Order!Next]_(Order!vars)
  <2>1. Same
    BY <1>5 DEF StartProcessing, StartProcessingFails, MaybeTakeLock, TakeLock
  <2> QED
    BY <1>0, <2>1
<1>6. ASSUME NEW r \in Requests, OperationSucceeds(r) PROVE Order!Next
  <2>1. recorded = {}
    BY <1>6 DEF OperationSucceeds, ExecutorHoldsLock, OutcomeInv
  <2>2. Order!Run(r)
    BY <1>6, <2>1 DEF OperationSucceeds, Order!Run
  <2> QED
    BY <2>2 DEF Order!Next
<1>7. ASSUME NEW r \in Requests, OperationRaises(r) \/ ReleaseRead(r) \/ Crash(r)
      PROVE  [Order!Next]_(Order!vars)
  <2>1. Same
    BY <1>7 DEF OperationRaises, ReleaseRead, Crash
  <2> QED
    BY <1>0, <2>1
<1>8. ASSUME NEW r \in Requests, StoreResult(r) \/ StoreResultFails(r) \/ ResultRefused(r)
      PROVE  [Order!Next]_(Order!vars)
  <2>1. recorded = {} /\ r \in effects /\ UNCHANGED effects
    BY <1>8 DEF StoreResult, StoreResultFails, ResultRefused, ExecutorHoldsLock, OutcomeInv
  <2>2. CASE WriteResult(r) /\ AnswerOwn(r)
    <3>1. Order!Decide(r)
      BY <2>1, <2>2 DEF WriteResult, AnswerOwn, Order!Decide
    <3> QED
      BY <3>1 DEF Order!Next
  <2>3. CASE UNCHANGED recorded /\ AnswerOwn(r)
    <3>1. Order!HandOut(r)
      BY <2>1, <2>3 DEF AnswerOwn, Order!HandOut
    <3> QED
      BY <3>1 DEF Order!Next
  <2>4. CASE UNCHANGED <<recorded, answer>>
    BY <1>0, <2>1, <2>4
  <2> QED
    BY <1>8, <2>2, <2>3, <2>4 DEF StoreResult, StoreResultFails, ResultRefused
<1>9. ASSUME NEW r \in Requests, ReleaseDelete(r) PROVE [Order!Next]_(Order!vars)
  <2>1. cell = Lock(r)
    BY <1>9 DEF ReleaseDelete, ExecutorHoldsLock
  <2>2. Same
    BY <1>9, <2>1 DEF ReleaseDelete
  <2> QED
    BY <1>0, <2>2
<1>10. CASE LockExpires
  <2>1. Same
    BY <1>10 DEF LockExpires
  <2> QED
    BY <1>0, <2>1
<1>11. CASE ResultExpires
  <2>1. recorded = {cell.by} /\ recorded' = {}
    BY <1>11 DEF ResultExpires, OutcomeInv
  <2>2. Order!Forget
    BY <1>11, <2>1 DEF ResultExpires, Order!Forget
  <2> QED
    BY <2>2 DEF Order!Next
<1> QED
  BY <1>1, <1>3, <1>4, <1>5, <1>6, <1>7, <1>8, <1>9, <1>10, <1>11 DEF Next, Call

(* The protocol implements AtMostOneOutcome: as long as a result is on     *)
(* record the operation never takes effect again, and every caller is told *)
(* that result.                                                            *)
THEOREM Refinement == PromptOwners => (Spec => ImplementsAtMostOneOutcome)
<1> SUFFICES ASSUME PromptOwners PROVE Spec => Order!Spec
  BY DEF ImplementsAtMostOneOutcome
<1>1. IndInv /\ [Next]_vars => [Order!Next]_(Order!vars)
  BY RefinementStep
<1> QED
  BY <1>1, RefinementInit, IndInvInit, IndInvStep, PTL DEF Spec, Order!Spec

(* A stored result ends only with its TTL: nothing overwrites it, and no   *)
(* release of a failed call deletes it.                                    *)
THEOREM ResultsAreFinal == PromptOwners => (Spec => ResultIsFinal)
<1> SUFFICES ASSUME PromptOwners
             PROVE  Spec => [][cell.tag = "result" => cell' = cell \/ ResultExpires]_vars
  BY DEF ResultIsFinal
<1>1. ASSUME IndInv, Next PROVE cell.tag = "result" => cell' = cell \/ ResultExpires
  <2> SUFFICES ASSUME cell.tag = "result", ~ResultExpires PROVE cell' = cell
    OBVIOUS
  <2>1. \A r \in Requests : pc[r] \notin {"executing", "storing", "deleting"} /\ cell # Lock(r)
    BY <1>1 DEF IndInv, ExecutorHoldsLock, Lock
  <2>2. cell # Absent
    BY DEF Absent
  <2> USE <1>1, <2>1, <2>2
  <2>3. ASSUME NEW r \in Requests, Call(r) \/ Crash(r) PROVE cell' = cell
    BY <2>3 DEF Call, AtomicCheckAndSet, AtomicCheckAndSetFails, Recheck, RecheckFails,
         StartProcessing, StartProcessingFails, OperationSucceeds, OperationRaises,
         StoreResult, StoreResultFails, ResultRefused, ReleaseRead, ReleaseDelete, Crash,
         Replay, MaybeTakeLock, TakeLock
  <2> QED
    BY <2>3 DEF Next, LockExpires
<1> QED
  BY <1>1, IndInvInit, IndInvStep, PTL DEF Spec

=============================================================================
