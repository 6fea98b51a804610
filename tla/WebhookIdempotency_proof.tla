----------------------- MODULE WebhookIdempotency_proof -----------------------
(***************************************************************************)
(* Proofs about WebhookIdempotency, for any number of deliveries: whatever *)
(* Redis does and whichever call fails, one delivery at a time handles the *)
(* event, and a durable completion is final.                               *)
(***************************************************************************)
EXTENDS WebhookIdempotency, TLAPS

LEMMA Constants ==
    /\ NoDelivery \notin Deliveries
    /\ Durable \in BOOLEAN /\ PromptHandlers \in BOOLEAN
    /\ Redelivers \in BOOLEAN /\ StopsOnAck \in BOOLEAN
  BY DeliveryAssumption, ModeAssumption

(* What the claims look like, without opening their records everywhere.    *)
LEMMA ClaimFacts ==
    /\ NoRow.status = "none" /\ ~NoRow.stale
    /\ CompletedRow.status = "completed" /\ ~CompletedRow.stale
    /\ NoRow # CompletedRow
    /\ \A d \in Deliveries :
         /\ Claim(d).status = "processing" /\ Claim(d).by = d /\ ~Claim(d).stale
         /\ Aged(Claim(d)).status = "processing" /\ Aged(Claim(d)).by = d
         /\ Aged(Claim(d)).stale
         /\ Claim(d) \notin {NoRow, CompletedRow}
         /\ Aged(Claim(d)) \notin {NoRow, CompletedRow}
         /\ \A e \in Deliveries : Claim(d) # Aged(Claim(e)) /\ (Claim(d) = Claim(e) => d = e)
  BY Constants DEF NoRow, CompletedRow, Claim, Aged

LEMMA KeyFacts ==
    /\ NoKey.value = "none" /\ CompletedKey.value = "completed" /\ NoKey # CompletedKey
    /\ \A d \in Deliveries :
         /\ KeyOf(d).value = "processing" /\ KeyOf(d).by = d
         /\ KeyOf(d) \notin {NoKey, CompletedKey}
         /\ \A e \in Deliveries : KeyOf(d) = KeyOf(e) => d = e
  BY Constants DEF NoKey, CompletedKey, KeyOf

(* The steps of one delivery, by what they touch.                          *)
KeyStep(d)     == Look(d) \/ LookFails(d) \/ LockKey(d) \/ LockKeyFails(d)
InsertStep(d)  == Insert(d) \/ InsertFails(d) \/ InsertAgain(d) \/ InsertAgainFails(d)
ReclaimStep(d) == ReadRow(d) \/ ReadRowFails(d) \/ Reclaim(d) \/ ReclaimFails(d)
HandlerStep(d) == Apply(d) \/ HandlerRaises(d) \/ CompleteKey(d)
MarkStep(d)    == MarkCompleted(d) \/ MarkLost(d)
ReleaseStep(d) == DropKeyAfterFailure(d) \/ Release(d) \/ ReleaseFails(d)

LEMMA StepCases ==
    ASSUME [Next]_vars
    PROVE  \/ UNCHANGED vars
           \/ KeyExpires
           \/ ClaimAges
           \/ \E d \in Deliveries :
                \/ Deliver(d) \/ KeyStep(d) \/ InsertStep(d) \/ ReclaimStep(d)
                \/ Refuse(d) \/ HandlerStep(d) \/ MarkStep(d) \/ ReleaseStep(d)
                \/ Crash(d)
  BY DEF Next, Calm, Undisturbed, Disturbed, KeyStep, InsertStep, ReclaimStep,
         HandlerStep, MarkStep, ReleaseStep

LEMMA TypeInit == Init => TypeOK
  BY DEF Init, TypeOK

LEMMA TypeStep == TypeOK /\ [Next]_vars => TypeOK'
<1> SUFFICES ASSUME TypeOK, [Next]_vars PROVE TypeOK'
  OBVIOUS
<1> USE DEF TypeOK, Goto, InFlight, Acquiring, Owning, Handling, Answered, Acknowledged
<1>1. CASE UNCHANGED vars
  BY <1>1 DEF vars
<1>2. CASE KeyExpires
  BY <1>2 DEF KeyExpires
<1>3. CASE ClaimAges
  <2>1. PICK d \in Deliveries : row = Claim(d)
    BY <1>3, ClaimFacts DEF ClaimAges
  <2> QED
    BY <1>3, <2>1 DEF ClaimAges
<1>4. ASSUME NEW d \in Deliveries, Deliver(d) PROVE TypeOK'
  BY <1>4 DEF Deliver
<1>5. ASSUME NEW d \in Deliveries, KeyStep(d) PROVE TypeOK'
  BY <1>5 DEF KeyStep, Look, LookFails, LockKey, LockKeyFails
<1>6. ASSUME NEW d \in Deliveries, InsertStep(d) PROVE TypeOK'
  BY <1>6 DEF InsertStep, Insert, InsertFails, InsertAgain, InsertAgainFails, InsertClaim
<1>7. ASSUME NEW d \in Deliveries, ReclaimStep(d) PROVE TypeOK'
  BY <1>7 DEF ReclaimStep, ReadRow, ReadRowFails, Reclaim, ReclaimFails
<1>8. ASSUME NEW d \in Deliveries, Refuse(d) PROVE TypeOK'
  BY <1>8 DEF Refuse, DropKey
<1>9. ASSUME NEW d \in Deliveries, HandlerStep(d) PROVE TypeOK'
  BY <1>9 DEF HandlerStep, Apply, HandlerRaises, CompleteKey
<1>10. ASSUME NEW d \in Deliveries, MarkStep(d) PROVE TypeOK'
  BY <1>10 DEF MarkStep, MarkCompleted, MarkLost
<1>11. ASSUME NEW d \in Deliveries, ReleaseStep(d) PROVE TypeOK'
  BY <1>11 DEF ReleaseStep, DropKeyAfterFailure, DropKey, Release, ReleaseFails
<1>12. ASSUME NEW d \in Deliveries, Crash(d) PROVE TypeOK'
  BY <1>12 DEF Crash
<1> QED
  BY <1>1, <1>2, <1>3, <1>4, <1>5, <1>6, <1>7, <1>8, <1>9, <1>10, <1>11, <1>12, StepCases

(* Type correctness of the two idempotency layers.                         *)
THEOREM TypeCorrect == Spec => []TypeOK
  BY TypeInit, TypeStep, PTL DEF Spec

-----------------------------------------------------------------------------
(* Without the durable layer, the Redis key plays the claim's part.        *)

HandlerOwnsKey ==
    ~Durable =>
        /\ \A d \in Deliveries :
             /\ pc[d] \notin {"conflict", "again", "reclaiming", "refused"}
             /\ pc[d] \in Handling \cup {"inserting", "failing"} => key = KeyOf(d)
        /\ row = NoRow

LEMMA ClaimStep ==
    ASSUME PromptHandlers, TypeOK, HandlerOwnsClaim, [Next]_vars
    PROVE  HandlerOwnsClaim'
<1> SUFFICES ASSUME Durable, NEW q \in Deliveries, pc'[q] \in Owning PROVE row' = Claim(q)
  BY DEF HandlerOwnsClaim
<1> USE ClaimFacts DEF TypeOK, HandlerOwnsClaim, Goto, Owning, Handling
<1>1. CASE UNCHANGED vars
  BY <1>1 DEF vars
<1>2. CASE KeyExpires
  BY <1>2 DEF KeyExpires
<1>3. CASE ClaimAges
  BY <1>3 DEF ClaimAges
<1>4. ASSUME NEW d \in Deliveries, Deliver(d) \/ Crash(d) \/ KeyStep(d) \/ Refuse(d)
      PROVE  row' = Claim(q)
  BY <1>4 DEF Deliver, Crash, KeyStep, Look, LookFails, LockKey, LockKeyFails, Refuse
<1>5. ASSUME NEW d \in Deliveries, InsertStep(d) PROVE row' = Claim(q)
  BY <1>5 DEF InsertStep, Insert, InsertFails, InsertAgain, InsertAgainFails, InsertClaim
<1>6. ASSUME NEW d \in Deliveries, ReclaimStep(d) PROVE row' = Claim(q)
  BY <1>6 DEF ReclaimStep, ReadRow, ReadRowFails, Reclaim, ReclaimFails
<1>7. ASSUME NEW d \in Deliveries, HandlerStep(d) PROVE row' = Claim(q)
  BY <1>7 DEF HandlerStep, Apply, HandlerRaises, CompleteKey
<1>8. ASSUME NEW d \in Deliveries, MarkStep(d) PROVE row' = Claim(q)
  BY <1>8 DEF MarkStep, MarkCompleted, MarkLost
<1>9. ASSUME NEW d \in Deliveries, ReleaseStep(d) PROVE row' = Claim(q)
  BY <1>9 DEF ReleaseStep, DropKeyAfterFailure, Release, ReleaseFails
<1> QED
  BY <1>1, <1>2, <1>3, <1>4, <1>5, <1>6, <1>7, <1>8, <1>9, StepCases

LEMMA KeyOwnerStep ==
    ASSUME PromptHandlers, TypeOK, HandlerOwnsKey, [Next]_vars
    PROVE  HandlerOwnsKey'
<1> SUFFICES ASSUME ~Durable PROVE HandlerOwnsKey'
  BY DEF HandlerOwnsKey
<1> USE KeyFacts, ClaimFacts DEF TypeOK, HandlerOwnsKey, Goto, Handling
<1>1. CASE UNCHANGED vars
  BY <1>1 DEF vars
<1>2. CASE KeyExpires
  BY <1>2 DEF KeyExpires, Acquiring, Owning
<1>3. CASE ClaimAges
  BY <1>3 DEF ClaimAges
<1>4. ASSUME NEW d \in Deliveries, Deliver(d) \/ Crash(d) PROVE HandlerOwnsKey'
  BY <1>4 DEF Deliver, Crash
<1>5. ASSUME NEW d \in Deliveries, KeyStep(d) PROVE HandlerOwnsKey'
  BY <1>5 DEF KeyStep, Look, LookFails, LockKey, LockKeyFails
<1>6. ASSUME NEW d \in Deliveries, InsertStep(d) PROVE HandlerOwnsKey'
  BY <1>6 DEF InsertStep, Insert, InsertFails, InsertAgain, InsertAgainFails
<1>7. ASSUME NEW d \in Deliveries, ReclaimStep(d) \/ Refuse(d) PROVE HandlerOwnsKey'
  BY <1>7 DEF ReclaimStep, ReadRow, ReadRowFails, Reclaim, ReclaimFails, Refuse
<1>8. ASSUME NEW d \in Deliveries, HandlerStep(d) PROVE HandlerOwnsKey'
  BY <1>8 DEF HandlerStep, Apply, HandlerRaises, CompleteKey
<1>9. ASSUME NEW d \in Deliveries, MarkStep(d) PROVE HandlerOwnsKey'
  BY <1>9 DEF MarkStep, MarkCompleted, MarkLost
<1>10. ASSUME NEW d \in Deliveries, ReleaseStep(d) PROVE HandlerOwnsKey'
  BY <1>10 DEF ReleaseStep, DropKeyAfterFailure, DropKey, Release, ReleaseFails
<1> QED
  BY <1>1, <1>2, <1>3, <1>4, <1>5, <1>6, <1>7, <1>8, <1>9, <1>10, StepCases

LEMMA OwnerIsUnique == HandlerOwnsClaim /\ HandlerOwnsKey => SingleHandler
<1> SUFFICES ASSUME HandlerOwnsClaim, HandlerOwnsKey,
                    NEW d \in Deliveries, NEW e \in Deliveries,
                    {pc[d], pc[e]} \subseteq Handling
             PROVE  d = e
  BY DEF SingleHandler
<1>1. CASE Durable
  BY <1>1, ClaimFacts DEF HandlerOwnsClaim, Owning
<1>2. CASE ~Durable
  BY <1>2, KeyFacts DEF HandlerOwnsKey
<1> QED
  BY <1>1, <1>2

Owned == TypeOK /\ HandlerOwnsClaim /\ HandlerOwnsKey

LEMMA OwnedInit == Init => Owned
  BY TypeInit DEF Init, Owned, HandlerOwnsClaim, HandlerOwnsKey, Owning, Handling

(* Prompt handlers: one delivery of an event at a time is in its handler,  *)
(* with the durable layer whatever Redis does, without it by the key alone.*)
THEOREM OneHandler == PromptHandlers => (Spec => []SingleHandler)
<1> SUFFICES ASSUME PromptHandlers PROVE Spec => []SingleHandler
  OBVIOUS
<1>1. Owned /\ [Next]_vars => Owned'
  BY TypeStep, ClaimStep, KeyOwnerStep DEF Owned
<1>2. Owned => SingleHandler
  BY OwnerIsUnique DEF Owned
<1> QED
  BY OwnedInit, <1>1, <1>2, PTL DEF Spec

(* Prompt handlers: the unowned UPDATE and DELETE only hit the own claim.  *)
THEOREM OwnClaim == PromptHandlers => (Spec => []HandlerOwnsClaim)
<1> SUFFICES ASSUME PromptHandlers PROVE Spec => []HandlerOwnsClaim
  OBVIOUS
<1>1. Owned /\ [Next]_vars => Owned'
  BY TypeStep, ClaimStep, KeyOwnerStep DEF Owned
<1>2. Owned => HandlerOwnsClaim
  BY DEF Owned
<1> QED
  BY OwnedInit, <1>1, <1>2, PTL DEF Spec

-----------------------------------------------------------------------------
(* Completion                                                              *)

LEMMA CompletionStep ==
    ASSUME Owned, [Next]_vars, row.status = "completed"
    PROVE  row' = row /\ applied' = applied
<1> USE ClaimFacts DEF Owned, TypeOK
<1>1. row = CompletedRow /\ Durable
  BY DEF HandlerOwnsKey
<1>2. \A d \in Deliveries : pc[d] \notin Owning
  BY <1>1 DEF HandlerOwnsClaim
<1> USE <1>1, <1>2 DEF Owning, Handling
<1>3. ASSUME NEW d \in Deliveries, InsertStep(d) PROVE row' = row /\ applied' = applied
  BY <1>3 DEF InsertStep, Insert, InsertFails, InsertAgain, InsertAgainFails, InsertClaim
<1>4. ASSUME NEW d \in Deliveries, ReclaimStep(d) PROVE row' = row /\ applied' = applied
  BY <1>4 DEF ReclaimStep, ReadRow, ReadRowFails, Reclaim, ReclaimFails
<1>5. ASSUME NEW d \in Deliveries, HandlerStep(d) \/ MarkStep(d) \/ ReleaseStep(d)
      PROVE  row' = row /\ applied' = applied
  BY <1>5 DEF HandlerStep, Apply, HandlerRaises, CompleteKey, MarkStep, MarkCompleted,
     MarkLost, ReleaseStep, DropKeyAfterFailure, Release, ReleaseFails
<1>6. ASSUME NEW d \in Deliveries, Deliver(d) \/ Crash(d) \/ KeyStep(d) \/ Refuse(d)
      PROVE  row' = row /\ applied' = applied
  BY <1>6 DEF Deliver, Crash, KeyStep, Look, LookFails, LockKey, LockKeyFails, Refuse
<1>7. CASE UNCHANGED vars \/ KeyExpires \/ ClaimAges
  BY <1>7 DEF vars, KeyExpires, ClaimAges
<1> QED
  BY <1>3, <1>4, <1>5, <1>6, <1>7, StepCases

(* Prompt handlers: once an event is durably completed its row never       *)
(* changes and no further delivery applies its effects.                    *)
THEOREM DurableCompletion == PromptHandlers => (Spec => CompletionIsDurable)
<1> SUFFICES ASSUME PromptHandlers PROVE Spec => CompletionIsDurable
  OBVIOUS
<1>1. Owned /\ [Next]_vars => Owned'
  BY TypeStep, ClaimStep, KeyOwnerStep DEF Owned
<1>2. Owned /\ [Next]_vars => [row.status = "completed" => row' = row /\ applied' = applied]_vars
  BY CompletionStep
<1> QED
  BY OwnedInit, <1>1, <1>2, PTL DEF Spec, CompletionIsDurable

(* A success whose mark was not lost has left the event completed.         *)
SuccessIsMarked ==
    \A d \in Deliveries : pc[d] = "success" /\ d \notin unmarked => row = CompletedRow

LEMMA SuccessStep ==
    ASSUME Owned, SuccessIsMarked, SucceedsOnce, [Next]_vars
    PROVE  SuccessIsMarked' /\ SucceedsOnce'
<1>0. row.status = "completed" => row' = row
  BY CompletionStep
<1> USE ClaimFacts, <1>0 DEF Owned, TypeOK, SuccessIsMarked, SucceedsOnce, Goto
<1>1. ASSUME NEW d \in Deliveries, MarkCompleted(d) PROVE SuccessIsMarked' /\ SucceedsOnce'
  <2>1. row = Claim(d)
    BY <1>1 DEF MarkCompleted, HandlerOwnsClaim, Owning
  <2>2. \A e \in Deliveries : pc[e] = "success" => e \in unmarked
    BY <2>1
  <2> QED
    BY <1>1, <2>2 DEF MarkCompleted
<1>2. ASSUME NEW d \in Deliveries, MarkLost(d) PROVE SuccessIsMarked' /\ SucceedsOnce'
  <2>1. /\ row' = row /\ unmarked \subseteq unmarked' /\ d \in unmarked'
        /\ \A e \in Deliveries \ {d} : pc'[e] = pc[e]
    BY <1>2 DEF MarkLost
  <2>2. SuccessIsMarked'
    BY <2>1
  <2>3. SucceedsOnce'
    <3> SUFFICES ASSUME NEW e \in Deliveries, NEW f \in Deliveries,
                        pc'[e] = "success", pc'[f] = "success",
                        e \notin unmarked', f \notin unmarked'
                 PROVE  e = f
      OBVIOUS
    <3>1. e # d /\ f # d /\ e \notin unmarked /\ f \notin unmarked
      BY <2>1
    <3> QED
      BY <2>1, <3>1
  <2> QED
    BY <2>2, <2>3
<1>3. ASSUME UNCHANGED unmarked,
             \A e \in Deliveries : pc'[e] = "success" => pc[e] = "success"
      PROVE  SuccessIsMarked' /\ SucceedsOnce'
  BY <1>3
<1>4. ASSUME NEW d \in Deliveries, InsertStep(d) \/ ReclaimStep(d) \/ HandlerStep(d)
                                   \/ ReleaseStep(d) \/ Deliver(d) \/ Crash(d)
                                   \/ KeyStep(d) \/ Refuse(d)
      PROVE  /\ UNCHANGED unmarked
             /\ \A e \in Deliveries : pc'[e] = "success" => pc[e] = "success"
  BY <1>4 DEF InsertStep, Insert, InsertFails, InsertAgain, InsertAgainFails, ReclaimStep,
     ReadRow, ReadRowFails, Reclaim, ReclaimFails, HandlerStep, Apply, HandlerRaises,
     CompleteKey, ReleaseStep, DropKeyAfterFailure, Release, ReleaseFails, Deliver, Crash,
     KeyStep, Look, LookFails, LockKey, LockKeyFails, Refuse
<1>5. CASE UNCHANGED vars \/ KeyExpires \/ ClaimAges
  BY <1>5, <1>3 DEF vars, KeyExpires, ClaimAges
<1> QED
  BY <1>1, <1>2, <1>3, <1>4, <1>5, StepCases DEF MarkStep

(* Prompt handlers: of two deliveries that end in "success" one has lost   *)
(* its durable mark.                                                       *)
THEOREM OneSuccess == PromptHandlers => (Spec => []SucceedsOnce)
<1> SUFFICES ASSUME PromptHandlers PROVE Spec => []SucceedsOnce
  OBVIOUS
<1> DEFINE Inv == Owned /\ SuccessIsMarked /\ SucceedsOnce
<1>1. Init => Inv
  BY OwnedInit DEF Init, SuccessIsMarked, SucceedsOnce
<1>2. Inv /\ [Next]_vars => Inv'
  BY TypeStep, ClaimStep, KeyOwnerStep, SuccessStep DEF Owned
<1>3. Inv => SucceedsOnce
  OBVIOUS
<1> HIDE DEF Inv
<1> QED
  BY <1>1, <1>2, <1>3, PTL DEF Spec

-----------------------------------------------------------------------------
(* Attempts at an event are serial                                         *)

Attempt == {d \in Deliveries : pc[d] \in Owning}
Closed  == row.status = "completed"

\* The attempt under way is that of the delivery which owns the claim.
LEMMA OwnersAttempt ==
    ASSUME Durable, HandlerOwnsClaim, NEW d \in Deliveries, pc[d] \in Owning
    PROVE  Attempt = {d} /\ row = Claim(d)
  BY ClaimFacts DEF HandlerOwnsClaim, Attempt

\* A delivery that leaves the handler leaves no attempt behind.
LEMMA AttemptEnds ==
    ASSUME TypeOK, Durable, HandlerOwnsClaim, NEW d \in Deliveries,
           pc[d] \in Owning, NEW place, Goto(d, place), place \notin Owning
    PROVE  Attempt = {d} /\ Attempt' = {}
<1>1. Attempt = {d}
  BY OwnersAttempt
<1>2. pc'[d] = place /\ \A e \in Deliveries \ {d} : pc'[e] = pc[e]
  BY DEF TypeOK, Goto
<1> QED
  BY <1>1, <1>2 DEF Attempt

\* One that moves outside the handler, or inside it, changes no attempt.
LEMMA AttemptStays ==
    ASSUME TypeOK, NEW d \in Deliveries, NEW place, Goto(d, place),
           pc[d] \in Owning <=> place \in Owning
    PROVE  Attempt' = Attempt
<1>1. pc'[d] = place /\ \A e \in Deliveries \ {d} : pc'[e] = pc[e]
  BY DEF TypeOK, Goto
<1> QED
  BY <1>1 DEF Attempt

\* A delivery that is granted a claim, fresh or abandoned, begins an attempt.
LEMMA AttemptBegins ==
    ASSUME TypeOK, Durable, HandlerOwnsClaim, NEW d \in Deliveries,
           Goto(d, "handling"), row' = Claim(d), row = NoRow \/ row.stale,
           UNCHANGED applied
    PROVE  Serial!Begin(d)
<1>1. Attempt = {}
  BY ClaimFacts DEF Attempt, HandlerOwnsClaim
<1>2. pc'[d] = "handling" /\ \A e \in Deliveries \ {d} : pc'[e] = pc[e]
  BY DEF TypeOK, Goto
<1>3. Attempt' = {d}
  BY <1>1, <1>2 DEF Attempt, Owning, Handling
<1>4. ~Closed /\ ~Closed'
  BY ClaimFacts DEF Closed, TypeOK
<1> QED
  BY <1>1, <1>3, <1>4 DEF Serial!Begin, Attempt, Closed

\* A step that leaves the attempt, the effects and the completion alone.
LEMMA SerialStutter ==
    ASSUME UNCHANGED <<Attempt, applied, Closed>>
    PROVE  UNCHANGED Serial!vars
  BY DEF Serial!vars, Attempt, Closed

LEMMA StepSerially ==
    ASSUME Durable, TypeOK, HandlerOwnsClaim, [Next]_vars
    PROVE  [Serial!Next]_(Serial!vars)
<1>owning. /\ Owning = {"handling", "applied", "completing", "failing", "releasing"}
           /\ Handling \subseteq Owning
  BY DEF Owning, Handling
<1>1. CASE UNCHANGED vars
  BY <1>1, SerialStutter DEF vars, Attempt, Closed
<1>2. CASE KeyExpires
  BY <1>2, SerialStutter DEF KeyExpires, Attempt, Closed
<1>3. CASE ClaimAges
  <2>1. UNCHANGED Closed
    BY <1>3 DEF ClaimAges, Aged, Closed, TypeOK, NoRow, CompletedRow, Claim
  <2> QED
    BY <1>3, <2>1, SerialStutter DEF ClaimAges, Attempt
<1>outside. ASSUME NEW d \in Deliveries, NEW place, Goto(d, place),
                   pc[d] \notin Owning, place \notin Owning,
                   UNCHANGED applied, UNCHANGED Closed
            PROVE  [Serial!Next]_(Serial!vars)
  BY <1>outside, AttemptStays, SerialStutter
<1>4. ASSUME NEW d \in Deliveries, Deliver(d) PROVE [Serial!Next]_(Serial!vars)
  <2>1. pc[d] \notin Owning /\ Goto(d, "arrived") /\ UNCHANGED <<row, applied>>
    BY <1>4, <1>owning DEF Deliver, Answered, Acknowledged
  <2> QED
    BY <2>1, <1>owning, <1>outside DEF Closed
<1>5. ASSUME NEW d \in Deliveries, KeyStep(d) PROVE [Serial!Next]_(Serial!vars)
  <2>1. /\ pc[d] \in {"arrived", "looked"} /\ UNCHANGED <<row, applied>>
        /\ Goto(d, "looked") \/ Goto(d, "duplicate") \/ Goto(d, "inserting")
    BY <1>5 DEF KeyStep, Look, LookFails, LockKey, LockKeyFails
  <2> QED
    BY <2>1, <1>owning, <1>outside DEF Closed
<1>claims. ASSUME NEW d \in Deliveries, pc[d] \notin Owning, UNCHANGED applied,
                  NEW place, place \notin Owning, Goto(d, place),
                  UNCHANGED row \/ ((row = NoRow \/ row.stale) /\ row' = Claim(d))
           PROVE  [Serial!Next]_(Serial!vars)
  <2>1. UNCHANGED Closed
    BY <1>claims, ClaimFacts DEF Closed, TypeOK
  <2> QED
    BY <1>claims, <2>1, <1>outside
<1>6. ASSUME NEW d \in Deliveries, InsertStep(d) PROVE [Serial!Next]_(Serial!vars)
  <2>1. /\ pc[d] \in {"inserting", "again"} /\ UNCHANGED applied
        /\ \/ Goto(d, "handling") /\ row = NoRow /\ row' = Claim(d)
           \/ Goto(d, "conflict") /\ UNCHANGED row
           \/ Goto(d, "refused") /\ (UNCHANGED row \/ (row = NoRow /\ row' = Claim(d)))
    BY <1>6 DEF InsertStep, Insert, InsertFails, InsertAgain, InsertAgainFails, InsertClaim
  <2> QED
    BY <2>1, <1>owning, <1>claims, AttemptBegins DEF Serial!Next
<1>7. ASSUME NEW d \in Deliveries, ReclaimStep(d) PROVE [Serial!Next]_(Serial!vars)
  <2>1. /\ pc[d] \in {"conflict", "reclaiming"} /\ UNCHANGED applied
        /\ \/ Goto(d, "handling") /\ row.stale /\ row' = Claim(d)
           \/ /\ Goto(d, "again") \/ Goto(d, "reclaiming") \/ Goto(d, "refused")
              /\ UNCHANGED row
           \/ Goto(d, "refused") /\ row.stale /\ row' = Claim(d)
    BY <1>7 DEF ReclaimStep, ReadRow, ReadRowFails, Reclaim, ReclaimFails
  <2> QED
    BY <2>1, <1>owning, <1>claims, AttemptBegins DEF Serial!Next
<1>8. ASSUME NEW d \in Deliveries, Refuse(d) PROVE [Serial!Next]_(Serial!vars)
  BY <1>8, <1>owning, <1>outside DEF Refuse, Closed
<1>9. ASSUME NEW d \in Deliveries, HandlerStep(d) PROVE [Serial!Next]_(Serial!vars)
  <2>1. /\ pc[d] \in Owning /\ UNCHANGED row
        /\ \E place \in {"applied", "failing", "completing"} : Goto(d, place)
        /\ applied' = applied \/ applied' = applied \cup {d}
    BY <1>9, <1>owning DEF HandlerStep, Apply, HandlerRaises, CompleteKey
  <2>2. Attempt' = Attempt
    BY <2>1, <1>owning, AttemptStays
  <2>3. Attempt = {d}
    BY <2>1, OwnersAttempt
  <2>4. UNCHANGED Closed
    BY <2>1 DEF Closed
  <2> QED
    BY <2>1, <2>2, <2>3, <2>4, SerialStutter DEF Serial!Next, Serial!Apply, Attempt, Closed
<1>ends. ASSUME NEW d \in Deliveries, pc[d] \in Owning, NEW place, Goto(d, place),
                place \notin Owning, UNCHANGED applied
         PROVE  [Serial!Next]_(Serial!vars)
  <2>1. Attempt = {d} /\ Attempt' = {}
    BY <1>ends, AttemptEnds
  <2>2. Closed' \in BOOLEAN
    BY Zenon DEF Closed
  <2> QED
    BY <1>ends, <2>1, <2>2 DEF Serial!Next, Serial!End, Attempt, Closed
<1>10. ASSUME NEW d \in Deliveries, MarkStep(d) PROVE [Serial!Next]_(Serial!vars)
  BY <1>10, <1>owning, <1>ends DEF MarkStep, MarkCompleted, MarkLost
<1>11. ASSUME NEW d \in Deliveries, ReleaseStep(d) PROVE [Serial!Next]_(Serial!vars)
  <2>1. CASE DropKeyAfterFailure(d)
    <3>1. /\ pc[d] = "failing" /\ Goto(d, "releasing")
          /\ UNCHANGED <<row, applied>>
      BY <2>1 DEF DropKeyAfterFailure
    <3> QED
      BY <3>1, <1>owning, AttemptStays, SerialStutter DEF Closed
  <2>2. CASE Release(d) \/ ReleaseFails(d)
    BY <2>2, <1>owning, <1>ends DEF Release, ReleaseFails
  <2> QED
    BY <1>11, <2>1, <2>2 DEF ReleaseStep
<1>12. ASSUME NEW d \in Deliveries, Crash(d) PROVE [Serial!Next]_(Serial!vars)
  <2>1. Goto(d, "crashed") /\ UNCHANGED <<row, applied>>
    BY <1>12 DEF Crash
  <2>2. CASE pc[d] \in Owning
    BY <2>1, <2>2, <1>owning, <1>ends
  <2>3. CASE pc[d] \notin Owning
    BY <2>1, <2>3, <1>owning, <1>outside DEF Closed
  <2> QED
    BY <2>2, <2>3
<1> QED
  BY <1>1, <1>2, <1>3, <1>4, <1>5, <1>6, <1>7, <1>8, <1>9, <1>10, <1>11, <1>12, StepCases

LEMMA SerialInit == Init => Serial!Init
  BY DEF Init, Serial!Init, Owning, Handling, NoRow

(* The durable layer and prompt handlers: deliveries of one event, sent     *)
(* again and again, failing and crashing anywhere, are serial attempts at   *)
(* it, and none begins once it is completed.                                *)
THEOREM Refinement == Durable /\ PromptHandlers => (Spec => ImplementsSerialAttempts)
<1> SUFFICES ASSUME Durable, PromptHandlers PROVE Spec => ImplementsSerialAttempts
  OBVIOUS
<1>1. Owned /\ [Next]_vars => Owned'
  BY TypeStep, ClaimStep, KeyOwnerStep DEF Owned
<1>2. Owned /\ [Next]_vars => [Serial!Next]_(Serial!vars)
  BY StepSerially DEF Owned
<1> QED
  BY OwnedInit, SerialInit, <1>1, <1>2, PTL DEF Spec, Serial!Spec, ImplementsSerialAttempts
=============================================================================
