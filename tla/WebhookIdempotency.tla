-------------------------- MODULE WebhookIdempotency --------------------------
(***************************************************************************)
(* routers/billing.py razorpay_webhook over core/webhook_idempotency.py:   *)
(* a payment event is delivered at least once, and its effects (plan,      *)
(* invoice, commission, settlement) must not be applied twice.             *)
(*                                                                         *)
(* Two layers guard them: a Redis key webhook:razorpay:{event} written     *)
(* through a client that swallows its own errors, and under it a row of    *)
(* webhook_events with UNIQUE (provider, event_id). Events do not interact *)
(* here, so the module follows ONE event. A member of Deliveries is one    *)
(* HTTP request for it; several may be in flight at once, in any process.  *)
(***************************************************************************)
EXTENDS Naturals, FiniteSets

CONSTANTS
    Deliveries,      \* HTTP requests that carry the event
    NoDelivery,      \* stands for "no delivery"
    Durable,         \* a service-role Postgres client is configured
    PromptHandlers,  \* TRUE: no live handler outlasts the 60 s of both claims
    Redelivers,      \* TRUE: an answered delivery is sent again
    StopsOnAck       \* TRUE: the provider stops sending at the first 2xx

ASSUME DeliveryAssumption == NoDelivery \notin Deliveries
ASSUME ModeAssumption ==
    {Durable, PromptHandlers, Redelivers, StopsOnAck} \subseteq BOOLEAN

VARIABLES
    key,       \* the Redis key
    row,       \* the row of webhook_events
    pc,        \* where each delivery is
    applied,   \* history: deliveries whose effects were applied
    unmarked   \* history: deliveries answered "success" without a durable mark

vars == <<key, row, pc, applied, unmarked>>

-----------------------------------------------------------------------------
\* The key holds "processing" (with a TTL of 60 s) or "completed" (24 h).
NoKey         == [value |-> "none", by |-> NoDelivery]
KeyOf(d)      == [value |-> "processing", by |-> d]
CompletedKey  == [value |-> "completed", by |-> NoDelivery]

\* The row holds a status and, as created_at, whether the 60 s have passed.
NoRow         == [status |-> "none", by |-> NoDelivery, stale |-> FALSE]
Claim(d)      == [status |-> "processing", by |-> d, stale |-> FALSE]
Aged(claim)   == [claim EXCEPT !.stale = TRUE]
CompletedRow  == [status |-> "completed", by |-> NoDelivery, stale |-> FALSE]

Acquiring    == {"inserting", "conflict", "again", "reclaiming"}
Handling     == {"handling", "applied"}
Owning       == Handling \cup {"completing", "failing", "releasing"}
Acknowledged == {"duplicate", "success"}
Answered     == Acknowledged \cup {"error", "crashed"}
InFlight     == {"arrived", "looked", "refused"} \cup Acquiring \cup Owning

TypeOK ==
    /\ key \in {NoKey, CompletedKey} \cup {KeyOf(d) : d \in Deliveries}
    /\ row \in {NoRow, CompletedRow} \cup {Claim(d) : d \in Deliveries}
                                     \cup {Aged(Claim(d)) : d \in Deliveries}
    /\ pc \in [Deliveries -> {"idle"} \cup InFlight \cup Answered]
    /\ applied \subseteq Deliveries
    /\ unmarked \subseteq Deliveries

Init ==
    /\ key = NoKey
    /\ row = NoRow
    /\ pc = [d \in Deliveries |-> "idle"]
    /\ applied = {}
    /\ unmarked = {}

Goto(d, place) == pc' = [pc EXCEPT ![d] = place]

\* The provider, or an operator at its dashboard, sends the event.
Deliver(d) ==
    /\ pc[d] = "idle" \/ (Redelivers /\ pc[d] \in Answered)
    /\ StopsOnAck => \A e \in Deliveries : pc[e] \notin Acknowledged
    /\ Goto(d, "arrived")
    /\ UNCHANGED <<key, row, applied, unmarked>>

-----------------------------------------------------------------------------
(* The Redis fast path                                                     *)

\* GET; a failing GET reads as "nothing there".
Look(d) ==
    /\ pc[d] = "arrived"
    /\ Goto(d, IF key = NoKey THEN "looked" ELSE "duplicate")
    /\ UNCHANGED <<key, row, applied, unmarked>>

LookFails(d) ==
    /\ pc[d] = "arrived"
    /\ Goto(d, "looked")
    /\ UNCHANGED <<key, row, applied, unmarked>>

\* SET "processing" NX EX 60; a failing SET reads as a collision.
LockKey(d) ==
    /\ pc[d] = "looked"
    /\ \/ /\ key = NoKey
          /\ key' = KeyOf(d)
          /\ Goto(d, "inserting")
       \/ /\ key # NoKey
          /\ Goto(d, "duplicate")
          /\ UNCHANGED key
    /\ UNCHANGED <<row, applied, unmarked>>

LockKeyFails(d) ==
    /\ pc[d] = "looked"
    /\ UNCHANGED key \/ (key = NoKey /\ key' = KeyOf(d))
    /\ Goto(d, "duplicate")
    /\ UNCHANGED <<row, applied, unmarked>>

\* DELETE, conditional on nothing; a failing DELETE is not noticed.
DropKey == key' = NoKey \/ UNCHANGED key

-----------------------------------------------------------------------------
(* acquire_webhook_processing                                              *)

\* Mutant: the UNIQUE (provider, event_id) constraint is missing.
InsertClaimTwice(d) == row' = Claim(d)

\* INSERT of a fresh claim, which the UNIQUE constraint refuses over a row.
InsertClaim(d) == row = NoRow /\ row' = Claim(d)

\* The first INSERT; without a client the claim is granted unseen.
Insert(d) ==
    /\ pc[d] = "inserting"
    /\ \/ /\ ~Durable
          /\ Goto(d, "handling")
          /\ UNCHANGED row
       \/ /\ Durable
          /\ InsertClaim(d)
          /\ Goto(d, "handling")
       \/ /\ Durable
          /\ row # NoRow
          /\ Goto(d, "conflict")
          /\ UNCHANGED row
    /\ UNCHANGED <<key, applied, unmarked>>

\* Any error but the unique violation refuses; the INSERT may have been done.
InsertFails(d) ==
    /\ pc[d] = "inserting" /\ Durable
    /\ InsertClaim(d) \/ UNCHANGED row
    /\ Goto(d, "refused")
    /\ UNCHANGED <<key, applied, unmarked>>

\* Mutant: an abandoned claim is never found stale.
ReadRowNeverStale(d) ==
    /\ pc[d] = "conflict"
    /\ Goto(d, IF row = NoRow THEN "again" ELSE "refused")
    /\ UNCHANGED <<key, row, applied, unmarked>>

\* The SELECT after a conflict decides between a vanished row, a completed
\* event, a live claim and an abandoned one.
ReadRow(d) ==
    /\ pc[d] = "conflict"
    /\ Goto(d, IF row = NoRow THEN "again"
               ELSE IF row.stale THEN "reclaiming" ELSE "refused")
    /\ UNCHANGED <<key, row, applied, unmarked>>

ReadRowFails(d) ==
    /\ pc[d] = "conflict"
    /\ Goto(d, "refused")
    /\ UNCHANGED <<key, row, applied, unmarked>>

\* The one further INSERT over a row that had vanished.
InsertAgain(d) ==
    /\ pc[d] = "again"
    /\ \/ InsertClaim(d) /\ Goto(d, "handling")
       \/ row # NoRow /\ Goto(d, "refused") /\ UNCHANGED row
    /\ UNCHANGED <<key, applied, unmarked>>

InsertAgainFails(d) ==
    /\ pc[d] = "again"
    /\ InsertClaim(d) \/ UNCHANGED row
    /\ Goto(d, "refused")
    /\ UNCHANGED <<key, applied, unmarked>>

\* Mutant: the UPDATE does not repeat the condition on the age.
ReclaimAnyAge(d) ==
    /\ pc[d] = "reclaiming"
    /\ IF row.status = "processing" THEN row' = Claim(d) /\ Goto(d, "handling")
                                    ELSE Goto(d, "refused") /\ UNCHANGED row
    /\ UNCHANGED <<key, applied, unmarked>>

\* UPDATE ... WHERE status = 'processing' AND created_at < cutoff.
Reclaim(d) ==
    /\ pc[d] = "reclaiming"
    /\ \/ row.stale /\ row' = Claim(d) /\ Goto(d, "handling")
       \/ ~row.stale /\ Goto(d, "refused") /\ UNCHANGED row
    /\ UNCHANGED <<key, applied, unmarked>>

ReclaimFails(d) ==
    /\ pc[d] = "reclaiming"
    /\ UNCHANGED row \/ (row.stale /\ row' = Claim(d))
    /\ Goto(d, "refused")
    /\ UNCHANGED <<key, applied, unmarked>>

\* A refused delivery drops the key, its own or not, and is answered 200.
Refuse(d) ==
    /\ pc[d] = "refused"
    /\ DropKey
    /\ Goto(d, "duplicate")
    /\ UNCHANGED <<row, applied, unmarked>>

-----------------------------------------------------------------------------
(* The handler                                                             *)

Apply(d) ==
    /\ pc[d] = "handling"
    /\ applied' = applied \cup {d}
    /\ Goto(d, "applied")
    /\ UNCHANGED <<key, row, unmarked>>

\* The handler may raise before its effects, between them, or after them.
HandlerRaises(d) ==
    /\ pc[d] \in Handling
    /\ Goto(d, "failing")
    /\ UNCHANGED <<key, row, applied, unmarked>>

\* SET "completed" EX 86400; an event without effects, or one whose payment
\* does not match its order, comes here straight away.
CompleteKey(d) ==
    /\ pc[d] \in Handling
    /\ key' = CompletedKey \/ UNCHANGED key
    /\ Goto(d, "completing")
    /\ UNCHANGED <<row, applied, unmarked>>

\* mark_webhook_completed: UPDATE by event, not by owner.
MarkCompleted(d) ==
    /\ pc[d] = "completing"
    /\ Durable /\ row # NoRow
    /\ row' = CompletedRow
    /\ Goto(d, "success")
    /\ UNCHANGED <<key, applied, unmarked>>

\* The mark never raises: an error, an absent row or an absent client leave
\* no trace of the success but the answer.
MarkLost(d) ==
    /\ pc[d] = "completing"
    /\ unmarked' = unmarked \cup {d}
    /\ Goto(d, "success")
    /\ UNCHANGED <<key, row, applied>>

\* The except clause: first the key,
DropKeyAfterFailure(d) ==
    /\ pc[d] = "failing"
    /\ DropKey
    /\ Goto(d, "releasing")
    /\ UNCHANGED <<row, applied, unmarked>>

\* then DELETE ... WHERE status = 'processing', whoever holds the claim.
Release(d) ==
    /\ pc[d] = "releasing"
    /\ row' = IF Durable /\ row.status = "processing" THEN NoRow ELSE row
    /\ Goto(d, "error")
    /\ UNCHANGED <<key, applied, unmarked>>

\* A failing DELETE is only logged.
ReleaseFails(d) ==
    /\ pc[d] = "releasing" /\ Durable
    /\ Goto(d, "error")
    /\ UNCHANGED <<key, row, applied, unmarked>>

-----------------------------------------------------------------------------
(* The environment                                                         *)

Crash(d) ==
    /\ pc[d] \in InFlight
    /\ Goto(d, "crashed")
    /\ UNCHANGED <<key, row, applied, unmarked>>

\* A TTL runs out, or Redis loses the key.
KeyExpires ==
    /\ key # NoKey
    /\ PromptHandlers /\ key.value = "processing"
           => pc[key.by] \notin Acquiring \cup Owning
    /\ key' = NoKey
    /\ UNCHANGED <<row, pc, applied, unmarked>>

\* PROCESSING_STALE_AFTER_SECONDS have passed since the claim.
ClaimAges ==
    /\ row.status = "processing" /\ ~row.stale
    /\ PromptHandlers => pc[row.by] \notin Owning
    /\ row' = Aged(row)
    /\ UNCHANGED <<key, pc, applied, unmarked>>

\* A step of a delivery in which every call to Redis and Postgres succeeds,
Undisturbed(d) ==
    \/ Look(d) \/ LockKey(d) \/ Insert(d) \/ ReadRow(d) \/ InsertAgain(d)
    \/ Reclaim(d) \/ Refuse(d) \/ Apply(d) \/ CompleteKey(d) \/ MarkCompleted(d)
    \/ DropKeyAfterFailure(d) \/ Release(d)

\* and one in which a call or the handler fails.
Disturbed(d) ==
    \/ LookFails(d) \/ LockKeyFails(d) \/ InsertFails(d) \/ ReadRowFails(d)
    \/ InsertAgainFails(d) \/ ReclaimFails(d)
    \/ HandlerRaises(d) \/ MarkLost(d) \/ ReleaseFails(d)

Delivery(d) == Undisturbed(d) \/ Disturbed(d)

Calm == (\E d \in Deliveries : Deliver(d) \/ Undisturbed(d)) \/ KeyExpires \/ ClaimAges

Next == Calm \/ \E d \in Deliveries : Disturbed(d) \/ Crash(d)

Spec == Init /\ [][Next]_vars

\* Time passes, the provider sends as long as it has to, an event loop finishes
\* the requests it has, and failures and crashes come to an end.
FairSpec ==
    /\ Spec
    /\ <>[][Calm]_vars
    /\ WF_vars(KeyExpires) /\ WF_vars(ClaimAges)
    /\ \A d \in Deliveries : WF_vars(Deliver(d)) /\ WF_vars(Delivery(d))

-----------------------------------------------------------------------------
(* Properties                                                              *)

\* At most one delivery of an event is in its handler, whatever Redis does:
\* the durable claim is "the authoritative idempotency record".
SingleHandler ==
    \A d, e \in Deliveries : {pc[d], pc[e]} \subseteq Handling => d = e

\* A handler owns the durable claim until it has marked or released it, so the
\* UPDATE and the DELETE that name no owner only ever hit its own row.
HandlerOwnsClaim ==
    \A d \in Deliveries : Durable /\ pc[d] \in Owning => row = Claim(d)

(* The event as its durable row shows it, and the handler that owns it.    *)
Serial == INSTANCE SerialAttempts WITH
    attempt <- {d \in Deliveries : pc[d] \in Owning},
    closed  <- row.status = "completed"

\* Whatever the key does, attempts at one event are serial, from the claim to
\* the mark or the release, and none begins on a completed event, though a claim
\* is taken over on the word of a row read earlier.
ImplementsSerialAttempts == Serial!Spec

\* A durable completion is for ever: no release undoes it, and from then on no
\* delivery of the event applies anything.
CompletionIsDurable ==
    [][row.status = "completed" => row' = row /\ applied' = applied]_vars

\* Two deliveries end in "success" only if the mark of one of them was lost.
SucceedsOnce ==
    \A d, e \in Deliveries :
        {pc[d], pc[e]} \subseteq {"success"} /\ {d, e} \cap unmarked = {} => d = e

\* While the event keeps coming, a crash or an error at any step blocks it only
\* for a while: "one crash cannot block every future retry forever".
EventIsHandled == <>(row.status = "completed")
=============================================================================
