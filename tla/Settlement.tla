------------------------------ MODULE Settlement ------------------------------
(***************************************************************************)
(* settlement_service.settle for the deliveries of the payment and refund  *)
(* webhooks of one subscription, and everything that writes the same row   *)
(* meanwhile: checkout, renewal, cancellation, the expiry sweep.           *)
(*                                                                         *)
(* A member of Worker is a request in some process; one event may be in    *)
(* several of them and is delivered again without limit. A statement that  *)
(* fails is a retry or, when the budget of attempts is spent, the end of   *)
(* the call; so is a worker that dies. The audit entries, and the grant in *)
(* deployment_permissions which no code reads, are left out.               *)
(***************************************************************************)
EXTENDS SubscriptionLedger

CONSTANTS
    Worker,     \* requests in flight
    NoPayment,  \* stands for "no payment"
    MaxTime     \* bound: the last instant

ASSUME WorkerAssumption == NoPayment \notin Payment /\ MaxTime \in Nat

VARIABLES
    now,
    checkout,  \* the purchaser's request to create_checkout
    step,      \* where the settle() of each worker is
    ref,       \* the payment it is about
    rev,       \* is it a reversal?
    view       \* state.subscription: the row as it was read

call == <<step, ref, rev, view>>
ledger == <<paid, reversed>>
vars == <<sub, ledger, order, now, checkout, call>>

Views == [status : Statuses, expiry : Nat]
NoView == [status |-> "pending", expiry |-> NoPeriod]
ViewOf(row) == [status |-> row.status, expiry |-> row.expiry]

TypeOK ==
    /\ sub \in Rows
    /\ paid \subseteq Payment /\ reversed \subseteq paid
    /\ order \in [Payment -> Orders]
    /\ \A p \in paid : order[p].state = "captured"
    /\ now \in Nat
    /\ checkout \in {"none", "read", "pending"}
    /\ step \in [Worker -> {"idle", "record", "reread", "resume"}]
    /\ ref \in [Worker -> Payment \cup {NoPayment}]
    /\ rev \in [Worker -> BOOLEAN]
    /\ view \in [Worker -> Views]
    /\ \A w \in Worker : /\ step[w] = "idle" <=> ref[w] = NoPayment
                         /\ ref[w] # NoPayment => order[ref[w]].state = "captured"
                         /\ rev[w] => ref[w] \in paid

\* The purchaser's first checkout has inserted the PENDING row.
Init ==
    /\ sub \in {[status |-> "pending", expiry |-> NoPeriod, price |-> p] : p \in Price}
    /\ paid = {} /\ reversed = {}
    /\ order = [p \in Payment |-> [state |-> "none", amount |-> sub.price, at |-> 0,
                                   refunded |-> FALSE]]
    /\ now = 0
    /\ checkout = "pending"
    /\ step = [w \in Worker |-> "idle"]
    /\ ref = [w \in Worker |-> NoPayment]
    /\ rev = [w \in Worker |-> FALSE]
    /\ view = [w \in Worker |-> NoView]

-----------------------------------------------------------------------------
(* Settling a delivery                                                     *)

Goto(w, place, seen) ==
    /\ step' = [step EXCEPT ![w] = place]
    /\ view' = [view EXCEPT ![w] = seen]
    /\ UNCHANGED <<ref, rev>>

Answer(w) ==
    /\ step' = [step EXCEPT ![w] = "idle"]
    /\ ref' = [ref EXCEPT ![w] = NoPayment]
    /\ rev' = [rev EXCEPT ![w] = FALSE]
    /\ view' = [view EXCEPT ![w] = NoView]

\* A refund is correlated to the payment's own ledger row; one that is not
\* there, like an amount the row does not record, is audited and answered.
Correlated(p, r) ==
    IF r THEN order[p].refunded /\ p \in paid ELSE order[p].state = "captured"

Deliver(w, p, r) ==
    /\ step[w] = "idle"
    /\ Correlated(p, r)
    /\ order[p].amount = sub.price
    /\ step' = [step EXCEPT ![w] = "record"]
    /\ ref' = [ref EXCEPT ![w] = p]
    /\ rev' = [rev EXCEPT ![w] = r]
    /\ view' = [view EXCEPT ![w] = ViewOf(sub)]
    /\ UNCHANGED <<sub, ledger, order, now, checkout>>

\* The first call of the function. An answer that is lost is a failed attempt.
Record(w) ==
    /\ step[w] = "record"
    /\ ~IsRecorded(ref[w], rev[w])
    /\ RecordAndTransition(ref[w], rev[w], view[w])
    /\ Answer(w) \/ UNCHANGED call
    /\ UNCHANGED <<order, now, checkout>>

IsDuplicate(w) ==
    /\ step[w] = "record"
    /\ IsRecorded(ref[w], rev[w])
    /\ Goto(w, "reread", view[w])
    /\ UNCHANGED <<sub, ledger, order, now, checkout>>

\* Mutant: a renewal in place counts as pending too.
RenewalIsPending(status, r) == Permitted(status, r)

\* Is the transition of a settlement found in the ledger still to be made?
TransitionPending(status, r) ==
    IF r THEN <<status, "refunded">> \in Transitions ELSE status \in Eligible

Reread(w) ==
    /\ step[w] = "reread"
    /\ IF TransitionPending(sub.status, rev[w])
       THEN Goto(w, "resume", ViewOf(sub))
       ELSE Answer(w)
    /\ UNCHANGED <<sub, ledger, order, now, checkout>>

\* The second call, with p_proceed_if_duplicate.
Resume(w) ==
    /\ step[w] = "resume"
    /\ RecordAndTransition(ref[w], rev[w], view[w])
    /\ Answer(w) \/ Goto(w, "record", view[w])
    /\ UNCHANGED <<order, now, checkout>>

\* A failed read or a refused write: the next attempt keeps the row it has read.
Retry(w) ==
    /\ step[w] \in {"reread", "resume"}
    /\ Goto(w, "record", view[w])
    /\ UNCHANGED <<sub, ledger, order, now, checkout>>

\* SettlementPersistFailed, or the end of the process.
Abandon(w) ==
    /\ step[w] # "idle"
    /\ Answer(w)
    /\ UNCHANGED <<sub, ledger, order, now, checkout>>

-----------------------------------------------------------------------------
(* The purchaser and the provider                                          *)

Idle == UNCHANGED <<ledger, now, call>>

Opened(p, amount) ==
    /\ order[p].state = "none"
    /\ order' = [order EXCEPT ![p].state = "open", ![p].amount = amount]

\* create_checkout: the caller's row may be used again.
CheckoutReads ==
    /\ checkout = "none"
    /\ sub.status \in {"pending", "payment_failed"}
    /\ checkout' = "read"
    /\ UNCHANGED <<sub, order>> /\ Idle

\* The UPDATE names the row and no status: only the trigger looks at it.
CheckoutPersists ==
    /\ checkout = "read"
    /\ IF GuardAdmits("pending", paid)
       THEN /\ \E p \in Price : sub' = [sub EXCEPT !.status = "pending", !.price = p]
            /\ checkout' = "pending"
       ELSE checkout' = "none" /\ UNCHANGED sub
    /\ UNCHANGED order /\ Idle

CheckoutOpens(p) ==
    /\ checkout = "pending"
    /\ Opened(p, sub.price)
    /\ checkout' = "none"
    /\ UNCHANGED sub /\ Idle

\* The provider refuses, or answers after the deadline and has a session.
CheckoutFails ==
    /\ checkout = "pending"
    /\ UNCHANGED order \/ \E p \in Payment : Opened(p, sub.price)
    /\ IF sub.status = "pending" THEN sub' = [sub EXCEPT !.status = "payment_failed"]
                                 ELSE UNCHANGED sub
    /\ checkout' = "none"
    /\ Idle

\* create_renewal_checkout prices the listing as it is and writes nothing.
Renew(p) ==
    /\ sub.status \in (Eligible \ {"pending"}) \cup {"active"}
    /\ \E amount \in Price : Opened(p, amount)
    /\ UNCHANGED <<sub, checkout>> /\ Idle

Capture(p) ==
    /\ order[p].state = "open"
    /\ order' = [order EXCEPT ![p].state = "captured", ![p].at = now]
    /\ UNCHANGED <<sub, checkout>> /\ Idle

Refund(p) ==
    /\ order[p].state = "captured" /\ ~order[p].refunded
    /\ order' = [order EXCEPT ![p].refunded = TRUE]
    /\ UNCHANGED <<sub, checkout>> /\ Idle

\* cancel_subscription: the paid period stays as it is.
Cancel ==
    /\ sub.status = "active"
    /\ sub' = [sub EXCEPT !.status = "cancelled"]
    /\ UNCHANGED <<order, checkout>> /\ Idle

\* expiry_sweep.sweep: the UPDATE repeats the conditions of the read before it.
Sweep ==
    /\ sub.status = "active" /\ sub.expiry <= now
    /\ sub' = [sub EXCEPT !.status = "expired"]
    /\ UNCHANGED <<order, checkout>> /\ Idle

TimePasses ==
    /\ now < MaxTime
    /\ now' = now + 1
    /\ UNCHANGED <<sub, ledger, order, checkout, call>>

Next ==
    \/ \E w \in Worker :
          \/ \E p \in Payment, r \in BOOLEAN : Deliver(w, p, r)
          \/ Record(w) \/ IsDuplicate(w) \/ Reread(w) \/ Resume(w)
          \/ Retry(w) \/ Abandon(w)
    \/ \E p \in Payment : CheckoutOpens(p) \/ Renew(p) \/ Capture(p) \/ Refund(p)
    \/ CheckoutReads \/ CheckoutPersists \/ CheckoutFails
    \/ Cancel \/ Sweep \/ TimePasses

Spec == Init /\ [][Next]_vars

-----------------------------------------------------------------------------
(* Properties                                                              *)

\* The period never ends later than its payments can have bought: a month each,
\* counted from one of their confirmations. A redelivery, a resumed settlement
\* or a stale decision that buys a second month for one payment breaks it.
NoFreePeriod ==
    sub.expiry # NoPeriod =>
        \E p \in paid : sub.expiry <= order[p].at + Month * Cardinality(paid)

\* refunded is terminal, though checkout writes its PENDING over any status and
\* payments read before the refund are settled after it.
RefundedIsFinal == [][sub.status = "refunded" => sub'.status = "refunded"]_vars

\* "The ledger row committed but the subscription did not move" is unreachable
\* (migration 050), except for a payment of a refunded subscription.
PaidMovesWithLedger ==
    [][paid' # paid => sub'.status \in {"active", "refunded"}]_vars

\* A redelivered refund changes nothing (billing._settle_marketplace_reversal).
RedeliveredRefundIsNoOp ==
    [][\A w \in Worker :
          step[w] # "idle" /\ step'[w] = "idle" /\ rev[w] /\ ref[w] \in reversed
              => sub' = sub]_vars
=============================================================================
