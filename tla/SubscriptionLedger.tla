-------------------------- MODULE SubscriptionLedger --------------------------
(***************************************************************************)
(* The database half of a marketplace subscription: its row in             *)
(* library_subscriptions, the append-only marketplace_settlements ledger,  *)
(* the trigger that guards the row (migrations 008, 012, 014) and the one  *)
(* function that writes both (migration 050). The row and its ledger do    *)
(* not interact with another subscription's, so there is ONE subscription. *)
(*                                                                         *)
(* Instants are naturals; a period lasts Month of them. NULL in            *)
(* period_expiry is 0, which no period ends at. `suspended` is missing: no *)
(* code writes it.                                                         *)
(***************************************************************************)
EXTENDS Naturals, FiniteSets

CONSTANTS
    Payment,   \* the provider's payment references
    Price,     \* the amounts a listing may be priced at
    Month      \* the length of a period

ASSUME PaymentAssumption == IsFiniteSet(Payment)
ASSUME MonthAssumption == Month \in Nat \ {0}

VARIABLES
    sub,       \* the row: status, period_expiry, price_minor
    paid,      \* ledger rows with is_reversal = FALSE, by reference
    reversed,  \* ledger rows with is_reversal = TRUE, by reference
    order      \* the provider's side of every payment

Statuses == {"pending", "active", "expired", "cancelled", "refunded", "payment_failed"}
NoPeriod == 0

Rows   == [status : Statuses, expiry : Nat, price : Price]
Orders == [state : {"none", "open", "captured"}, amount : Price, at : Nat,
           refunded : BOOLEAN]

Later(a, b) == IF a < b THEN b ELSE a

-----------------------------------------------------------------------------
(* The trigger                                                             *)

\* SUBSCRIPTION_TRANSITIONS.
Transitions ==
    {<<"pending", "active">>, <<"pending", "payment_failed">>, <<"pending", "cancelled">>,
     <<"active", "expired">>, <<"active", "cancelled">>, <<"active", "refunded">>,
     <<"expired", "active">>, <<"cancelled", "active">>,
     <<"payment_failed", "pending">>}

\* The rows of marketplace_subscription_allowed_transitions.
AllowedEdges == Transitions \cup {<<"payment_failed", "active">>}

\* A payment among `rows` confirmed at or after the end of the stored period.
FundedBy(rows) == \E p \in rows : order[p].at >= sub.expiry

\* Mutant: an edge is not looked up.
GuardAdmitsAnyEdge(to, rows) ==
    to = "active" /\ sub.status # to => FundedBy(rows)

\* marketplace_subscription_guard, for an UPDATE that writes status `to`.
GuardAdmits(to, rows) ==
    \/ to = sub.status
    \/ /\ <<sub.status, to>> \in AllowedEdges
       /\ to = "active" => FundedBy(rows)

-----------------------------------------------------------------------------
(* What settle() decides from its view of the row                          *)

Eligible == {"pending", "expired", "cancelled", "payment_failed"}

Target(rev) == IF rev THEN "refunded" ELSE "active"

Permitted(status, rev) ==
    IF rev THEN <<status, "refunded">> \in Transitions
           ELSE status \in Eligible \cup {"active"}

\* A first period and a renewal: one month from the later of the stored expiry
\* and the confirmation. A reversal writes the expiry it has read.
NewExpiry(ref, rev, expiry) ==
    IF rev THEN expiry ELSE Later(expiry, order[ref].at) + Month

IsRecorded(ref, rev) == ref \in (IF rev THEN reversed ELSE paid)

PaidWith(ref, rev) == IF rev THEN paid ELSE paid \cup {ref}

Insert(ref, rev) ==
    /\ paid' = PaidWith(ref, rev)
    /\ reversed' = IF rev THEN reversed \cup {ref} ELSE reversed

\* Mutant: the ledger row of a transition that fails is not rolled back.
RecordThenTransition(ref, rev, view) ==
    /\ Insert(ref, rev)
    /\ IF /\ Permitted(view.status, rev)
          /\ sub.status = view.status
          /\ GuardAdmits(Target(rev), PaidWith(ref, rev))
       THEN sub' = [sub EXCEPT !.status = Target(rev),
                               !.expiry = NewExpiry(ref, rev, view.expiry)]
       ELSE UNCHANGED sub

\* record_and_transition_settlement, when it commits: the ledger row and, if the
\* view permits the transition, the row that still has the view's status. When
\* the status has moved (MK001) or the trigger refuses, nothing is written.
RecordAndTransition(ref, rev, view) ==
    /\ Insert(ref, rev)
    /\ IF Permitted(view.status, rev)
       THEN /\ sub.status = view.status
            /\ GuardAdmits(Target(rev), PaidWith(ref, rev))
            /\ sub' = [sub EXCEPT !.status = Target(rev),
                                  !.expiry = NewExpiry(ref, rev, view.expiry)]
       ELSE UNCHANGED sub
=============================================================================
