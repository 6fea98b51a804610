--------------------------- MODULE Settlement_proof ---------------------------
(***************************************************************************)
(* Settlement for any number of payments, prices and requests in flight    *)
(* and a period of any length. NoFreePeriod needs an invariant about the   *)
(* rows that the requests have read: they are written back a month later,  *)
(* after other requests have written the same row.                         *)
(***************************************************************************)
EXTENDS Settlement, FiniteSetTheorems, TLAPS

\* A payment confirmed at e or later.
Funds(e) == \E p \in paid : e <= order[p].at
\* The payments can have bought a period that ends at e, or at e and a month.
Bought(e) == \E p \in paid : e <= order[p].at + Month * Cardinality(paid)
Spare(e)  == \E p \in paid : e + Month <= order[p].at + Month * Cardinality(paid)

RowBought     == sub.expiry # NoPeriod => Bought(sub.expiry)
ViewsBought   == \A w \in Worker : view[w].expiry # NoPeriod => Bought(view[w].expiry)
ViewsRefunded == \A w \in Worker : view[w].status = "refunded" => sub.status = "refunded"
ResumesSpare  ==
    \A w \in Worker :
        step[w] = "resume" /\ ~rev[w] /\ sub.status # "refunded"
            => \/ view[w].expiry = sub.expiry
               \/ Funds(view[w].expiry) \/ Spare(view[w].expiry)

ResumesEligible == \A w \in Worker : step[w] = "resume" /\ ~rev[w] => view[w].status \in Eligible

IInv == TypeOK /\ RowBought /\ ViewsBought /\ ResumesSpare /\ ResumesEligible

-----------------------------------------------------------------------------
(* Types                                                                   *)

\* What the function writes is a row, from any view and for any payment.
LEMMA RowsWritten ==
    ASSUME TypeOK, NEW p \in Payment, NEW r \in BOOLEAN, NEW v \in Views,
           RecordAndTransition(p, r, v), r => p \in paid
    PROVE  /\ sub' \in Rows
           /\ paid' \subseteq Payment /\ paid \subseteq paid' /\ paid' \subseteq paid \cup {p}
           /\ reversed' \subseteq paid'
<1> USE DEF RecordAndTransition, Insert, PaidWith, TypeOK
<1>1. /\ paid' = (IF r THEN paid ELSE paid \cup {p})
      /\ reversed' = (IF r THEN reversed \cup {p} ELSE reversed)
  OBVIOUS
<1>2. order[p].at \in Nat /\ v.expiry \in Nat /\ Month \in Nat
  BY MonthAssumption DEF Orders, Views
<1>3. NewExpiry(p, r, v.expiry) \in Nat
  BY <1>2 DEF NewExpiry, Later
<1>4. Target(r) \in Statuses
  BY DEF Target, Statuses
<1>5. sub' \in Rows
  BY <1>3, <1>4 DEF Rows
<1> QED BY <1>1, <1>5

\* The rest of what a settlement step does to its worker.
LEMMA CallsTyped ==
    ASSUME TypeOK, NEW w \in Worker, ref[w] # NoPayment,
           Answer(w) \/ \E s \in {"record", "reread", "resume"}, v \in Views : Goto(w, s, v),
           paid \subseteq paid', UNCHANGED order
    PROVE  /\ step' \in [Worker -> {"idle", "record", "reread", "resume"}]
           /\ ref' \in [Worker -> Payment \cup {NoPayment}]
           /\ rev' \in [Worker -> BOOLEAN]
           /\ view' \in [Worker -> Views]
           /\ \A u \in Worker : /\ step'[u] = "idle" <=> ref'[u] = NoPayment
                                /\ ref'[u] # NoPayment => order'[ref'[u]].state = "captured"
                                /\ rev'[u] => ref'[u] \in paid'
<1>1. NoView \in Views
  BY DEF NoView, Views, Statuses, NoPeriod
<1>2. CASE Answer(w)
  BY <1>1, <1>2 DEF Answer, TypeOK
<1>3. CASE \E s \in {"record", "reread", "resume"}, v \in Views : Goto(w, s, v)
  BY <1>3 DEF Goto, TypeOK
<1> QED BY <1>2, <1>3

LEMMA ViewTyped == TypeOK => ViewOf(sub) \in Views
BY DEF TypeOK, Rows, ViewOf, Views

\* The steps of the purchaser and the provider leave the requests alone.
LEMMA OrdersTyped ==
    ASSUME TypeOK, order' \in [Payment -> Orders], sub' \in Rows,
           \A p \in Payment : order[p].state = "captured" => order'[p].state = "captured",
           now' \in Nat, checkout' \in {"none", "read", "pending"}, UNCHANGED <<ledger, call>>
    PROVE  TypeOK'
BY DEF TypeOK, ledger, call

LEMMA OpenedTyped ==
    ASSUME TypeOK, NEW p \in Payment, NEW amount \in Price, Opened(p, amount)
    PROVE  /\ order' \in [Payment -> Orders]
           /\ \A q \in Payment : order[q].state # "none" => order'[q] = order[q]
<1>1. order[p] \in Orders
  BY DEF TypeOK
<1>2. [order[p] EXCEPT !.state = "open", !.amount = amount] \in Orders
  BY <1>1 DEF Orders
<1>3. order' = [order EXCEPT ![p] = [order[p] EXCEPT !.state = "open", !.amount = amount]]
  BY DEF Opened, TypeOK
<1> QED BY <1>1, <1>2, <1>3 DEF Opened, TypeOK

LEMMA InitTyped == Init => TypeOK
<1> SUFFICES ASSUME Init PROVE TypeOK
  OBVIOUS
<1>1. PICK p \in Price : sub = [status |-> "pending", expiry |-> NoPeriod, price |-> p]
  BY DEF Init
<1>2. sub \in Rows
  BY <1>1 DEF Rows, Statuses, NoPeriod
<1>3. \A q \in Payment : order[q] \in Orders
  BY <1>1 DEF Init, Orders
<1>4. NoView \in Views
  BY DEF NoView, Views, Statuses, NoPeriod
<1> QED BY <1>2, <1>3, <1>4, WorkerAssumption DEF Init, TypeOK, Orders

LEMMA StepTyped == TypeOK /\ [Next]_vars => TypeOK'
<1> SUFFICES ASSUME TypeOK, [Next]_vars PROVE TypeOK'
  OBVIOUS
<1>1. ASSUME NEW w \in Worker, NEW p \in Payment, NEW r \in BOOLEAN, Deliver(w, p, r)
      PROVE  TypeOK'
  <2>1. ViewOf(sub) \in Views /\ p # NoPayment
    BY ViewTyped, WorkerAssumption
  <2>2. order[p].state = "captured" /\ (r => p \in paid)
    BY <1>1 DEF Deliver, Correlated, TypeOK
  <2> QED BY <1>1, <2>1, <2>2 DEF Deliver, TypeOK, ledger
<1>2. ASSUME NEW w \in Worker, Record(w) \/ Resume(w)
      PROVE  TypeOK'
  <2>1. ref[w] # NoPayment /\ ref[w] \in Payment /\ order[ref[w]].state = "captured"
    BY <1>2 DEF Record, Resume, TypeOK
  <2>2. RecordAndTransition(ref[w], rev[w], view[w]) /\ UNCHANGED <<order, now, checkout>>
    BY <1>2 DEF Record, Resume
  <2>3. rev[w] \in BOOLEAN /\ view[w] \in Views /\ (rev[w] => ref[w] \in paid)
    BY DEF TypeOK
  <2>4. /\ sub' \in Rows
        /\ paid' \subseteq Payment /\ paid \subseteq paid' /\ paid' \subseteq paid \cup {ref[w]}
        /\ reversed' \subseteq paid'
    <3>1. PICK p \in Payment, r \in BOOLEAN, v \in Views : p = ref[w] /\ r = rev[w] /\ v = view[w]
      BY <2>1, <2>3
    <3>2. RecordAndTransition(p, r, v) /\ (r => p \in paid)
      BY <2>2, <2>3, <3>1 DEF RecordAndTransition, Insert, PaidWith, NewExpiry
    <3>3. /\ sub' \in Rows
          /\ paid' \subseteq Payment /\ paid \subseteq paid' /\ paid' \subseteq paid \cup {p}
          /\ reversed' \subseteq paid'
      BY <3>1, <3>2, RowsWritten
    <3> QED BY <3>1, <3>3
  <2>5. CASE UNCHANGED call
    BY <2>1, <2>2, <2>4, <2>5 DEF TypeOK, call
  <2>6. CASE Answer(w) \/ Goto(w, "record", view[w])
    BY <2>1, <2>2, <2>3, <2>4, <2>6, CallsTyped DEF TypeOK
  <2> QED BY <1>2, <2>5, <2>6 DEF Record, Resume
<1>3. ASSUME NEW w \in Worker, IsDuplicate(w) \/ Reread(w) \/ Retry(w) \/ Abandon(w)
      PROVE  TypeOK'
  <2>1. ref[w] # NoPayment /\ view[w] \in Views /\ ViewOf(sub) \in Views
    BY <1>3, ViewTyped DEF IsDuplicate, Reread, Retry, Abandon, TypeOK
  <2>2. UNCHANGED <<sub, ledger, order, now, checkout>>
    BY <1>3 DEF IsDuplicate, Reread, Retry, Abandon
  <2>3. Answer(w) \/ \E s \in {"record", "reread", "resume"}, v \in Views : Goto(w, s, v)
    BY <1>3, <2>1 DEF IsDuplicate, Reread, Retry, Abandon
  <2> QED BY <2>1, <2>2, <2>3, CallsTyped DEF TypeOK, ledger
<1>4. ASSUME NEW p \in Payment, CheckoutOpens(p) \/ Renew(p)
      PROVE  TypeOK'
  <2>1. PICK amount \in Price : Opened(p, amount)
    BY <1>4 DEF CheckoutOpens, Renew, TypeOK, Rows
  <2> QED BY <1>4, <2>1, OpenedTyped, OrdersTyped DEF CheckoutOpens, Renew, Idle, TypeOK
<1>5. ASSUME NEW p \in Payment, Capture(p) \/ Refund(p)
      PROVE  TypeOK'
  <2>1. order[p] \in Orders /\ now \in Nat
    BY DEF TypeOK
  <2>2. /\ [order[p] EXCEPT !.state = "captured", !.at = now] \in Orders
        /\ [order[p] EXCEPT !.refunded = TRUE] \in Orders
    BY <2>1 DEF Orders
  <2>3. \/ order' = [order EXCEPT ![p] = [order[p] EXCEPT !.state = "captured", !.at = now]]
        \/ order' = [order EXCEPT ![p] = [order[p] EXCEPT !.refunded = TRUE]]
    BY <1>5 DEF Capture, Refund
  <2>4. /\ order' \in [Payment -> Orders]
        /\ \A q \in Payment : order[q].state = "captured" => order'[q].state = "captured"
    <3>1. CASE order' = [order EXCEPT ![p] = [order[p] EXCEPT !.state = "captured", !.at = now]]
      BY <2>1, <2>2, <3>1 DEF TypeOK, Orders
    <3>2. CASE order' = [order EXCEPT ![p] = [order[p] EXCEPT !.refunded = TRUE]]
      BY <2>1, <2>2, <3>2 DEF TypeOK, Orders
    <3> QED BY <2>3, <3>1, <3>2
  <2> QED BY <1>5, <2>4, OrdersTyped DEF Capture, Refund, Idle, TypeOK
<1>6. ASSUME CheckoutReads \/ CheckoutPersists \/ Cancel \/ Sweep
      PROVE  TypeOK'
  <2>1. sub' \in Rows
    BY <1>6 DEF CheckoutReads, CheckoutPersists, Cancel, Sweep, TypeOK, Rows, Statuses
  <2> QED BY <1>6, <2>1, OrdersTyped
          DEF CheckoutReads, CheckoutPersists, Cancel, Sweep, Idle, TypeOK
<1>7. CASE CheckoutFails
  <2>1. sub' \in Rows /\ sub.price \in Price
    BY <1>7 DEF CheckoutFails, TypeOK, Rows, Statuses
  <2>2. /\ order' \in [Payment -> Orders]
        /\ \A q \in Payment : order[q].state # "none" => order'[q] = order[q]
    BY <1>7, <2>1, OpenedTyped DEF CheckoutFails, TypeOK
  <2> QED BY <1>7, <2>1, <2>2, OrdersTyped DEF CheckoutFails, Idle, TypeOK
<1>8. CASE TimePasses
  BY <1>8, OrdersTyped DEF TimePasses, TypeOK
<1>9. CASE UNCHANGED vars
  BY <1>9, OrdersTyped DEF vars, TypeOK
<1> QED BY <1>1, <1>2, <1>3, <1>4, <1>5, <1>6, <1>7, <1>8, <1>9 DEF Next

\* Every state has the types of TypeOK: rows, ledgers, orders and the requests
\* of settle() with the payment each is about.
THEOREM TypeCorrect == Spec => []TypeOK
<1> QED BY InitTyped, StepTyped, PTL DEF Spec

-----------------------------------------------------------------------------
(* What a step may do                                                      *)

\* Who writes the row's status, and the ledger.
LEMMA Writers ==
    ASSUME TypeOK, [Next]_vars
    PROVE  \/ UNCHANGED <<sub, ledger>>
           \/ /\ UNCHANGED ledger
              /\ sub'.expiry = sub.expiry
              /\ \/ GuardAdmits("pending", paid) \/ sub.status \in {"pending", "active"}
              /\ UNCHANGED call
           \/ /\ \E w \in Worker : RecordAndTransition(ref[w], rev[w], view[w])
              /\ UNCHANGED order
<1>1. ASSUME CheckoutPersists \/ CheckoutFails \/ Cancel \/ Sweep
      PROVE  \/ UNCHANGED <<sub, ledger>>
             \/ /\ UNCHANGED ledger
                /\ sub'.expiry = sub.expiry
                /\ \/ GuardAdmits("pending", paid) \/ sub.status \in {"pending", "active"}
                /\ UNCHANGED call
  BY <1>1 DEF CheckoutPersists, CheckoutFails, Cancel, Sweep, Idle, TypeOK, Rows
<1>2. ASSUME NEW w \in Worker, Record(w) \/ Resume(w)
      PROVE  RecordAndTransition(ref[w], rev[w], view[w]) /\ UNCHANGED order
  BY <1>2 DEF Record, Resume
<1>3. ASSUME NEW w \in Worker, \/ \E p \in Payment, r \in BOOLEAN : Deliver(w, p, r)
                               \/ IsDuplicate(w) \/ Reread(w) \/ Retry(w) \/ Abandon(w)
      PROVE  UNCHANGED <<sub, ledger>>
  BY <1>3 DEF Deliver, IsDuplicate, Reread, Retry, Abandon
<1>4. ASSUME NEW p \in Payment, CheckoutOpens(p) \/ Renew(p) \/ Capture(p) \/ Refund(p)
      PROVE  UNCHANGED <<sub, ledger>>
  BY <1>4 DEF CheckoutOpens, Renew, Capture, Refund, Idle
<1>5. CASE CheckoutReads \/ TimePasses \/ UNCHANGED vars
  BY <1>5 DEF CheckoutReads, TimePasses, Idle, vars
<1> QED BY <1>1, <1>2, <1>3, <1>4, <1>5 DEF Next

\* The trigger lets nothing but `refunded` follow `refunded`.
LEMMA GuardKeepsRefunded ==
    ASSUME sub.status = "refunded", NEW to, NEW rows, GuardAdmits(to, rows)
    PROVE  to = "refunded"
BY DEF GuardAdmits, AllowedEdges, Transitions

LEMMA StepKeepsRefunded ==
    ASSUME TypeOK, [Next]_vars, sub.status = "refunded"
    PROVE  sub'.status = "refunded"
<1>1. ASSUME NEW w \in Worker, RecordAndTransition(ref[w], rev[w], view[w])
      PROVE  sub'.status = "refunded"
  <2>1. CASE UNCHANGED sub
    BY <2>1
  <2>2. CASE /\ GuardAdmits(Target(rev[w]), PaidWith(ref[w], rev[w]))
             /\ sub'.status = Target(rev[w])
    <3>1. Target(rev[w]) = "refunded"
      BY <2>2 DEF GuardAdmits, AllowedEdges, Transitions
    <3> QED BY <2>2, <3>1
  <2> QED BY <1>1, <2>1, <2>2 DEF RecordAndTransition, TypeOK, Rows
<1>2. ~GuardAdmits("pending", paid)
  BY GuardKeepsRefunded
<1> QED BY <1>1, <1>2, Writers

\* A refunded subscription stays refunded, whatever checkout, sweep and
\* settlements read before write over it.
THEOREM RefundIsFinal == Spec => RefundedIsFinal
<1>1. TypeOK /\ [Next]_vars => [sub.status = "refunded" => sub'.status = "refunded"]_vars
  BY StepKeepsRefunded
<1> QED BY <1>1, TypeCorrect, PTL DEF Spec, RefundedIsFinal

\* What a request holds after a step: what it held, nothing, or the row as it is.
LEMMA ViewsMove ==
    ASSUME TypeOK, [Next]_vars, NEW w \in Worker
    PROVE  /\ \/ view'[w] = view[w]
              \/ view'[w] = NoView
              \/ view'[w] = ViewOf(sub) /\ UNCHANGED sub
           /\ step'[w] = "resume" =>
                 \/ step[w] = "resume" /\ UNCHANGED <<view[w], rev[w]>>
                 \/ /\ view'[w] = ViewOf(sub) /\ UNCHANGED sub
                    /\ TransitionPending(sub.status, rev'[w])
<1> DEFINE Moved == /\ \/ view'[w] = view[w]
                       \/ view'[w] = NoView
                       \/ view'[w] = ViewOf(sub) /\ UNCHANGED sub
                    /\ step'[w] = "resume" =>
                          \/ step[w] = "resume" /\ UNCHANGED <<view[w], rev[w]>>
                          \/ /\ view'[w] = ViewOf(sub) /\ UNCHANGED sub
                             /\ TransitionPending(sub.status, rev'[w])
<1> SUFFICES Moved
  OBVIOUS
<1> HIDE DEF Moved
<1>1. ASSUME NEW u \in Worker, Answer(u)
      PROVE  Moved
  BY <1>1 DEF Answer, Moved, TypeOK
<1>2. ASSUME NEW u \in Worker, NEW s \in {"record", "reread"}, Goto(u, s, view[u])
      PROVE  Moved
  BY <1>2 DEF Goto, Moved, TypeOK
<1>3. ASSUME NEW u \in Worker, Goto(u, "resume", ViewOf(sub)), UNCHANGED sub,
             TransitionPending(sub.status, rev[u])
      PROVE  Moved
  BY <1>3 DEF Goto, Moved, TypeOK
<1>4. CASE UNCHANGED call
  BY <1>4 DEF call, Moved
<1>5. ASSUME NEW u \in Worker, NEW p \in Payment, NEW r \in BOOLEAN, Deliver(u, p, r)
      PROVE  Moved
  BY <1>5 DEF Deliver, Moved, TypeOK
<1>6. ASSUME NEW u \in Worker, Record(u) \/ IsDuplicate(u) \/ Reread(u) \/ Resume(u)
                                \/ Retry(u) \/ Abandon(u)
      PROVE  Moved
  <2>1. CASE Record(u)
    <3>1. Answer(u) \/ UNCHANGED call
      BY <2>1 DEF Record
    <3> QED BY <3>1, <1>1, <1>4
  <2>2. CASE IsDuplicate(u) \/ Retry(u) \/ Resume(u)
    BY <2>2, <1>1, <1>2 DEF IsDuplicate, Retry, Resume
  <2>3. CASE Reread(u) \/ Abandon(u)
    BY <2>3, <1>1, <1>3 DEF Reread, Abandon
  <2> QED BY <1>6, <2>1, <2>2, <2>3
<1>7. CASE \/ \E p \in Payment : CheckoutOpens(p) \/ Renew(p) \/ Capture(p) \/ Refund(p)
           \/ CheckoutReads \/ CheckoutPersists \/ CheckoutFails
           \/ Cancel \/ Sweep \/ TimePasses \/ UNCHANGED vars
  BY <1>7, <1>4 DEF CheckoutOpens, Renew, Capture, Refund, CheckoutReads, CheckoutPersists,
       CheckoutFails, Cancel, Sweep, TimePasses, Idle, vars, call
<1> QED BY <1>5, <1>6, <1>7 DEF Next

LEMMA StepViewsRefunded == TypeOK /\ ViewsRefunded /\ [Next]_vars => ViewsRefunded'
<1> SUFFICES ASSUME TypeOK, ViewsRefunded, [Next]_vars, NEW w \in Worker,
                    view'[w].status = "refunded"
             PROVE  sub'.status = "refunded"
  BY DEF ViewsRefunded
<1>1. CASE view'[w] = view[w]
  BY <1>1, StepKeepsRefunded DEF ViewsRefunded
<1>2. CASE view'[w] = NoView
  BY <1>2 DEF NoView
<1>3. CASE view'[w] = ViewOf(sub) /\ UNCHANGED sub
  BY <1>3 DEF ViewOf
<1> QED BY <1>1, <1>2, <1>3, ViewsMove

LEMMA StepMovesWithLedger ==
    ASSUME TypeOK, ViewsRefunded, [Next]_vars, paid' # paid
    PROVE  sub'.status \in {"active", "refunded"}
<1>1. PICK w \in Worker : RecordAndTransition(ref[w], rev[w], view[w])
  BY Writers DEF ledger
<1>2. ~rev[w]
  BY <1>1 DEF RecordAndTransition, Insert, PaidWith
<1>3. CASE Permitted(view[w].status, rev[w])
  BY <1>1, <1>2, <1>3 DEF RecordAndTransition, Target, TypeOK, Rows
<1>4. CASE ~Permitted(view[w].status, rev[w])
  <2>1. view[w].status \in Statuses
    BY DEF TypeOK, Views
  <2>2. view[w].status = "refunded"
    BY <1>2, <1>4, <2>1 DEF Permitted, Eligible, Statuses
  <2> QED BY <2>2, StepKeepsRefunded DEF ViewsRefunded
<1> QED BY <1>3, <1>4

\* A payment enters the ledger in the step that makes the subscription active,
\* or when it was refunded before.
THEOREM LedgerMovesRow == Spec => PaidMovesWithLedger
<1>1. Init => ViewsRefunded
  BY DEF Init, ViewsRefunded, NoView
<1>2. Spec => []ViewsRefunded
  BY <1>1, StepViewsRefunded, TypeCorrect, PTL DEF Spec
<1>3. TypeOK /\ ViewsRefunded /\ [Next]_vars
         => [paid' # paid => sub'.status \in {"active", "refunded"}]_vars
  BY StepMovesWithLedger
<1> QED BY <1>2, <1>3, TypeCorrect, PTL DEF Spec, PaidMovesWithLedger

-----------------------------------------------------------------------------
(* No period is bought twice                                               *)

LEMMA Months ==
    ASSUME NEW m \in Nat, NEW n \in Nat
    PROVE  /\ Month * m \in Nat
           /\ m <= n => Month * m <= Month * n
           /\ m < n => Month * m + Month <= Month * n
<1>1. ASSUME NEW d \in Nat
      PROVE  Month * (m + d) = Month * m + Month * d /\ Month * d \in Nat
  BY MonthAssumption
<1>2. ASSUME m <= n
      PROVE  Month * m <= Month * n
  <2>1. n - m \in Nat /\ n = m + (n - m)
    BY <1>2
  <2>2. PICK d \in Nat : n = m + d
    BY <2>1
  <2>3. Month * n = Month * m + Month * d /\ Month * m \in Nat /\ Month * d \in Nat
    BY <1>1, <2>2, MonthAssumption
  <2> QED BY <2>3
<1>3. ASSUME m < n
      PROVE  Month * m + Month <= Month * n
  <2>1. n - m - 1 \in Nat /\ n = m + ((n - m - 1) + 1)
    BY <1>3
  <2>2. PICK d \in Nat : n = m + (d + 1)
    BY <2>1
  <2>3. Month * n = Month * m + Month * (d + 1)
    BY <1>1, <2>2
  <2>4. Month * (d + 1) = Month * d + Month /\ Month * d \in Nat /\ Month * m \in Nat
    BY MonthAssumption
  <2> QED BY <2>3, <2>4, MonthAssumption
<1> QED BY <1>2, <1>3, MonthAssumption

LEMMA LedgerGrows ==
    ASSUME TypeOK, [Next]_vars
    PROVE  /\ paid \subseteq paid' /\ \A p \in paid : order'[p].at = order[p].at
           /\ IsFiniteSet(paid) /\ IsFiniteSet(paid')
           /\ Cardinality(paid) \in Nat /\ Cardinality(paid') \in Nat
           /\ Cardinality(paid) <= Cardinality(paid')
           /\ paid' # paid => Cardinality(paid) < Cardinality(paid')
<1>1. paid \subseteq paid'
  BY Writers DEF ledger, RecordAndTransition, Insert, PaidWith
<1>2. paid' \subseteq Payment
  BY StepTyped DEF TypeOK
<1>3. IsFiniteSet(paid')
  BY <1>2, PaymentAssumption, FS_Subset
<1>4. /\ IsFiniteSet(paid)
      /\ Cardinality(paid) \in Nat /\ Cardinality(paid') \in Nat
      /\ Cardinality(paid) <= Cardinality(paid')
      /\ paid' # paid => Cardinality(paid) < Cardinality(paid')
  BY <1>1, <1>3, FS_Subset, FS_CardinalityType
<1>5. ASSUME NEW p \in paid
      PROVE  order'[p] = order[p] \/ order'[p].at = order[p].at
  <2>1. p \in Payment /\ order[p].state = "captured"
    BY DEF TypeOK
  <2>2. ASSUME NEW q \in Payment, NEW amount, Opened(q, amount)
        PROVE  order'[p] = order[p]
    BY <2>1, <2>2 DEF Opened, TypeOK
  <2>3. ASSUME NEW q \in Payment, Capture(q)
        PROVE  order'[p] = order[p]
    BY <2>1, <2>3 DEF Capture, TypeOK
  <2>4. ASSUME NEW q \in Payment, Refund(q)
        PROVE  order'[p].at = order[p].at
    BY <2>1, <2>4 DEF Refund, TypeOK, Orders
  <2>5. ASSUME NEW w \in Worker,
               \/ \E q \in Payment, r \in BOOLEAN : Deliver(w, q, r)
               \/ Record(w) \/ IsDuplicate(w) \/ Reread(w) \/ Resume(w)
               \/ Retry(w) \/ Abandon(w)
        PROVE  order'[p] = order[p]
    BY <2>5 DEF Deliver, Record, IsDuplicate, Reread, Resume, Retry, Abandon
  <2>6. ASSUME NEW q \in Payment, CheckoutOpens(q) \/ Renew(q)
        PROVE  order'[p] = order[p]
    BY <2>2, <2>6 DEF CheckoutOpens, Renew
  <2>7. CASE CheckoutFails
    BY <2>2, <2>7 DEF CheckoutFails
  <2>8. CASE CheckoutReads \/ CheckoutPersists \/ Cancel \/ Sweep \/ TimePasses \/ UNCHANGED vars
    BY <2>8 DEF CheckoutReads, CheckoutPersists, Cancel, Sweep, TimePasses, vars
  <2> QED BY <2>3, <2>4, <2>5, <2>6, <2>7, <2>8 DEF Next
<1> QED BY <1>1, <1>3, <1>4, <1>5

\* What was bought stays bought, and another payment buys another month.
LEMMA BoughtStays ==
    ASSUME TypeOK, [Next]_vars, NEW e \in Nat
    PROVE  /\ Funds(e) => Funds(e)'
           /\ Bought(e) => Bought(e)'
           /\ Spare(e) => Spare(e)'
           /\ Bought(e) /\ paid' # paid => Spare(e)'
<1> DEFINE n == Cardinality(paid)
           k == Cardinality(paid')
<1>1. n \in Nat /\ k \in Nat /\ n <= k /\ (paid' # paid => n < k)
  BY LedgerGrows
<1>2. \A p \in paid : p \in paid' /\ order'[p].at = order[p].at /\ order[p].at \in Nat
  BY LedgerGrows DEF TypeOK, Orders
<1>3. /\ Month * n \in Nat /\ Month * k \in Nat /\ Month * n <= Month * k
      /\ paid' # paid => Month * n + Month <= Month * k
      /\ Month \in Nat
  BY <1>1, Months, MonthAssumption
<1> HIDE DEF n, k
<1>4. \A p \in paid : e + Month <= order[p].at + Month * n => e + Month <= order[p].at + Month * k
  BY <1>2, <1>3
<1> QED BY <1>2, <1>3, <1>4 DEF Funds, Bought, Spare, n, k

\* The only writes of the expiry: a settlement that the trigger admits.
LEMMA ExpiryWriters ==
    ASSUME TypeOK, [Next]_vars, sub'.expiry # sub.expiry
    PROVE  \E w \in Worker :
              /\ Record(w) \/ Resume(w)
              /\ GuardAdmits(Target(rev[w]), PaidWith(ref[w], rev[w]))
              /\ sub.status = view[w].status
              /\ sub'.status = Target(rev[w])
              /\ sub'.expiry = NewExpiry(ref[w], rev[w], view[w].expiry)
<1>1. ASSUME NEW w \in Worker, Record(w) \/ Resume(w)
      PROVE  /\ GuardAdmits(Target(rev[w]), PaidWith(ref[w], rev[w]))
             /\ sub.status = view[w].status
             /\ sub'.status = Target(rev[w])
             /\ sub'.expiry = NewExpiry(ref[w], rev[w], view[w].expiry)
  <2>1. RecordAndTransition(ref[w], rev[w], view[w])
    BY <1>1 DEF Record, Resume
  <2> QED BY <2>1 DEF RecordAndTransition, TypeOK, Rows
<1>2. ASSUME NEW w \in Worker, \/ \E p \in Payment, r \in BOOLEAN : Deliver(w, p, r)
                               \/ IsDuplicate(w) \/ Reread(w) \/ Retry(w) \/ Abandon(w)
      PROVE  UNCHANGED sub
  BY <1>2 DEF Deliver, IsDuplicate, Reread, Retry, Abandon
<1>3. ASSUME NEW p \in Payment, CheckoutOpens(p) \/ Renew(p) \/ Capture(p) \/ Refund(p)
      PROVE  UNCHANGED sub
  BY <1>3 DEF CheckoutOpens, Renew, Capture, Refund
<1>4. ASSUME CheckoutReads \/ CheckoutPersists \/ CheckoutFails \/ Cancel \/ Sweep
             \/ TimePasses \/ UNCHANGED vars
      PROVE  sub'.expiry = sub.expiry
  BY <1>4 DEF CheckoutReads, CheckoutPersists, CheckoutFails, Cancel, Sweep, TimePasses,
       vars, TypeOK, Rows
<1> QED BY <1>1, <1>2, <1>3, <1>4 DEF Next

\* A payment that moves the expiry leaves the ledger able to pay for a month
\* beyond the old one: its own row is new, or the trigger has found a payment
\* confirmed after that period.
LEMMA ChangesArePaid ==
    ASSUME TypeOK, ResumesEligible, [Next]_vars, RowBought, NEW w \in Worker, ~rev[w],
           Record(w) \/ Resume(w), GuardAdmits(Target(rev[w]), PaidWith(ref[w], rev[w])),
           sub.status = view[w].status, NEW e \in Nat
    PROVE  /\ ref[w] \in paid' /\ UNCHANGED order
           /\ e = sub.expiry => Funds(e)' \/ Spare(e)'
           /\ Bought(e) /\ Record(w) => Spare(e)'
<1>1. /\ ref[w] \in paid' /\ UNCHANGED order /\ paid' = PaidWith(ref[w], rev[w])
      /\ Record(w) => paid' # paid
  BY DEF Record, Resume, RecordAndTransition, Insert, PaidWith, IsRecorded
<1>2. ref[w] \in Payment /\ order[ref[w]].at \in Nat
  BY <1>1, StepTyped DEF TypeOK, Orders
<1>3. ASSUME Record(w), Bought(e)
      PROVE  Spare(e)'
  BY <1>1, <1>3, BoughtStays
<1>4. ASSUME e = 0
      PROVE  Funds(e)'
  BY <1>1, <1>2, <1>4 DEF Funds
<1>5. ASSUME Resume(w), e = sub.expiry
      PROVE  Funds(e)'
  <2>1. Target(rev[w]) = "active" /\ sub.status # "active"
    BY <1>5 DEF Target, Resume, ResumesEligible, Eligible
  <2>2. FundedBy(PaidWith(ref[w], rev[w]))
    BY <2>1 DEF GuardAdmits
  <2> QED BY <1>1, <1>5, <2>2, LedgerGrows DEF FundedBy, Funds, TypeOK, Orders
<1> QED BY <1>1, <1>3, <1>4, <1>5 DEF RowBought, NoPeriod

\* From either, one more month is bought.
MonthIsPaid == \A e \in Nat : Funds(e) \/ Spare(e) => Bought(e + Month)

LEMMA AnotherMonth == TypeOK => MonthIsPaid
<1> SUFFICES ASSUME TypeOK, NEW e \in Nat, Funds(e) \/ Spare(e)
             PROVE  Bought(e + Month)
  BY DEF MonthIsPaid
<1> DEFINE n == Cardinality(paid)
<1>1. \A p \in paid : order[p].at \in Nat
  BY DEF TypeOK, Orders
<1>2. n \in Nat /\ 0 < n
  BY PaymentAssumption, FS_Subset, FS_CardinalityType, FS_EmptySet DEF TypeOK, Funds, Spare
<1>3. Month \in Nat /\ Month * n \in Nat /\ Month <= Month * n
  <2>1. Month * 0 = 0
    BY MonthAssumption
  <2> QED BY <1>2, <2>1, Months, MonthAssumption
<1> HIDE DEF n
<1> QED BY <1>1, <1>3 DEF Funds, Spare, Bought, n

LEMMA StepRowBought == IInv /\ [Next]_vars => RowBought'
<1> SUFFICES ASSUME IInv, [Next]_vars, sub'.expiry # NoPeriod
             PROVE  \E p \in paid' : sub'.expiry <= order'[p].at + Month * Cardinality(paid')
  BY DEF RowBought, Bought
<1> USE DEF IInv
<1>0. TypeOK' /\ MonthIsPaid'
  BY StepTyped, AnotherMonth, PTL
<1>1. CASE sub'.expiry = sub.expiry
  <2>1. PICK e \in Nat : e = sub.expiry
    BY DEF TypeOK, Rows
  <2> QED BY <1>1, <2>1, BoughtStays DEF RowBought, Bought
<1>2. CASE sub'.expiry # sub.expiry
  <2>1. PICK w \in Worker :
              /\ Record(w) \/ Resume(w)
              /\ GuardAdmits(Target(rev[w]), PaidWith(ref[w], rev[w]))
              /\ sub.status = view[w].status
              /\ sub'.status = Target(rev[w])
              /\ sub'.expiry = NewExpiry(ref[w], rev[w], view[w].expiry)
    BY <1>2, ExpiryWriters
  <2>2. PICK e \in Nat : e = view[w].expiry
    BY DEF TypeOK, Views
  <2>3. e # 0 => Bought(e)
    BY <2>2 DEF ViewsBought, NoPeriod
  <2>4. CASE rev[w]
    BY <1>0, <2>1, <2>2, <2>3, <2>4, BoughtStays DEF NewExpiry, Bought, NoPeriod
  <2>5. CASE ~rev[w]
    <3>1. ref[w] \in paid' /\ UNCHANGED order
      BY <2>1, <2>5, ChangesArePaid
    <3>2. PICK a \in Nat : a = order[ref[w]].at
      BY <1>0, <3>1 DEF TypeOK, Orders
    <3>3. sub'.expiry = (IF e < a THEN a ELSE e) + Month
      BY <2>1, <2>2, <2>5, <3>2 DEF NewExpiry, Later
    <3>4. Funds(a)'
      BY <3>1, <3>2 DEF Funds
    <3>5. CASE e <= a
      <4>1. Bought(a + Month)'
        BY <1>0, <3>4 DEF MonthIsPaid
      <4> QED BY <3>3, <3>5, <4>1 DEF Bought
    <3>6. CASE a < e
      <4>1. Bought(e)
        BY <2>3, <3>6
      <4>2. Funds(e)' \/ Spare(e)'
        <5>1. CASE Record(w)
          BY <2>1, <2>5, <4>1, <5>1, ChangesArePaid
        <5>2. CASE Resume(w) /\ e = sub.expiry
          BY <2>1, <2>5, <5>2, ChangesArePaid
        <5>3. CASE Resume(w) /\ e # sub.expiry
          <6>1. sub.status # "refunded"
            BY <2>1, <2>5 DEF GuardAdmits, Target, AllowedEdges, Transitions
          <6>2. Funds(e) \/ Spare(e)
            BY <2>2, <2>5, <5>3, <6>1 DEF ResumesSpare, Resume
          <6> QED BY <6>2, BoughtStays
        <5> QED BY <2>1, <5>1, <5>2, <5>3
      <4>3. Bought(e + Month)'
        BY <1>0, <4>2 DEF MonthIsPaid
      <4> QED BY <3>3, <3>6, <4>3 DEF Bought
    <3> QED BY <3>5, <3>6
  <2> QED BY <2>4, <2>5
<1> QED BY <1>1, <1>2

LEMMA StepViewsBought == IInv /\ [Next]_vars => ViewsBought'
<1> SUFFICES ASSUME IInv, [Next]_vars, NEW w \in Worker, view'[w].expiry # NoPeriod
             PROVE  \E p \in paid' : view'[w].expiry <= order'[p].at + Month * Cardinality(paid')
  BY DEF ViewsBought, Bought
<1> USE DEF IInv
<1>1. CASE view'[w] = view[w]
  <2>1. PICK e \in Nat : e = view[w].expiry
    BY DEF TypeOK, Views
  <2> QED BY <1>1, <2>1, BoughtStays DEF ViewsBought, Bought
<1>2. CASE view'[w] = NoView
  BY <1>2 DEF NoView
<1>3. CASE view'[w] = ViewOf(sub) /\ UNCHANGED sub
  BY <1>3, StepRowBought DEF ViewOf, RowBought, Bought
<1> QED BY <1>1, <1>2, <1>3, ViewsMove

LEMMA StepResumesSpare == IInv /\ [Next]_vars => ResumesSpare'
<1> SUFFICES ASSUME IInv, [Next]_vars, NEW w \in Worker,
                    step'[w] = "resume", ~rev'[w], sub'.status # "refunded"
             PROVE  \/ view'[w].expiry = sub'.expiry
                    \/ \E p \in paid' : view'[w].expiry <= order'[p].at
                    \/ \E p \in paid' : view'[w].expiry + Month
                                          <= order'[p].at + Month * Cardinality(paid')
  BY DEF ResumesSpare, Funds, Spare
<1> USE DEF IInv
<1>1. CASE view'[w] = ViewOf(sub) /\ UNCHANGED sub
  BY <1>1 DEF ViewOf
<1>2. CASE step[w] = "resume" /\ UNCHANGED <<view[w], rev[w]>>
  <2>1. PICK e \in Nat : e = view[w].expiry
    BY DEF TypeOK, Views
  <2>2. sub.status # "refunded"
    BY StepKeepsRefunded
  <2>3. e = sub.expiry \/ Funds(e) \/ Spare(e)
    BY <1>2, <2>1, <2>2 DEF ResumesSpare
  <2>4. CASE Funds(e) \/ Spare(e)
    BY <1>2, <2>1, <2>4, BoughtStays DEF Funds, Spare
  <2>5. CASE e = sub.expiry /\ sub'.expiry # sub.expiry
    <3>1. PICK u \in Worker :
                /\ Record(u) \/ Resume(u)
                /\ GuardAdmits(Target(rev[u]), PaidWith(ref[u], rev[u]))
                /\ sub.status = view[u].status
                /\ sub'.status = Target(rev[u])
      BY <2>5, ExpiryWriters
    <3>2. ~rev[u]
      BY <3>1 DEF Target
    <3>3. Funds(e)' \/ Spare(e)'
      BY <2>5, <3>1, <3>2, ChangesArePaid
    <3> QED BY <1>2, <2>1, <3>3 DEF Funds, Spare
  <2> QED BY <1>2, <2>1, <2>3, <2>4, <2>5
<1> QED BY <1>1, <1>2, ViewsMove

LEMMA StepResumesEligible == IInv /\ [Next]_vars => ResumesEligible'
<1> SUFFICES ASSUME TypeOK, ResumesEligible, [Next]_vars, NEW w \in Worker,
                    step'[w] = "resume", ~rev'[w]
             PROVE  view'[w].status \in Eligible
  BY DEF ResumesEligible, IInv
<1>1. CASE step[w] = "resume" /\ UNCHANGED <<view[w], rev[w]>>
  BY <1>1 DEF ResumesEligible
<1>2. CASE view'[w] = ViewOf(sub) /\ TransitionPending(sub.status, rev'[w])
  BY <1>2 DEF ViewOf, TransitionPending
<1> QED BY <1>1, <1>2, ViewsMove

LEMMA InitInvariant == Init => IInv
<1> SUFFICES ASSUME Init PROVE IInv
  OBVIOUS
<1>1. RowBought /\ ViewsBought /\ ResumesSpare /\ ResumesEligible
  BY DEF Init, RowBought, ViewsBought, ResumesSpare, ResumesEligible, NoView
<1> QED BY <1>1, InitTyped DEF IInv

\* The period of a subscription never ends later than one of its payments was
\* confirmed plus a month for every payment recorded, whatever was delivered
\* twice, resumed, or decided from a row that had moved.
THEOREM NoPeriodIsFree == Spec => []NoFreePeriod
<1>1. IInv /\ [Next]_vars => IInv'
  BY StepTyped, StepRowBought, StepViewsBought, StepResumesSpare, StepResumesEligible DEF IInv
<1>2. IInv => NoFreePeriod
  BY DEF IInv, RowBought, Bought, NoFreePeriod
<1> QED BY InitInvariant, <1>1, <1>2, PTL DEF Spec
===============================================================================
