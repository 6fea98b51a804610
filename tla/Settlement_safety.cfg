\* Two payments, two requests in flight, a listing whose price changes. Month
\* and MaxTime let a payment be confirmed before, at and after the end of the
\* other one's period.
CONSTANTS
    p1 = p1
    p2 = p2
    w1 = w1
    w2 = w2
    Payment <- TwoPayments
    Worker <- TwoWorkers
    NoPayment = NoPayment
    Price = {1, 2}
    Month = 2
    MaxTime = 3
SYMMETRY Symmetry
SPECIFICATION Spec
INVARIANTS NoFreePeriod
PROPERTIES RefundedIsFinal PaidMovesWithLedger
\* The instance stops when time and payments are used up.
CHECK_DEADLOCK FALSE
