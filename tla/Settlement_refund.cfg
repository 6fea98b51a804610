\* The smallest instance in which a refund is delivered twice around a renewal.
CONSTANTS
    p1 = p1
    p2 = p2
    w1 = w1
    w2 = w2
    Payment <- TwoPayments
    Worker <- OneWorker
    NoPayment = NoPayment
    Price = {1}
    Month = 1
    MaxTime = 1
SPECIFICATION Spec
PROPERTIES RedeliveredRefundIsNoOp
\* The instance stops when time and payments are used up.
CHECK_DEADLOCK FALSE
