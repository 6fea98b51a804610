CONSTANTS
    p1 = p1
    p2 = p2
    limit1 = limit1
    market1 = market1
    Processes = {p1, p2}
    Orders = {limit1, market1}
    Limit = {limit1}
    Reserve <- MCReserve
    Capital = 3
    NoOrder = NoOrder
    Costs = {1, 3}
    Attempts = 3
    MaxCalls = 4
SPECIFICATION Spec
INVARIANTS TypeOK LedgerExplainsAccount WithinCapital MarketPaidOnce ReservedOnce AcceptedIsReserved FilledIsSettled
PROPERTY ImplementsAtomicAccount
SYMMETRY Symmetry
CHECK_DEADLOCK FALSE
