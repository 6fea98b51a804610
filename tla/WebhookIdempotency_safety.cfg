\* Two deliveries at a time, sent again and again; each service failing at any call.
CONSTANTS
    d1 = d1
    d2 = d2
    d3 = d3
    Deliveries <- TwoDeliveries
    NoDelivery = NoDelivery
    Durable = TRUE
    PromptHandlers = TRUE
    Redelivers = TRUE
    StopsOnAck = FALSE
SPECIFICATION FairSpec
INVARIANTS SingleHandler SucceedsOnce
PROPERTIES ImplementsSerialAttempts EventIsHandled
CHECK_DEADLOCK FALSE
