\* Three processes, two pairs, every call able to fail.
CONSTANTS
    i1 = i1
    i2 = i2
    i3 = i3
    p1 = p1
    p2 = p2
    Instances <- ThreeInstances
    NoInstance = NoInstance
    LeaseTicks = 3
    Stalls = FALSE
    Pairs <- TwoPairs
SPECIFICATION FairSpec
INVARIANTS LeaderHoldsLease OneStreamer
PROPERTIES LivePairIsStreamed RetiredPairIsClosed
CHECK_DEADLOCK FALSE
