CONSTANTS
    MaxBlock = 2
    SigsOf <- TwoBlocks
    Relays = {r1}
    RelayOf <- ForTheSecond
    MaxWaits = 2
    Settings <- RelayOrWait
    MaxBad = 1
    Workers = {w1, w2}
    burst_size = 2
SPECIFICATION FairSpec
INVARIANTS
    CalledOnce
    RightVerdict
    NothingOrphaned
PROPERTIES
    Answered
CHECK_DEADLOCK FALSE
