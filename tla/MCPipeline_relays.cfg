\* The proposer is driven from outside; at MaxBlocks it may stop.
CONSTANTS
    c1 = c1
    c2 = c2
    Children = {c1, c2}
    Leaf = {}
    Need = 1
    async_blocks = 2
    RecoveryLag = 0
    MaxBlocks = 6
    MaxPending = 1
    Late = {c2}
    LateBlocks = {5}
    Delayed = 0
    DelayedUntil = 0
SPECIFICATION RelaySpec
CHECK_DEADLOCK FALSE
INVARIANTS ParentsFound NoLostWakeup
PROPERTIES AllProposed
