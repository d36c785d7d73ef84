\* The proposer is driven from outside; at MaxBlocks it may stop.
CONSTANTS
    c1 = c1
    c2 = c2
    Children = {c1, c2}
    Leaf = {}
    Need = 1
    async_blocks = 2
    RecoveryLag = 10
    MaxBlocks = 8
    MaxPending = 1
    Late = {c2}
    LateBlocks = {5}
    Delayed = 3
    DelayedUntil = 5
SPECIFICATION VotingSpec
CHECK_DEADLOCK FALSE
PROPERTY FinishInOrder
