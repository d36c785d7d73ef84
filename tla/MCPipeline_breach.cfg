\* The proposer is driven from outside; at MaxBlocks it may stop.
CONSTANTS
    c1 = c1
    c2 = c2
    Children = {c1}
    Leaf = {}
    Need = 1
    async_blocks = 3
    RecoveryLag = 10
    MaxBlocks = 14
    MaxPending = 1
    Late = {}
    LateBlocks = {}
    Delayed = 2
    DelayedUntil = 7
SPECIFICATION VotingSpec
CHECK_DEADLOCK FALSE
INVARIANT CommitsExtendExec
