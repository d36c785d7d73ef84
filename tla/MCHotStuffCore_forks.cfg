CONSTANTS
    r1 = r1
    r2 = r2
    r3 = r3
    Replica = {r1, r2, r3}
    Proposer = {r1, r2}
    nfaulty = 1
    Block = {0, 1, 2, 3, 4, 5, 6, 7, 8, 9, 10, 11}
    b0 = 0
SPECIFICATION MCSpec
INVARIANTS TypeOK OneVotePerHeight ParentExtendsHqc NoSafetyBreach Agreement DecidedIsExecuted
PROPERTIES OnlyAdvances RefinesChains
CHECK_DEADLOCK FALSE
