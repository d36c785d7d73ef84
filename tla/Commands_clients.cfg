CONSTANTS
    c1 = c1
    c2 = c2
    c3 = c3
    Clients = {c1, c2, c3}
    max_iter_num = 3
    max_async_num = 10
    blk_size = 2
    Proposers = {0, 1}
    MaxGone = 1
SPECIFICATION FairSpec
INVARIANTS
    OneOutstanding
    ToldOnce
    WaitingIsFirstBatch
PROPERTIES
    AllAnswered
    FirstBatchDecided
