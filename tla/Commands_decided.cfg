\* Replica 0 is the proposer and no client goes away.
CONSTANTS
    c1 = c1
    c2 = c2
    Clients = {c1, c2}
    max_iter_num = 11
    max_async_num = 10
    blk_size = 2
    Proposers = {0}
    MaxGone = 0
SPECIFICATION FairSpec
PROPERTIES
    CommandsDecided
