\* All blocks of the bound may be proposed and a dead rotation rests.
CONSTANTS
    nreplicas = 3
    blk_size = 2
    MaxBlocks = 6
    MaxPending = 1
SPECIFICATION FairSpec
CHECK_DEADLOCK FALSE
INVARIANTS
    DeadOnlyByRace
    OneManualChain
    LockedWaits
PROPERTIES
    OwnTurn
    ComesRound
