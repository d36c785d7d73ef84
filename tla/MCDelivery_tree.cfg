\* When all messages are handled the replicas wait for the next proposal.
CONSTANTS
    r = r
    a = a
    l = l
    Nodes = {r, a, l}
    Root = r
    Parent <- ChainOfReplicas
    MaxBlock = 4
    ParentOf <- Fork
    QcRef <- QcOfOtherBranch
    Settings <- OneOrTwo
SPECIFICATION FairSpec
CHECK_DEADLOCK FALSE
INVARIANTS
    DeliveredClosed
    WaitsForSomething
PROPERTIES
    ProposedDelivered
