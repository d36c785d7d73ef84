\* When every message is handled the replicas wait for the next proposal.
CONSTANTS
    n0 = n0
    n1 = n1
    n2 = n2
    n3 = n3
    n4 = n4
    n5 = n5
    n6 = n6
    n7 = n7
    b1 = b1
    b2 = b2
    NoBlock = NoBlock
    Nodes = {n0, n1, n2, n3, n4, n5, n6, n7}
    Root = n0
    Layouts <- SmallTree
    Blocks = {b1, b2}
    MaxCrashes = 0
SPECIFICATION Spec
CHECK_DEADLOCK FALSE
INVARIANTS
    OneSignaturePerHeight
