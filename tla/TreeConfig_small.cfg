\* start() ends. At fanout 2 the fourth level is full with 15 replicas and
\* the fifth with 31; the fourth with 40 at fanout 3 and with 85 at fanout 4.
CONSTANTS
    Sizes = {2, 3, 4, 5, 6, 7, 8, 9, 10, 11, 12, 13, 14, 15, 16, 17, 18, 19, 20,
             30, 31, 32, 39, 40, 41, 42, 84, 85, 86}
    Fanouts = {2, 3, 4, 17}
SPECIFICATION Spec
CHECK_DEADLOCK FALSE
INVARIANTS
    Spanning
    CountsSubtree
    InRange
