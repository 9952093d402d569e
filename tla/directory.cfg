CONSTANTS
    n1 = n1
    n2 = n2
    t1 = t1
    t2 = t2
    None = None
    Id <- MCIds
    Thread <- MCThreads
    Title <- MCTitles
    MaxWrites = 3
    MaxFaults = 2
SPECIFICATION Spec
INVARIANTS TypeOK WholeUnlessShared ApartUndisturbed
SYMMETRY Interchangeable
CHECK_DEADLOCK FALSE
