CONSTANTS
    n1 = n1
    t1 = t1
    t2 = t2
    t3 = t3
    Id <- MCIds
    Thread <- MCThreads
    MaxWrites = 3
    MaxCrashes = 1
SPECIFICATION Spec
INVARIANTS TypeOK CacheSettles ReadsSeeAnswered RowsSettle
SYMMETRY Interchangeable
