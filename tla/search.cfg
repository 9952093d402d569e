CONSTANTS
    Id = {1, 2, 3}
    Content <- MCContent
    Fold <- MCFold
    NotGiven = NotGiven
    Query <- MCQuery
    MaxPageSize = 2
    MaxTime = 1
    MaxWrites = 1
SPECIFICATION Spec
INVARIANTS TypeOK PagesPartition ScanComplete
