CONSTANTS
    Root = Root
    NoStory = NoStory
    n1 = n1
    n2 = n2
    n3 = n3
    Id <- Ids3
    Title <- OneTitle
    SlugOf <- OneSlug
    Meta = {m0}
    NoMeta = m0
    Canvas = {blank}
    Blank = blank
    Position = {9}
    HasCache = TRUE
    HasSync = TRUE
    DbFaults = {"write"}
SPECIFICATION Spec
INVARIANTS TypeOK ParentIsDirectory CacheFresh
PROPERTIES AbstractSpec DriftIsFlagged MoveRefreshesPaths
VIEW Relevant
SYMMETRY Symmetry3
