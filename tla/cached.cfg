CONSTANTS
    Root = Root
    NoStory = NoStory
    n1 = n1
    n2 = n2
    n3 = n3
    Id <- Ids2
    Title <- MCTitle
    SlugOf <- SameSlug
    Meta = {m0, m1}
    NoMeta = m0
    Canvas = {blank}
    Blank = blank
    Position = {9}
    HasCache = TRUE
    HasSync = TRUE
    DbFaults = {"read", "write"}
SPECIFICATION Spec
INVARIANTS CacheFresh WriteBackFresh
PROPERTIES AbstractSpec DriftIsFlagged
VIEW Relevant
SYMMETRY Symmetry2
