CONSTANTS
    Root = Root
    NoStory = NoStory
    n1 = n1
    n2 = n2
    n3 = n3
    n4 = n4
    Id <- Ids4
    Title <- MCTitle
    SlugOf <- MCSlugOf
    Meta = {m0}
    NoMeta = m0
    Canvas = {blank}
    Blank = blank
    Position = {0, 1, 2}
SPECIFICATION FsSpec
INVARIANTS FsTypeOK ListsMatchParents ListsNameLiveNodes NoCycle SiblingSlugsDistinct
PROPERTY OrderKept
SYMMETRY Symmetry4
\* All UUIDs of the instance may be spent: then nothing is left to do.
CHECK_DEADLOCK FALSE
