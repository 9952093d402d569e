CONSTANTS
    Root = Root
    NoStory = NoStory
    n1 = n1
    n2 = n2
    n3 = n3
    Id <- Ids3
    Title <- OneTitle
    SlugOf <- OneSlug
    Meta = {m0}
    NoMeta = m0
    Canvas = {blank}
    Blank = blank
    Position = {0, 9}
    MaxCrashes = 1
SPECIFICATION Spec
INVARIANTS TypeOK DamageStaysBelow BootLoadsRest
PROPERTY AtomicSteps
VIEW NoPast
SYMMETRY Symmetry3
\* All UUIDs of the instance may be spent: then nothing is left to do.
CHECK_DEADLOCK FALSE
