CONSTANTS
    Root = Root
    NoStory = NoStory
    n1 = n1
    n2 = n2
    Id <- MCIds
    Parent <- MCParent
    Rev = {1, 2}
SPECIFICATION Spec
INVARIANT HealthyIsExact
