SPECIFICATION Spec
CONSTANTS
    Anchors = {0, 1, 2, 3}
    Word = 8
    MaxChildren = 4
    MaxDrift = 2
INVARIANTS
    TreesWithinAsked
    CountsHoldAnchors
PROPERTIES
    ShallowUnion
    SearchesEnd
    SearchDescends
CHECK_DEADLOCK FALSE
