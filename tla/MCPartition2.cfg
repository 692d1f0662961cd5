\* Two variables over three objects, every way of building them.
SPECIFICATION Spec
CONSTANTS
    Names = {A, B}
    Objects = {0, 1, 2}
    ClassLists <- ShortLists
    NestedLists <- ShortNests
    Word = 8
SYMMETRY Interchange
INVARIANTS BuiltAsGiven CounterCounts SharedUnlessTop EqualityDecides
CHECK_DEADLOCK FALSE
