SPECIFICATION FrontSpec
CONSTANTS
    Requests <- AllRequests
INVARIANTS
    HandlesReleased
    PartitionByValue
    SingleGroups
CHECK_DEADLOCK FALSE
