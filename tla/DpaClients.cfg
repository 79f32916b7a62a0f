SPECIFICATION Spec
CONSTANTS
    Sessions = {"main", "retry", "other"}
    Where <- TwoOnOneNode
    Files <- SomeFiles
    FaultLists <- SomeFaults
    Menus <- SomeMenus
    MaxCalls = 3
INVARIANTS InstalledWasHeld TacOfInstalled FaultsInOrder RestoredComparesEqual
CHECK_DEADLOCK FALSE
