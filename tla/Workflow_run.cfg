SPECIFICATION Spec
CONSTANTS
    Sessions = {s1, s2}
    Commands = {"a", "b", "c", "d"}
    Steps <- PlainSteps
    ScanAhead = 2
    FailAt = {3}
    Loops <- PlainLoops
    MaxCalls = 6
INVARIANTS OwnStep CountsAreExact
PROPERTY MovesForward
CHECK_DEADLOCK FALSE
