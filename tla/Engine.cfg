SPECIFICATION Spec
CONSTANTS
    Sessions = {"node", "repo"}
    Commands = {"a", "ls", "sha"}
    Steps <- RaceSteps
    ScanAhead = 2
    FailAt = {3}
    Profile <- NodeAndRepo
    Checksums = {"sha"}
    Rules <- MixedRules
    ForceMismatch = {}
    Loaded = {TRUE, FALSE}
    MaxCalls = 4
INVARIANTS CursorWasFound OccurrencesExact RetryIsRight
PROPERTY FirstMatchWins
CHECK_DEADLOCK FALSE
