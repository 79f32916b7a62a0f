SPECIFICATION Spec
CONSTANTS
    Vars <- MCVars
    Vals <- MCVals
    Empty = ""
    None = "none known"
    Absent = "absent"
    Text = "template"
    Containing = {}
    Workflows <- MCWorkflows
    FailSelectors <- MCFailSelectors
    Given <- MCGiven
    Shells = {"sbc", "repo"}
    NodeKind <- MCNodeKind
    NoSend = "none"
    ScanAhead = 3
    Negative = {"ERRORMSG"}
    Sample <- MCSample
INVARIANTS StopEndsPhase
PROPERTIES InjectionSeen NoFalseAlarm
CHECK_DEADLOCK FALSE
