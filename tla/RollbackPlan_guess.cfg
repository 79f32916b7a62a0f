SPECIFICATION Spec
CONSTANTS
    X = X
    Y = Y
    E = E
    F = F
    A = A
    Yes = Yes
    Empty = Empty
    None = None
    Absent = Absent
    Text = Text
    Containing <- MCContaining
    Flag = F
    Vars <- MCVars
    Vals <- MCVals
    Workflows <- MCWorkflows
INVARIANT NeverGuessed
CHECK_DEADLOCK FALSE
