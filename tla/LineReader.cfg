SPECIFICATION Spec
CONSTANTS
    Inputs <- Mixed
    MaxPacket = 2
    EchoModes = {TRUE, FALSE}
INVARIANTS LinesOfTheStream LinesAsTyped ScreenShowsLine
PROPERTIES EndReached
