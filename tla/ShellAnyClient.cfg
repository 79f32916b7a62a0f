SPECIFICATION BothSpec
CONSTANTS
    NLogin = 1
    Interactive = FALSE
    Exits = {0}
    MaxLines = 3
INVARIANTS FramesWellFormed ReadyAtPrompt OneUsePerLine
PROPERTIES HangUpEndsSession
