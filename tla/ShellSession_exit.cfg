SPECIFICATION Spec
CONSTANTS
    NLogin = 2
    NPrompts = 2
    Interactive = FALSE
    MayDawdle = TRUE
    Exits = {0, 1}
    NCmds = 2
    Kinds <- PlainKinds
INVARIANTS ExitCodeObserved
