SPECIFICATION FairSpec
CONSTANTS
    NLogin = 2
    NPrompts = 2
    Interactive = FALSE
    MayDawdle = TRUE
    Exits = {0}
    NCmds = 4
    Kinds <- AllKinds
INVARIANTS TypeOK CommandsConserved LostOnlyToPassword StaleOnlyAfterStall OwnAnswer
PROPERTIES EveryCallReturns SessionEnds ServiceSpec
