\* The exchange page of games with leagues of their own, while rounds store older hours.
CONSTANTS
    poe1 = poe1
    poe2 = poe2
    standard = standard
    rise = rise
    dawn = dawn
    toChaos = toChaos
    toExalted = toExalted
    NoPair = NoPair
    Games = {poe1, poe2}
    Pairs = {toChaos, toExalted}
    LeaguesOf <- OwnLeagues
    Sessions <- OnlyExchanges
    Refills = TRUE
SPECIFICATION Spec
INVARIANT LedgerIsWhatTheStoreHolds
CHECK_DEADLOCK FALSE
