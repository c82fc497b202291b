\* Three users, at most three books, pins or hours each.
CONSTANTS
    poe1 = poe1
    poe2 = poe2
    standard = standard
    rise = rise
    dawn = dawn
    toChaos = toChaos
    toExalted = toExalted
    NoPair = NoPair
    Games = {poe1, poe2}
    Pairs = {toChaos, toExalted}
    LeaguesOf <- SharedLeague
    Sessions <- ThreeUsers
    Refills = TRUE
SPECIFICATION Spec
INVARIANT SettledPageAnswersTheQuestion
INVARIANT ReusedLedgerMissesOnlyRefills
PROPERTY PinsCloseOnlyWhenAnswered
PROPERTY PageCatchesUp
CHECK_DEADLOCK FALSE
