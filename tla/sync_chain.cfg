SPECIFICATION ChainFairSpec
CONSTANTS
    Games = {poe1, poe2}
    LeaguesOf <- MCLeaguesOf
    NoLeague = NoLeague
    Windows = {1}
    Width = 2
    FailureLimit = 2
    NoError = NoError
    MaxSaveFailures = 1
    Allflame = Allflame
    poe1 = poe1
    poe2 = poe2
INVARIANT ErrorIsAboutTheCurrentAccount
INVARIANT SleeperHasReadTheSettings
PROPERTY SavedTuningIsRead
PROPERTY SlotSpec
