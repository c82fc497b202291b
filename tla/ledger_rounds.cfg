\* Late files; a failing request, a death or failing transaction, and a change of
\* the settings; the round chain is fair.
SPECIFICATION FairSpec
CONSTANTS
    HoursPerDay = 2
    EmptyGrace = 2
    RecheckStale = 2
    RecheckHorizon = 6
    HourBudget = 3
    RecheckBudget = 2
    NoHour = NoHour
    FirstHour = 5
    LastHour = 8
    LeagueStart = 4
    DayBudget = 8
    MaxFaults = 1
    MaxAborts = 1
    MaxChanges = 1
    Settings <- MCRounds
INVARIANT NoHoleBetweenMarks
PROPERTY DayLinesNeverShrink
PROPERTY BookSpec
PROPERTY FoldedDaysAreNotRefetched
PROPERTY EventuallyCovered
PROPERTY LateHoursAreCounted
