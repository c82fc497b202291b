\* A page report and a watch's roll-up over two and a half days; a crash or failure.
CONSTANTS
    chaos = chaos
    mirror = mirror
    first = first
    second = second
    Open = Open
    Pairs = {chaos, mirror}
    Unrollable = {mirror}
    Reports = {first, second}
    Watches = {second}
    Retention = 1
    MaxDaysPerRun = 1
    Boundaries = {1, 2, 3}
    MaxClock = 4
    MaxCaptures = 2
    MaxEdits = 3
    MaxActs = 4
    MaxMishaps = 1
SPECIFICATION Spec
PROPERTY NothingIsForgotten
PROPERTY SummariesSurvive
PROPERTY SeasonsStayApart
CHECK_DEADLOCK FALSE
