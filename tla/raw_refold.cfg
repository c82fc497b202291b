\* Two reports of the Analytics page at once: one replaces what the other summarized.
CONSTANTS
    chaos = chaos
    mirror = mirror
    first = first
    second = second
    Open = Open
    Pairs = {chaos}
    Unrollable = {}
    Reports = {first, second}
    Watches = {}
    Retention = 1
    MaxDaysPerRun = 2
    Boundaries = {}
    MaxClock = 4
    MaxCaptures = 1
    MaxEdits = 0
    MaxActs = 2
    MaxMishaps = 0
SPECIFICATION Spec
INVARIANT RawOrSummarized
CHECK_DEADLOCK FALSE
