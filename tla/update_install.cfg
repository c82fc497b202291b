\* Two builds of the release, three failing calls or deaths anywhere.
CONSTANTS
    dll = dll
    exe = exe
    model = model
    first = first
    second = second
    None = None
    Program = exe
    Plan <- MCPlan
    Locked = {dll, exe}
    Builds = {first, second}
    Size = 2
    Misaligned = FALSE
    MaxAttempts = 2
    MaxMishaps = 3
SPECIFICATION Spec
INVARIANT LastCopyIsKept
INVARIANT RestoredMeansRestored
INVARIANT ResumeIsExact
PROPERTY SweepMakesWhole
CHECK_DEADLOCK FALSE
