\* Two versions at any times, together or in turn, three failing calls, deaths or damages.
CONSTANTS
    before = before
    after = after
    calibrated = calibrated
    retuned = retuned
    factory = factory
    None = None
    Programs = {before, after}
    Supports <- MCSupports
    Values = {calibrated, factory}
    Default = factory
    Held = TRUE
    MaxMishaps = 3
SPECIFICATION Spec
INVARIANT SavedSurvives
 
 
CHECK_DEADLOCK FALSE
