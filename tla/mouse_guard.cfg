SPECIFICATION FairSpec
CONSTANTS
    Guards = {first, second}
    Buttons = {left}
    NoOne = NoOne
    MaxCalls = 3
    MaxMishaps = 1
    MaxUnseen = 1
    first = first
    second = second
    left = left
    right = right
INVARIANT NoButtonSticks
INVARIANT OneHook
PROPERTY FailsOpen
PROPERTY NoArmEndsEarly
