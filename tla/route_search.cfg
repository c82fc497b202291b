\* Every search over 288 small markets, within and out of its budget.
CONSTANTS
    IdOrder <- MCIdOrder
    From = "s"
    To = "t"
    Markets <- MCMarkets
    Requests <- MCRequests
    Top = 20
SPECIFICATION Spec
INVARIANT NoRouteIsMissed
INVARIANT BillAddsUp
INVARIANT MoreInNeverLess
INVARIANT VerdictTellsTheTruth
INVARIANT BestTrapsNothingAndPaysMost
\* The radar is done with the pair when it has said what it makes of it.
CHECK_DEADLOCK FALSE
