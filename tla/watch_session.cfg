SPECIFICATION FairSpec
CONSTANTS
    None = None
    Names = {chaos, divine}
    Tables = {few, many}
    OrderEntry = OrderEntry
    Panels <- MCPanels
    Sessions = {1, 2}
    MaxMishaps = 2
    chaos = chaos
    divine = divine
    few = few
    many = many
INVARIANT OneSlipIsNeverStored
INVARIANT DuplicatesWereStored
INVARIANT ToldOnlyWhatIsStored
INVARIANT OneWorkerAtATime
PROPERTY DeadWorkerIsNoticed
PROPERTY StopReturns
PROPERTY WatchSettles
