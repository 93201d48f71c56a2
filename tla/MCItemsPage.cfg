SPECIFICATION Spec
CONSTANTS
    BlockSize = 2
    Blocks <- MCBlocks
    AllRows = "all"
    Filters = {"all", "some"}
    Totals <- MCTotals
    Scrolls <- MCScrolls
    Viewport = 2
    Initial = 1
    Capacity = 2
    MaxChanges = 1
    MaxParams = 1
    MaxFailures = 1
INVARIANTS
    ClientGridCurrent
    RangeCurrent
    OneQuery
    LoadingWhileWaiting
