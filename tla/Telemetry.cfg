\* A grid of 2 x 2 cells: enough for two fields of different reports to make a position
\* nobody reported.
SPECIFICATION FairSpec
CONSTANTS
    MaxCoord = 1
    NumReports = 2
    TxCap = 1
    NetCap = 1
    WaitCap = 1
    PipeCap = 1
INVARIANTS TypeOK ShownIsReal
PROPERTIES CaughtUp
