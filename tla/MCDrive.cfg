\* One cell: a MOVE drives once (ExeArrived), a direct command starts a move too;
\* one byte on the wire.
SPECIFICATION DriveFairSpec
CONSTANTS
    MaxX = 0
    MaxY = 0
    CmdNames = {"MOVE", "GO_FORWARD"}
    RxCap = 1
    TxCap = 1
    Unset = Unset
    WireCap = 1
INVARIANTS StopsReachWheels
PROPERTIES AlertStopsWheels
