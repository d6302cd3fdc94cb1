\* A MOVE to the south.
SPECIFICATION RobotSpec
CONSTANTS
    MaxX = 1
    MaxY = 0
    CmdNames = {"MOVE"}
    RxCap = 1
    TxCap = 1
    Unset = Unset
INVARIANTS PositionKnown
