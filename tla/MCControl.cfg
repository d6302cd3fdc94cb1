SPECIFICATION FairSpec
CONSTANTS
    MaxX = 1
    MaxY = 1
    CmdNames = {"MOVE", "STOP", "RESET", "GO_FORWARD", "GO_REV", "TURN_LEFT", "TURN_RIGHT", "OTHER"}
    RxCap = 1
    TxCap = 1
    Unset = Unset
INVARIANTS TypeOK SpeakerOnlyForAlert RestsStopped FacesNextCell FinishedThere
PROPERTIES FlagFollowsPin EachMoveApproaches ReturnsToWait AlertStops
