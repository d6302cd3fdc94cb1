\* Frames of five bytes; a recv returns at most two frames and two bytes of a third
\* (38 bytes and frames of 15 in the code).
SPECIFICATION Spec
CONSTANTS
    NumCmds = 3
    FrameLen = 5
    RecvMax = 12
    RxCap = 1
    NetCap = 15
INVARIANTS TypeOK NeverOlder NeverTwice NoneLost
