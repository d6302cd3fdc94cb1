\* cam_buff_tab, NUM_CAM_BUFFERS = 2: two pictures, buffers of two cells.
SPECIFICATION FairSpec
CONSTANTS
    NumBuffs = 2
    Parts = 2
    Frames = {f1, f2}
    NoFrame = NoFrame
    SemMax = 2
INVARIANTS TypeOK NeverShared WriterWakes
PROPERTIES WriterServed ImplementsFairQueue
