\* NUM_CAM_BUFFERS = 2, buffers of five bytes: pictures as long as a buffer, one byte too
\* long for it, and with the end marker in the second buffer.
SPECIFICATION FairSpec
CONSTANTS
    NumBuffs = 2
    Size = 5
    Lengths = {5, 6, 7}
    Recent = 4
INVARIANTS TypeOK
PROPERTIES Intact PicturesArrive
