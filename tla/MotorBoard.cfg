\* The motor board, any bytes at any time.
SPECIFICATION FairSpec
INVARIANTS TypeOK AsCommanded OffBetweenMoves
PROPERTIES SettlesDown
