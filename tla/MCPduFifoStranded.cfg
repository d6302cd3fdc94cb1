\* tx_pdu_fifo_g: two producers share the semaphore full.
SPECIFICATION Spec
CONSTANTS
    Producers = {controlThread, sensorThread}
    Consumer = updateTCP
    Msgs = {m1, m2}
    NoMsg = NoMsg
    Size = 3
    SemMax = 2
SYMMETRY MsgSymmetry
INVARIANTS BlockedOnlyIfFull
