\* rx_pdu_fifo_g: one producer (commandTCP), one consumer (controlThread).
SPECIFICATION FairSpec
CONSTANTS
    Producers = {commandTCP}
    Consumer = controlThread
    Msgs = {m1, m2}
    NoMsg = NoMsg
    Size = 3
    SemMax = 3
INVARIANTS TypeOK WriterWakes
PROPERTIES ImplementsFairQueue
