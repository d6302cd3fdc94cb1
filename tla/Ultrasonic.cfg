\* Two of the three sensors; times and distances are about a third of the code's: a
\* sensor without an echo, one near, one far with an echo that outlasts a round.
SPECIFICATION FairSpec
CONSTANTS
    Devs = 2
    Timeout = 3
    TooClose = 8
    Latency = 1
    Echoes = {0, 2, 14}
INVARIANTS TypeOK
PROPERTIES HoldsAlert TrueAlarm NearIsAlerted
