---------------------------- MODULE MotorBoard ----------------------------
(***************************************************************************)
(* The motor board (Daniel Code/MotorBoardFirmware): a main loop that      *)
(* executes the command in RXData, and the interrupt handler of the UART,  *)
(* which stores each byte it receives in RXData and handles 'S' itself.    *)
(*                                                                         *)
(* The handler may run between any two steps of the main loop, never the   *)
(* other way round.  RXData is read again for every comparison.  A motor   *)
(* turns while its pin belongs to the PWM timer: PWMMotor takes effect     *)
(* where it gives the pin to the timer, turnOffMotor where it takes both   *)
(* pins back (the timers themselves decide nothing else).                  *)
(*                                                                         *)
(* pc of the main loop:                                                    *)
(*   "poll"      if(RXData != 0)                                           *)
(*   "delay"     the delay, then clearMotorStopFlag                        *)
(*   "F" "B" "L" "R"   about to compare RXData with that byte              *)
(*   "first" "second"  about to start the first, the second motor          *)
(*   "moving"    the loops that look at motorStopFlag                      *)
(*   "off1" "off2"     about to turn off MOTOR1, MOTOR2                    *)
(*   "clear"     RXData = 0                                                *)
(***************************************************************************)
EXTENDS Naturals

None == "none"
Moves == {"F", "B", "L", "R"}
Bytes == Moves \cup {"S"}

MOTOR1 == 1
MOTOR2 == 2
Motors == {MOTOR1, MOTOR2}
FORWARD == "forward"
BACKWARD == "backward"
Off == "off"

VARIABLES RXData, motorStopFlag, motor,  \* motor: what each motor does
          pc, executing,                 \* the main loop; the move it has started
          late                           \* history: 'S' came after the flag was cleared and
                                   \*   before both motors ran; no stop since

vars == <<RXData, motorStopFlag, motor, pc, executing, late>>

AllOff == [m \in Motors |-> Off]

\* After initMotors and before the first byte.
Init ==
    /\ RXData = None /\ motorStopFlag = FALSE
    /\ motor = AllOff
    /\ pc = "poll" /\ executing = None /\ late = FALSE

----------------------------------------------------------------------------
(* The interrupt handler                                                    *)

Remember(b) ==
    late' = IF b = "S" THEN pc \in {"first", "second"} \cup Moves ELSE late

\* Mutated form of Receive: the flag is not set.
ReceiveSetsNoFlag(b) ==
    /\ RXData' = b /\ Remember(b)
    /\ motor' = IF b = "S" THEN AllOff ELSE motor
    /\ UNCHANGED <<motorStopFlag, pc, executing>>

Receive(b) ==
    /\ RXData' = b /\ Remember(b)
    /\ IF b = "S" THEN motorStopFlag' = TRUE /\ motor' = AllOff
                  ELSE UNCHANGED <<motorStopFlag, motor>>
    /\ UNCHANGED <<pc, executing>>

----------------------------------------------------------------------------
(* The main loop                                                            *)

Goto(label) == pc' = label

Poll ==
    /\ pc = "poll" /\ RXData # None
    /\ Goto("delay")
    /\ UNCHANGED <<RXData, motorStopFlag, motor, executing, late>>

ClearFlag ==
    /\ pc = "delay"
    /\ motorStopFlag' = FALSE
    /\ Goto("F")
    /\ UNCHANGED <<RXData, motor, executing, late>>

After == [F |-> "B", B |-> "L", L |-> "R", R |-> "clear"]

\* Mutated form of Compare: only the first comparison notes which move it starts.
CompareForgets(b) ==
    /\ pc = b
    /\ IF RXData = b THEN executing' = (IF b = "F" THEN b ELSE executing) /\ Goto("first")
                     ELSE Goto(After[b]) /\ UNCHANGED executing
    /\ UNCHANGED <<RXData, motorStopFlag, motor, late>>

\* One comparison of the if chain.
Compare(b) ==
    /\ pc = b
    /\ IF RXData = b THEN executing' = b /\ Goto("first")
                     ELSE Goto(After[b]) /\ UNCHANGED executing
    /\ UNCHANGED <<RXData, motorStopFlag, motor, late>>

\* The order in which each move starts the motors, and their directions.
Order(b) == IF b \in {"F", "B"} THEN <<MOTOR1, MOTOR2>> ELSE <<MOTOR2, MOTOR1>>
Direction(b) ==
    [m \in Motors |-> CASE b = "F" -> FORWARD
                        [] b = "B" -> BACKWARD
                        [] b = "L" -> IF m = MOTOR1 THEN FORWARD ELSE BACKWARD
                        [] b = "R" -> IF m = MOTOR1 THEN BACKWARD ELSE FORWARD]

\* PWMMotor for the motor m of the move.
PWMMotor(m) == motor' = [motor EXCEPT ![m] = Direction(executing)[m]]

StartFirst ==
    /\ pc = "first"
    /\ PWMMotor(Order(executing)[1])
    /\ Goto("second")
    /\ UNCHANGED <<RXData, motorStopFlag, executing, late>>

StartSecond ==
    /\ pc = "second"
    /\ PWMMotor(Order(executing)[2])
    /\ Goto("moving")
    /\ UNCHANGED <<RXData, motorStopFlag, executing, late>>

\* The flag is seen: the move returns and leaves the motors as they are.
MoveStopped ==
    /\ pc = "moving" /\ motorStopFlag
    /\ Goto("clear")
    /\ UNCHANGED <<RXData, motorStopFlag, motor, executing, late>>

\* Mutated form of MoveOver: the motors are not turned off.
MoveOverLeavesOn ==
    /\ pc = "moving" /\ ~motorStopFlag
    /\ Goto("clear")
    /\ UNCHANGED <<RXData, motorStopFlag, motor, executing, late>>

\* The duration is over with the flag never seen.
MoveOver ==
    /\ pc = "moving" /\ ~motorStopFlag
    /\ Goto("off1")
    /\ UNCHANGED <<RXData, motorStopFlag, motor, executing, late>>

turnOffMotor(m) == motor' = [motor EXCEPT ![m] = Off]

OffFirst ==
    /\ pc = "off1"
    /\ turnOffMotor(MOTOR1)
    /\ Goto("off2")
    /\ UNCHANGED <<RXData, motorStopFlag, executing, late>>

OffSecond ==
    /\ pc = "off2"
    /\ turnOffMotor(MOTOR2)
    /\ late' = FALSE
    /\ Goto("clear")
    /\ UNCHANGED <<RXData, motorStopFlag, executing>>

\* Mutated form of ClearRX: RXData is left as it is.
ClearRXNot ==
    /\ pc = "clear"
    /\ executing' = None
    /\ Goto("poll")
    /\ UNCHANGED <<RXData, motorStopFlag, motor, late>>

\* RXData = 0, whatever has arrived since it was tested.
ClearRX ==
    /\ pc = "clear"
    /\ RXData' = None
    /\ executing' = None
    /\ Goto("poll")
    /\ UNCHANGED <<motorStopFlag, motor, late>>
----------------------------------------------------------------------------
Main ==
    \/ Poll \/ ClearFlag \/ \E b \in Moves : Compare(b)
    \/ StartFirst \/ StartSecond
    \/ MoveStopped \/ MoveOver \/ OffFirst \/ OffSecond \/ ClearRX

Next == Main \/ \E b \in Bytes : Receive(b)

Spec == Init /\ [][Next]_vars

FairSpec == Spec /\ WF_vars(Main)

----------------------------------------------------------------------------
(* Properties                                                               *)

\* Types of the variables; a move is executed only between its comparison and the
\* reset of RXData.
TypeOK ==
    /\ RXData \in Bytes \cup {None}
    /\ motorStopFlag \in BOOLEAN /\ late \in BOOLEAN
    /\ motor \in [Motors -> {Off, FORWARD, BACKWARD}]
    /\ pc \in {"poll", "delay", "first", "second", "moving", "off1", "off2", "clear"} \cup Moves
    /\ executing \in Moves \cup {None}
    /\ pc \in {"first", "second", "moving", "off1", "off2"} => executing # None

\* While a move lasts and no 'S' has come, both motors turn the way the move says,
\* whatever other bytes have arrived since (main.c:56-67, motorDriver.c:202-251).
AsCommanded == pc = "moving" /\ ~motorStopFlag => motor = Direction(executing)

\* Between two moves the motors are off, however the last one ended, unless an
\* 'S' came between the reset of the flag and the start of the second motor
\* (main.c:55-67, motorDriver.c:207, 210-211).
OffBetweenMoves == pc \in {"poll", "delay"} \cup Moves /\ ~late => motor = AllOff

\* Once no more bytes come, the last command is carried out or discarded and the
\* board waits for the next one.
SettlesDown == <>[][Main]_vars => <>[](pc = "poll" /\ RXData = None)

============================================================================
