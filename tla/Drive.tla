------------------------------- MODULE Drive -------------------------------
(***************************************************************************)
(* The control thread and the motor board, joined by the UART: every byte  *)
(* that send_motor_cmd writes reaches the board's interrupt handler later, *)
(* while the board's main loop runs at its own pace.  Control knows only   *)
(* the last byte it sent (motor); what the motors do is wheels.            *)
(***************************************************************************)
EXTENDS Control

CONSTANT WireCap   \* bound: bytes written and not yet received

VARIABLES wire,                             \* those bytes
          RXData, motorStopFlag, wheels, board, executing, late

Board == INSTANCE MotorBoard WITH motor <- wheels, pc <- board

boardVars == <<RXData, motorStopFlag, wheels, board, executing, late>>
driveVars == <<vars, wire, boardVars>>

DriveInit == Init /\ wire = << >> /\ Board!Init

Code == [FORW |-> "F", RVRS |-> "B", LEFT |-> "L", RIGHT |-> "R", STOP |-> "S"]

\* A step of the thread or the interrupt handler that calls send_motor_cmd.
Commanding == WaitStop \/ DirectCommand \/ ExePlan \/ ExeNotMove \/ TurnStart \/ TurnEnd
              \/ Forward \/ ForwardEnd \/ ColStop
Silent == Dispatch \/ Reset \/ GetCommand \/ Report \/ ExeBlocked("check") \/ ExeArrived
          \/ TurnMsg \/ Rotated \/ ExeBlocked("recheck") \/ Recheck \/ ForwardMsg
          \/ Progress \/ Finish \/ ColMsg \/ Beep \/ BeepEnd \/ ColClear \/ ColLeave

\* Mutated form of UartWrite: a byte that finds the UART busy is dropped.
UartWriteDrops == wire' = IF Len(wire) < WireCap THEN Append(wire, Code[motor']) ELSE wire

\* uart_write polls until the byte is written.
UartWrite == Len(wire) < WireCap /\ wire' = Append(wire, Code[motor'])

ThreadRuns ==
    /\ \/ Commanding /\ UartWrite
       \/ Silent /\ UNCHANGED wire
    /\ UNCHANGED boardVars

AlertRises == SafetyHandler /\ pin /\ UartWrite /\ UNCHANGED boardVars
AlertFalls == SafetyHandler /\ ~pin /\ UNCHANGED <<wire, boardVars>>

World == (AlertEdge \/ ClientSends \/ ClientReads) /\ UNCHANGED <<wire, boardVars>>

ByteArrives ==
    /\ wire # << >>
    /\ Board!Receive(Head(wire))
    /\ wire' = Tail(wire)
    /\ UNCHANGED vars

BoardRuns == Board!Main /\ UNCHANGED <<vars, wire>>

DriveNext == ThreadRuns \/ AlertRises \/ AlertFalls \/ World \/ ByteArrives \/ BoardRuns

DriveSpec == DriveInit /\ [][DriveNext]_driveVars

\* The fairness of Control, a UART that delivers and a board that runs.
DriveFairSpec ==
    /\ DriveSpec
    /\ WF_driveVars(ThreadRuns) /\ SF_driveVars(AlertRises \/ AlertFalls)
    /\ WF_driveVars(ClientReads /\ UNCHANGED <<wire, boardVars>>)
    /\ WF_driveVars(ByteArrives) /\ WF_driveVars(BoardRuns)

----------------------------------------------------------------------------
(* Properties                                                               *)

\* Once everything sent has arrived and the last of it was STOP, the motors of the board
\* are off, wherever its main loop was, unless an 'S' came while it was starting a
\* move (main.c:55-67, 83-101; controlHandler.c:199, 188, 366-370).
StopsReachWheels == motor = "STOP" /\ wire = << >> => wheels = Board!AllOff \/ late

\* An alert that comes up and stays ends with the motors off for good, although an
\* 'S' that comes while the board starts a move does not stop it: col_handler
\* sends it again in every round (controlHandler.c:385-391, main.c:56-67).  Only a
\* thread that waits for a command does not notice such a move.
AlertStopsWheels ==
    <>~pin /\ <>[]pin => <>[](wheels = Board!AllOff \/ (late /\ pc = "get"))
============================================================================
