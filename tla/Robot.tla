------------------------------- MODULE Robot -------------------------------
(***************************************************************************)
(* The control thread together with the robot it drives: what it believes  *)
(* of its position and heading beside where the robot is.  The body is     *)
(* outside the code: a turn or a drive that lasts the whole sleep moves it *)
(* by exactly a quarter turn or a cell; one that the interrupt cuts short  *)
(* may or may not.  N is decreasing x and W decreasing y (shared.h:29,     *)
(* controlHandler.c:487-490), so to the left of N lies W.  Direct commands *)
(* are not given: their effect on the body has no fixed size.              *)
(***************************************************************************)
EXTENDS Control

VARIABLES body,    \* the cell the robot stands in
          facing   \* the direction it faces

robotVars == <<vars, body, facing>>

RobotInit == Init /\ body = Origin /\ facing = HEAD_N

Turned(h, left) == IF left THEN (h + 270) % 360 ELSE (h + 90) % 360

Advanced(p, h) ==
    CASE h = HEAD_N -> [p EXCEPT !.x = @ - 1]
      [] h = HEAD_S -> [p EXCEPT !.x = @ + 1]
      [] h = HEAD_E -> [p EXCEPT !.y = @ + 1]
      [] h = HEAD_W -> [p EXCEPT !.y = @ - 1]

\* The end of the sleep after a turn command.
BodyTurns ==
    /\ TurnEnd
    /\ facing' \in {Turned(facing, turn_left)} \cup (IF motor = "STOP" THEN {facing} ELSE {})
    /\ UNCHANGED body

\* The end of the sleep after the forward command.
BodyMoves ==
    /\ ForwardEnd
    /\ body' \in {Advanced(body, facing)} \cup (IF motor = "STOP" THEN {body} ELSE {})
    /\ UNCHANGED facing

BodyRests ==
    /\ Next
    /\ pc \in {"turning", "driving"} => pc' = pc
    /\ UNCHANGED <<body, facing>>

RobotNext == BodyTurns \/ BodyMoves \/ BodyRests

RobotSpec == RobotInit /\ [][RobotNext]_robotVars

\* shared.h:72, "this is how wheelson knows where it is": when it reports that a
\* command is finished the robot stands in the cell it believes.
PositionKnown == pc = "finish" /\ next # Unset => body = position
============================================================================
