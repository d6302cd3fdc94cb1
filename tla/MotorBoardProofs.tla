-------------------------- MODULE MotorBoardProofs --------------------------
(***************************************************************************)
(* Proofs about MotorBoard.  Whether the motors are off between two moves  *)
(* depends on every place of the main loop a byte can come at: IInv says   *)
(* for each place what the flag and the history variable late still        *)
(* promise about the motors.                                               *)
(***************************************************************************)
EXTENDS MotorBoard, TLAPS

\* Until the second motor has been started a set flag means a late 'S': the flag was
\* cleared after the delay, and what sets it marks it late.
FlagMeansLate == pc \in Moves \cup {"first", "second"} /\ motorStopFlag => late

\* The motors are off wherever no move has them.
OffOutsideMoves ==
    pc \in {"poll", "delay", "first", "clear"} \cup Moves /\ ~late => motor = AllOff

\* A move under way: one motor after the other runs, or is off again.
MoveOK ==
    /\ pc = "second" /\ ~motorStopFlag =>
         motor[Order(executing)[1]] = Direction(executing)[Order(executing)[1]]
    /\ pc = "moving" /\ motorStopFlag /\ ~late => motor = AllOff
    /\ pc = "off2" => motor[MOTOR1] = Off

\* Outside "poll" RXData holds a byte.  If it is 'S', that 'S' stops the move under way,
\* or it came after the comparisons had begun and is late, or before any of them.
StopHeard ==
    /\ pc # "poll" => RXData # None
    /\ RXData = "S" =>
         /\ pc \in {"first", "second"} => late /\ motorStopFlag
         /\ pc = "moving" => motorStopFlag
         /\ pc \in {"off1", "off2"} => motor = AllOff

\* The inductive invariant.
IInv == TypeOK /\ FlagMeansLate /\ OffOutsideMoves /\ MoveOK /\ AsCommanded /\ StopHeard

\* The words used for places, bytes and states of a motor.
USE DEF None, Moves, Bytes, MOTOR1, MOTOR2, Motors, FORWARD, BACKWARD, Off, AllOff, Goto

LEMMA InitIInv == Init => IInv
  BY DEF Init, IInv, TypeOK, FlagMeansLate, OffOutsideMoves, MoveOK, AsCommanded, StopHeard

LEMMA DirectionType ==
  ASSUME NEW b \in Moves
  PROVE  /\ Direction(b) \in [Motors -> {FORWARD, BACKWARD}]
         /\ Order(b) \in {<<MOTOR1, MOTOR2>>, <<MOTOR2, MOTOR1>>}
  BY DEF Direction, Order

\* Starting the second motor after the first gives the direction of the move.
LEMMA BothMotors ==
  ASSUME NEW b \in Moves, NEW m \in [Motors -> {Off, FORWARD, BACKWARD}],
         m[Order(b)[1]] = Direction(b)[Order(b)[1]]
  PROVE  [m EXCEPT ![Order(b)[2]] = Direction(b)[Order(b)[2]]] = Direction(b)
<1>1. CASE Order(b) = <<MOTOR1, MOTOR2>>
  BY <1>1, DirectionType
<1>2. CASE Order(b) = <<MOTOR2, MOTOR1>>
  BY <1>2, DirectionType
<1> QED
  BY <1>1, <1>2, DirectionType

LEMMA ReceiveIInv == ASSUME IInv, NEW b \in Bytes, Receive(b) PROVE IInv'
<1> USE DEF IInv, Receive, Remember
<1>1. TypeOK'
  <2>1. late' \in BOOLEAN
    <3>1. late \in BOOLEAN
      BY Zenon DEF TypeOK
    <3>2. CASE b = "S"
      <4>1. late' = (pc \in {"first", "second"} \cup Moves)
        BY <3>2, Zenon
      <4>2. (pc \in {"first", "second"} \cup Moves) \in BOOLEAN
        OBVIOUS
      <4> HIDE DEF IInv, Receive, Remember, Moves, Bytes
      <4> QED
        BY <4>1, <4>2, Zenon
    <3>3. CASE b # "S"
      BY <3>1, <3>3, Zenon
    <3> QED
      BY <3>2, <3>3
  <2>2. motor' \in [Motors -> {Off, FORWARD, BACKWARD}]
    BY DEF TypeOK
  <2>3. motorStopFlag' \in BOOLEAN
    BY DEF TypeOK
  <2> QED
    BY <2>1, <2>2, <2>3 DEF TypeOK
<1>2. FlagMeansLate' /\ OffOutsideMoves'
  BY DEF TypeOK, FlagMeansLate, OffOutsideMoves
<1>3. MoveOK' /\ AsCommanded'
  BY DEF TypeOK, MoveOK, AsCommanded
<1>4. StopHeard'
  BY DEF TypeOK, StopHeard
<1> QED
  BY <1>1, <1>2, <1>3, <1>4

LEMMA MainIInv == ASSUME IInv, Main PROVE IInv'
<1> USE DEF IInv, TypeOK, FlagMeansLate, OffOutsideMoves, MoveOK, AsCommanded, StopHeard
<1>1. CASE Poll
  BY <1>1 DEF Poll
<1>2. CASE ClearFlag
  BY <1>2 DEF ClearFlag
<1>3. ASSUME NEW b \in Moves, Compare(b) PROVE IInv'
  BY <1>3 DEF Compare, After
<1>4. CASE StartFirst
  <2>1. executing \in Moves
    BY <1>4 DEF StartFirst
  <2>2. motor' \in [Motors -> {Off, FORWARD, BACKWARD}]
    BY <1>4, <2>1, DirectionType DEF StartFirst, PWMMotor
  <2>3. motor'[Order(executing)[1]] = Direction(executing)[Order(executing)[1]]
    BY <1>4, <2>1, DirectionType DEF StartFirst, PWMMotor
  <2> QED
    BY <1>4, <2>1, <2>2, <2>3 DEF StartFirst
<1>5. CASE StartSecond
  <2>1. executing \in Moves
    BY <1>5 DEF StartSecond
  <2>2. motor' \in [Motors -> {Off, FORWARD, BACKWARD}]
    BY <1>5, <2>1, DirectionType DEF StartSecond, PWMMotor
  <2>3. ~motorStopFlag => motor' = Direction(executing)
    BY <1>5, <2>1, BothMotors DEF StartSecond, PWMMotor
  <2> QED
    BY <1>5, <2>1, <2>2, <2>3 DEF StartSecond
<1>6. CASE MoveStopped \/ MoveOver
  BY <1>6 DEF MoveStopped, MoveOver
<1>7. CASE OffFirst
  BY <1>7 DEF OffFirst, turnOffMotor
<1>8. CASE OffSecond
  <2>1. motor' = AllOff
    BY <1>8 DEF OffSecond, turnOffMotor
  <2> QED
    BY <1>8, <2>1 DEF OffSecond
<1>9. CASE ClearRX
  BY <1>9 DEF ClearRX
<1> QED
  BY <1>1, <1>2, <1>3, <1>4, <1>5, <1>6, <1>7, <1>8, <1>9 DEF Main

LEMMA NextIInv == IInv /\ [Next]_vars => IInv'
<1> SUFFICES ASSUME IInv, [Next]_vars PROVE IInv'
  OBVIOUS
<1>1. CASE Main
  BY <1>1, MainIInv
<1>2. CASE \E b \in Bytes : Receive(b)
  BY <1>2, ReceiveIInv
<1>3. CASE UNCHANGED vars
  BY <1>3 DEF vars, IInv, TypeOK, FlagMeansLate, OffOutsideMoves, MoveOK, AsCommanded,
              StopHeard
<1> QED
  BY <1>1, <1>2, <1>3 DEF Next

\* IInv holds in every reachable state.
THEOREM Invariance == Spec => []IInv
  BY InitIInv, NextIInv, PTL DEF Spec

\* Types of the board's variables.
THEOREM TypeCorrect == Spec => []TypeOK
  BY Invariance, PTL DEF IInv

\* While a move lasts and no 'S' has come both motors turn as it says, although
\* RXData has been overwritten at any point in between.
THEOREM AsCommandedAlways == Spec => []AsCommanded
  BY Invariance, PTL DEF IInv

\* Between two moves the motors are off, however the last one ended, but for an 'S'
\* that came while the move was being started.
THEOREM OffAlways == Spec => []OffBetweenMoves
<1>1. IInv => OffBetweenMoves
  BY DEF IInv, OffOutsideMoves, OffBetweenMoves
<1> QED
  BY <1>1, Invariance, PTL

\* With 'S' the last byte received, or nothing to execute, the motors are off, but for
\* an 'S' that came while a move was being started.
LEMMA StopObeyed == IInv /\ RXData \in {None, "S"} => motor = AllOff \/ late
  BY DEF IInv, TypeOK, OffOutsideMoves, MoveOK, StopHeard
=============================================================================
