--------------------------- MODULE ControlProofs ---------------------------
(***************************************************************************)
(* Proofs about Control for every grid, every capacity of the FIFOs and    *)
(* every set of commands: the inductive invariant IInv, and from it that   *)
(* the flag is not stale, that the speaker is not left on, that the motors *)
(* rest, and that the plan of exe_handler leads to the destination.  Then  *)
(* the same with the motor board: Drive implements both of its parts, and  *)
(* a STOP that has arrived has turned the motors off.                      *)
(***************************************************************************)
EXTENDS Drive, SequenceTheorems, TLAPS

USE GridAssumption, CapAssumption, CmdAssumption, UnsetAssumption

----------------------------------------------------------------------------
(* The path                                                                 *)

\* Away from the destination the next cell is on the grid.
LEMMA NextCellOnGrid ==
  ASSUME NEW p \in Positions, NEW to \in Positions, p # to
  PROVE  CalcNextCoord(p, to) \in Positions /\ CalcNextCoord(p, to) # p
  BY DEF CalcNextCoord, Positions

LEMMA HeadingRange ==
  ASSUME NEW p, NEW to PROVE CalcHeading(p, to) \in Headings
  BY DEF CalcHeading, Headings, HEAD_N, HEAD_E, HEAD_S, HEAD_W

\* calc_heading points at the cell calc_next_coord gives.
LEMMA HeadingFacesNextCell ==
  ASSUME NEW p \in Positions, NEW to \in Positions, p # to
  PROVE  Faces(p, CalcNextCoord(p, to), CalcHeading(p, to))
  BY DEF Faces, CalcNextCoord, CalcHeading, Positions, HEAD_N, HEAD_E, HEAD_S, HEAD_W

\* The next cell is one closer to the destination.
LEMMA NextCellApproaches ==
  ASSUME NEW p \in Positions, NEW to \in Positions, p # to
  PROVE  Distance(CalcNextCoord(p, to), to) = Distance(p, to) - 1
  BY DEF Distance, Abs, CalcNextCoord, Positions

\* A rotation is at most three quarter turns.
LEMMA TurnsRange ==
  ASSUME NEW from \in Headings, NEW to \in Headings
  PROVE  /\ QuarterTurns(from, to) \in -2..3
         /\ (IF QuarterTurns(from, to) < 0 THEN -QuarterTurns(from, to)
             ELSE QuarterTurns(from, to)) \in 0..3
<1>1. /\ 0 \div 90 = 0 /\ 90 \div 90 = 1 /\ 180 \div 90 = 2 /\ 270 \div 90 = 3
  OBVIOUS
<1>2. /\ from >= to => (from - to) \div 90 \in 0..3
      /\ ~(from >= to) => (to - from) \div 90 \in 1..3
  BY <1>1 DEF Headings, HEAD_N, HEAD_E, HEAD_S, HEAD_W
<1>3. QuarterTurns(from, to) \in -2..3
  BY <1>2 DEF QuarterTurns
<1> QED
  BY <1>3

----------------------------------------------------------------------------
(* Initial state                                                            *)

LEMMA InitIInv == Init => IInv
<1> SUFFICES ASSUME Init PROVE IInv
  OBVIOUS
<1>1. Origin \in Positions
  BY DEF Origin, Positions
<1>2. rx \in Seq(Commands) /\ Len(rx) <= RxCap
  BY EmptySeq DEF Init
<1>3. rx_pdu \in Pdus
  BY <1>1 DEF Init, Pdus
<1>4. TypeOK
  <2>1. pin \in BOOLEAN /\ irq \in BOOLEAN /\ blocked_flag \in BOOLEAN
        /\ speaker \in BOOLEAN /\ done \in BOOLEAN /\ turn_left \in BOOLEAN
    BY Zenon DEF Init
  <2> QED
    BY <1>1, <1>2, <1>3, <2>1 DEF Init, TypeOK, Labels, States, Headings, HEAD_N
<1>5. FlagSound /\ SpeakerOnlyForAlert /\ PlanOK /\ StoppedOnMove /\ RestsStopped
  BY DEF Init, FlagSound, SpeakerOnlyForAlert, PlanOK, StoppedOnMove, RestsStopped
<1> QED
  BY <1>4, <1>5 DEF IInv

----------------------------------------------------------------------------
(* Types                                                                    *)

BooleansOK ==
    /\ pin \in BOOLEAN /\ irq \in BOOLEAN /\ blocked_flag \in BOOLEAN
    /\ speaker \in BOOLEAN /\ done \in BOOLEAN /\ turn_left \in BOOLEAN

LEMMA BooleansKept ==
  ASSUME BooleansOK, Next PROVE BooleansOK'
<1> USE DEF BooleansOK, alert, world, locals, belief, Drive
<1>1. CASE SafetyHandler \/ AlertEdge \/ ClientSends \/ ClientReads
  BY <1>1, Zenon DEF SafetyHandler, AlertEdge, ClientSends, ClientReads
<1>2. CASE Dispatch \/ Reset \/ WaitStop \/ DirectCommand \/ Report
  BY <1>2, Zenon DEF Dispatch, Reset, WaitStop, DirectCommand, Report, Say
<1>3. CASE GetCommand \/ ExePlan
  <2>1. ExePlan => turn_left' \in BOOLEAN
    BY SMT DEF ExePlan
  <2>2. CASE GetCommand
    BY <2>2, Zenon DEF GetCommand
  <2>3. CASE ExePlan
    BY <2>1, <2>3, Zenon DEF ExePlan
  <2> QED
    BY <1>3, <2>2, <2>3
<1>4. CASE ExeBlocked("check") \/ ExeBlocked("recheck") \/ ExeArrived \/ ExeNotMove
  BY <1>4, Zenon DEF ExeBlocked, ExeArrived, ExeNotMove
<1>5. CASE TurnStart \/ TurnMsg \/ TurnEnd \/ Rotated \/ Recheck
  BY <1>5, Zenon DEF TurnStart, TurnMsg, TurnEnd, Rotated, Recheck, Say
<1>6. CASE ForwardMsg \/ Forward \/ ForwardEnd \/ Progress \/ Finish
  BY <1>6, Zenon DEF ForwardMsg, Forward, ForwardEnd, Progress, Finish, Say
<1>7. CASE Col
  BY <1>7, Zenon DEF Col, ColStop, ColMsg, Beep, BeepEnd, ColClear, ColLeave, Say
<1> QED
  BY <1>1, <1>2, <1>3, <1>4, <1>5, <1>6, <1>7, Zenon DEF Next, Thread, Wait, Exe

LEMMA OutsideTypeOK ==
  ASSUME TypeOK, SafetyHandler \/ AlertEdge \/ ClientSends \/ ClientReads
  PROVE  TypeOK'
<1> USE DEF TypeOK, alert, world, locals, belief
<1>0. BooleansOK'
  BY BooleansKept DEF Next, BooleansOK
<1> USE <1>0 DEF BooleansOK
<1>1. CASE SafetyHandler \/ AlertEdge
  BY <1>1 DEF SafetyHandler, AlertEdge
<1>2. CASE ClientReads
  BY <1>2 DEF ClientReads
<1>3. CASE ClientSends
  <2>1. rx' \in Seq(Commands) /\ Len(rx') <= RxCap
    BY <1>3, AppendProperties DEF ClientSends
  <2> QED
    BY <1>3, <2>1 DEF ClientSends
<1> QED
  BY <1>1, <1>2, <1>3

LEMMA WaitTypeOK ==
  ASSUME IInv, Dispatch \/ Reset \/ Wait PROVE TypeOK'
<1> USE DEF IInv, TypeOK, alert, world, locals, belief, At, Goto, Drive
<1>0. BooleansOK'
  BY BooleansKept DEF Next, Thread, BooleansOK
<1> USE <1>0 DEF BooleansOK
<1>1. CASE Dispatch
  <2>1. state' \in States
    BY <1>1 DEF Dispatch, States
  <2>2. pc' \in Labels
    BY <1>1, <2>1 DEF Dispatch, Handler, States, Labels
  <2> QED
    BY <1>1, <2>1, <2>2 DEF Dispatch
<1>2. CASE Reset \/ WaitStop
  BY <1>2 DEF Reset, WaitStop, Labels, States
<1>3. CASE GetCommand
  <2>1. /\ rx' \in Seq(Commands) /\ Len(rx') <= RxCap /\ rx_pdu' \in Commands
    BY <1>3, HeadTailProperties DEF GetCommand
  <2>2. rx_pdu' \in Pdus
    BY <2>1 DEF Commands
  <2>3. state' \in States /\ pc' \in Labels
    BY <1>3 DEF GetCommand, States, Labels
  <2> QED
    BY <1>3, <2>1, <2>2, <2>3 DEF GetCommand
<1>4. CASE DirectCommand
  <2>1. motor' \in {"STOP", "FORW", "RVRS", "LEFT", "RIGHT"}
    BY <1>4 DEF DirectCommand, PlanOK, DirectDrive
  <2> QED
    BY <1>4, <2>1 DEF DirectCommand, Labels
<1>5. CASE Report
  BY <1>5 DEF Report, Say, Labels
<1> QED
  BY <1>1, <1>2, <1>3, <1>4, <1>5 DEF Wait

LEMMA ExeTypeOK ==
  ASSUME IInv, Exe PROVE TypeOK'
<1> USE DEF IInv, TypeOK, alert, world, locals, belief, At, Goto, Drive
<1>0. BooleansOK'
  BY BooleansKept DEF Next, Thread, BooleansOK
<1> USE <1>0 DEF BooleansOK
<1>1. CASE ExeBlocked("check") \/ ExeBlocked("recheck")
  BY <1>1 DEF ExeBlocked, Labels, States
<1>2. CASE ExePlan
  <2>1. position \in Positions /\ rx_pdu.to \in Positions /\ position # rx_pdu.to
    BY <1>2 DEF ExePlan, Pdus
  <2>2. next' \in Positions /\ new_heading' \in Headings
    BY <1>2, <2>1, NextCellOnGrid, HeadingRange DEF ExePlan
  <2>3. turns' \in 0..3 /\ turn_left' \in BOOLEAN
    BY <1>2, <2>2, TurnsRange DEF ExePlan
  <2> QED
    BY <1>2, <2>2, <2>3 DEF ExePlan, Labels
<1>3. CASE ExeArrived \/ ExeNotMove \/ TurnStart \/ Rotated \/ Recheck \/ Forward
  BY <1>3 DEF ExeArrived, ExeNotMove, TurnStart, Rotated, Recheck, Forward, Labels
<1>4. CASE TurnEnd
  BY <1>4 DEF TurnEnd, PlanOK, Labels
<1>5. CASE TurnMsg \/ ForwardMsg \/ Progress
  BY <1>5 DEF TurnMsg, ForwardMsg, Progress, Say, Labels
<1>6. CASE ForwardEnd
  BY <1>6 DEF ForwardEnd, Labels
<1>7. CASE Finish
  BY <1>7 DEF Finish, Labels, States
<1> QED
  BY <1>1, <1>2, <1>3, <1>4, <1>5, <1>6, <1>7 DEF Exe

LEMMA ColTypeOK ==
  ASSUME IInv, Col PROVE TypeOK'
<1>0. BooleansOK'
  BY BooleansKept DEF Next, Thread, BooleansOK, IInv, TypeOK
<1> QED
  BY <1>0 DEF BooleansOK, IInv, TypeOK, alert, world, locals, belief, At, Goto, Drive, Col, ColStop,
         ColMsg, Say, Beep, BeepEnd, ColClear, ColLeave, Labels, States
LEMMA NextTypeOK == ASSUME IInv, Next PROVE TypeOK'
  BY OutsideTypeOK, WaitTypeOK, ExeTypeOK, ColTypeOK DEF IInv, Next, Thread

----------------------------------------------------------------------------
(* The alert, the speaker and the motors                                    *)

LEMMA NextAlertOK ==
  ASSUME IInv, Next PROVE FlagSound' /\ SpeakerOnlyForAlert'
<1> USE DEF IInv, TypeOK, FlagSound, SpeakerOnlyForAlert, alert, world, At, Goto, Drive
<1>1. CASE SafetyHandler \/ AlertEdge \/ ClientSends \/ ClientReads
  BY <1>1 DEF SafetyHandler, AlertEdge, ClientSends, ClientReads
<1>2. CASE Dispatch \/ Reset \/ Wait
  BY <1>2 DEF Dispatch, Reset, Wait, WaitStop, GetCommand, DirectCommand, Report, Say
<1>3. CASE ExeBlocked("check") \/ ExeBlocked("recheck") \/ ExePlan \/ ExeArrived \/ ExeNotMove
  BY <1>3 DEF ExeBlocked, ExePlan, ExeArrived, ExeNotMove
<1>4. CASE TurnStart \/ TurnMsg \/ TurnEnd \/ Rotated \/ Recheck
  BY <1>4 DEF TurnStart, TurnMsg, TurnEnd, Rotated, Recheck, Say
<1>5. CASE ForwardMsg \/ Forward \/ ForwardEnd \/ Progress \/ Finish
  BY <1>5 DEF ForwardMsg, Forward, ForwardEnd, Progress, Finish, Say
<1>6. CASE Col
  BY <1>6 DEF Col, ColStop, ColMsg, Beep, BeepEnd, ColClear, ColLeave, Say
<1> QED
  BY <1>1, <1>2, <1>3, <1>4, <1>5, <1>6 DEF Next, Thread, Exe

LEMMA NextMotorsOK ==
  ASSUME IInv, Next PROVE StoppedOnMove' /\ RestsStopped'
<1> USE DEF IInv, TypeOK, StoppedOnMove, RestsStopped, alert, world, At, Goto, Drive
<1>1. CASE SafetyHandler \/ AlertEdge \/ ClientSends \/ ClientReads
  BY <1>1 DEF SafetyHandler, AlertEdge, ClientSends, ClientReads
<1>2. CASE Dispatch
  BY <1>2 DEF Dispatch, Handler, States
<1>3. CASE Reset \/ WaitStop \/ GetCommand \/ Report
  BY <1>3 DEF Reset, WaitStop, GetCommand, DirectDrive, Report, Say
<1>4. CASE DirectCommand
  <2>1. rx_pdu.cmd # "MOVE"
    BY <1>4 DEF DirectCommand, PlanOK, DirectDrive
  <2> QED
    BY <1>4, <2>1 DEF DirectCommand
<1>5. CASE ExeBlocked("check") \/ ExeBlocked("recheck") \/ ExePlan \/ ExeArrived \/ ExeNotMove
  BY <1>5 DEF ExeBlocked, ExePlan, ExeArrived, ExeNotMove
<1>6. CASE TurnStart \/ TurnMsg \/ TurnEnd \/ Rotated \/ Recheck
  BY <1>6 DEF TurnStart, TurnMsg, TurnEnd, Rotated, Recheck, Say
<1>7. CASE ForwardMsg \/ Forward \/ ForwardEnd \/ Progress \/ Finish
  BY <1>7 DEF ForwardMsg, Forward, ForwardEnd, Progress, Finish, Say
<1>8. CASE Col
  BY <1>8 DEF Col, ColStop, ColMsg, Beep, BeepEnd, ColClear, ColLeave, Say
<1> QED
  BY <1>1, <1>2, <1>3, <1>4, <1>5, <1>6, <1>7, <1>8 DEF Next, Thread, Wait, Exe

----------------------------------------------------------------------------
(* The plan                                                                 *)

LEMMA NextPlanOK == ASSUME IInv, Next PROVE PlanOK'
<1> USE DEF IInv, TypeOK, PlanOK, alert, world, locals, belief, At, Goto, Drive
<1>1. CASE SafetyHandler \/ AlertEdge \/ ClientSends \/ ClientReads
  BY <1>1 DEF SafetyHandler, AlertEdge, ClientSends, ClientReads
<1>2. CASE Dispatch
  BY <1>2 DEF Dispatch, Handler, States
<1>3. CASE Reset \/ WaitStop \/ GetCommand \/ DirectCommand \/ Report
  BY <1>3 DEF Reset, WaitStop, GetCommand, DirectCommand, Report, Say
<1>4. CASE ExeBlocked("check") \/ ExeBlocked("recheck")
  BY <1>4 DEF ExeBlocked
<1>5. CASE ExePlan
  BY <1>5 DEF ExePlan
<1>6. CASE ExeArrived \/ ExeNotMove
  BY <1>6 DEF ExeArrived, ExeNotMove
<1>7. CASE TurnStart \/ TurnMsg \/ TurnEnd \/ Rotated
  BY <1>7 DEF TurnStart, TurnMsg, TurnEnd, Rotated, Say
<1>8. CASE Recheck \/ ForwardMsg \/ Forward
  BY <1>8 DEF Recheck, ForwardMsg, Forward, Say
<1>9. CASE ForwardEnd
  <2>1. ~done => next # Unset
    BY <1>9, NextCellOnGrid DEF ForwardEnd, Pdus
  <2> QED
    BY <1>9, <2>1 DEF ForwardEnd
<1>10. CASE Progress \/ Finish
  BY <1>10 DEF Progress, Finish, Say
<1>11. CASE Col
  BY <1>11 DEF Col, ColStop, ColMsg, Beep, BeepEnd, ColClear, ColLeave, Say
<1> QED
  BY <1>1, <1>2, <1>3, <1>4, <1>5, <1>6, <1>7, <1>8, <1>9, <1>10, <1>11
     DEF Next, Thread, Wait, Exe

----------------------------------------------------------------------------
(* The theorems                                                             *)

LEMMA NextIInv == IInv /\ [Next]_vars => IInv'
<1> SUFFICES ASSUME IInv, [Next]_vars PROVE IInv'
  OBVIOUS
<1>1. CASE Next
  BY <1>1, NextTypeOK, NextAlertOK, NextMotorsOK, NextPlanOK DEF IInv
<1>2. CASE UNCHANGED vars
  BY <1>2 DEF vars, IInv, TypeOK, FlagSound, SpeakerOnlyForAlert, PlanOK,
              StoppedOnMove, RestsStopped
<1> QED
  BY <1>1, <1>2

\* The inductive invariant holds in every reachable state.
THEOREM Invariance == Spec => []IInv
  BY InitIInv, NextIInv, PTL DEF Spec

\* Every variable keeps its type: no cell off the grid is planned or believed, and
\* a rotation is at most three quarter turns.
THEOREM TypeCorrect == Spec => []TypeOK
<1>1. IInv => TypeOK
  BY DEF IInv
<1> QED
  BY Invariance, <1>1, PTL

\* The flag is the pin unless an edge is outstanding.
Current == ~irq => (blocked_flag <=> pin)

\* A flag that is current stays so: every edge is outstanding until it is handled.
LEMMA StaysCurrent == Current /\ [Next]_vars => Current'
<1> SUFFICES ASSUME Current, [Next]_vars PROVE Current'
  OBVIOUS
<1> USE DEF Current, alert, world, Drive
<1>1. CASE SafetyHandler \/ AlertEdge \/ ClientSends \/ ClientReads
  BY <1>1, Zenon DEF SafetyHandler, AlertEdge, ClientSends, ClientReads
<1>2. CASE Thread
  <2>1. UNCHANGED <<pin, irq, blocked_flag>>
    BY <1>2 DEF Thread, Wait, Exe, Col, Say, Dispatch, Reset, WaitStop, GetCommand,
           DirectCommand, Report, ExeBlocked, ExePlan, ExeArrived, ExeNotMove, TurnStart,
           TurnMsg, TurnEnd, Rotated, Recheck, ForwardMsg, Forward, ForwardEnd, Progress,
           Finish, ColStop, ColMsg, Beep, BeepEnd, ColClear, ColLeave
  <2> QED
    BY <2>1
<1>3. CASE UNCHANGED vars
  BY <1>3, Zenon DEF vars
<1> QED
  BY <1>1, <1>2, <1>3 DEF Next

\* From the first time the pin is low blocked_flag is the pin whenever no edge is
\* outstanding.
THEOREM FlagNotStale == Spec => FlagFollowsPin
<1>1. IInv /\ ~pin => Current
  BY DEF IInv, FlagSound, Current
<1>2. Current => (~irq => (blocked_flag <=> pin))
  BY DEF Current
<1> QED
  BY Invariance, StaysCurrent, <1>1, <1>2, PTL DEF Spec, FlagFollowsPin

\* The interrupt handler and col_handler together never leave the speaker on.
THEOREM SpeakerSafe == Spec => []SpeakerOnlyForAlert
<1>1. IInv => SpeakerOnlyForAlert
  BY DEF IInv
<1> QED
  BY Invariance, <1>1, PTL

\* Wherever the thread waits for somebody else the motors have been stopped.
THEOREM MotorsRest == Spec => []RestsStopped
<1>1. IInv => RestsStopped
  BY DEF IInv
<1> QED
  BY Invariance, <1>1, PTL

\* On every grid the robot believes it faces the cell it is to drive to.
THEOREM Facing == Spec => []FacesNextCell
<1>1. IInv => FacesNextCell
  BY HeadingFacesNextCell DEF IInv, TypeOK, PlanOK, FacesNextCell, Pdus
<1> QED
  BY Invariance, <1>1, PTL

\* "CMD FINISHED" is said of a MOVE that drove a planned cell at its destination.
THEOREM Finished == Spec => []FinishedThere
<1>1. IInv => FinishedThere
  BY DEF IInv, PlanOK, FinishedThere
<1> QED
  BY Invariance, <1>1, PTL

\* Every planned cell brings the robot one cell closer to the destination.
THEOREM Approaching == Spec => EachMoveApproaches
<1> DEFINE Approaches ==
      position' # position /\ next # Unset =>
        Distance(position', rx_pdu.to) = Distance(position, rx_pdu.to) - 1
<1>1. IInv /\ [Next]_vars => [Approaches]_vars
  <2> SUFFICES ASSUME IInv, Next, position' # position, next # Unset
               PROVE  Distance(position', rx_pdu.to) = Distance(position, rx_pdu.to) - 1
    BY DEF vars
  <2>1. ForwardEnd
    BY DEF Next, Thread, Wait, Exe, Col, alert, world, locals, belief, Say, SafetyHandler,
           AlertEdge, ClientSends, ClientReads, Dispatch, Reset, WaitStop, GetCommand,
           DirectCommand, Report, ExeBlocked, ExePlan, ExeArrived, ExeNotMove, TurnStart,
           TurnMsg, TurnEnd, Rotated, Recheck, ForwardMsg, Forward, Progress, Finish,
           ColStop, ColMsg, Beep, BeepEnd, ColClear, ColLeave
  <2>2. position' = next /\ ~done
    BY <2>1 DEF ForwardEnd, At, IInv, PlanOK
  <2>3. position \in Positions /\ rx_pdu.to \in Positions /\ position # rx_pdu.to
        /\ next = CalcNextCoord(position, rx_pdu.to)
    BY <2>1, <2>2 DEF ForwardEnd, At, IInv, PlanOK, TypeOK, Pdus
  <2> QED
    BY <2>2, <2>3, NextCellApproaches
<1> QED
  BY <1>1, Invariance, PTL DEF Spec, EachMoveApproaches

----------------------------------------------------------------------------
(* The thread and the board together                                        *)

BP == INSTANCE MotorBoardProofs WITH motor <- wheels, pc <- board

\* BP names what Board names: the definitions of MotorBoard.
LEMMA SameBytes == Board!Bytes = BP!Bytes /\ Board!None = BP!None /\ Board!AllOff = BP!AllOff
  BY DEF Board!Bytes, BP!Bytes, Board!Moves, BP!Moves, Board!None, BP!None, Board!AllOff,
         BP!AllOff, Board!Motors, BP!Motors, Board!MOTOR1, BP!MOTOR1, Board!MOTOR2,
         BP!MOTOR2, Board!Off, BP!Off

LEMMA SameReceive == ASSUME NEW b PROVE Board!Receive(b) <=> BP!Receive(b)
  BY SameBytes DEF Board!Receive, BP!Receive, Board!Remember, BP!Remember, Board!Moves,
                   BP!Moves

LEMMA SameDirection ==
  ASSUME NEW b
  PROVE  Board!Order(b) = BP!Order(b) /\ Board!Direction(b) = BP!Direction(b)
  BY DEF Board!Order, BP!Order, Board!Direction, BP!Direction, Board!Motors, BP!Motors,
         Board!MOTOR1, BP!MOTOR1, Board!MOTOR2, BP!MOTOR2, Board!FORWARD, BP!FORWARD,
         Board!BACKWARD, BP!BACKWARD

LEMMA SameMain == Board!Main <=> BP!Main
<1>1. /\ Board!Poll <=> BP!Poll
      /\ Board!ClearFlag <=> BP!ClearFlag
      /\ Board!MoveStopped <=> BP!MoveStopped
      /\ Board!MoveOver <=> BP!MoveOver
      /\ Board!ClearRX <=> BP!ClearRX
  BY SameBytes DEF Board!Poll, BP!Poll, Board!ClearFlag, BP!ClearFlag, Board!MoveStopped,
                   BP!MoveStopped, Board!MoveOver, BP!MoveOver, Board!ClearRX, BP!ClearRX,
                   Board!Goto, BP!Goto
<1>2. \A b : Board!Compare(b) <=> BP!Compare(b)
  BY DEF Board!Compare, BP!Compare, Board!Goto, BP!Goto, Board!After, BP!After
<1>3. Board!Moves = BP!Moves
  BY DEF Board!Moves, BP!Moves
<1>4. /\ Board!StartFirst <=> BP!StartFirst
      /\ Board!StartSecond <=> BP!StartSecond
  BY SameDirection DEF Board!StartFirst, BP!StartFirst, Board!StartSecond, BP!StartSecond,
                       Board!PWMMotor, BP!PWMMotor, Board!Goto, BP!Goto
<1>5. /\ Board!OffFirst <=> BP!OffFirst
      /\ Board!OffSecond <=> BP!OffSecond
  BY DEF Board!OffFirst, BP!OffFirst, Board!OffSecond, BP!OffSecond, Board!turnOffMotor,
         BP!turnOffMotor, Board!Goto, BP!Goto, Board!MOTOR1, BP!MOTOR1, Board!MOTOR2,
         BP!MOTOR2, Board!Off, BP!Off
<1> QED
  BY <1>1, <1>2, <1>3, <1>4, <1>5 DEF Board!Main, BP!Main

\* What the thread believes to be commanded is the last byte on its way; when all have
\* arrived it is in RXData, unless the main loop has already discarded it.
Link ==
    /\ wire \in Seq(Board!Bytes)
    /\ wire # << >> => wire[Len(wire)] = Code[motor]
    /\ wire = << >> => RXData \in {Code[motor], Board!None}

DriveIInv == IInv /\ BP!IInv /\ Link

\* Every step is one of the control thread and its interrupt, or does not touch them.
LEMMA ControlStep == DriveNext => Next \/ UNCHANGED vars
  BY Zenon DEF DriveNext, ThreadRuns, AlertRises, AlertFalls, World, ByteArrives, BoardRuns,
               Commanding, Silent, Next, Thread, Wait, Exe, Col

\* The same of the motor board: what it receives is a byte it knows.
LEMMA BoardStep == Link /\ DriveNext => BP!Next \/ UNCHANGED boardVars
<1> SUFFICES ASSUME Link, DriveNext PROVE BP!Next \/ UNCHANGED boardVars
  OBVIOUS
<1>1. CASE ByteArrives
  <2>1. Head(wire) \in Board!Bytes
    BY <1>1 DEF ByteArrives, Link
  <2>2. BP!Receive(Head(wire))
    BY <1>1, SameReceive DEF ByteArrives
  <2> QED
    BY <2>1, <2>2, SameBytes DEF BP!Next
<1>2. CASE BoardRuns
  BY <1>2, SameMain DEF BoardRuns, BP!Next
<1>3. CASE ThreadRuns \/ AlertRises \/ AlertFalls \/ World
  BY <1>3 DEF ThreadRuns, AlertRises, AlertFalls, World
<1> QED
  BY <1>1, <1>2, <1>3 DEF DriveNext

LEMMA DriveInitIInv == DriveInit => DriveIInv
<1> SUFFICES ASSUME DriveInit PROVE DriveIInv
  OBVIOUS
<1>1. IInv
  BY InitIInv DEF DriveInit
<1>2. BP!Init
  BY SameBytes DEF DriveInit, Board!Init, BP!Init
<1>3. Link
  BY DEF DriveInit, Board!Init, Link
<1> QED
  BY <1>1, <1>2, <1>3, BP!InitIInv DEF DriveIInv

\* A byte written is a byte the board knows, and the last on its way.
LEMMA WriteLink == ASSUME Link, TypeOK', UartWrite PROVE Link'
<1>1. Code[motor'] \in Board!Bytes
  BY DEF TypeOK, Code, Board!Bytes, Board!Moves
<1>2. wire' = Append(wire, Code[motor']) /\ wire \in Seq(Board!Bytes)
  BY DEF UartWrite, Link
<1>3. wire' \in Seq(Board!Bytes) /\ wire' # << >> /\ wire'[Len(wire')] = Code[motor']
  BY <1>1, <1>2
<1> QED
  BY <1>3 DEF Link

\* The steps that write nothing change neither the byte last sent nor RXData.
LEMMA SilentLink ==
  ASSUME Link, Silent \/ (SafetyHandler /\ ~pin) \/ AlertEdge \/ ClientSends \/ ClientReads,
         UNCHANGED <<wire, boardVars>>
  PROVE  Link'
<1>1. motor' = motor
  BY DEF Silent, SafetyHandler, AlertEdge, ClientSends, ClientReads, Dispatch, Reset,
         GetCommand, Report, ExeBlocked, ExeArrived, TurnMsg, Rotated, Recheck, ForwardMsg,
         Progress, Finish, ColMsg, Beep, BeepEnd, ColClear, ColLeave, Say, world
<1> QED
  BY <1>1 DEF Link, boardVars

\* The byte that arrives replaces RXData; the last one is what the thread sent last.
LEMMA ArriveLink == ASSUME Link, ByteArrives PROVE Link'
<1>1. /\ wire \in Seq(Board!Bytes) /\ wire # << >> /\ wire[Len(wire)] = Code[motor]
      /\ wire' = Tail(wire) /\ RXData' = Head(wire) /\ motor' = motor
  BY DEF Link, ByteArrives, Board!Receive, vars
<1>2. CASE wire' = << >>
  <2>1. Len(Tail(wire)) = Len(wire) - 1 /\ Len(wire) \in Nat
    BY <1>1
  <2>2. Len(wire) = 1
    <3>1. Tail(wire) = << >> /\ Len(<< >>) = 0
      BY <1>1, <1>2
    <3>2. Len(Tail(wire)) = 0
      BY <3>1, Zenon
    <3> QED
      BY <2>1, <3>2
  <2>3. Head(wire) = wire[Len(wire)]
    BY <1>1, <2>2
  <2> QED
    BY <1>1, <1>2, <2>3 DEF Link
<1>3. CASE wire' # << >>
  <2>1. wire' \in Seq(Board!Bytes) /\ wire'[Len(wire')] = wire[Len(wire)]
    BY <1>1, <1>3
  <2> QED
    BY <1>1, <1>3, <2>1 DEF Link
<1> QED
  BY <1>2, <1>3

\* The main loop only discards what it has received.
LEMMA BoardLink == ASSUME Link, BoardRuns PROVE Link'
<1>1. RXData' \in {RXData, Board!None}
  BY DEF BoardRuns, Board!Main, Board!Poll, Board!ClearFlag, Board!Compare, Board!StartFirst,
         Board!StartSecond, Board!MoveStopped, Board!MoveOver, Board!OffFirst,
         Board!OffSecond, Board!ClearRX
<1> QED
  BY <1>1 DEF Link, BoardRuns, vars

LEMMA DriveNextIInv == DriveIInv /\ [DriveNext]_driveVars => DriveIInv'
<1> SUFFICES ASSUME DriveIInv, DriveNext \/ UNCHANGED driveVars PROVE DriveIInv'
  BY DEF driveVars
<1>1. IInv'
  <2>1. Next \/ UNCHANGED vars
    BY ControlStep DEF driveVars
  <2> QED
    BY <2>1, NextIInv DEF DriveIInv
<1>2. BP!IInv'
  <2>1. BP!Next \/ UNCHANGED BP!vars
    BY BoardStep DEF DriveIInv, driveVars, boardVars, BP!vars
  <2> QED
    BY <2>1, BP!NextIInv DEF DriveIInv
<1>3. Link'
  <2>1. TypeOK' /\ Link
    BY <1>1 DEF IInv, DriveIInv
  <2>2. CASE ThreadRuns
    BY <2>1, <2>2, WriteLink, SilentLink DEF ThreadRuns
  <2>3. CASE AlertRises
    BY <2>1, <2>3, WriteLink DEF AlertRises
  <2>4. CASE AlertFalls \/ World
    BY <2>1, <2>4, SilentLink DEF AlertFalls, World
  <2>5. CASE ByteArrives
    BY <2>1, <2>5, ArriveLink
  <2>6. CASE BoardRuns
    BY <2>1, <2>6, BoardLink
  <2>7. CASE UNCHANGED driveVars
    BY <2>1, <2>7 DEF driveVars, vars, boardVars, Link
  <2> QED
    BY <2>2, <2>3, <2>4, <2>5, <2>6, <2>7 DEF DriveNext
<1> QED
  BY <1>1, <1>2, <1>3 DEF DriveIInv

\* The invariants of the thread, of the board and of the link between them hold together.
THEOREM DriveInvariance == DriveSpec => []DriveIInv
  BY DriveInitIInv, DriveNextIInv, PTL DEF DriveSpec

\* Joined to the board the thread does nothing it does not do alone, so what is proved
\* of Control holds of the robot with its motors.
THEOREM DriveIsControl == DriveSpec => Spec
<1>1. DriveInit => Init
  BY DEF DriveInit
<1>2. [DriveNext]_driveVars => [Next]_vars
  BY ControlStep DEF driveVars
<1> QED
  BY <1>1, <1>2, PTL DEF DriveSpec, Spec

\* The thread sends the board nothing but what MotorBoard lets the UART bring, so what is
\* proved of MotorBoard holds of the board in the robot.
THEOREM DriveIsBoard == DriveSpec => BP!Spec
<1>1. DriveInit => BP!Init
  BY SameBytes DEF DriveInit, Board!Init, BP!Init
<1>2. DriveIInv /\ [DriveNext]_driveVars => [BP!Next]_(BP!vars)
  BY BoardStep DEF DriveIInv, driveVars, boardVars, BP!vars
<1> QED
  BY <1>1, <1>2, DriveInvariance, PTL DEF DriveSpec, BP!Spec

\* A STOP that has arrived has turned the motors off, but for one that came while the
\* board was starting a move.
THEOREM StopsArrive == DriveSpec => []StopsReachWheels
<1>1. DriveIInv => StopsReachWheels
  <2> SUFFICES ASSUME DriveIInv, motor = "STOP", wire = << >>
               PROVE  wheels = Board!AllOff \/ late
    BY DEF StopsReachWheels
  <2>1. RXData \in {"S", BP!None}
    BY SameBytes DEF DriveIInv, Link, Code
  <2>2. wheels = BP!AllOff \/ late
    BY <2>1, BP!StopObeyed DEF DriveIInv, BP!None
  <2> QED
    BY <2>2, SameBytes
<1> QED
  BY <1>1, DriveInvariance, PTL
============================================================================
