------------------------------ MODULE Control ------------------------------
(***************************************************************************)
(* The control thread of the firmware (0_Investigator/controlHandler.c):   *)
(* a state machine that takes commands from the rx FIFO, drives the motor  *)
(* board over the UART, keeps the believed position and heading, and       *)
(* reports to the tx FIFO; with safetyHandler, the interrupt handler of    *)
(* the obstacle alert, which may run between any two of its steps.         *)
(*                                                                         *)
(* A step of the thread ends where something else can be seen to happen    *)
(* in between: at a read of blocked_flag or of the alert pin, at a byte    *)
(* written to the UART, at a FIFO operation, at a sleep.  The FIFOs are    *)
(* bounded queues (PduFifo shows that each is one); of the tx messages     *)
(* only the number matters here.  position_g is written by this thread     *)
(* alone.  ST_REROUTE is never assigned and its handler is empty.          *)
(***************************************************************************)
EXTENDS Integers, Sequences

CONSTANTS MaxX, MaxY,   \* the grid: coordinates are uint8_t, 0..255
          CmdNames,     \* the commands the client may send
          RxCap, TxCap, \* PDU_FIFO_SIZE of each FIFO
          Unset         \* a local variable not yet assigned

ASSUME GridAssumption == MaxX \in 0..255 /\ MaxY \in 0..255
ASSUME CapAssumption == RxCap \in Nat \ {0} /\ TxCap \in Nat \ {0}
ASSUME CmdAssumption ==
    CmdNames \subseteq {"MOVE", "STOP", "RESET", "GO_FORWARD", "GO_REV",
                        "TURN_LEFT", "TURN_RIGHT", "OTHER"}

Positions == [x : 0..MaxX, y : 0..MaxY]
ASSUME UnsetAssumption == Unset \notin Positions

HEAD_N == 0
HEAD_E == 90
HEAD_S == 180
HEAD_W == 270
Headings == {HEAD_N, HEAD_E, HEAD_S, HEAD_W}

\* The x and y of a command other than MOVE are not looked at.
Origin == [x |-> 0, y |-> 0]
Pdus == {[cmd |-> c, to |-> p] : c \in CmdNames \cup {"MOVE"}, p \in Positions}
Commands == {m \in Pdus : m.cmd \in CmdNames /\ (m.cmd # "MOVE" => m.to = Origin)}

VARIABLES
    pin, irq,                \* the alert pin; an edge not yet handled
    blocked_flag, speaker,   \* written by safetyHandler and by the thread
    motor,                   \* the last byte the motor board was sent
    rx, tx,                  \* rx FIFO; number of messages in the tx FIFO
    pc, state, rx_pdu,       \* the thread: place, state_t, command being done
    done, next, turns,       \* locals of exe_handler and rotate_to_heading:
    turn_left, new_heading,  \*   next is next_x, next_y; turns are left to do
    position, fake_heading   \* position_g and the believed heading

alert == <<pin, irq>>
world == <<blocked_flag, speaker, motor>>
locals == <<done, next, turns, turn_left, new_heading>>
belief == <<position, fake_heading>>
vars == <<pin, irq, blocked_flag, speaker, motor, rx, tx, pc, state, rx_pdu, done, next,
          turns, turn_left, new_heading, position, fake_heading>>

\* main_tirtos.c:92 puts the robot at 0,0; rx_pdu is a zeroed static: MOVE 0,0.
\* The ultrasonic board may have raised the pin before board.c:122-124 enables the
\* interrupt of its edges; nobody reads its level.
Init ==
    /\ pin \in BOOLEAN /\ irq = FALSE
    /\ blocked_flag = FALSE /\ speaker = FALSE
    /\ motor = "STOP"
    /\ rx = << >> /\ tx = 0
    /\ pc = "top" /\ state = "WAIT_CMD"
    /\ rx_pdu = [cmd |-> "MOVE", to |-> Origin]
    /\ done = FALSE /\ next = Unset /\ turns = 0 /\ turn_left = FALSE
    /\ new_heading = HEAD_N
    /\ position = Origin /\ fake_heading = HEAD_N

At(label) == pc = label
Goto(label) == pc' = label

----------------------------------------------------------------------------
(* The path: one cell at a time, x before y                                 *)

\* Mutated form of calc_next_coord: goes past the destination in x.
CalcNextOvershoots(p, to) ==
    IF p.x < to.x THEN [p EXCEPT !.x = @ + 2]
    ELSE IF p.x > to.x THEN [p EXCEPT !.x = @ - 1]
    ELSE IF p.y < to.y THEN [p EXCEPT !.y = @ + 1]
    ELSE [p EXCEPT !.y = @ - 1]

\* Mutated form of calc_next_coord: the two y cases are swapped.
CalcNextSwapsY(p, to) ==
    IF p.x < to.x THEN [p EXCEPT !.x = @ + 1]
    ELSE IF p.x > to.x THEN [p EXCEPT !.x = @ - 1]
    ELSE IF p.y > to.y THEN [p EXCEPT !.y = @ + 1]
    ELSE [p EXCEPT !.y = @ - 1]

\* calc_next_coord for p # to; at the destination it leaves next_x, next_y alone.
CalcNextCoord(p, to) ==
    IF p.x < to.x THEN [p EXCEPT !.x = @ + 1]
    ELSE IF p.x > to.x THEN [p EXCEPT !.x = @ - 1]
    ELSE IF p.y < to.y THEN [p EXCEPT !.y = @ + 1]
    ELSE [p EXCEPT !.y = @ - 1]

\* Mutated form of calc_heading: y before x.
CalcHeadingYFirst(p, to) ==
    IF to.y > p.y THEN HEAD_E
    ELSE IF to.y < p.y THEN HEAD_W
    ELSE IF to.x > p.x THEN HEAD_S
    ELSE HEAD_N

\* calc_heading for p # to; at the destination it returns -1.
CalcHeading(p, to) ==
    IF to.x > p.x THEN HEAD_S
    ELSE IF to.x < p.x THEN HEAD_N
    ELSE IF to.y > p.y THEN HEAD_E
    ELSE HEAD_W

\* res of rotate_to_heading: quarter turns, negative to the left.
QuarterTurns(from, to) ==
    LET res == IF from >= to THEN (from - to) \div 90 ELSE -((to - from) \div 90)
    IN  IF res = -3 THEN -1 ELSE res

----------------------------------------------------------------------------
(* Outside the thread                                                       *)

\* commandTCP puts a command the client sent.
ClientSends ==
    /\ Len(rx) < RxCap
    /\ \E m \in Commands : rx' = Append(rx, m)
    /\ UNCHANGED <<alert, world, tx, pc, state, rx_pdu, locals, belief>>

\* updateTCP takes a message for the client.
ClientReads ==
    /\ tx > 0
    /\ tx' = tx - 1
    /\ UNCHANGED <<alert, world, rx, pc, state, rx_pdu, locals, belief>>

\* The ultrasonic board changes the alert: both edges raise the interrupt.
AlertEdge ==
    /\ pin' = ~pin
    /\ irq' = TRUE
    /\ UNCHANGED <<world, rx, tx, pc, state, rx_pdu, locals, belief>>

\* Mutated form of safetyHandler: the flag is set and never cleared.
SafetyHandlerLatches ==
    /\ irq
    /\ irq' = FALSE
    /\ blocked_flag' = TRUE
    /\ speaker' = pin
    /\ motor' = IF pin THEN "STOP" ELSE motor
    /\ UNCHANGED <<pin, rx, tx, pc, state, rx_pdu, locals, belief>>

\* The interrupt handler: it reads the pin, which may have changed since the edge.
SafetyHandler ==
    /\ irq
    /\ irq' = FALSE
    /\ blocked_flag' = pin
    /\ speaker' = pin
    /\ motor' = IF pin THEN "STOP" ELSE motor
    /\ UNCHANGED <<pin, rx, tx, pc, state, rx_pdu, locals, belief>>

----------------------------------------------------------------------------
(* Parts of a step of the thread                                            *)

\* send_motor_cmd: one byte on the UART.
Drive(cmd) == motor' = cmd /\ UNCHANGED <<blocked_flag, speaker>>

\* send_msg, send_new_pos, send_blocked_msg: pdu_fifo_put holds the thread while
\* the tx FIFO is full.
Say(from, to) ==
    /\ At(from)
    /\ tx < TxCap
    /\ tx' = tx + 1
    /\ Goto(to)
    /\ UNCHANGED <<alert, world, rx, state, rx_pdu, locals, belief>>

----------------------------------------------------------------------------
(* controlThread's loop                                                     *)

States == {"WAIT_CMD", "EXE_CMD", "COL", "RESET"}
Handler == [WAIT_CMD |-> "wait", EXE_CMD |-> "check", COL |-> "col", RESET |-> "reset"]

\* Mutated form of Dispatch: the flag is not looked at.
DispatchIgnoresFlag ==
    /\ At("top")
    /\ Goto(Handler[state])
    /\ done' = FALSE
    /\ next' = Unset
    /\ UNCHANGED <<alert, world, rx, tx, state, rx_pdu, turns, turn_left, new_heading,
                   belief>>

\* Top of the loop: an alert overrides the state; each handler starts afresh.
Dispatch ==
    /\ At("top")
    /\ state' = IF blocked_flag THEN "COL" ELSE state
    /\ Goto(Handler[state'])
    /\ done' = FALSE
    /\ next' = Unset
    /\ UNCHANGED <<alert, world, rx, tx, rx_pdu, turns, turn_left, new_heading, belief>>

\* reset_handler: only the state changes.
Reset ==
    /\ At("reset")
    /\ state' = "WAIT_CMD"
    /\ Goto("top")
    /\ UNCHANGED <<alert, world, rx, tx, rx_pdu, locals, belief>>

----------------------------------------------------------------------------
(* wait_handler                                                             *)

\* Mutated form of WaitStop: the motors are not stopped on entry.
WaitNoStop ==
    /\ At("wait")
    /\ Goto("get")
    /\ UNCHANGED <<alert, world, rx, tx, state, rx_pdu, locals, belief>>

WaitStop ==
    /\ At("wait")
    /\ Drive("STOP")
    /\ Goto("get")
    /\ UNCHANGED <<alert, rx, tx, state, rx_pdu, locals, belief>>

DirectDrive == [GO_FORWARD |-> "FORW", GO_REV |-> "RVRS", TURN_LEFT |-> "LEFT",
                TURN_RIGHT |-> "RIGHT", STOP |-> "STOP"]

\* pdu_fifo_get returns; the command decides the next state.  A command that is
\* none of these leaves the state as it is: WAIT_CMD.
GetCommand ==
    /\ At("get")
    /\ rx # << >>
    /\ rx_pdu' = Head(rx)
    /\ rx' = Tail(rx)
    /\ state' = CASE rx_pdu'.cmd = "MOVE"  -> "EXE_CMD"
                  [] rx_pdu'.cmd = "RESET" -> "RESET"
                  [] OTHER                 -> "WAIT_CMD"
    /\ pc' = IF rx_pdu'.cmd \in DOMAIN DirectDrive THEN "direct" ELSE "report"
    /\ UNCHANGED <<alert, world, tx, locals, belief>>

\* Direct control: one byte, without a look at blocked_flag.
DirectCommand ==
    /\ At("direct")
    /\ Drive(DirectDrive[rx_pdu.cmd])
    /\ Goto("report")
    /\ UNCHANGED <<alert, rx, tx, state, rx_pdu, locals, belief>>

Report == Say("report", "top")

----------------------------------------------------------------------------
(* exe_handler                                                              *)

\* First look at the flag in each round.
ExeBlocked(from) ==
    /\ At(from)
    /\ blocked_flag
    /\ state' = "COL"
    /\ Goto("top")
    /\ UNCHANGED <<alert, world, rx, tx, rx_pdu, locals, belief>>

\* Not at the destination: the next cell, the heading, and the start of
\* rotate_to_heading, which stops the motors and counts the quarter turns.
ExePlan ==
    /\ At("check") /\ ~blocked_flag
    /\ rx_pdu.cmd = "MOVE" /\ position # rx_pdu.to
    /\ next' = CalcNextCoord(position, rx_pdu.to)
    /\ new_heading' = CalcHeading(position, rx_pdu.to)
    /\ LET res == QuarterTurns(fake_heading, new_heading')
       IN  /\ turns' = IF res < 0 THEN -res ELSE res
           /\ turn_left' = (res < 0)
    /\ Drive("STOP")
    /\ Goto("turn")
    /\ UNCHANGED <<alert, rx, tx, state, rx_pdu, done, belief>>

\* At the destination: done is set, but the round goes on with the old next cell
\* and without rotating (calc_heading returns -1).
ExeArrived ==
    /\ At("check") /\ ~blocked_flag
    /\ rx_pdu.cmd = "MOVE" /\ position = rx_pdu.to
    /\ done' = TRUE
    /\ Goto("recheck")
    /\ UNCHANGED <<alert, world, rx, tx, state, rx_pdu, next, turns, turn_left,
                   new_heading, belief>>

\* A command other than MOVE, reached when a collision is resumed: stop, done.
ExeNotMove ==
    /\ At("check") /\ ~blocked_flag
    /\ rx_pdu.cmd # "MOVE"
    /\ done' = TRUE
    /\ Drive("STOP")
    /\ Goto("progress")
    /\ UNCHANGED <<alert, rx, tx, state, rx_pdu, next, turns, turn_left, new_heading,
                   belief>>

\* rotate_to_heading: turn, tell the client, sleep, stop; once per quarter turn.
TurnStart ==
    /\ At("turn") /\ turns > 0
    /\ Drive(IF turn_left THEN "LEFT" ELSE "RIGHT")
    /\ Goto("turn_msg")
    /\ UNCHANGED <<alert, rx, tx, state, rx_pdu, locals, belief>>

TurnMsg == Say("turn_msg", "turning")

TurnEnd ==
    /\ At("turning")
    /\ Drive("STOP")
    /\ turns' = turns - 1
    /\ Goto("turn")
    /\ UNCHANGED <<alert, rx, tx, state, rx_pdu, done, next, turn_left, new_heading,
                   belief>>

Rotated ==
    /\ At("turn") /\ turns = 0
    /\ fake_heading' = new_heading
    /\ Goto("recheck")
    /\ UNCHANGED <<alert, world, rx, tx, state, rx_pdu, locals, position>>

\* Second look at the flag, then the message, then forward, then the sleep.
Recheck ==
    /\ At("recheck") /\ ~blocked_flag
    /\ Goto("forward_msg")
    /\ UNCHANGED <<alert, world, rx, tx, state, rx_pdu, locals, belief>>

ForwardMsg == Say("forward_msg", "forward")

Forward ==
    /\ At("forward")
    /\ Drive("FORW")
    /\ Goto("driving")
    /\ UNCHANGED <<alert, rx, tx, state, rx_pdu, locals, belief>>

\* After the sleep: stop, and take the next cell for the position.  If next was
\* never assigned its content is arbitrary (of the 256 values of a uint8_t, those
\* on the grid of the instance).
ForwardEnd ==
    /\ At("driving")
    /\ Drive("STOP")
    /\ position' \in IF next = Unset THEN Positions ELSE {next}
    /\ Goto("progress")
    /\ UNCHANGED <<alert, rx, tx, state, rx_pdu, locals, fake_heading>>

\* Mutated form of Progress: the loop ends after one round.
ProgressOnce == Say("progress", "finish")

Progress == Say("progress", IF done THEN "finish" ELSE "check")

\* Mutated form of Finish: forgets to go back to waiting.
FinishKeepsState == Say("finish", "top")

Finish ==
    /\ At("finish")
    /\ tx < TxCap
    /\ tx' = tx + 1
    /\ state' = "WAIT_CMD"
    /\ Goto("top")
    /\ UNCHANGED <<alert, world, rx, rx_pdu, locals, belief>>

----------------------------------------------------------------------------
(* col_handler: while the pin is high, stop, tell the client, beep          *)

ColStop ==
    /\ At("col") /\ pin
    /\ Drive("STOP")
    /\ Goto("col_msg")
    /\ UNCHANGED <<alert, rx, tx, state, rx_pdu, locals, belief>>

ColMsg == Say("col_msg", "beep")

Beep ==
    /\ At("beep")
    /\ speaker' = TRUE
    /\ Goto("beeping")
    /\ UNCHANGED <<alert, blocked_flag, motor, rx, tx, state, rx_pdu, locals, belief>>

\* Mutated form of BeepEnd: the speaker is left on between two rounds.
BeepEndLeavesOn ==
    /\ At("beeping")
    /\ Goto("col")
    /\ UNCHANGED <<alert, world, rx, tx, state, rx_pdu, locals, belief>>

\* Mutated form of BeepEnd: the motors are stopped in the first round only.
BeepEndStopsOnce ==
    /\ At("beeping")
    /\ speaker' = FALSE
    /\ Goto(IF pin THEN "col_msg" ELSE "col")
    /\ UNCHANGED <<alert, blocked_flag, motor, rx, tx, state, rx_pdu, locals, belief>>

BeepEnd ==
    /\ At("beeping")
    /\ speaker' = FALSE
    /\ Goto("col")
    /\ UNCHANGED <<alert, blocked_flag, motor, rx, tx, state, rx_pdu, locals, belief>>

\* The pin is read low: the loop ends.
ColClear ==
    /\ At("col") /\ ~pin
    /\ Goto("col_end")
    /\ UNCHANGED <<alert, world, rx, tx, state, rx_pdu, locals, belief>>

\* "try to resume previous command"; an alert may have come since.
ColLeave ==
    /\ At("col_end")
    /\ speaker' = FALSE
    /\ state' = "EXE_CMD"
    /\ Goto("top")
    /\ UNCHANGED <<alert, blocked_flag, motor, rx, tx, rx_pdu, locals, belief>>

----------------------------------------------------------------------------
Wait == WaitStop \/ GetCommand \/ DirectCommand \/ Report

Exe ==
    \/ ExeBlocked("check") \/ ExePlan \/ ExeArrived \/ ExeNotMove
    \/ TurnStart \/ TurnMsg \/ TurnEnd \/ Rotated
    \/ ExeBlocked("recheck") \/ Recheck
    \/ ForwardMsg \/ Forward \/ ForwardEnd \/ Progress \/ Finish

Col == ColStop \/ ColMsg \/ Beep \/ BeepEnd \/ ColClear \/ ColLeave

Thread == Dispatch \/ Reset \/ Wait \/ Exe \/ Col

Next == Thread \/ SafetyHandler \/ AlertEdge \/ ClientSends \/ ClientReads

Spec == Init /\ [][Next]_vars

\* The thread runs, interrupts are taken, the update client reads.
FairSpec == Spec /\ WF_vars(Thread) /\ WF_vars(SafetyHandler) /\ WF_vars(ClientReads)

----------------------------------------------------------------------------
(* Properties                                                               *)

Labels == {"top", "reset", "wait", "get", "direct", "report", "check", "turn", "turn_msg",
           "turning", "recheck", "forward_msg", "forward", "driving", "progress", "finish",
           "col", "col_msg", "beep", "beeping", "col_end"}

\* Types and ranges: the robot never plans or believes a cell off the grid, the
\* heading is one of the four, a rotation is at most three quarter turns.
TypeOK ==
    /\ pin \in BOOLEAN /\ irq \in BOOLEAN
    /\ blocked_flag \in BOOLEAN /\ speaker \in BOOLEAN
    /\ motor \in {"STOP", "FORW", "RVRS", "LEFT", "RIGHT"}
    /\ rx \in Seq(Commands) /\ Len(rx) <= RxCap /\ tx \in 0..TxCap
    /\ pc \in Labels /\ state \in States
    /\ rx_pdu \in Pdus
    /\ done \in BOOLEAN /\ turn_left \in BOOLEAN
    /\ next \in Positions \cup {Unset} /\ position \in Positions
    /\ turns \in 0..3
    /\ new_heading \in Headings /\ fake_heading \in Headings

\* With no edge outstanding the flag is the pin, although the handler reads the
\* pin after the edge and the pin may change again (controlHandler.c:181-197): from
\* the first time the pin is low.  A pin that is high at boot has no edge.
FlagFollowsPin == [](~pin => [](~irq => (blocked_flag <=> pin)))

\* With no edge outstanding the flag is set only if the pin is high, at boot too.
FlagSound == ~irq /\ blocked_flag => pin

\* The speaker, switched by the interrupt and by col_handler, sounds only while
\* the robot is blocked or during col_handler's own beep.
SpeakerOnlyForAlert == speaker => blocked_flag \/ pc = "beeping"

\* Wherever the thread waits for somebody else (a command; the client, after a
\* collision or a finished round; the beep) the motors have been stopped.
RestsStopped ==
    pc \in {"get", "turn", "recheck", "forward_msg", "forward", "progress",
            "finish", "col_msg", "beep", "beeping"} => motor = "STOP"

\* The two path functions agree: when the robot is to drive towards a new cell it
\* believes it faces that cell (calc_next_coord 520-555, calc_heading 486-513).
Faces(p, q, h) ==
    \/ h = HEAD_S /\ q = [p EXCEPT !.x = @ + 1]
    \/ h = HEAD_N /\ p = [q EXCEPT !.x = @ + 1]
    \/ h = HEAD_E /\ q = [p EXCEPT !.y = @ + 1]
    \/ h = HEAD_W /\ p = [q EXCEPT !.y = @ + 1]
FacesNextCell ==
    pc \in {"forward_msg", "forward", "driving"} /\ ~done =>
        Faces(position, next, fake_heading)

\* What exe_handler's locals mean in each of its places: the destination of rx_pdu is
\* the plan's, next is the cell calc_next_coord gave and not yet taken, and after
\* a round the cell taken.  Not assigned, it is used only at the destination.
PlanOK ==
    /\ pc = "direct" => rx_pdu.cmd \in DOMAIN DirectDrive
    /\ pc \in {"turn_msg", "turning"} => turns > 0
    /\ pc \in {"turn", "turn_msg", "turning"} =>
         /\ rx_pdu.cmd = "MOVE" /\ ~done /\ position # rx_pdu.to
         /\ next = CalcNextCoord(position, rx_pdu.to)
         /\ new_heading = CalcHeading(position, rx_pdu.to)
    /\ pc \in {"recheck", "forward_msg", "forward", "driving"} =>
         /\ rx_pdu.cmd = "MOVE"
         /\ done => position = rx_pdu.to /\ next \in {Unset, position}
         /\ ~done => /\ position # rx_pdu.to
                     /\ next = CalcNextCoord(position, rx_pdu.to)
                     /\ fake_heading = CalcHeading(position, rx_pdu.to)
    /\ pc = "check" => ~done /\ next \in {Unset, position}
    /\ pc \in {"progress", "finish"} =>
         /\ ~done => next = position
         /\ rx_pdu.cmd = "MOVE" /\ done /\ next # Unset => position = rx_pdu.to
    /\ pc = "finish" => done

\* Outside the sleeps of exe_handler no motor runs on a MOVE.
StoppedOnMove ==
    rx_pdu.cmd = "MOVE" /\ pc \notin {"turn_msg", "turning", "driving"} => motor = "STOP"

\* The inductive invariant.
IInv == /\ TypeOK /\ FlagSound /\ SpeakerOnlyForAlert
        /\ PlanOK /\ StoppedOnMove /\ RestsStopped

Abs(n) == IF n < 0 THEN -n ELSE n
Distance(p, q) == Abs(p.x - q.x) + Abs(p.y - q.y)

\* Every change of position by a planned cell brings the robot exactly one cell
\* closer to the destination of the command in rx_pdu.
EachMoveApproaches ==
    [][position' # position /\ next # Unset =>
          Distance(position', rx_pdu.to) = Distance(position, rx_pdu.to) - 1]_vars

\* "CMD FINISHED" is said of a MOVE that drove at least one planned cell only at
\* its destination, however often it was interrupted.
FinishedThere ==
    pc = "finish" /\ rx_pdu.cmd = "MOVE" /\ next # Unset => position = rx_pdu.to

\* While no alert ever comes and the client reads, the thread always gets back to
\* taking a command: every command finishes.
ReturnsToWait == <>[](~pin /\ ~irq) => []<>(pc = "get")

\* An alert that comes up and stays ends in the motors stopped for good, whatever
\* commands still arrive.  One already up at boot is not noticed.
AlertStops == <>~pin /\ <>[]pin => <>[](motor = "STOP")

============================================================================
