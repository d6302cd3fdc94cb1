----------------------------- MODULE Telemetry -----------------------------
(***************************************************************************)
(* A position report from the control thread or the sensor thread to the   *)
(* page that shows it: tx_pdu_fifo_g, updateTCP, the connection,           *)
(* update_process of the application, the queue to the web page, the page. *)
(*                                                                         *)
(* Every heading message of the sensor thread carries the position too,    *)
(* read before pdu_fifo_put, which may hold the thread for any time: with  *)
(* two writers it can be stranded asleep beside free slots (PduFifo).      *)
(*                                                                         *)
(* update_process has one PDU object for all reports.  Queue.put keeps a   *)
(* reference to it; the queue's feeder thread writes its fields to the     *)
(* pipe later, while get_buff may be filling in those of the next report,  *)
(* x first and then y.  The text of a report, which nothing depends on, is *)
(* left out; a report is the position it carries.                          *)
(***************************************************************************)
EXTENDS Integers, Sequences, SequencesExt, FiniteSetsExt

CONSTANTS MaxCoord,    \* coordinates are 0..MaxCoord
          NumReports,  \* bound: reports of the control thread
          TxCap,       \* PDU_FIFO_SIZE
          NetCap,      \* bound: frames sent and not received
          WaitCap,     \* bound: puts the feeder has not served
          PipeCap      \* PDUs the pipe of the queue holds

ASSUME TelemetryAssumption ==
    /\ MaxCoord \in Nat /\ NumReports \in Nat
    /\ \A c \in {TxCap, NetCap, WaitCap, PipeCap} : c \in Nat \ {0}

Coords == 0..MaxCoord
Positions == Coords \X Coords
None == -1                     \* None of Python: a field never assigned
Unset == [cmd |-> FALSE, x |-> None, y |-> None]   \* cmd: it is assigned
Whole(p) == [cmd |-> TRUE, x |-> p[1], y |-> p[2]]
Start == <<0, 0>>              \* WHEELSON_DEFAULT_POS, and where the robot begins

\* How the bytes on a broken connection end: an orderly end, or a reset after a part
\* of a frame: less than its two header bytes ("none"), or up to them, cmd, x, y, or
\* msg_len and beyond.
Ends == {"close", "none", "magic", "cmd", "x", "y", "msg"}

VARIABLES
    tx, server, out_pdu,         \* tx_pdu_fifo_g; updateTCP and its local
    sensor, heading_pdu,         \* sensorThread: place; the PDU of send_msg
    up, net, end, part,          \* the connection: whole frames, then its end
    client, rx_pdu, frame,       \* update_process: place, PDU object, bytes
    waiting, pipe,               \* the queue: puts not served, PDUs in the pipe
    session, wheelson_pos,       \* the page's loop runs; what the page shows
    path,                        \* history: all positions reported
    seen,                        \* history: the report the page shows; 0 if none, or
                                 \*   if stale or resumed leave it open
    resumed,                     \* history: the PDU object outlived a connection
    stale                        \* history: the sensor thread put an old position

sensing == <<sensor, heading_pdu, stale>>
robot == <<tx, server, out_pdu, sensing>>
link == <<up, net, end, part>>
reader == <<client, rx_pdu, frame>>
page == <<session, wheelson_pos, seen>>
vars == <<tx, server, out_pdu, sensor, heading_pdu, up, net, end, part, client, rx_pdu, frame, waiting, pipe,
          session, wheelson_pos, path, seen, resumed, stale>>

Init ==
    /\ tx = << >> /\ server = "accept" /\ out_pdu = Start
    /\ sensor = "sleep" /\ heading_pdu = Start
    /\ up = FALSE /\ net = << >> /\ end = "close" /\ part = Start
    /\ client = "connect" /\ rx_pdu = Unset /\ frame = Start
    /\ waiting = 0 /\ pipe = << >>
    /\ session = TRUE /\ wheelson_pos = Start /\ path = <<Start>> /\ seen = 1
    /\ resumed = FALSE /\ stale = FALSE

----------------------------------------------------------------------------
(* The robot.  Here and below a local that is not read again goes back to Start, *)
(* which only saves states.                                                  *)

\* send_new_pos, send_msg, send_blocked_msg, of those that follow a move: of one cell,
\* or anywhere, when a MOVE to the robot's own cell has stored next_x and next_y
\* unassigned.  Reports of the same position are like the sensor thread's.
Report ==
    /\ Len(path) <= NumReports /\ Len(tx) < TxCap
    /\ \E p \in Positions \ {Last(path)} : tx' = Append(tx, p) /\ path' = Append(path, p)
    /\ UNCHANGED <<server, out_pdu, sensing, link, reader, waiting, pipe, page, resumed>>

\* send_heading, once in 41 rounds of sensorThread: the position is read.
SensorReads ==
    /\ sensor = "sleep"
    /\ heading_pdu' = Last(path)
    /\ sensor' = "put"
    /\ UNCHANGED <<tx, server, out_pdu, link, reader, waiting, pipe, page, path, resumed, stale>>

SensorPuts ==
    /\ sensor = "put" /\ Len(tx) < TxCap
    /\ tx' = Append(tx, heading_pdu)
    /\ sensor' = "sleep" /\ heading_pdu' = Start
    /\ stale' = (stale \/ heading_pdu # Last(path))
    /\ seen' = IF stale' THEN 0 ELSE seen
    /\ UNCHANGED <<server, out_pdu, link, reader, waiting, pipe, session, wheelson_pos, path, resumed>>

\* pdu_fifo_get, pdu_fill_buffer.
Get ==
    /\ server = "get" /\ tx # << >>
    /\ out_pdu' = Head(tx) /\ tx' = Tail(tx)
    /\ server' = "send"
    /\ UNCHANGED <<sensing, link, reader, waiting, pipe, page, path, resumed>>

Send ==
    /\ server = "send" /\ up /\ Len(net) < NetCap
    /\ net' = Append(net, out_pdu)
    /\ server' = "get" /\ out_pdu' = Start
    /\ UNCHANGED <<tx, sensing, up, end, part, reader, waiting, pipe, page, path, resumed>>

\* The connection is lost: send may still accept the bytes, or fail, which ends the
\* inner loop.  The report is gone.
SendNowhere ==
    /\ server = "send" /\ ~up
    /\ server' \in {"get", "accept"} /\ out_pdu' = Start
    /\ UNCHANGED <<tx, sensing, link, reader, waiting, pipe, page, path, resumed>>

----------------------------------------------------------------------------
(* The connection                                                            *)

\* accept; the client has been waiting in wait_for_server or in the backlog.
Accept ==
    /\ server = "accept" /\ client = "connect"
    /\ server' = "get" /\ client' = "recv"
    /\ up' = TRUE /\ net' = << >> /\ end' = "close" /\ part' = Start
    /\ resumed' = (rx_pdu # Unset)
    /\ seen' = IF resumed' THEN 0 ELSE seen
    /\ UNCHANGED <<tx, out_pdu, sensing, rx_pdu, frame, waiting, pipe, session, wheelson_pos, path>>

\* Of the frames under way the first n still arrive, and a part of the next one.
Break ==
    /\ up
    /\ up' = FALSE
    /\ \E n \in 0..Len(net) :
         /\ net' = SubSeq(net, 1, n)
         /\ end' \in IF n < Len(net) THEN Ends ELSE {"close", "none"}
         /\ part' = IF end' \in {"x", "y", "msg"} THEN net[n + 1] ELSE Start
    /\ UNCHANGED <<robot, reader, waiting, pipe, page, path, resumed>>

----------------------------------------------------------------------------
(* update_process                                                            *)

\* receive returns a frame; get_buff assigns cmd and x.
ParseX ==
    /\ client = "recv" /\ net # << >>
    /\ frame' = Head(net) /\ net' = Tail(net)
    /\ rx_pdu' = [rx_pdu EXCEPT !.cmd = TRUE, !.x = Head(net)[1]]
    /\ client' = "y"
    /\ UNCHANGED <<robot, up, end, part, waiting, pipe, page, path, resumed>>

\* Mutated form of ParseY: y keeps its value.
ParseYNot ==
    /\ client = "y"
    /\ rx_pdu' = IF rx_pdu.y = None THEN Whole(frame) ELSE rx_pdu
    /\ client' = "put"
    /\ UNCHANGED <<robot, link, frame, waiting, pipe, page, path, resumed>>

\* get_buff assigns y.
ParseY ==
    /\ client = "y"
    /\ rx_pdu' = Whole(frame)
    /\ client' = "put" /\ frame' = Start
    /\ UNCHANGED <<robot, link, waiting, pipe, page, path, resumed>>

\* out_fifo.put(rx_pdu).
Put ==
    /\ client = "put" /\ waiting < WaitCap
    /\ waiting' = waiting + 1
    /\ client' = "recv"
    /\ UNCHANGED <<robot, link, rx_pdu, frame, pipe, page, path, resumed>>

\* The peer closed the connection: recv returns nothing for ever and receive, which
\* counts bytes, never returns.
Hang ==
    /\ client = "recv" /\ ~up /\ net = << >> /\ end = "close"
    /\ client' = "hung"
    /\ UNCHANGED <<robot, link, rx_pdu, frame, waiting, pipe, page, path, resumed>>

\* A reset in the middle of a frame: receive returns what it has, get_buff assigns
\* the fields that are there and raises an exception: wait_for_server.
Resume ==
    /\ client = "recv" /\ ~up /\ net = << >> /\ end \in {"magic", "cmd", "x", "y"}
    /\ rx_pdu' = CASE end = "magic" -> rx_pdu
                   [] end = "cmd"   -> [rx_pdu EXCEPT !.cmd = TRUE]
                   [] end = "x"     -> [rx_pdu EXCEPT !.cmd = TRUE, !.x = part[1]]
                   [] end = "y"     -> Whole(part)
    /\ client' = "connect"
    /\ UNCHANGED <<robot, link, frame, waiting, pipe, page, path, resumed>>

\* A reset behind all the fields: the report is put like a whole one.
LastPart ==
    /\ client = "recv" /\ ~up /\ net = << >> /\ end = "msg"
    /\ frame' = part /\ rx_pdu' = [rx_pdu EXCEPT !.cmd = TRUE, !.x = part[1]]
    /\ client' = "y"
    /\ end' = "none"
    /\ part' = Start
    /\ UNCHANGED <<robot, up, net, waiting, pipe, page, path, resumed>>

\* A reset before any field: get_buff finds no frame and raises nothing; the PDU is
\* put again, and again, as the closed socket gives no more bytes.
PutForEver ==
    /\ client = "recv" /\ ~up /\ net = << >> /\ end = "none" /\ waiting < WaitCap
    /\ waiting' = waiting + 1
    /\ UNCHANGED <<robot, link, reader, pipe, page, path, resumed>>

Dead == client = "hung" \/ (client = "recv" /\ ~up /\ net = << >> /\ end = "none")

\* The user starts the application again, page and all.  The page counts as showing the
\* first report; what it showed before stays a lower bound for what is still under way,
\* but after a resumed connection, which tells nothing of the order.
Restart ==
    /\ Dead
    /\ client' = "connect" /\ rx_pdu' = Unset /\ frame' = Start
    /\ waiting' = 0 /\ pipe' = << >>
    /\ session' = TRUE /\ wheelson_pos' = Start
    /\ seen' = IF resumed /\ ~stale THEN 1 ELSE seen
    /\ resumed' = FALSE
    /\ UNCHANGED <<robot, link, path>>

----------------------------------------------------------------------------
(* The queue and the page                                                    *)

\* Mutated form of Feed: the pipe takes any number of PDUs.
FeedAlways ==
    /\ waiting > 0
    /\ pipe' = Append(pipe, rx_pdu)
    /\ waiting' = waiting - 1
    /\ UNCHANGED <<robot, link, reader, page, path, resumed>>

\* The feeder serves the next put with the fields as they are now.
Feed ==
    /\ waiting > 0 /\ Len(pipe) < PipeCap
    /\ pipe' = Append(pipe, rx_pdu)
    /\ waiting' = waiting - 1
    /\ UNCHANGED <<robot, link, reader, page, path, resumed>>

\* Of the reports s, number k went along both axes at once.
Jump(s, k) == k > 1 /\ s[k][1] # s[k - 1][1] /\ s[k][2] # s[k - 1][2]

\* Position p is that of report k or, at a jump, x of report k and y of the one before.
Shows(s, k, p) == s[k] = p \/ (Jump(s, k) /\ p = <<s[k][1], s[k - 1][2]>>)

\* The first report from number m on that p shows, 0 if there is none.
Found(m, p) ==
    LET all == {k \in DOMAIN path : k >= m /\ Shows(path, k, p)}
    IN  IF m = 0 \/ all = {} THEN 0 ELSE Min(all)

\* Mutated form of Show: the position has changed only if both coordinates have.
ShowBoth ==
    /\ session /\ pipe # << >>
    /\ pipe' = Tail(pipe)
    /\ LET pdu == Head(pipe)
       IN  IF ~pdu.cmd \/ pdu.x = wheelson_pos[1] \/ pdu.y = wheelson_pos[2] THEN UNCHANGED page
           ELSE IF None \in {pdu.x, pdu.y} THEN session' = FALSE /\ UNCHANGED <<wheelson_pos, seen>>
           ELSE /\ wheelson_pos' = <<pdu.x, pdu.y>> /\ seen' = Found(seen, wheelson_pos')
                /\ UNCHANGED session
    /\ UNCHANGED <<robot, link, reader, waiting, path, resumed>>

\* The loop of webpage.  A PDU without cmd is no update; one without coordinates ends
\* the loop, as int(None) raises an exception.
Show ==
    /\ session /\ pipe # << >>
    /\ pipe' = Tail(pipe)
    /\ LET pdu == Head(pipe)
       IN  IF ~pdu.cmd THEN UNCHANGED page
           ELSE IF None \in {pdu.x, pdu.y} THEN session' = FALSE /\ UNCHANGED <<wheelson_pos, seen>>
           ELSE /\ wheelson_pos' = <<pdu.x, pdu.y>> /\ seen' = Found(seen, wheelson_pos')
                /\ UNCHANGED session
    /\ UNCHANGED <<robot, link, reader, waiting, path, resumed>>

\* The user opens the page again; wheelson_pos is a global variable.
Reopen ==
    /\ ~session
    /\ session' = TRUE
    /\ UNCHANGED <<robot, link, reader, waiting, pipe, wheelson_pos, seen, path, resumed>>

----------------------------------------------------------------------------
Next ==
    \/ Report \/ SensorReads \/ SensorPuts
    \/ Get \/ Send \/ SendNowhere
    \/ Accept \/ Break
    \/ ParseX \/ ParseY \/ Put \/ Hang \/ Resume \/ LastPart \/ PutForEver \/ Restart
    \/ Feed \/ Show \/ Reopen

Spec == Init /\ [][Next]_vars

\* updateTCP, update_process, the feeder, the page and the sensor thread run, but nothing
\* says that a put of the sensor thread returns.  Nothing makes the control thread report,
\* the connection hold or the user start the application or the page again.
FairSpec ==
    /\ Spec
    /\ WF_vars(SensorReads)
    /\ WF_vars(Get \/ Send) /\ WF_vars(ParseX \/ ParseY \/ Put)
    /\ WF_vars(Feed) /\ WF_vars(Show)

----------------------------------------------------------------------------
(* Properties                                                                *)

\* Types and ranges.
Fields == [cmd : BOOLEAN, x : Coords \cup {None}, y : Coords \cup {None}]
TypeOK ==
    /\ tx \in Seq(Positions) /\ Len(tx) <= TxCap
    /\ sensor \in {"sleep", "put"} /\ heading_pdu \in Positions
    /\ server \in {"accept", "get", "send"} /\ out_pdu \in Positions
    /\ up \in BOOLEAN /\ net \in Seq(Positions) /\ Len(net) <= NetCap
    /\ end \in Ends /\ part \in Positions
    /\ client \in {"connect", "recv", "y", "put", "hung"} /\ rx_pdu \in Fields /\ frame \in Positions
    /\ waiting \in 0..WaitCap /\ pipe \in Seq(Fields) /\ Len(pipe) <= PipeCap
    /\ path \in Seq(Positions) /\ seen \in 0..Len(path)
    /\ session \in BOOLEAN /\ wheelson_pos \in Positions
    /\ resumed \in BOOLEAN /\ stale \in BOOLEAN

\* The page lives and shows positions the robot reported, and in their order, although
\* the feeder may find x of one report and y of the one before: a planned cell differs
\* along one axis only (cmd_client.py:166-179, 56-58, controlHandler.c:520-555).  Where
\* a report jumps along both axes (controlHandler.c:315) it may show that mixture.  The
\* order is lost when the sensor thread puts a position the robot has left since it
\* was read (sensorHandler.c:92-98), all of it when the PDU object has outlived a
\* connection and reports were lost in between.
ShownIsReal == resumed \/ (session /\ (stale \/ seen # 0))

\* Once a connection holds and the page runs, it comes to show where the robot is, and
\* keeps showing it, whatever reports were lost or came late before: the sensor thread
\* reports the position again, unless put never returns to it
\* (sensorHandler.c:73-98, tcpHandler.c:152-173, cmd_client.py:164-181, bridge.py:155-178).
CaughtUp == <>[](up /\ session) /\ []<>(sensor = "sleep") => <>[](wheelson_pos = Last(path))
=============================================================================
