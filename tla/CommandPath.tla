---------------------------- MODULE CommandPath ----------------------------
(***************************************************************************)
(* A command from cmd_process of the web application to the rx FIFO of the *)
(* robot: put_buff makes a frame of its own length (a header, the command, *)
(* a message), the connection is a stream of bytes, and commandTCP takes   *)
(* whatever one recv returns, up to PDU_SIZE + 2 bytes, for one frame.     *)
(*                                                                         *)
(* What one recv returns depends on the network and on how long commandTCP *)
(* was held by a full FIFO: any number of the bytes that have arrived.     *)
(* The bytes of a frame are numbered: 1 and 2 are the header, 3 and 4 stand *)
(* for the fields (command and coordinates), the rest for the message.     *)
(* in_buff and in_pdu live as long as the thread, over all connections.    *)
(***************************************************************************)
EXTENDS Integers, Sequences, SequencesExt

CONSTANTS NumCmds,    \* bound: commands the user gives
          FrameLen,   \* bytes of a frame as put_buff makes it
          RecvMax,    \* PDU_SIZE + 2: bytes of in_buff
          RxCap,      \* PDU_FIFO_SIZE
          NetCap      \* bound: bytes sent and not received

ASSUME PathAssumption ==
    /\ NumCmds \in Nat /\ FrameLen \in Nat /\ FrameLen >= 5 /\ RecvMax \in Nat
    /\ RecvMax >= FrameLen /\ RxCap \in Nat \ {0} /\ NetCap \in Nat

Cmds == 1..NumCmds
Junk == [cmd |-> 0, k |-> 0]   \* memory never written
Byte == [cmd : Cmds, k : 1..FrameLen] \cup {Junk}
Frame(n) == [k \in 1..FrameLen |-> [cmd |-> n, k |-> k]]

\* A PDU is the two bytes its fields were copied from.
Pdu(a, b) == [first |-> a, second |-> b]
Command(n) == Pdu([cmd |-> n, k |-> 3], [cmd |-> n, k |-> 4])

VARIABLES
    next,                  \* the next command in the pipe of cmd_process
    up, net,               \* the connection; bytes sent and not received
    pc, in_buff, in_pdu,   \* commandTCP and its locals
    rx,                    \* rx_pdu_fifo_g
    queued,                \* history: all that was put into rx
    cut, short, merged, dropped   \* history: of the recv calls and the connection

history == <<cut, short, merged, dropped>>
vars == <<next, up, net, pc, in_buff, in_pdu, rx, queued, cut, short, merged, dropped>>

Init ==
    /\ next = 1 /\ up = FALSE /\ net = << >>
    /\ pc = "accept" /\ in_buff = [k \in 1..RecvMax |-> Junk] /\ in_pdu = Pdu(Junk, Junk)
    /\ rx = << >> /\ queued = << >>
    /\ cut = FALSE /\ short = FALSE /\ merged = FALSE /\ dropped = FALSE

----------------------------------------------------------------------------
(* cmd_process                                                               *)

\* A command of the pipe is sent.
Send ==
    /\ up /\ next \in Cmds
    /\ Len(net) + FrameLen <= NetCap
    /\ net' = net \o Frame(next)
    /\ next' = next + 1
    /\ UNCHANGED <<up, pc, in_buff, in_pdu, rx, queued, history>>

\* The connection is gone: send fails, or the bytes go nowhere; either way the
\* command taken from the pipe is not sent again.
SendFails ==
    /\ ~up /\ dropped /\ next \in Cmds
    /\ next' = next + 1
    /\ UNCHANGED <<up, net, pc, in_buff, in_pdu, rx, queued, history>>

\* wait_for_server connects and commandTCP accepts.
Connect ==
    /\ ~up /\ pc = "accept"
    /\ up' = TRUE /\ pc' = "recv"
    /\ UNCHANGED <<next, net, in_buff, in_pdu, rx, queued, history>>

\* The connection breaks: of the bytes under way only the first n arrive.
Break ==
    /\ up
    /\ up' = FALSE /\ dropped' = TRUE
    /\ \E n \in 0..Len(net) : net' = SubSeq(net, 1, n)
    /\ UNCHANGED <<next, pc, in_buff, in_pdu, rx, queued, cut, short, merged>>

----------------------------------------------------------------------------
(* commandTCP                                                                *)

\* Mutated form of ReadBuffer: the header is not looked at.
ReadBufferBlindly(buff, old) == Pdu(buff[3], buff[4])

\* pdu_read_buffer: without a header the PDU stays as it is.
ReadBuffer(buff, old) ==
    IF buff[1].k = 1 /\ buff[2].k = 2 THEN Pdu(buff[3], buff[4]) ELSE old

\* recv returns the first n bytes; what pdu_read_buffer returns is ignored.
Recv ==
    /\ pc = "recv"
    /\ \E n \in 1..(IF Len(net) < RecvMax THEN Len(net) ELSE RecvMax) :
         /\ in_buff' = [k \in 1..RecvMax |-> IF k <= n THEN net[k] ELSE in_buff[k]]
         /\ net' = SubSeq(net, n + 1, Len(net))
         /\ cut' = (cut \/ net[1].k # 1 \/ net[n].k # FrameLen)
         /\ short' = (short \/ (net[1].k = 1 /\ n < 4))
         /\ merged' = (merged \/ n > FrameLen)
    /\ in_pdu' = ReadBuffer(in_buff', in_pdu)
    /\ pc' = "put"
    /\ UNCHANGED <<next, up, rx, queued, dropped>>

\* Mutated form of Put: when the FIFO is full the command is dropped.
PutOrDrop ==
    /\ pc = "put"
    /\ IF Len(rx) < RxCap THEN rx' = Append(rx, in_pdu) /\ queued' = Append(queued, in_pdu)
                          ELSE UNCHANGED <<rx, queued>>
    /\ pc' = "recv"
    /\ UNCHANGED <<next, up, net, in_buff, in_pdu, history>>

\* Mutated form of Put: a put that had to wait is done once more.
PutAgain ==
    /\ pc = "put" /\ Len(rx) < RxCap
    /\ rx' = Append(rx, in_pdu) /\ queued' = Append(queued, in_pdu)
    /\ pc' = IF queued # << >> /\ Last(queued) # in_pdu THEN "put" ELSE "recv"
    /\ UNCHANGED <<next, up, net, in_buff, in_pdu, history>>

\* Mutated form of Put: it does not wait.
PutAtOnce ==
    /\ pc = "put"
    /\ rx' = Append(rx, in_pdu) /\ queued' = Append(queued, in_pdu)
    /\ pc' = "recv"
    /\ UNCHANGED <<next, up, net, in_buff, in_pdu, history>>

\* pdu_fifo_put waits while the FIFO is full.
Put ==
    /\ pc = "put" /\ Len(rx) < RxCap
    /\ rx' = Append(rx, in_pdu) /\ queued' = Append(queued, in_pdu)
    /\ pc' = "recv"
    /\ UNCHANGED <<next, up, net, in_buff, in_pdu, history>>

\* recv returns 0 or an error.
Dropped ==
    /\ pc = "recv" /\ ~up /\ net = << >>
    /\ pc' = "accept"
    /\ UNCHANGED <<next, up, net, in_buff, in_pdu, rx, queued, history>>

\* The control thread takes a command.
ControlTakes ==
    /\ rx # << >>
    /\ rx' = Tail(rx)
    /\ UNCHANGED <<next, up, net, pc, in_buff, in_pdu, queued, history>>

Next == Send \/ SendFails \/ Connect \/ Break \/ Recv \/ Put \/ Dropped \/ ControlTakes

Spec == Init /\ [][Next]_vars

----------------------------------------------------------------------------
(* Properties                                                                *)

\* Types and ranges.
TypeOK ==
    /\ next \in 1..(NumCmds + 1) /\ up \in BOOLEAN /\ Len(net) <= NetCap
    /\ \A k \in DOMAIN net : net[k] \in Byte
    /\ pc \in {"accept", "recv", "put"}
    /\ in_buff \in [1..RecvMax -> Byte] /\ in_pdu \in [first : Byte, second : Byte]
    /\ Len(rx) <= RxCap
    /\ pc = "accept" => ~up /\ net = << >>

\* However recv cuts and joins the frames, nothing is queued that was not sent and
\* nothing older than what was queued before: a wrong piece of the stream only
\* repeats the last command.  This needs every recv that begins a frame to return
\* its fields too; else the fields of an older frame in in_buff are taken for them
\* (tcpHandler.c:235-242, shared.c:190-198).
Number(p) == p.first.cmd
NeverOlder ==
    ~short => /\ \A i \in DOMAIN queued : \E n \in Cmds : n < next /\ queued[i] = Command(n)
              /\ \A i, j \in DOMAIN queued : i < j => Number(queued[i]) <= Number(queued[j])

\* As long as every recv returned whole frames no command is queued twice, over any
\* number of connections.
NeverTwice ==
    ~cut => \A i, j \in DOMAIN queued : i < j => Number(queued[i]) < Number(queued[j])

\* As long as every recv returned one whole frame and the connection held, every
\* command sent is queued, in order, also when the FIFO was full.
NoneLost ==
    ~cut /\ ~merged /\ ~dropped =>
        /\ \A n \in DOMAIN queued : queued[n] = Command(n)
        /\ net = << >> /\ pc # "put" => Len(queued) = next - 1
============================================================================
