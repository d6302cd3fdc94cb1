------------------------------ MODULE Camera ------------------------------
(***************************************************************************)
(* A picture from the camera's FIFO to the client that saves it: camCapture *)
(* copies it byte by byte into the buffers of cam_buff_tab, camTCP sends    *)
(* whole buffers, jpeg_client finds the pictures again in the stream.       *)
(*                                                                          *)
(* There is no framing: a picture starts at FF D8 and ends at FF D9, the    *)
(* rest of its last buffer holds bytes of older pictures and is sent too.   *)
(* A buffer is sent and released in one step: nothing is written into it    *)
(* meanwhile but the byte of an overrun (PingPong, OnlyOverrun), which the  *)
(* client finds in it or not, as if it had come before or after the step.   *)
(* send on a blocking socket takes the whole buffer or fails with the       *)
(* connection (SendPart): a short count is not considered.                  *)
(* RX_SIZE is CAM_BUFFER_SIZE, so the client too receives whole buffers;    *)
(* how long they are under way makes no difference to either side.          *)
(*                                                                          *)
(* Assumed of the camera: its FIFO holds one whole picture and padding, and *)
(* no FF D8 or FF D9 inside a picture.                                      *)
(***************************************************************************)
EXTENDS Integers, Sequences, SequencesExt

CONSTANTS NumBuffs,  \* NUM_CAM_BUFFERS
          Size,      \* CAM_BUFFER_SIZE
          Lengths,   \* lengths of pictures, markers included
          Recent     \* bound: how many pictures the history keeps

ASSUME SizeAssumption ==
    NumBuffs \in Nat \ {0} /\ Size \in Nat /\ Size >= 2 /\ Recent \in Nat \ {0}
ASSUME LengthAssumption == Lengths \subseteq Nat /\ \A n \in Lengths : n >= 5

FF == 255
D8 == 216
D9 == 217
Padding == 0

\* The bytes between the markers are the number of the picture.
Ids == 1..(Recent + 1)
Byte == {FF, D8, D9, Padding} \cup Ids

\* The history is long enough for what is under way, and numbers are no markers.
ASSUME HistoryAssumption == Recent > NumBuffs /\ Recent + 1 < D8
Image(p) == <<FF, D8>> \o [k \in 1..(p.len - 4) |-> p.id] \o <<FF, D9>>

\* The last byte of p finds its buffer full.
Overruns(p) == p.len % Size = 1

Buffs == 0..(NumBuffs - 1)
Cells == 0..(Size - 1)

VARIABLES
    data, w, r, avail,            \* cam_data; wptr, rptr and avail of cam_buff_tab
    pc, fifo,                     \* camCapture: place, bytes not read yet
    temp, temp_last, is_header, i,
    server, up, pending,          \* camTCP; its connection works; a client waits in listen
    client,                       \* the locals of jpeg_client, or Gone
    saved,                        \* what the last step of the client saved
    pics                          \* history: latest pictures, oldest first, not yet saved

capture == <<pc, fifo, temp, temp_last, is_header, i>>
peers == <<server, up, pending, client>>
vars == <<data, w, r, avail, pc, fifo, temp, temp_last, is_header, i,
          server, up, pending, client, saved, pics>>

Gone == [on |-> FALSE, header |-> FALSE, temp |-> 0, image |-> << >>]
Fresh == [Gone EXCEPT !.on = TRUE]

Init ==
    /\ data = [b \in Buffs |-> [k \in Cells |-> 0]]
    /\ w = 0 /\ r = 0 /\ avail = 0
    /\ pc = "idle" /\ fifo = << >>
    /\ temp = 0 /\ temp_last = 0 /\ is_header = FALSE /\ i = 0
    /\ server = "accept" /\ up = FALSE /\ pending = FALSE
    /\ client = Gone
    /\ saved = << >> /\ pics = << >>

----------------------------------------------------------------------------
(* camThread and camCapture                                                  *)

NextId == IF pics = << >> THEN 1 ELSE (Last(pics).id % (Recent + 1)) + 1

\* A capture is complete.  At most one picture of the history overruns: a chain
\* of them would make one file of any length.
StartCapture ==
    /\ pc = "idle"
    /\ \E n \in Lengths :
         LET p == [id |-> NextId, len |-> n]
         IN  /\ Overruns(p) => \A k \in DOMAIN pics : ~Overruns(pics[k])
             /\ fifo' = Append(Image(p), Padding)
             /\ pics' = Append(IF Len(pics) = Recent THEN Tail(pics) ELSE pics, p)
    /\ temp' = 0 /\ temp_last' = 0 /\ is_header' = FALSE /\ i' = 0
    /\ pc' = "get"
    /\ saved' = << >>
    /\ UNCHANGED <<data, w, r, avail, peers>>

\* Mutated form of GetBuffer: it does not wait for a free buffer.
GetBufferAtOnce ==
    /\ pc = "get"
    /\ pc' = "read"
    /\ saved' = << >>
    /\ UNCHANGED <<data, w, r, avail, fifo, temp, temp_last, is_header, i, peers, pics>>

\* ppipc_get_buffer for the writer: waits while all buffers are full.
GetBuffer ==
    /\ pc = "get" /\ avail < NumBuffs
    /\ pc' = "read"
    /\ saved' = << >>
    /\ UNCHANGED <<data, w, r, avail, fifo, temp, temp_last, is_header, i, peers, pics>>

\* cam_buffer->data[n] = x.  One past the end of a buffer is the first byte of the
\* next one (cam_data is one array) or, after the last, memory of somebody else.
Store(d, n, x) ==
    IF n < Size THEN [d EXCEPT ![w][n] = x]
    ELSE IF w + 1 < NumBuffs THEN [d EXCEPT ![w + 1][0] = x]
    ELSE d

\* Mutated form of HandOver: the buffer is not counted.
HandOverUncounted == w' = (w + 1) % NumBuffs /\ UNCHANGED avail

\* ppipc_update_buffer for the writer.
HandOver == avail' = avail + 1 /\ w' = (w + 1) % NumBuffs

Marker(x) == fifo # << >> /\ Head(fifo) = x /\ temp = FF
ReadByte == temp' = Head(fifo) /\ temp_last' = temp /\ fifo' = Tail(fifo)

\* End of the picture: stored without a look at the size of the buffer.
EndOfImage ==
    /\ pc = "read" /\ Marker(D9)
    /\ ReadByte
    /\ data' = Store(data, i, D9)
    /\ is_header' = FALSE /\ i' = 0
    /\ saved' = << >>
    /\ UNCHANGED <<w, r, avail, pc, peers, pics>>

Body ==
    /\ pc = "read" /\ fifo # << >> /\ ~Marker(D9) /\ is_header /\ i < Size
    /\ ReadByte
    /\ data' = Store(data, i, Head(fifo))
    /\ i' = i + 1
    /\ saved' = << >>
    /\ UNCHANGED <<w, r, avail, pc, is_header, peers, pics>>

\* The buffer is full: it is handed over; the byte goes to the next one.
FlushFull ==
    /\ pc = "read" /\ fifo # << >> /\ ~Marker(D9) /\ is_header /\ i >= Size
    /\ HandOver
    /\ i' = 0
    /\ pc' = "get"
    /\ saved' = << >>
    /\ UNCHANGED <<data, r, fifo, temp, temp_last, is_header, peers, pics>>

Header ==
    /\ pc = "read" /\ ~is_header /\ Marker(D8)
    /\ ReadByte
    /\ data' = Store(Store(data, i, FF), i + 1, D8)
    /\ is_header' = TRUE /\ i' = i + 2
    /\ saved' = << >>
    /\ UNCHANGED <<w, r, avail, pc, peers, pics>>

\* Before the first header and after the end.
Skip ==
    /\ pc = "read" /\ fifo # << >> /\ ~is_header /\ ~Marker(D8) /\ ~Marker(D9)
    /\ ReadByte
    /\ saved' = << >>
    /\ UNCHANGED <<data, w, r, avail, pc, is_header, i, peers, pics>>

FlushLast ==
    /\ pc = "read" /\ fifo = << >>
    /\ HandOver
    /\ pc' = "idle"
    /\ saved' = << >>
    /\ UNCHANGED <<data, r, fifo, temp, temp_last, is_header, i, peers, pics>>

CamThread == StartCapture \/ GetBuffer \/ EndOfImage \/ Body \/ FlushFull \/ Header
             \/ Skip \/ FlushLast

----------------------------------------------------------------------------
(* jpeg_client                                                               *)

\* Mutated form of Take: the end of an image is looked for without a header too.
TakeAnyEnd(c, x) ==
    LET next == [c EXCEPT !.temp = x]
    IN  IF x = D9 /\ c.temp = FF
        THEN [next EXCEPT !.header = FALSE, !.image = << >>, !.saved = Append(@, Append(c.image, x))]
        ELSE IF c.header THEN [next EXCEPT !.image = Append(@, x)]
        ELSE IF x = D8 /\ c.temp = FF THEN [next EXCEPT !.header = TRUE, !.image = @ \o <<FF, D8>>]
        ELSE next

\* One byte of the loop over data.
Take(c, x) ==
    LET next == [c EXCEPT !.temp = x]
    IN  IF c.header
        THEN IF x = D9 /\ c.temp = FF
             THEN [next EXCEPT !.header = FALSE, !.image = << >>,
                               !.saved = Append(@, Append(c.image, x))]
             ELSE [next EXCEPT !.image = Append(@, x)]
        ELSE IF x = D8 /\ c.temp = FF
             THEN [next EXCEPT !.header = TRUE, !.image = @ \o <<FF, D8>>]
             ELSE next

\* The client after the first n bytes of a buffer, with the images it saves on the
\* way (temp_last is the temp of the byte before).
Process(c, buffer, n) ==
    LET after[k \in 0..n] ==
          IF k = 0 THEN [header |-> c.header, temp |-> c.temp, image |-> c.image,
                         saved |-> << >>]
          ELSE Take(after[k - 1], buffer[k - 1])
    IN  after[n]

\* History: a picture saved whole and those before it are done with.
Forget(images) ==
    LET done == {k \in DOMAIN pics : \E n \in DOMAIN images : images[n] = Image(pics[k])}
    IN  IF done = {} THEN pics ELSE SubSeq(pics, Max(done) + 1, Len(pics))

\* The first n bytes of the buffer to send reach the client.
Receives(n) ==
    LET c == Process(client, data[r], n)
    IN  /\ client' = [on |-> TRUE, header |-> c.header, temp |-> c.temp, image |-> c.image]
        /\ saved' = c.saved
        /\ pics' = Forget(c.saved)

\* The client starts; it waits in listen until it is accepted.
Connect ==
    /\ ~client.on
    /\ client' = Fresh /\ pending' = TRUE
    /\ saved' = << >>
    /\ UNCHANGED <<data, w, r, avail, capture, server, up, pics>>

\* The connection breaks.  receive() never returns again: the client is of no more
\* use until it is started again.
Break ==
    /\ up
    /\ up' = FALSE /\ client' = Gone
    /\ saved' = << >>
    /\ UNCHANGED <<data, w, r, avail, capture, server, pending, pics>>

----------------------------------------------------------------------------
(* camTCP                                                                    *)

Release == avail' = avail - 1 /\ r' = (r + 1) % NumBuffs

Accept ==
    /\ server = "accept" /\ pending
    /\ server' = "serve" /\ up' = TRUE /\ pending' = FALSE
    /\ saved' = << >>
    /\ UNCHANGED <<data, w, r, avail, capture, client, pics>>

\* A whole buffer, whatever part of it belongs to the picture.
Send ==
    /\ server = "serve" /\ up /\ avail > 0
    /\ Receives(Size)
    /\ Release
    /\ UNCHANGED <<data, w, capture, server, up, pending>>

\* The connection breaks on the way: receive() hands out what it has of the buffer.
SendPart ==
    /\ server = "serve" /\ up /\ avail > 0
    /\ \E n \in Cells :
         LET c == Process(client, data[r], n)
         IN  saved' = c.saved /\ pics' = Forget(c.saved)
    /\ client' = Gone /\ up' = FALSE
    /\ Release
    /\ UNCHANGED <<data, w, capture, server, pending>>

\* The connection is lost: the buffer goes nowhere and is released all the same.
\* send may still accept it, or fail, which ends the inner loop.
SendNowhere ==
    /\ server = "serve" /\ ~up /\ avail > 0
    /\ server' \in {"serve", "accept"}
    /\ Release
    /\ saved' = << >>
    /\ UNCHANGED <<data, w, capture, up, pending, client, pics>>

Serves == server = "serve" /\ avail > 0 /\ Release
CamTCP == Accept \/ Send \/ SendPart \/ SendNowhere

----------------------------------------------------------------------------
Next == CamThread \/ CamTCP \/ Connect \/ Break

Spec == Init /\ [][Next]_vars

\* The threads of the robot run (Serves: each sending step of camTCP), a client
\* reads.  Nothing makes a client start or a connection hold.
FairSpec == Spec /\ WF_vars(CamThread) /\ WF_vars(Accept) /\ WF_<<r, avail>>(Serves)

----------------------------------------------------------------------------
(* Properties                                                                *)

\* Types and ranges; the index is at most one past the buffer, and only between
\* two bytes (camHandler.c:97, 103-113); an image in the making is bounded.
TypeOK ==
    /\ data \in [Buffs -> [Cells -> Byte]]
    /\ w \in Buffs /\ r \in Buffs /\ avail \in 0..NumBuffs
    /\ pc \in {"idle", "get", "read"} /\ fifo \in Seq(Byte)
    /\ temp \in Byte /\ temp_last \in Byte /\ is_header \in BOOLEAN /\ i \in 0..Size
    /\ server \in {"accept", "serve"} /\ up \in BOOLEAN /\ pending \in BOOLEAN
    /\ client \in [on : BOOLEAN, header : BOOLEAN, temp : Byte, image : Seq(Byte)]
    /\ Len(pics) <= Recent

\* Every file the client saves is exactly one picture the camera took, later than
\* all it saved before: no stale bytes of the buffers, no mixture of two pictures,
\* nothing twice, also when the client came in the middle of a picture
\* (camHandler.c:91-122, jpeg_client.py:71-110).  Not so only while a picture that
\* overran its buffer (camHandler.c:97) is on the way.
Whole(image) == \E k \in DOMAIN pics : image = Image(pics[k])
Intact ==
    [][\A k \in DOMAIN saved' :
          Whole(saved'[k]) \/ \E m \in DOMAIN pics : Overruns(pics[m])]_vars

\* Once a connection holds, pictures keep arriving (pingpong_ipc.c:69-122,
\* tcpHandler.c:86-91).
PicturesArrive == <>[]up => []<>(saved # << >>)
============================================================================
