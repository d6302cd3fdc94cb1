----------------------------- MODULE PingPong -----------------------------
(***************************************************************************)
(* The camera buffers of the firmware (0_Investigator/pingpong_ipc.c): a   *)
(* table of num_buffs buffers shared by one writer (camCapture, which      *)
(* copies a picture out of the camera) and one reader (camTCP, which sends *)
(* it).  Unlike the PDU FIFO the data are not copied under the mutex: each *)
(* side asks for a buffer with ppipc_get_buffer, works on it without any   *)
(* lock, and hands it over with ppipc_update_buffer.  What keeps them      *)
(* apart is the accounting of avail, head and tail.                        *)
(*                                                                         *)
(* A buffer is Parts cells.  The writer fills them one at a time with the  *)
(* picture it is copying and may hand the buffer over before it is full    *)
(* (camHandler.c:122), so the other cells keep what an older picture left  *)
(* there; a picture longer than a buffer is several rounds.  The reader    *)
(* sends the cells one at a time, and the steps of the two interleave      *)
(* freely.                                                                 *)
(*                                                                         *)
(* The last byte of a picture is stored without a test of the size: when   *)
(* the buffer is full just then it lands behind it, which is the first     *)
(* cell of the next buffer, as cam_data is one array; behind the last      *)
(* buffer it is memory of somebody else, left out here.  The camera's FIFO *)
(* holds one picture: what follows its end is not stored.                  *)
(*                                                                         *)
(* wpc, rpc, where the writer and the reader are:                          *)
(*   "idle"    outside the operations                                      *)
(*   "lock"    ppipc_get_buffer: in sem_wait(&mutex)                       *)
(*   "locked"  ppipc_get_buffer: about to test the loop's condition        *)
(*   "asleep"  ppipc_get_buffer: in sem_wait(&full) or sem_wait(&empty)    *)
(*   "work"    filling or sending the buffer it was given                  *)
(*   "ended"   camCapture: the last byte of the picture is stored          *)
(*   "update"  ppipc_update_buffer: in sem_wait(&mutex)                    *)
(*   "count"   ppipc_update_buffer: about to change avail                  *)
(*   "post"    ppipc_update_buffer: about to post and unlock               *)
(***************************************************************************)
EXTENDS Integers, Sequences

CONSTANTS NumBuffs,   \* NUM_CAM_BUFFERS
          Parts,      \* cells of a buffer
          Frames,     \* the pictures
          NoFrame,    \* the content of a cell never written
          SemMax      \* largest count of a semaphore; sem_post leaves it there

ASSUME NumBuffsAssumption == NumBuffs \in Nat \ {0}
ASSUME PartsAssumption == Parts \in Nat \ {0}
ASSUME SemAssumption == SemMax \in Nat \ {0}

Buffs == 0..NumBuffs-1
Cells == 1..Parts
Contents == [Cells -> Frames \cup {NoFrame}]   \* what a buffer can hold
Blank == [k \in Cells |-> NoFrame]

ASSUME FrameAssumption == NoFrame \notin Frames /\ NoFrame \notin Contents

VARIABLES data,                        \* the cells of every buffer
          avail, tail, head,           \* fields of ppipc_buff_tab_t
          mutex, full, empty,          \* the semaphores' counts
          wpc, wbuf, wcell, frame,     \* writer: buffer held, next cell, picture
          rpc, rbuf, rcell, sent,      \* reader: buffer held, next cell, cells sent
          shown                        \* history: content of the last buffer released

table == <<avail, tail, head>>
writer == <<wpc, wbuf, wcell, frame, data>>
reader == <<rpc, rbuf, rcell, sent, shown>>
vars == <<data, avail, tail, head, mutex, full, empty,
          wpc, wbuf, wcell, frame, rpc, rbuf, rcell, sent, shown>>

\* sem_post: POSIX fails with EOVERFLOW at the maximum and leaves the count.
SemPost(s) == IF s < SemMax THEN s + 1 ELSE s

\* ppipc_init_tab sets the semaphores; the counters are zeroed globals.
Init ==
    /\ data = [b \in Buffs |-> Blank]
    /\ avail = 0 /\ tail = 0 /\ head = 0
    /\ mutex = 1 /\ full = 0 /\ empty = 0
    /\ wpc = "idle" /\ wbuf = 0 /\ wcell = 1 /\ frame = NoFrame
    /\ rpc = "idle" /\ rbuf = 0 /\ rcell = 1 /\ sent = Blank
    /\ shown = NoFrame

----------------------------------------------------------------------------
(* The writer: camCapture                                                   *)

\* camCapture asks for a buffer, for a new picture or the next part of one.
WCall ==
    /\ wpc = "idle"
    /\ frame' \in Frames
    /\ wpc' = "lock"
    /\ UNCHANGED <<data, table, mutex, full, empty, wbuf, wcell, reader>>

WLock ==
    /\ wpc \in {"lock", "update"}
    /\ mutex > 0
    /\ mutex' = mutex - 1
    /\ wpc' = IF wpc = "lock" THEN "locked" ELSE "count"
    /\ UNCHANGED <<data, table, full, empty, wbuf, wcell, frame, reader>>

\* while(avail == num_buffs): unlock and sleep on full.
WBlock ==
    /\ wpc = "locked"
    /\ avail = NumBuffs
    /\ mutex' = SemPost(mutex)
    /\ wpc' = "asleep"
    /\ UNCHANGED <<data, table, full, empty, wbuf, wcell, frame, reader>>

WWake ==
    /\ wpc = "asleep"
    /\ full > 0
    /\ full' = full - 1
    /\ wpc' = "lock"
    /\ UNCHANGED <<data, table, mutex, empty, wbuf, wcell, frame, reader>>

\* Mutated form of WGet: takes the buffer at head without waiting for a free one.
WGetUnchecked ==
    /\ wpc = "locked"
    /\ wbuf' = head
    /\ wcell' = 1
    /\ mutex' = SemPost(mutex)
    /\ wpc' = "work"
    /\ UNCHANGED <<data, table, full, empty, frame, reader>>

\* Returns &buffers[head]; avail is not touched until the data are written.
WGet ==
    /\ wpc = "locked"
    /\ avail # NumBuffs
    /\ wbuf' = head
    /\ wcell' = 1
    /\ mutex' = SemPost(mutex)
    /\ wpc' = "work"
    /\ UNCHANGED <<data, table, full, empty, frame, reader>>

\* cam_buffer->data[n] = x.
Store(d, n, x) ==
    IF n <= Parts THEN [d EXCEPT ![wbuf][n] = x]
    ELSE IF wbuf + 1 < NumBuffs THEN [d EXCEPT ![wbuf + 1][1] = x]
    ELSE d

\* One cell is copied, with no lock held.
WFill ==
    /\ wpc = "work"
    /\ wcell <= Parts
    /\ data' = Store(data, wcell, frame)
    /\ wcell' = wcell + 1
    /\ UNCHANGED <<table, mutex, full, empty, wpc, wbuf, frame, reader>>

\* The end of the picture: its last byte is stored without a look at the size.
WEnd ==
    /\ wpc = "work"
    /\ data' = Store(data, wcell, frame)
    /\ wpc' = "ended" /\ wcell' = 1
    /\ UNCHANGED <<table, mutex, full, empty, wbuf, frame, reader>>

\* The buffer is handed over: it is full, or the camera's FIFO is empty.  The
\* writer's locals are dead from here on.
WFlush ==
    /\ wpc \in {"work", "ended"}
    /\ wpc' = "update"
    /\ wcell' = 1 /\ frame' = NoFrame
    /\ UNCHANGED <<data, table, mutex, full, empty, wbuf, reader>>

WCount ==
    /\ wpc = "count"
    /\ avail' = avail + 1
    /\ head' = (head + 1) % NumBuffs
    /\ wpc' = "post"
    /\ UNCHANGED <<data, tail, mutex, full, empty, wbuf, wcell, frame, reader>>

\* Mutated form of WPost: never posts to the reader.
WPostNone ==
    /\ wpc = "post"
    /\ mutex' = SemPost(mutex)
    /\ wpc' = "idle"
    /\ UNCHANGED <<data, table, full, empty, wbuf, wcell, frame, reader>>

\* Post empty if this is the only full buffer, then unlock.
WPost ==
    /\ wpc = "post"
    /\ empty' = IF avail = 1 THEN SemPost(empty) ELSE empty
    /\ mutex' = SemPost(mutex)
    /\ wpc' = "idle"
    /\ UNCHANGED <<data, table, full, wbuf, wcell, frame, reader>>

----------------------------------------------------------------------------
(* The reader: camTCP while a client is connected                           *)

RCall ==
    /\ rpc = "idle"
    /\ rpc' = "lock"
    /\ UNCHANGED <<table, mutex, full, empty, writer, rbuf, rcell, sent, shown>>

RLock ==
    /\ rpc \in {"lock", "update"}
    /\ mutex > 0
    /\ mutex' = mutex - 1
    /\ rpc' = IF rpc = "lock" THEN "locked" ELSE "count"
    /\ UNCHANGED <<table, full, empty, writer, rbuf, rcell, sent, shown>>

\* while(avail == 0): unlock and sleep on empty.
RBlock ==
    /\ rpc = "locked"
    /\ avail = 0
    /\ mutex' = SemPost(mutex)
    /\ rpc' = "asleep"
    /\ UNCHANGED <<table, full, empty, writer, rbuf, rcell, sent, shown>>

RWake ==
    /\ rpc = "asleep"
    /\ empty > 0
    /\ empty' = empty - 1
    /\ rpc' = "lock"
    /\ UNCHANGED <<table, mutex, full, writer, rbuf, rcell, sent, shown>>

\* Mutated form of RGet: releases the buffer when it is handed out, not when
\* it has been sent.
RGetReleases ==
    /\ rpc = "locked"
    /\ avail # 0
    /\ rbuf' = tail
    /\ rcell' = 1
    /\ avail' = avail - 1
    /\ tail' = (tail + 1) % NumBuffs
    /\ mutex' = SemPost(mutex)
    /\ full' = SemPost(full)
    /\ rpc' = "work"
    /\ UNCHANGED <<head, empty, writer, sent, shown>>

\* Returns &buffers[tail]; avail is not touched until the data are read.
RGet ==
    /\ rpc = "locked"
    /\ avail # 0
    /\ rbuf' = tail
    /\ rcell' = 1
    /\ mutex' = SemPost(mutex)
    /\ rpc' = "work"
    /\ UNCHANGED <<table, full, empty, writer, sent, shown>>

\* send takes one more cell.
RSend ==
    /\ rpc = "work"
    /\ rcell <= Parts
    /\ sent' = [sent EXCEPT ![rcell] = data[rbuf][rcell]]
    /\ rcell' = rcell + 1
    /\ UNCHANGED <<table, mutex, full, empty, writer, rpc, rbuf, shown>>

\* send returns: it has taken every cell, or the connection is down.  Either way
\* the buffer is released next; after a failure camTCP accepts another client.
RDone ==
    /\ rpc = "work"
    /\ rpc' = "update"
    /\ UNCHANGED <<table, mutex, full, empty, writer, rbuf, rcell, sent, shown>>

RCount ==
    /\ rpc = "count"
    /\ avail' = avail - 1
    /\ tail' = (tail + 1) % NumBuffs
    /\ rpc' = "post"
    /\ shown' = data[rbuf]
    /\ rcell' = 1 /\ sent' = Blank
    /\ UNCHANGED <<head, mutex, full, empty, writer, rbuf>>

\* Mutated form of RPost: the test forgets that avail has been decremented.
RPostOffByOne ==
    /\ rpc = "post"
    /\ full' = IF avail = NumBuffs THEN SemPost(full) ELSE full
    /\ mutex' = SemPost(mutex)
    /\ rpc' = "idle"
    /\ UNCHANGED <<table, empty, writer, rbuf, rcell, sent, shown>>

\* Post full if this made the only free buffer, then unlock.
RPost ==
    /\ rpc = "post"
    /\ full' = IF avail = NumBuffs - 1 THEN SemPost(full) ELSE full
    /\ mutex' = SemPost(mutex)
    /\ rpc' = "idle"
    /\ UNCHANGED <<table, empty, writer, rbuf, rcell, sent, shown>>

----------------------------------------------------------------------------
Write ==
    WCall \/ WLock \/ WBlock \/ WWake \/ WGet \/ WFill \/ WEnd \/ WFlush \/ WCount \/ WPost

Read ==
    RCall \/ RLock \/ RBlock \/ RWake \/ RGet \/ RSend \/ RDone \/ RCount \/ RPost

Next == Write \/ Read

Spec == Init /\ [][Next]_vars

\* Both threads keep running and the mutex's waiters queue in order.  The camera
\* loop and, while a client is connected, the sending loop never end.
Fairness ==
    /\ SF_vars(WLock) /\ WF_vars(Write)
    /\ SF_vars(RLock) /\ WF_vars(Read)

FairSpec == Spec /\ Fairness

----------------------------------------------------------------------------
(* Properties                                                               *)

Places == {"idle", "lock", "locked", "asleep", "work", "ended", "update", "count", "post"}

\* Types and ranges; avail never wraps below 0 nor exceeds the buffers.
TypeOK ==
    /\ data \in [Buffs -> Contents]
    /\ avail \in 0..NumBuffs /\ tail \in Buffs /\ head \in Buffs
    /\ mutex \in 0..1 /\ full \in 0..SemMax /\ empty \in 0..SemMax
    /\ wpc \in Places /\ wbuf \in Buffs /\ wcell \in 1..Parts+1
    /\ frame \in Frames \cup {NoFrame}
    /\ wpc \in {"lock", "locked", "asleep", "work"} => frame \in Frames
    /\ rpc \in Places /\ rbuf \in Buffs /\ rcell \in 1..Parts+1
    /\ sent \in Contents
    /\ shown \in Contents \cup {NoFrame}

WInside == wpc \in {"locked", "count", "post"}
RInside == rpc \in {"locked", "count", "post"}

\* The mutex is 0 exactly while one of the two is inside, and both never are.
MutexOK == (mutex = 0 <=> WInside \/ RInside) /\ ~(WInside /\ RInside)

\* From ppipc_get_buffer to the change of avail a thread owns its buffer.
WOwns == wpc \in {"work", "ended", "update", "count"}
ROwns == rpc \in {"work", "update", "count"}

\* The two never work on the same buffer, although neither holds a lock while it
\* copies (pingpong_ipc.c:62, "don't update avail until data actually
\* retrieved/written").
NeverShared == WOwns /\ ROwns => wbuf # rbuf

\* What camTCP has sent of its buffer is what the buffer still holds when it is
\* released, but for the first cell of a buffer that is not the first of cam_data:
\* there the picture being copied can overrun the buffer before it.
NotTorn ==
    ROwns => \A k \in 1..rcell-1 : sent[k] = data[rbuf][k] \/ (k = 1 /\ rbuf > 0)

\* While the reader has a buffer nothing is written into it but that overrun: one
\* byte, in its first cell, when the writer's buffer is full (camHandler.c:94-97).
OnlyOverrun ==
    [][ROwns /\ data'[rbuf] # data[rbuf] =>
          /\ wpc = "work" /\ wcell = Parts + 1 /\ wbuf + 1 = rbuf
          /\ \A k \in Cells \ {1} : data'[rbuf][k] = data[rbuf][k]]_vars

\* No lost wakeup of the reader: asleep with a full buffer waiting, a token is
\* there or the writer is about to post it (pingpong_ipc.c:120-123).
ReaderWakes ==
    rpc = "asleep" /\ avail > 0 => empty > 0 \/ (avail = 1 /\ wpc = "post")

\* No lost wakeup of the writer: asleep with a free buffer, a token is there or
\* the reader is about to post it (pingpong_ipc.c:110-113).
WriterWakes ==
    wpc = "asleep" /\ avail < NumBuffs =>
        full > 0 \/ (avail = NumBuffs - 1 /\ rpc = "post")

\* The i-th of the buffers handed over and not yet released, oldest first.
FullBuff(i) == (tail + i - 1) % NumBuffs

\* A thread that owns a buffer owns the one at its cursor, and avail leaves the
\* writer a free one and the reader a full one; right after a change of avail
\* the other side cannot have undone it.
OwnershipOK ==
    /\ head = (tail + avail) % NumBuffs
    /\ WOwns => wbuf = head /\ avail < NumBuffs
    /\ ROwns => rbuf = tail /\ avail > 0
    /\ wpc = "post" => avail > 0
    /\ rpc = "post" => avail < NumBuffs

\* The inductive invariant.
IInv == TypeOK /\ MutexOK /\ OwnershipOK /\ NotTorn /\ ReaderWakes /\ WriterWakes

\* The camera is not held up for good: camCapture gets the buffer it asks for.
WriterServed == wpc = "lock" ~> wpc = "work"

----------------------------------------------------------------------------
(* The table implements the queue of buffer contents                        *)

\* What the a buffers of d from t on hold, oldest first; the ones handed over.
ContentsOf(d, t, a) == [i \in 1..a |-> d[(t + i - 1) % NumBuffs]]
HandedOver == ContentsOf(data, tail, avail)

Queue ==
    INSTANCE BufferQueue
        WITH Producers <- {"writer"}, Items <- Contents, NoItem <- NoFrame,
             Capacity <- NumBuffs, Bytes <- Frames, queue <- HandedOver,
             offered <- [p \in {"writer"} |->
                           IF wpc \in {"update", "count"} THEN data[wbuf] ELSE NoFrame],
             received <- shown

\* Every buffer handed over is sent once, in order, as it was handed over but for the
\* byte of an overrun, which reaches only the oldest one, and only when all buffers
\* but the writer's are full.
ImplementsQueue == Queue!BufferSpec

\* And nobody is held for no reason: a buffer handed over is sent and released.
ImplementsFairQueue == Queue!FairBufferSpec
============================================================================
