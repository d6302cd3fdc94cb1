-------------------------- MODULE PingPongProofs --------------------------
(***************************************************************************)
(* Proofs about PingPong for every number of buffers, every buffer length  *)
(* and every set of pictures: the inductive invariant, that writer and     *)
(* reader never work on the same buffer, that what is sent is not written  *)
(* over but by an overrun and what that can reach, that no wakeup is lost, *)
(* and that the table implements BufferQueue.                              *)
(***************************************************************************)
EXTENDS PingPong, SequenceTheorems, TLAPS

USE NumBuffsAssumption, PartsAssumption, FrameAssumption, SemAssumption

----------------------------------------------------------------------------
(* The cursors of a ring of n slots, advanced by one and taken modulo n      *)
(* (pingpong_ipc.c:107, 117).                                                *)

LEMMA ModRange ==
  ASSUME NEW n \in Nat \ {0}
  PROVE  \A a \in Nat : a % n \in 0..n-1
  BY SMT

\* In the two laps a cursor sum can reach, % is the identity or one subtraction.
LEMMA ModLaps ==
  ASSUME NEW n \in Nat \ {0}
  PROVE  \A a \in Nat : /\ a < n => a % n = a
                        /\ a >= n /\ a < 2 * n => a % n = a - n
  BY SMT

\* Advancing a cursor that is a slots past another keeps the distance.
LEMMA CursorAdvance ==
  ASSUME NEW n \in Nat \ {0}, NEW t \in 0..n-1, NEW a \in 0..n
  PROVE  /\ a < n => (((t + a) % n) + 1) % n = (t + (a + 1)) % n
         /\ a >= 1 => (((t + 1) % n) + (a - 1)) % n = (t + a) % n
<1>1. \A a0 \in Nat : /\ a0 < n => a0 % n = a0
                      /\ a0 >= n /\ a0 < 2 * n => a0 % n = a0 - n
  BY ModLaps
<1> QED
  BY <1>1

\* The slot of the i-th item after tail has advanced is that of item i + 1.
LEMMA SlotAdvance ==
  ASSUME NEW n \in Nat \ {0}, NEW t \in 0..n-1, NEW i \in 1..n
  PROVE  (((t + 1) % n) + i - 1) % n = (t + (i + 1) - 1) % n
<1>1. \A a0 \in Nat : /\ a0 < n => a0 % n = a0
                      /\ a0 >= n /\ a0 < 2 * n => a0 % n = a0 - n
  BY ModLaps
<1> QED
  BY <1>1

\* Two different items of the window lie in different slots.
LEMMA SlotsDistinct ==
  ASSUME NEW n \in Nat \ {0}, NEW t \in 0..n-1, NEW i \in 1..n, NEW j \in 1..n, i # j
  PROVE  (t + i - 1) % n # (t + j - 1) % n
  BY ModLaps

----------------------------------------------------------------------------
(* The semaphores and the window of full buffers                           *)

LEMMA PostRange ==
  \A s \in 0..SemMax : SemPost(s) \in 0..SemMax /\ SemPost(s) > 0
  BY DEF SemPost

LEMMA PostMutex == SemPost(0) = 1
  BY DEF SemPost

\* The full buffer behind the writer's, if there is one, is the oldest, and all others
\* are full.
LEMMA NextIsOldest ==
  ASSUME TypeOK, head = (tail + avail) % NumBuffs, avail < NumBuffs, NEW i \in 1..avail,
         FullBuff(i) = head + 1
  PROVE  i = 1 /\ avail = NumBuffs - 1
<1>1. /\ tail \in 0..NumBuffs-1 /\ avail \in 0..NumBuffs-1
      /\ tail + avail \in Nat /\ tail + i - 1 \in Nat
      /\ tail + avail < 2 * NumBuffs /\ tail + i - 1 < 2 * NumBuffs
  BY DEF TypeOK, Buffs
<1>2. \A a \in Nat : /\ a < NumBuffs => a % NumBuffs = a
                     /\ a >= NumBuffs /\ a < 2 * NumBuffs => a % NumBuffs = a - NumBuffs
  BY ModLaps
<1>3. head = IF tail + avail < NumBuffs THEN tail + avail ELSE tail + avail - NumBuffs
  BY <1>1, <1>2
<1>4. head + 1 = (tail + i - 1) % NumBuffs
  BY DEF FullBuff
<1>5. head + 1 = IF tail + i - 1 < NumBuffs THEN tail + i - 1 ELSE tail + i - 1 - NumBuffs
  BY <1>1, <1>2, <1>4
<1> QED
  BY <1>1, <1>3, <1>5

\* The buffer under the writer's cursor is not one of the full ones.
LEMMA HeadNotFull ==
  ASSUME TypeOK, head = (tail + avail) % NumBuffs, avail < NumBuffs, NEW i \in 1..avail
  PROVE  FullBuff(i) # head
<1>1. /\ tail \in 0..NumBuffs-1 /\ i \in 1..NumBuffs
      /\ avail + 1 \in 1..NumBuffs /\ i # avail + 1
  BY DEF TypeOK, Buffs
<1>2. (tail + i - 1) % NumBuffs # (tail + (avail + 1) - 1) % NumBuffs
  BY <1>1, SlotsDistinct
<1>3. tail + (avail + 1) - 1 = tail + avail
  BY <1>1 DEF TypeOK
<1> QED
  BY <1>2, <1>3 DEF FullBuff

\* The oldest full buffer is the one under the reader's cursor.
LEMMA OldestFull == ASSUME TypeOK PROVE FullBuff(1) = tail
<1>1. tail + 1 - 1 = tail /\ tail \in Nat /\ tail < NumBuffs
  BY DEF TypeOK, Buffs
<1> QED
  BY <1>1, ModLaps DEF FullBuff

\* What a store writes: a cell of the writer's buffer or, behind its end, the first
\* one of the next buffer.
LEMMA Stored ==
  ASSUME TypeOK, NEW n \in 1..Parts+1, NEW x \in Frames \cup {NoFrame}
  PROVE  /\ Store(data, n, x) \in [Buffs -> Contents]
         /\ \A b \in Buffs : b # wbuf /\ (n <= Parts \/ b # wbuf + 1) =>
                Store(data, n, x)[b] = data[b]
         /\ n > Parts /\ wbuf + 1 \in Buffs =>
                Store(data, n, x) = [data EXCEPT ![wbuf + 1] = [@ EXCEPT ![1] = x]]
<1> USE DEF TypeOK
<1>1. CASE n <= Parts
  <2>1. n \in Cells
    BY <1>1 DEF Cells
  <2> QED
    BY <1>1, <2>1 DEF Store, Contents
<1>2. CASE ~(n <= Parts) /\ wbuf + 1 < NumBuffs
  <2>1. 1 \in Cells /\ wbuf + 1 \in Buffs /\ wbuf + 1 # wbuf
    BY <1>2 DEF Cells, Buffs
  <2> QED
    BY <1>2, <2>1 DEF Store, Contents
<1>3. CASE ~(n <= Parts) /\ ~(wbuf + 1 < NumBuffs)
  <2>1. wbuf + 1 \notin Buffs
    BY <1>3 DEF Buffs
  <2> QED
    BY <1>3, <2>1 DEF Store
<1> QED
  BY <1>1, <1>2, <1>3

----------------------------------------------------------------------------
(* Initial state                                                            *)

LEMMA InitIInv == Init => IInv
<1> SUFFICES ASSUME Init PROVE IInv
  OBVIOUS
<1>1. TypeOK /\ MutexOK
  BY DEF Init, TypeOK, MutexOK, WInside, RInside, Buffs, Cells, Contents, Blank,
         Places
<1>2. OwnershipOK
  BY ModLaps DEF Init, OwnershipOK, WOwns, ROwns
<1>3. NotTorn /\ ReaderWakes /\ WriterWakes
  BY DEF Init, NotTorn, ROwns, ReaderWakes, WriterWakes
<1> QED
  BY <1>1, <1>2, <1>3 DEF IInv

----------------------------------------------------------------------------
(* Steps of the writer                                                      *)

LEMMA WriteTypeOK == ASSUME IInv, Write PROVE TypeOK' /\ MutexOK'
<1> USE DEF IInv, TypeOK, MutexOK, WInside, RInside, Places, table, reader
<1>1. CASE WCall \/ WLock \/ WWake
  BY <1>1 DEF WCall, WLock, WWake
<1>2. CASE WBlock \/ WGet
  <2>1. mutex = 0 /\ mutex' = 1
    BY <1>2, PostMutex DEF WBlock, WGet
  <2> QED
    BY <1>2, <2>1 DEF WBlock, WGet
<1>3. CASE WFill \/ WEnd \/ WFlush
  <2>1. data' \in [Buffs -> Contents]
    <3>1. CASE WFill \/ WEnd
      <4>1. TypeOK /\ data' = Store(data, wcell, frame)
        BY <3>1 DEF WFill, WEnd
      <4>2. wcell \in 1..Parts+1 /\ frame \in Frames \cup {NoFrame}
        OBVIOUS
      <4> QED
        BY <4>1, <4>2, Stored
    <3>2. CASE WFlush
      BY <3>2 DEF WFlush
    <3> QED
      BY <1>3, <3>1, <3>2
  <2>2. wcell' \in 1..Parts+1
    BY <1>3 DEF WFill, WEnd, WFlush
  <2> QED
    BY <1>3, <2>1, <2>2 DEF WFill, WEnd, WFlush
<1>4. CASE WCount
  <2>1. head + 1 \in Nat
    BY DEF Buffs
  <2>2. head' \in Buffs
    BY <1>4, <2>1, ModRange DEF WCount, Buffs
  <2>3. avail < NumBuffs
    BY <1>4 DEF OwnershipOK, WOwns, WCount
  <2> QED
    BY <1>4, <2>2, <2>3 DEF WCount
<1>5. CASE WPost
  <2>1. mutex = 0 /\ mutex' = 1
    BY <1>5, PostMutex DEF WPost
  <2>2. empty' \in 0..SemMax
    BY <1>5, PostRange DEF WPost
  <2> QED
    BY <1>5, <2>1, <2>2 DEF WPost
<1> QED
  BY <1>1, <1>2, <1>3, <1>4, <1>5 DEF Write

LEMMA WriteOwnershipOK == ASSUME IInv, Write PROVE OwnershipOK'
<1> USE DEF IInv, TypeOK, OwnershipOK, WOwns, ROwns, table, reader
<1>1. CASE WCount
  <2>1. ~(rpc \in {"post", "locked", "count"})
    BY <1>1 DEF MutexOK, WInside, RInside, WCount
  <2>2. /\ tail \in 0..NumBuffs-1 /\ avail \in 0..NumBuffs /\ avail < NumBuffs
        /\ tail' = tail /\ avail' = avail + 1
        /\ head' = (((tail + avail) % NumBuffs) + 1) % NumBuffs
    BY <1>1 DEF WCount, Buffs
  <2>3. head' = (tail' + avail') % NumBuffs
    BY <2>2, CursorAdvance
  <2> QED
    BY <1>1, <2>1, <2>2, <2>3 DEF WCount
<1>2. CASE WGet
  BY <1>2 DEF WGet
<1>3. CASE WCall \/ WLock \/ WBlock \/ WWake \/ WFill \/ WEnd \/ WFlush \/ WPost
  BY <1>3 DEF WCall, WLock, WBlock, WWake, WFill, WEnd, WFlush, WPost
<1> QED
  BY <1>1, <1>2, <1>3 DEF Write

LEMMA WriteWakes == ASSUME IInv, Write PROVE ReaderWakes' /\ WriterWakes'
<1> USE DEF IInv, TypeOK, ReaderWakes, WriterWakes, table, reader
<1>1. CASE WCall \/ WLock \/ WBlock \/ WWake \/ WGet \/ WFill \/ WEnd \/ WFlush
  BY <1>1 DEF WCall, WLock, WBlock, WWake, WGet, WFill, WEnd, WFlush
<1>2. CASE WCount
  BY <1>2 DEF WCount
<1>3. CASE WPost
  <2>1. avail = 1 => empty' > 0
    BY <1>3, PostRange DEF WPost
  <2> QED
    BY <1>3, <2>1 DEF WPost
<1> QED
  BY <1>1, <1>2, <1>3 DEF Write

\* What a step of the writer does to the buffer the reader has: at most an overrun.
LEMMA WriteUntouched ==
  ASSUME IInv, WFill \/ WEnd, ROwns
  PROVE  \/ data'[rbuf] = data[rbuf]
         \/ /\ wcell = Parts + 1 /\ wbuf + 1 = rbuf /\ rbuf > 0
            /\ \A k \in Cells \ {1} : data'[rbuf][k] = data[rbuf][k]
<1>1. rbuf # wbuf
  <2>1. TypeOK /\ wbuf = head /\ head = (tail + avail) % NumBuffs /\ avail < NumBuffs
    BY DEF WFill, WEnd, IInv, OwnershipOK, WOwns
  <2>2. rbuf = FullBuff(1) /\ 1 \in 1..avail
    BY <2>1, OldestFull DEF IInv, OwnershipOK, TypeOK
  <2> QED
    BY <2>1, <2>2, HeadNotFull
<1>2. /\ rbuf \in Buffs /\ wbuf \in Buffs /\ TypeOK /\ data' = Store(data, wcell, frame)
      /\ wcell \in 1..Parts+1 /\ frame \in Frames \cup {NoFrame}
      /\ data \in [Buffs -> Contents]
  BY DEF WFill, WEnd, IInv, TypeOK
<1>3. CASE wcell <= Parts \/ rbuf # wbuf + 1
  <2>1. \A b \in Buffs : b # wbuf /\ (wcell <= Parts \/ b # wbuf + 1) =>
                            Store(data, wcell, frame)[b] = data[b]
    BY <1>2, Stored
  <2> QED
    BY <1>1, <1>2, <1>3, <2>1
<1>4. CASE ~(wcell <= Parts) /\ rbuf = wbuf + 1
  <2>1. wcell = Parts + 1 /\ rbuf > 0
    BY <1>2, <1>4 DEF Buffs
  <2>2. data'[rbuf] = [data[rbuf] EXCEPT ![1] = frame] /\ data[rbuf] \in Contents
    BY <1>2, <1>4, Stored
  <2>3. \A k \in Cells \ {1} : data'[rbuf][k] = data[rbuf][k]
    BY <2>2 DEF Contents
  <2> QED
    BY <1>4, <2>1, <2>3
<1> QED
  BY <1>3, <1>4

LEMMA WriteNotTorn == ASSUME IInv, Write PROVE NotTorn'
<1> USE DEF NotTorn, ROwns, reader, table
<1>1. CASE WFill \/ WEnd
  <2> SUFFICES ASSUME ROwns, NEW k \in 1..rcell-1
               PROVE  sent[k] = data'[rbuf][k] \/ (k = 1 /\ rbuf > 0)
    BY <1>1 DEF WFill, WEnd
  <2>1. k \in Cells /\ (sent[k] = data[rbuf][k] \/ (k = 1 /\ rbuf > 0))
    BY DEF IInv, TypeOK, Cells
  <2> QED
    BY <1>1, <2>1, WriteUntouched
<1>2. CASE Write /\ ~WFill /\ ~WEnd
  BY <1>2 DEF Write, WCall, WLock, WBlock, WWake, WGet, WFlush, WCount, WPost, IInv
<1> QED
  BY <1>1, <1>2

----------------------------------------------------------------------------
(* Steps of the reader                                                      *)

LEMMA ReadTypeOK == ASSUME IInv, Read PROVE TypeOK' /\ MutexOK'
<1> USE DEF IInv, TypeOK, MutexOK, WInside, RInside, Places, table, writer
<1>1. CASE RCall \/ RLock \/ RWake
  BY <1>1 DEF RCall, RLock, RWake
<1>2. CASE RBlock \/ RGet
  <2>1. mutex = 0 /\ mutex' = 1
    BY <1>2, PostMutex DEF RBlock, RGet
  <2> QED
    BY <1>2, <2>1 DEF RBlock, RGet
<1>3. CASE RSend \/ RDone
  <2>1. CASE RSend
    <3>1. rcell \in Cells /\ rcell' \in 1..Parts+1
      BY <2>1 DEF RSend, Cells
    <3>2. data[rbuf][rcell] \in Frames \cup {NoFrame}
      BY <3>1 DEF Contents
    <3>3. sent' \in Contents
      BY <2>1, <3>1, <3>2 DEF RSend, Contents
    <3> QED
      BY <2>1, <3>1, <3>3 DEF RSend
  <2>2. CASE RDone
    BY <2>2 DEF RDone
  <2> QED
    BY <1>3, <2>1, <2>2
<1>4. CASE RCount
  <2>1. tail + 1 \in Nat
    BY DEF Buffs
  <2>2. tail' \in Buffs
    BY <1>4, <2>1, ModRange DEF RCount, Buffs
  <2>3. avail > 0
    BY <1>4 DEF OwnershipOK, ROwns, RCount
  <2>4. data[rbuf] \in Contents /\ Blank \in Contents /\ 1 \in 1..Parts+1
    BY DEF Contents, Blank
  <2> QED
    BY <1>4, <2>2, <2>3, <2>4 DEF RCount
<1>5. CASE RPost
  <2>1. mutex = 0 /\ mutex' = 1
    BY <1>5, PostMutex DEF RPost
  <2>2. full' \in 0..SemMax
    BY <1>5, PostRange DEF RPost
  <2> QED
    BY <1>5, <2>1, <2>2 DEF RPost
<1> QED
  BY <1>1, <1>2, <1>3, <1>4, <1>5 DEF Read

LEMMA ReadOwnershipOK == ASSUME IInv, Read PROVE OwnershipOK'
<1> USE DEF IInv, TypeOK, OwnershipOK, WOwns, ROwns, table, writer
<1>1. CASE RCount
  <2>1. ~(wpc \in {"post", "locked", "count"})
    BY <1>1 DEF MutexOK, WInside, RInside, RCount
  <2>2. /\ tail \in 0..NumBuffs-1 /\ avail \in 0..NumBuffs /\ avail >= 1
        /\ tail' = (tail + 1) % NumBuffs /\ avail' = avail - 1
        /\ head' = (tail + avail) % NumBuffs
    BY <1>1 DEF RCount, Buffs
  <2>3. head' = (tail' + avail') % NumBuffs
    BY <2>2, CursorAdvance
  <2> QED
    BY <1>1, <2>1, <2>2, <2>3 DEF RCount
<1>2. CASE RGet
  BY <1>2 DEF RGet
<1>3. CASE RCall \/ RLock \/ RBlock \/ RWake \/ RSend \/ RDone \/ RPost
  BY <1>3 DEF RCall, RLock, RBlock, RWake, RSend, RDone, RPost
<1> QED
  BY <1>1, <1>2, <1>3 DEF Read

LEMMA ReadWakes == ASSUME IInv, Read PROVE ReaderWakes' /\ WriterWakes'
<1> USE DEF IInv, TypeOK, ReaderWakes, WriterWakes, table, writer
<1>1. CASE RCall \/ RLock \/ RBlock \/ RWake \/ RGet \/ RSend \/ RDone
  BY <1>1 DEF RCall, RLock, RBlock, RWake, RGet, RSend, RDone
<1>2. CASE RCount
  BY <1>2 DEF RCount
<1>3. CASE RPost
  <2>1. avail = NumBuffs - 1 => full' > 0
    BY <1>3, PostRange DEF RPost
  <2> QED
    BY <1>3, <2>1 DEF RPost
<1> QED
  BY <1>1, <1>2, <1>3 DEF Read

LEMMA ReadNotTorn == ASSUME IInv, Read PROVE NotTorn'
<1> USE DEF NotTorn, ROwns, writer, table
<1>1. CASE RSend
  <2>1. /\ rcell \in Cells
        /\ \A k \in 1..rcell-1 : sent[k] = data[rbuf][k] \/ (k = 1 /\ rbuf > 0)
    BY <1>1 DEF RSend, IInv, TypeOK, Cells
  <2>2. \A k \in Cells : sent'[k] = IF k = rcell THEN data[rbuf][rcell] ELSE sent[k]
    BY <1>1, <2>1 DEF RSend, IInv, TypeOK, Contents
  <2>3. \A k \in 1..rcell : k \in Cells /\ (k = rcell \/ k \in 1..rcell-1)
    BY <2>1 DEF Cells
  <2>4. \A k \in 1..rcell'-1 : sent'[k] = data[rbuf][k] \/ (k = 1 /\ rbuf > 0)
    BY <1>1, <2>1, <2>2, <2>3 DEF RSend, Cells
  <2> QED
    BY <1>1, <2>4 DEF RSend
<1>2. CASE RGet
  <2>1. 1..rcell'-1 = {}
    BY <1>2 DEF RGet
  <2> QED
    BY <2>1
<1>3. CASE Read /\ ~RSend /\ ~RGet
  BY <1>3 DEF Read, RCall, RLock, RBlock, RWake, RDone, RCount, RPost, IInv
<1> QED
  BY <1>1, <1>2, <1>3

----------------------------------------------------------------------------
(* The theorems                                                             *)

LEMMA NextIInv == IInv /\ [Next]_vars => IInv'
<1> SUFFICES ASSUME IInv, [Next]_vars PROVE IInv'
  OBVIOUS
<1>1. CASE Write
  BY <1>1, WriteTypeOK, WriteOwnershipOK, WriteWakes, WriteNotTorn DEF IInv
<1>2. CASE Read
  BY <1>2, ReadTypeOK, ReadOwnershipOK, ReadWakes, ReadNotTorn DEF IInv
<1>3. CASE UNCHANGED vars
  BY <1>3 DEF vars, IInv, TypeOK, MutexOK, WInside, RInside, OwnershipOK, WOwns, ROwns,
              NotTorn, ReaderWakes, WriterWakes
<1> QED
  BY <1>1, <1>2, <1>3 DEF Next

\* The inductive invariant holds in every reachable state.
THEOREM Invariance == Spec => []IInv
  BY InitIInv, NextIInv, PTL DEF Spec

\* Types and ranges of the table's cursors, count and semaphores.
THEOREM TypeCorrect == Spec => []TypeOK
<1>1. IInv => TypeOK
  BY DEF IInv
<1> QED
  BY Invariance, <1>1, PTL

\* Writer and reader never work on the same buffer, with any number of buffers.
THEOREM NoSharing == Spec => []NeverShared
<1>1. IInv => NeverShared
  <2> SUFFICES ASSUME IInv, WOwns, ROwns PROVE wbuf # rbuf
    BY DEF NeverShared
  <2>1. /\ TypeOK /\ wbuf = head /\ rbuf = tail /\ 1 \in 1..avail
        /\ head = (tail + avail) % NumBuffs /\ avail < NumBuffs
    BY DEF IInv, OwnershipOK, TypeOK
  <2> QED
    BY <2>1, HeadNotFull, OldestFull
<1> QED
  BY Invariance, <1>1, PTL

\* What the client is sent is what the buffer holds, but for the first byte of a
\* buffer that is not the first: an overrun of the one before it can change it.
THEOREM NoTearing == Spec => []NotTorn
<1>1. IInv => NotTorn
  BY DEF IInv
<1> QED
  BY Invariance, <1>1, PTL

\* Into a buffer that is being sent nothing is written but the one byte of an overrun.
THEOREM OverrunOnly == Spec => OnlyOverrun
<1> DEFINE Untouched ==
      ROwns /\ data'[rbuf] # data[rbuf] =>
        /\ wpc = "work" /\ wcell = Parts + 1 /\ wbuf + 1 = rbuf
        /\ \A k \in Cells \ {1} : data'[rbuf][k] = data[rbuf][k]
<1>1. IInv /\ [Next]_vars => [Untouched]_vars
  <2> SUFFICES ASSUME IInv, Next, ROwns, data'[rbuf] # data[rbuf]
               PROVE  /\ wpc = "work" /\ wcell = Parts + 1 /\ wbuf + 1 = rbuf
                      /\ \A k \in Cells \ {1} : data'[rbuf][k] = data[rbuf][k]
    BY DEF vars
  <2>1. WFill \/ WEnd
    BY DEF Next, Write, Read, WCall, WLock, WBlock, WWake, WGet, WFlush, WCount, WPost,
           RCall, RLock, RBlock, RWake, RGet, RSend, RDone, RCount, RPost, writer
  <2>2. wpc = "work"
    BY <2>1 DEF WFill, WEnd
  <2> QED
    BY <2>1, <2>2, WriteUntouched
<1> QED
  BY <1>1, Invariance, PTL DEF Spec, OnlyOverrun

\* Neither side is left asleep beside a buffer it could use.
THEOREM NoLostWakeup == Spec => [](ReaderWakes /\ WriterWakes)
<1>1. IInv => ReaderWakes /\ WriterWakes
  BY DEF IInv
<1> QED
  BY Invariance, <1>1, PTL

----------------------------------------------------------------------------
(* The table implements BufferQueue                                         *)

\* What consecutive buffers hold is a sequence.
LEMMA ContentsSeq ==
  ASSUME NEW d \in [Buffs -> Contents], NEW t \in Nat, NEW a \in Nat
  PROVE  /\ ContentsOf(d, t, a) \in Seq(Contents)
         /\ Len(ContentsOf(d, t, a)) = a
         /\ \A i \in 1..a : ContentsOf(d, t, a)[i] = d[(t + i - 1) % NumBuffs]
<1> DEFINE w == ContentsOf(d, t, a)
<1>1. \A i \in 1..a : (t + i - 1) % NumBuffs \in Buffs
  <2> SUFFICES ASSUME NEW i \in 1..a PROVE (t + i - 1) % NumBuffs \in Buffs
    OBVIOUS
  <2>1. t + i - 1 \in Nat
    OBVIOUS
  <2> QED
    BY <2>1, ModRange DEF Buffs
<1>2. DOMAIN w = 1..a /\ \A i \in 1..a : w[i] = d[(t + i - 1) % NumBuffs]
  BY DEF ContentsOf
<1>3. w \in [1..a -> Contents]
  BY <1>1 DEF ContentsOf
<1>4. w \in Seq(Contents)
  BY <1>3, SeqDef
<1> QED
  BY <1>2, <1>4, LenProperties

LEMMA HandedOverNow ==
  ASSUME IInv
  PROVE  /\ HandedOver \in Seq(Contents) /\ Len(HandedOver) = avail
         /\ \A i \in 1..avail : HandedOver[i] = data[FullBuff(i)]
<1>1. data \in [Buffs -> Contents] /\ tail \in Nat /\ avail \in Nat
  BY DEF IInv, TypeOK, Buffs
<1> QED
  BY <1>1, ContentsSeq DEF HandedOver, FullBuff

LEMMA HandedOverNext ==
  ASSUME IInv'
  PROVE  /\ HandedOver' \in Seq(Contents) /\ Len(HandedOver') = avail'
         /\ \A i \in 1..avail' : HandedOver'[i] = data'[FullBuff(i)']
<1>1. data' \in [Buffs -> Contents] /\ tail' \in Nat /\ avail' \in Nat
  BY DEF IInv, TypeOK, Buffs
<1> QED
  BY <1>1, ContentsSeq DEF HandedOver, FullBuff

\* Counting a filled buffer appends its content to the queue.
LEMMA BufferAppended ==
  ASSUME IInv, IInv', WCount
  PROVE  HandedOver' = Append(HandedOver, data[wbuf]) /\ data[wbuf] \in Contents
<1> DEFINE grown == Append(HandedOver, data[wbuf])
<1>1. /\ wbuf = head /\ head = (tail + avail) % NumBuffs /\ data[wbuf] \in Contents
      /\ data' = data /\ tail' = tail /\ avail' = avail + 1 /\ avail \in Nat /\ tail \in Nat
  BY DEF IInv, WCount, OwnershipOK, WOwns, TypeOK, Buffs
<1>2. FullBuff(avail + 1) = wbuf
  <2>1. tail + (avail + 1) - 1 = tail + avail
    BY <1>1
  <2> QED
    BY <1>1, <2>1 DEF FullBuff
<1>3. \A i \in 1..avail+1 : HandedOver'[i] = data[FullBuff(i)]
  BY <1>1, HandedOverNext DEF FullBuff
<1>4. /\ grown \in Seq(Contents) /\ Len(grown) = avail + 1
      /\ \A i \in 1..avail : grown[i] = HandedOver[i]
      /\ grown[avail + 1] = data[wbuf]
  BY <1>1, HandedOverNow, AppendProperties
<1>5. \A i \in 1..avail+1 : HandedOver'[i] = grown[i]
  <2> SUFFICES ASSUME NEW i \in 1..avail+1 PROVE HandedOver'[i] = grown[i]
    OBVIOUS
  <2>1. CASE i = avail + 1
    BY <1>2, <1>3, <1>4, <2>1
  <2>2. CASE i \in 1..avail
    BY <1>3, <1>4, <2>2, HandedOverNow
  <2>3. i = avail + 1 \/ i \in 1..avail
    BY <1>1
  <2> QED
    BY <2>1, <2>2, <2>3
<1> HIDE DEF grown
<1>6. HandedOver' \in Seq(Contents) /\ Len(HandedOver') = avail + 1
  BY <1>1, HandedOverNext
<1>7. HandedOver' = grown
  BY <1>4, <1>5, <1>6, SeqEqual
<1> QED
  BY <1>1, <1>7 DEF grown

\* Releasing a sent buffer takes its content off the queue.
LEMMA BufferReleased ==
  ASSUME IInv, IInv', RCount
  PROVE  HandedOver # << >> /\ Head(HandedOver) = shown' /\ Tail(HandedOver) = HandedOver'
<1>1. /\ data' = data /\ tail' = (tail + 1) % NumBuffs /\ avail' = avail - 1
      /\ avail \in 1..NumBuffs /\ tail \in 0..NumBuffs-1 /\ shown' = data[tail]
  <2>1. rpc = "count" /\ avail > 0 /\ rbuf = tail
    BY DEF IInv, RCount, OwnershipOK, ROwns
  <2>2. avail \in 0..NumBuffs /\ tail \in 0..NumBuffs-1
    BY DEF IInv, TypeOK, Buffs
  <2> QED
    BY <2>1, <2>2 DEF RCount, writer
<1>2. HandedOver # << >>
  BY <1>1, HandedOverNow, EmptySeq
<1>3. Head(HandedOver) = shown'
  BY <1>1, <1>2, HandedOverNow, OldestFull DEF IInv
<1>4. /\ Tail(HandedOver) \in Seq(Contents) /\ Len(Tail(HandedOver)) = avail - 1
      /\ \A i \in 1..avail-1 : Tail(HandedOver)[i] = HandedOver[i + 1]
  BY <1>2, HandedOverNow, HeadTailProperties
<1>5. \A i \in 1..avail-1 : Tail(HandedOver)[i] = HandedOver'[i]
  <2> SUFFICES ASSUME NEW i \in 1..avail-1 PROVE Tail(HandedOver)[i] = HandedOver'[i]
    OBVIOUS
  <2>1. i \in 1..NumBuffs /\ i + 1 \in 1..avail /\ i \in 1..avail'
    BY <1>1
  <2>2. FullBuff(i)' = FullBuff(i + 1)
    BY <1>1, <2>1, SlotAdvance DEF FullBuff
  <2> QED
    BY <1>1, <1>4, <2>1, <2>2, HandedOverNow, HandedOverNext
<1>6. Tail(HandedOver) = HandedOver'
  <2>1. HandedOver' \in Seq(Contents) /\ Len(HandedOver') = avail - 1
    BY <1>1, HandedOverNext
  <2> QED
    BY <1>4, <1>5, <2>1, SeqEqual
<1> QED
  BY <1>2, <1>3, <1>6

LEMMA InitQueue == Init => Queue!Init
<1> SUFFICES ASSUME Init PROVE Queue!Init
  OBVIOUS
<1>1. HandedOver = << >>
  BY InitIInv, HandedOverNow, EmptySeq DEF Init
<1> QED
  BY <1>1 DEF Queue!Init, Init

\* A store leaves what is handed over as it is, or it overruns into the oldest buffer,
\* all buffers but the writer's being full.
LEMMA StoredQueue ==
  ASSUME IInv, IInv', WFill \/ WEnd
  PROVE  \/ HandedOver' = HandedOver
         \/ /\ avail = NumBuffs - 1 /\ avail > 0
            /\ HandedOver' = [HandedOver EXCEPT ![1] = [@ EXCEPT ![1] = frame]]
<1>1. /\ wbuf = head /\ avail < NumBuffs /\ head = (tail + avail) % NumBuffs /\ TypeOK
      /\ avail' = avail /\ tail' = tail /\ tail \in 0..NumBuffs-1 /\ avail \in Nat
      /\ data' = Store(data, wcell, frame) /\ data \in [Buffs -> Contents]
      /\ wcell \in 1..Parts+1 /\ frame \in Frames \cup {NoFrame} /\ wbuf \in Buffs
  <2>1. /\ wbuf = head /\ avail < NumBuffs /\ head = (tail + avail) % NumBuffs /\ TypeOK
    BY DEF WFill, WEnd, IInv, OwnershipOK, WOwns
  <2>2. avail' = avail /\ tail' = tail /\ data' = Store(data, wcell, frame)
    BY DEF WFill, WEnd, table
  <2>3. /\ tail \in 0..NumBuffs-1 /\ avail \in Nat /\ data \in [Buffs -> Contents]
        /\ wcell \in 1..Parts+1 /\ frame \in Frames \cup {NoFrame} /\ wbuf \in Buffs
    BY <2>1 DEF TypeOK, Buffs
  <2> QED
    BY <2>1, <2>2, <2>3
<1>2. \A i \in 1..avail : FullBuff(i)' = FullBuff(i) /\ FullBuff(i) \in Buffs
                          /\ FullBuff(i) # wbuf
  <2> SUFFICES ASSUME NEW i \in 1..avail
               PROVE  /\ FullBuff(i)' = FullBuff(i) /\ FullBuff(i) \in Buffs
                      /\ FullBuff(i) # wbuf
    OBVIOUS
  <2>1. tail + i - 1 \in Nat
    BY <1>1
  <2>2. FullBuff(i) # wbuf
    BY <1>1, HeadNotFull
  <2> QED
    BY <1>1, <2>1, <2>2, ModRange DEF FullBuff, Buffs
<1>3. CASE \A i \in 1..avail : wcell <= Parts \/ FullBuff(i) # wbuf + 1
  <2>1. \A i \in 1..avail : data'[FullBuff(i)'] = data[FullBuff(i)]
    <3> SUFFICES ASSUME NEW i \in 1..avail PROVE data'[FullBuff(i)'] = data[FullBuff(i)]
      OBVIOUS
    <3> DEFINE b == FullBuff(i)
    <3>1. b \in Buffs /\ b # wbuf /\ (wcell <= Parts \/ b # wbuf + 1) /\ b' = b
      BY <1>2, <1>3
    <3> HIDE DEF b
    <3>2. \A c \in Buffs : c # wbuf /\ (wcell <= Parts \/ c # wbuf + 1) =>
                              Store(data, wcell, frame)[c] = data[c]
      BY <1>1, Stored
    <3>3. data'[b] = data[b]
      BY <1>1, <3>1, <3>2
    <3> QED
      BY <3>1, <3>3 DEF b
  <2>2. \A i \in 1..avail : HandedOver'[i] = HandedOver[i]
    BY <1>1, <2>1, HandedOverNow, HandedOverNext
  <2> QED
    BY <1>1, <2>2, HandedOverNow, HandedOverNext, SeqEqual
<1>4. ASSUME NEW j \in 1..avail, ~(wcell <= Parts), FullBuff(j) = wbuf + 1
      PROVE  /\ avail = NumBuffs - 1 /\ avail > 0
             /\ HandedOver' = [HandedOver EXCEPT ![1] = [@ EXCEPT ![1] = frame]]
  <2>1. j = 1 /\ avail = NumBuffs - 1
    BY <1>1, <1>4, NextIsOldest
  <2>2. data' = [data EXCEPT ![wbuf + 1] = [@ EXCEPT ![1] = frame]]
    BY <1>1, <1>2, <1>4, Stored
  <2>3. FullBuff(1) = wbuf + 1 /\ 1 \in 1..avail
    BY <1>1, <1>4, <2>1
  <2>4. \A i \in 1..avail : i # 1 => FullBuff(i) # wbuf + 1
    BY <1>1, <1>4, NextIsOldest
  <2> DEFINE q == [HandedOver EXCEPT ![1] = [@ EXCEPT ![1] = frame]]
  <2>5. /\ HandedOver \in Seq(Contents) /\ Len(HandedOver) = avail
        /\ \A i \in 1..avail : HandedOver[i] = data[FullBuff(i)]
    BY HandedOverNow
  <2>6. [HandedOver[1] EXCEPT ![1] = frame] \in Contents
    <3>1. HandedOver[1] \in Contents /\ frame \in Frames \cup {NoFrame} /\ 1 \in Cells
      BY <1>1, <2>3, <2>5, ElementOfSeq DEF Cells
    <3> QED
      BY <3>1 DEF Contents
  <2>7. q \in Seq(Contents) /\ Len(q) = avail
        /\ \A i \in 1..avail : q[i] = IF i = 1 THEN [HandedOver[1] EXCEPT ![1] = frame]
                                                ELSE HandedOver[i]
    BY <2>3, <2>5, <2>6
  <2>8. \A i \in 1..avail : HandedOver'[i] = q[i]
    <3> SUFFICES ASSUME NEW i \in 1..avail PROVE HandedOver'[i] = q[i]
      OBVIOUS
    <3>1. HandedOver'[i] = data'[FullBuff(i)]
      BY <1>1, <1>2, HandedOverNext
    <3> HIDE DEF q
    <3>2. CASE i = 1
      <4>1. data'[FullBuff(1)] = [data[FullBuff(1)] EXCEPT ![1] = frame]
        BY <1>1, <1>2, <2>2, <2>3
      <4> QED
        BY <2>3, <2>5, <2>7, <3>1, <3>2, <4>1
    <3>3. CASE i # 1
      <4>1. data'[FullBuff(i)] = data[FullBuff(i)]
        BY <1>1, <1>2, <2>2, <2>4, <3>3
      <4> QED
        BY <2>5, <2>7, <3>1, <3>3, <4>1
    <3> QED
      BY <3>2, <3>3
  <2>9. HandedOver' \in Seq(Contents) /\ Len(HandedOver') = avail
    BY <1>1, HandedOverNext
  <2> HIDE DEF q
  <2>10. HandedOver' = q
    BY <2>7, <2>8, <2>9, SeqEqual
  <2> QED
    BY <2>1, <2>3, <2>10 DEF q
<1> QED
  BY <1>3, <1>4

\* Every step of the table is a step of the queue or leaves the queue as it is.
LEMMA StepQueue == IInv /\ IInv' /\ [Next]_vars => [Queue!BufferNext]_(Queue!vars)
<1> SUFFICES ASSUME IInv, IInv', [Next]_vars PROVE [Queue!BufferNext]_(Queue!vars)
  OBVIOUS
<1> DEFINE held == [p \in {"writer"} |->
                      IF wpc \in {"update", "count"} THEN data[wbuf] ELSE NoFrame]
<1> USE DEF table, writer, reader, Queue!BufferNext
<1>1. ASSUME UNCHANGED HandedOver, UNCHANGED shown, UNCHANGED held
      PROVE  UNCHANGED Queue!vars
  BY <1>1 DEF Queue!vars
<1>2. CASE WFlush
  <2>1. held["writer"] = NoFrame /\ held' = [held EXCEPT !["writer"] = data[wbuf]]
    BY <1>2 DEF WFlush
  <2>2. data[wbuf] \in Contents
    BY DEF IInv, TypeOK
  <2>3. UNCHANGED HandedOver /\ UNCHANGED shown
    BY <1>2 DEF WFlush, HandedOver, ContentsOf
  <2> QED
    BY <2>1, <2>2, <2>3 DEF Queue!Next, Queue!Offer
<1>3. CASE WCount
  <2>1. held["writer"] = data[wbuf] /\ held' = [held EXCEPT !["writer"] = NoFrame]
    BY <1>3 DEF WCount
  <2>2. HandedOver' = Append(HandedOver, held["writer"]) /\ held["writer"] # NoFrame
    BY <1>3, <2>1, BufferAppended
  <2>3. Len(HandedOver) < NumBuffs
    BY <1>3, HandedOverNow DEF WCount, IInv, OwnershipOK, WOwns
  <2>4. UNCHANGED shown
    BY <1>3 DEF WCount
  <2> QED
    BY <2>1, <2>2, <2>3, <2>4 DEF Queue!Next, Queue!Accept
<1>4. CASE RCount
  <2>1. UNCHANGED held
    BY <1>4 DEF RCount
  <2> QED
    BY <1>4, <2>1, BufferReleased DEF Queue!Next, Queue!Deliver
<1>5. CASE WFill \/ WEnd
  <2>1. UNCHANGED held /\ UNCHANGED shown
    BY <1>5 DEF WFill, WEnd
  <2>2. CASE UNCHANGED HandedOver
    BY <1>1, <2>1, <2>2
  <2>3. CASE ~UNCHANGED HandedOver
    <3>1. /\ avail = NumBuffs - 1 /\ avail > 0
          /\ HandedOver' = [HandedOver EXCEPT ![1] = [@ EXCEPT ![1] = frame]]
      BY <1>5, <2>3, StoredQueue
    <3>2. frame \in Frames
      BY <1>5 DEF WFill, WEnd, IInv, TypeOK
    <3>3. HandedOver # << >> /\ Len(HandedOver) = NumBuffs - 1
      BY <3>1, HandedOverNow, EmptySeq
    <3> QED
      BY <2>1, <3>1, <3>2, <3>3 DEF Queue!Overrun
  <2> QED
    BY <2>2, <2>3
<1>6. CASE WCall \/ WLock \/ WBlock \/ WWake \/ WGet \/ WPost
  <2>1. UNCHANGED held
    BY <1>6 DEF WCall, WLock, WBlock, WWake, WGet, WPost
  <2>2. UNCHANGED HandedOver /\ UNCHANGED shown
    BY <1>6 DEF WCall, WLock, WBlock, WWake, WGet, WPost, HandedOver, ContentsOf
  <2> QED
    BY <1>1, <2>1, <2>2
<1>7. CASE RCall \/ RLock \/ RBlock \/ RWake \/ RGet \/ RSend \/ RDone \/ RPost
  <2>1. UNCHANGED held /\ UNCHANGED shown
    BY <1>7 DEF RCall, RLock, RBlock, RWake, RGet, RSend, RDone, RPost
  <2>2. UNCHANGED HandedOver
    BY <1>7 DEF RCall, RLock, RBlock, RWake, RGet, RSend, RDone, RPost, HandedOver, ContentsOf
  <2> QED
    BY <1>1, <2>1, <2>2
<1>8. CASE UNCHANGED vars
  BY <1>1, <1>8 DEF vars, HandedOver, ContentsOf
<1> QED
  BY <1>2, <1>3, <1>4, <1>5, <1>6, <1>7, <1>8 DEF Next, Write, Read

\* For every number of buffers the table is a bounded queue of buffer contents: each
\* buffer handed over is sent once, in order, and as it was handed over but for the
\* first byte of the oldest one, when a picture overruns the last free buffer.
THEOREM Refinement == Spec => ImplementsQueue
<1>1. Init => Queue!Init
  BY InitQueue
<1>2. IInv /\ IInv' /\ [Next]_vars => [Queue!BufferNext]_(Queue!vars)
  BY StepQueue
<1> QED
  BY <1>1, <1>2, Invariance, PTL DEF Spec, ImplementsQueue, Queue!BufferSpec
============================================================================
