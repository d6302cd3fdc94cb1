--------------------------- MODULE PduFifoProofs ---------------------------
(***************************************************************************)
(* Proofs about PduFifo for every size, every set of messages and every    *)
(* set of producers:                                                       *)
(*   - IInv is an inductive invariant (types, mutual exclusion, cursors,   *)
(*     no lost wakeup of the reader);                                      *)
(*   - with one producer, no lost wakeup of the writer either;             *)
(*   - the FIFO implements BoundedQueue.                                   *)
(***************************************************************************)
EXTENDS PduFifo, SequenceTheorems, TLAPS

USE SizeAssumption, SemAssumption, ThreadAssumption, MsgAssumption

----------------------------------------------------------------------------
(* The cursors of a ring of n slots, advanced by one and taken modulo n      *)
(* (shared.c:133-134, 162-163).                                              *)

LEMMA ModRange ==
  ASSUME NEW n \in Nat \ {0}
  PROVE  \A a \in Nat : a % n \in 0..n-1
  BY SMT

\* In the two laps a cursor sum can reach, % is the identity or one subtraction.
LEMMA ModLaps ==
  ASSUME NEW n \in Nat \ {0}
  PROVE  \A a \in Nat : /\ a < n => a % n = a
                        /\ a >= n /\ a < 2 * n => a % n = a - n
  BY SMT

\* Advancing a cursor that is a slots past another keeps the distance.
LEMMA CursorAdvance ==
  ASSUME NEW n \in Nat \ {0}, NEW t \in 0..n-1, NEW a \in 0..n
  PROVE  /\ a < n => (((t + a) % n) + 1) % n = (t + (a + 1)) % n
         /\ a >= 1 => (((t + 1) % n) + (a - 1)) % n = (t + a) % n
<1>1. \A a0 \in Nat : /\ a0 < n => a0 % n = a0
                      /\ a0 >= n /\ a0 < 2 * n => a0 % n = a0 - n
  BY ModLaps
<1> QED
  BY <1>1

\* The slot of the i-th item after tail has advanced is that of item i + 1.
LEMMA SlotAdvance ==
  ASSUME NEW n \in Nat \ {0}, NEW t \in 0..n-1, NEW i \in 1..n
  PROVE  (((t + 1) % n) + i - 1) % n = (t + (i + 1) - 1) % n
<1>1. \A a0 \in Nat : /\ a0 < n => a0 % n = a0
                      /\ a0 >= n /\ a0 < 2 * n => a0 % n = a0 - n
  BY ModLaps
<1> QED
  BY <1>1

\* Two different items of the window lie in different slots.
LEMMA SlotsDistinct ==
  ASSUME NEW n \in Nat \ {0}, NEW t \in 0..n-1, NEW i \in 1..n, NEW j \in 1..n, i # j
  PROVE  (t + i - 1) % n # (t + j - 1) % n
  BY ModLaps

----------------------------------------------------------------------------
(* The semaphores                                                           *)

LEMMA PostRange ==
  \A s \in 0..SemMax : SemPost(s) \in 0..SemMax /\ SemPost(s) > 0
  BY DEF SemPost

LEMMA PostMutex == SemPost(0) = 1
  BY DEF SemPost

----------------------------------------------------------------------------
(* The inductive invariant                                                  *)

LEMMA InitIInv == Init => IInv
<1> SUFFICES ASSUME Init PROVE IInv
  OBVIOUS
<1>1. TypeOK
  BY DEF Init, TypeOK, Threads
<1>2. MutexOK /\ InOperationOK /\ ReaderWakes
  BY DEF Init, MutexOK, InOperationOK, ReaderWakes, InCritical, Threads
<1>3. CursorsOK
  BY ModLaps DEF Init, CursorsOK
<1> QED
  BY <1>1, <1>2, <1>3 DEF IInv

\* Taking the lock, by either kind of thread.
LEMMA LockIInv == ASSUME IInv, NEW t \in Threads, Lock(t) PROVE IInv'
<1> USE DEF IInv, Lock, Goto, sems, slots
<1>1. TypeOK'
  BY DEF TypeOK
<1>2. \A s \in Threads : ~InCritical(s)
  BY DEF MutexOK, TypeOK
<1>3. mutex = 1 /\ mutex' = 0 /\ InCritical(t)' /\ \A s \in Threads : InCritical(s)' => s = t
  BY <1>2 DEF TypeOK, InCritical
<1>4. MutexOK'
  BY <1>3 DEF MutexOK
<1>5. CursorsOK' /\ InOperationOK' /\ ReaderWakes'
  BY <1>2 DEF TypeOK, CursorsOK, InOperationOK, ReaderWakes, InCritical, Threads
<1> QED
  BY <1>1, <1>4, <1>5

\* A thread that leaves the critical section was the only one in it.
LEMMA UnlockMutexOK ==
  ASSUME TypeOK, MutexOK, NEW t \in Threads, InCritical(t),
         mutex' = SemPost(mutex), NEW l \in {"idle", "asleep"}, Goto(t, l)
  PROVE  mutex' = 1 /\ MutexOK'
<1>1. mutex = 0 /\ \A s \in Threads : InCritical(s) => s = t
  BY DEF MutexOK
<1>2. mutex' = 1
  BY <1>1, PostMutex
<1>3. \A s \in Threads : ~InCritical(s)'
  BY <1>1 DEF TypeOK, Goto, InCritical
<1> QED
  BY <1>2, <1>3 DEF MutexOK

LEMMA PutIInv == ASSUME IInv, NEW p \in Producers, Put(p) PROVE IInv'
<1> USE DEF IInv, Goto, sems, slots
<1>0. p \in Threads /\ p # Consumer
  BY DEF Threads
<1>1. CASE PutCall(p)
  <2>1. TypeOK'
    BY <1>0, <1>1 DEF TypeOK, PutCall
  <2>2. MutexOK'
    BY <1>0, <1>1 DEF MutexOK, TypeOK, PutCall, InCritical
  <2>3. CursorsOK' /\ InOperationOK' /\ ReaderWakes'
    BY <1>0, <1>1 DEF CursorsOK, InOperationOK, ReaderWakes, TypeOK, PutCall
  <2> QED
    BY <2>1, <2>2, <2>3
<1>2. CASE Lock(p)
  BY <1>0, <1>2, LockIInv
<1>3. CASE PutBlock(p)
  <2>1. mutex' = 1 /\ MutexOK'
    BY <1>0, <1>3, UnlockMutexOK DEF PutBlock, InCritical
  <2>2. TypeOK'
    BY <1>0, <1>3, <2>1 DEF TypeOK, PutBlock
  <2>3. CursorsOK' /\ InOperationOK' /\ ReaderWakes'
    BY <1>0, <1>3 DEF CursorsOK, InOperationOK, ReaderWakes, TypeOK, PutBlock
  <2> QED
    BY <2>1, <2>2, <2>3
<1>4. CASE PutWake(p)
  <2>1. TypeOK'
    BY <1>0, <1>4 DEF TypeOK, PutWake
  <2>2. MutexOK'
    BY <1>0, <1>4 DEF MutexOK, TypeOK, PutWake, InCritical
  <2>3. CursorsOK' /\ InOperationOK' /\ ReaderWakes'
    BY <1>0, <1>4 DEF CursorsOK, InOperationOK, ReaderWakes, TypeOK, PutWake
  <2> QED
    BY <2>1, <2>2, <2>3
<1>5. CASE PutStore(p)
  <2>1. \A s \in Threads : InCritical(s) => s = p
    BY <1>0, <1>5 DEF MutexOK, PutStore, InCritical
  <2>2. TypeOK'
    <3>1. head' \in 0..Size-1
      <4>1. head + 1 \in Nat /\ head' = (head + 1) % Size
        BY <1>5 DEF TypeOK, PutStore
      <4> QED
        BY <4>1, ModRange
    <3>2. buffer' \in [0..Size-1 -> Msgs \cup {NoMsg}]
      BY <1>5 DEF TypeOK, PutStore
    <3> QED
      BY <1>0, <1>5, <3>1, <3>2 DEF TypeOK, PutStore
  <2>3. MutexOK'
    BY <1>0, <1>5, <2>1 DEF MutexOK, TypeOK, PutStore, InCritical
  <2>4. CursorsOK'
    <3>1. /\ tail \in 0..Size-1 /\ avail \in 0..Size /\ avail < Size
          /\ head' = (((tail + avail) % Size) + 1) % Size
          /\ tail' = tail /\ avail' = avail + 1
      BY <1>5 DEF CursorsOK, TypeOK, PutStore
    <3> QED
      BY <3>1, CursorAdvance DEF CursorsOK
  <2>5. InOperationOK'
    BY <1>0, <1>5, <2>1 DEF InOperationOK, TypeOK, PutStore, InCritical, Threads
  <2>6. ReaderWakes'
    BY <1>0, <1>5, <2>1 DEF ReaderWakes, TypeOK, PutStore, InCritical, Threads
  <2> QED
    BY <2>2, <2>3, <2>4, <2>5, <2>6
<1>6. CASE PutReturn(p)
  <2>1. mutex' = 1 /\ MutexOK'
    BY <1>0, <1>6, UnlockMutexOK DEF PutReturn, InCritical
  <2>2. empty' \in 0..SemMax /\ (avail = 1 => empty' > 0) /\ (avail # 1 => empty' = empty)
    BY <1>6, PostRange DEF PutReturn, TypeOK
  <2>3. TypeOK'
    BY <1>0, <1>6, <2>1, <2>2 DEF TypeOK, PutReturn
  <2>4. CursorsOK' /\ InOperationOK' /\ ReaderWakes'
    BY <1>0, <1>6, <2>2 DEF CursorsOK, InOperationOK, ReaderWakes, TypeOK, PutReturn
  <2> QED
    BY <2>1, <2>3, <2>4
<1> QED
  BY <1>1, <1>2, <1>3, <1>4, <1>5, <1>6 DEF Put

LEMMA GetIInv == ASSUME IInv, Get PROVE IInv'
<1> USE DEF IInv, Goto, sems, slots
<1>0. Consumer \in Threads /\ Consumer \notin Producers
  BY DEF Threads
<1>1. CASE GetCall
  <2>1. TypeOK' /\ MutexOK'
    BY <1>0, <1>1 DEF TypeOK, MutexOK, GetCall, InCritical
  <2>2. CursorsOK' /\ InOperationOK' /\ ReaderWakes'
    BY <1>0, <1>1 DEF CursorsOK, InOperationOK, ReaderWakes, TypeOK, GetCall, Threads
  <2> QED
    BY <2>1, <2>2
<1>2. CASE Lock(Consumer)
  BY <1>0, <1>2, LockIInv
<1>3. CASE GetBlock
  <2>1. mutex' = 1 /\ MutexOK'
    BY <1>0, <1>3, UnlockMutexOK DEF GetBlock, InCritical
  <2>2. TypeOK'
    BY <1>0, <1>3, <2>1 DEF TypeOK, GetBlock
  <2>3. CursorsOK' /\ InOperationOK' /\ ReaderWakes'
    BY <1>0, <1>3 DEF CursorsOK, InOperationOK, ReaderWakes, TypeOK, GetBlock, Threads
  <2> QED
    BY <2>1, <2>2, <2>3
<1>4. CASE GetWake
  <2>1. TypeOK' /\ MutexOK'
    BY <1>0, <1>4 DEF TypeOK, MutexOK, GetWake, InCritical
  <2>2. CursorsOK' /\ InOperationOK' /\ ReaderWakes'
    BY <1>0, <1>4 DEF CursorsOK, InOperationOK, ReaderWakes, TypeOK, GetWake, Threads
  <2> QED
    BY <2>1, <2>2
<1>5. CASE GetLoad
  <2>1. \A s \in Threads : InCritical(s) => s = Consumer
    BY <1>0, <1>5 DEF MutexOK, GetLoad, InCritical
  <2>2. TypeOK'
    <3>1. tail' \in 0..Size-1
      <4>1. tail + 1 \in Nat /\ tail' = (tail + 1) % Size
        BY <1>5 DEF TypeOK, GetLoad
      <4> QED
        BY <4>1, ModRange
    <3> QED
      BY <1>0, <1>5, <3>1 DEF TypeOK, GetLoad
  <2>3. MutexOK'
    BY <1>0, <1>5, <2>1 DEF MutexOK, TypeOK, GetLoad, InCritical
  <2>4. CursorsOK'
    BY <1>5, CursorAdvance DEF CursorsOK, TypeOK, GetLoad
  <2>5. InOperationOK' /\ ReaderWakes'
    BY <1>0, <1>5, <2>1 DEF InOperationOK, ReaderWakes, TypeOK, GetLoad, InCritical, Threads
  <2> QED
    BY <2>2, <2>3, <2>4, <2>5
<1>6. CASE GetReturn
  <2>1. mutex' = 1 /\ MutexOK'
    BY <1>0, <1>6, UnlockMutexOK DEF GetReturn, InCritical
  <2>2. full' \in 0..SemMax
    BY <1>6, PostRange DEF GetReturn, TypeOK
  <2>3. TypeOK'
    BY <1>0, <1>6, <2>1, <2>2 DEF TypeOK, GetReturn
  <2>4. CursorsOK' /\ InOperationOK' /\ ReaderWakes'
    BY <1>0, <1>6 DEF CursorsOK, InOperationOK, ReaderWakes, TypeOK, GetReturn, Threads
  <2> QED
    BY <2>1, <2>3, <2>4
<1> QED
  BY <1>1, <1>2, <1>3, <1>4, <1>5, <1>6 DEF Get

LEMMA NextIInv == IInv /\ [Next]_vars => IInv'
<1> SUFFICES ASSUME IInv, [Next]_vars PROVE IInv'
  OBVIOUS
<1>1. CASE Get
  BY <1>1, GetIInv
<1>2. CASE \E p \in Producers : Put(p)
  BY <1>2, PutIInv
<1>3. CASE UNCHANGED vars
  BY <1>3 DEF vars, IInv, TypeOK, MutexOK, InCritical, CursorsOK, InOperationOK, ReaderWakes
<1> QED
  BY <1>1, <1>2, <1>3 DEF Next

\* The inductive invariant holds in every reachable state.
THEOREM Invariance == Spec => []IInv
  BY InitIInv, NextIInv, PTL DEF Spec

\* Every variable keeps its type: the cursors stay in the array, avail in 0..Size.
THEOREM TypeCorrect == Spec => []TypeOK
<1>1. IInv => TypeOK
  BY DEF IInv
<1> QED
  BY Invariance, <1>1, PTL

\* One thread at a time between sem_wait(&mutex) and sem_post(&mutex).
THEOREM MutualExclusion == Spec => []MutexOK
<1>1. IInv => MutexOK
  BY DEF IInv
<1> QED
  BY Invariance, <1>1, PTL

\* The reader is never left asleep beside a PDU, whatever the number of producers.
THEOREM ReaderNotLost == Spec => []ReaderWakes
<1>1. IInv => ReaderWakes
  BY DEF IInv
<1> QED
  BY Invariance, <1>1, PTL

----------------------------------------------------------------------------
(* One producer: the rx FIFO                                                *)

LEMMA NextWriterWakes ==
  ASSUME \A p, q \in Producers : p = q, IInv, WriterWakes, [Next]_vars
  PROVE  WriterWakes'
<1> USE DEF IInv, TypeOK, WriterWakes, Goto, sems, slots
<1>0. Consumer \in Threads /\ Producers \subseteq Threads
  BY DEF Threads
<1>1. CASE UNCHANGED vars
  BY <1>1 DEF vars
<1>2. ASSUME NEW p \in Producers, Put(p) PROVE WriterWakes'
  <2> SUFFICES ASSUME NEW q \in Producers, pc'[q] = "asleep", avail' < Size
               PROVE  full' > 0 \/ (avail' = Size - 1 /\ pc'[Consumer] = "post")
    OBVIOUS
  <2>1. q = p
    OBVIOUS
  <2> QED
    BY <1>0, <1>2, <2>1
       DEF Put, PutCall, Lock, PutBlock, PutWake, PutStore, PutReturn
<1>3. CASE Get
  <2>1. CASE GetReturn
    <3>1. avail = Size - 1 => full' > 0
      BY <2>1, PostRange DEF GetReturn
    <3>2. avail # Size - 1 => full' = full
      BY <2>1 DEF GetReturn
    <3> QED
      BY <1>0, <2>1, <3>1, <3>2 DEF GetReturn
  <2>2. CASE GetLoad
    BY <1>0, <2>2 DEF GetLoad
  <2>3. CASE GetCall \/ Lock(Consumer) \/ GetBlock \/ GetWake
    BY <1>0, <2>3 DEF GetCall, Lock, GetBlock, GetWake
  <2> QED
    BY <1>3, <2>1, <2>2, <2>3 DEF Get
<1> QED
  BY <1>1, <1>2, <1>3 DEF Next

\* With one producer, as on the rx FIFO, a writer is never left asleep beside a
\* free slot.  With two the run pdu_fifo_stranded refutes it.
THEOREM WriterNotLost ==
  ASSUME \A p, q \in Producers : p = q
  PROVE  Spec => []WriterWakes
<1>1. Init => WriterWakes
  BY DEF Init, WriterWakes, Threads
<1>2. IInv /\ WriterWakes /\ [Next]_vars => WriterWakes'
  BY NextWriterWakes
<1> QED
  BY <1>1, <1>2, Invariance, PTL DEF Spec

----------------------------------------------------------------------------
(* The FIFO implements the bounded queue                                    *)

\* The window between the cursors is a sequence of avail items.
LEMMA WindowSeq ==
  ASSUME NEW b \in [0..Size-1 -> Msgs \cup {NoMsg}], NEW t \in 0..Size-1, NEW a \in 0..Size
  PROVE  /\ Window(b, t, a) \in Seq(Msgs \cup {NoMsg})
         /\ Len(Window(b, t, a)) = a
         /\ \A i \in 1..a : Window(b, t, a)[i] = b[(t + i - 1) % Size]
<1> DEFINE w == Window(b, t, a)
           S == Msgs \cup {NoMsg}
<1>1. a \in Nat /\ DOMAIN w = 1..a
  BY DEF Window
<1>2. ASSUME NEW i \in 1..a PROVE w[i] = b[(t + i - 1) % Size] /\ w[i] \in S
  <2>1. t + i - 1 \in Nat
    OBVIOUS
  <2>2. (t + i - 1) % Size \in 0..Size-1
    BY <2>1, ModRange
  <2> QED
    BY <2>2 DEF Window
<1>3. w \in [1..a -> S]
  BY <1>1, <1>2 DEF Window
<1>4. w \in Seq(S)
  BY <1>1, <1>3, SeqDef
<1> QED
  BY <1>1, <1>2, <1>4, LenProperties

LEMMA ContentsStore ==
  ASSUME IInv, NEW p \in Producers, PutStore(p), TypeOK'
  PROVE  Contents' = Append(Contents, input[p])
<1> DEFINE S == Msgs \cup {NoMsg}
           grown == Append(Contents, input[p])
<1> USE DEF IInv
<1>1. /\ input[p] \in S /\ tail' = tail /\ avail' = avail + 1
      /\ avail \in 0..Size-1 /\ tail \in 0..Size-1
      /\ buffer' = [buffer EXCEPT ![head] = input[p]]
      /\ head = (tail + avail) % Size /\ head \in 0..Size-1
      /\ buffer \in [0..Size-1 -> S]
  BY DEF TypeOK, PutStore, CursorsOK
<1>2. /\ Contents \in Seq(S) /\ Len(Contents) = avail
      /\ \A i \in 1..avail : Contents[i] = buffer[(tail + i - 1) % Size]
  <2> HIDE DEF IInv
  <2>1. /\ Contents = Window(buffer, tail, avail) /\ avail \in 0..Size
        /\ tail \in 0..Size-1 /\ buffer \in [0..Size-1 -> S]
    BY <1>1 DEF Contents
  <2> QED
    BY <2>1, WindowSeq, Zenon
<1>3. /\ Contents' \in Seq(S) /\ Len(Contents') = avail + 1
      /\ \A i \in 1..avail+1 : Contents'[i] = buffer'[(tail + i - 1) % Size]
  <2> HIDE DEF IInv
  <2>1. /\ Contents' = Window(buffer', tail', avail') /\ avail' \in 0..Size
        /\ tail' \in 0..Size-1 /\ buffer' \in [0..Size-1 -> S]
    BY DEF Contents, TypeOK
  <2>2. /\ Contents' \in Seq(S) /\ Len(Contents') = avail'
        /\ \A i \in 1..avail' : Contents'[i] = buffer'[(tail' + i - 1) % Size]
    BY <2>1, WindowSeq, Zenon
  <2> QED
    BY <1>1, <2>2
<1>4. /\ grown \in Seq(S) /\ Len(grown) = avail + 1
      /\ \A i \in 1..avail : grown[i] = Contents[i]
      /\ grown[avail + 1] = input[p]
  BY <1>1, <1>2, AppendProperties
<1> HIDE DEF grown, S
<1>5. ASSUME NEW i \in 1..avail+1 PROVE Contents'[i] = grown[i]
  <2>1. CASE i = avail + 1
    BY <1>1, <1>3, <1>4, <2>1
  <2>2. CASE i \in 1..avail
    <3>1. (tail + i - 1) % Size # (tail + (avail + 1) - 1) % Size
      BY <1>1, <2>2, SlotsDistinct
    <3>2. (tail + i - 1) % Size # head
      BY <1>1, <3>1
    <3>3. (tail + i - 1) % Size \in 0..Size-1
      <4>1. tail + i - 1 \in Nat
        BY <1>1, <2>2
      <4> QED
        BY <4>1, ModRange
    <3>4. buffer'[(tail + i - 1) % Size] = buffer[(tail + i - 1) % Size]
      BY <1>1, <3>2, <3>3
    <3> QED
      BY <1>2, <1>3, <1>4, <2>2, <3>4
  <2> QED
    BY <1>1, <2>1, <2>2
<1> QED
  BY <1>1, <1>3, <1>4, <1>5, SeqEqual DEF grown

LEMMA ContentsLoad ==
  ASSUME IInv, GetLoad, TypeOK'
  PROVE  /\ Contents # << >>
         /\ Head(Contents) = out'
         /\ Tail(Contents) = Contents'
<1> DEFINE S == Msgs \cup {NoMsg}
<1> USE DEF IInv
<1>1. /\ avail \in 1..Size /\ avail' = avail - 1 /\ buffer' = buffer
      /\ buffer \in [0..Size-1 -> S]
      /\ tail \in 0..Size-1 /\ tail' = (tail + 1) % Size /\ out' = buffer[tail]
  BY DEF TypeOK, GetLoad
<1>2. /\ Contents \in Seq(S) /\ Len(Contents) = avail
      /\ \A i \in 1..avail : Contents[i] = buffer[(tail + i - 1) % Size]
  <2> HIDE DEF IInv
  <2>1. /\ Contents = Window(buffer, tail, avail) /\ avail \in 0..Size
        /\ tail \in 0..Size-1 /\ buffer \in [0..Size-1 -> S]
    BY <1>1 DEF Contents
  <2> QED
    BY <2>1, WindowSeq, Zenon
<1>3. /\ Contents' \in Seq(S) /\ Len(Contents') = avail - 1
      /\ \A i \in 1..avail-1 : Contents'[i] = buffer[(((tail + 1) % Size) + i - 1) % Size]
  <2> HIDE DEF IInv
  <2>1. /\ Contents' = Window(buffer', tail', avail') /\ avail' \in 0..Size
        /\ tail' \in 0..Size-1 /\ buffer' \in [0..Size-1 -> S]
    BY DEF Contents, TypeOK
  <2>2. /\ Contents' \in Seq(S) /\ Len(Contents') = avail'
        /\ \A i \in 1..avail' : Contents'[i] = buffer'[(tail' + i - 1) % Size]
    BY <2>1, WindowSeq, Zenon
  <2> QED
    BY <1>1, <2>2
<1>4. Contents # << >>
  BY <1>1, <1>2, EmptySeq
<1>5. Head(Contents) = out'
  <2>1. (tail + 1 - 1) % Size = tail
    <3>1. tail + 1 - 1 = tail /\ tail \in Nat /\ tail < Size
      BY <1>1
    <3> QED
      BY <3>1, ModLaps
  <2> QED
    BY <1>1, <1>2, <1>4, <2>1
<1>6. /\ Tail(Contents) \in Seq(S) /\ Len(Tail(Contents)) = avail - 1
      /\ \A i \in 1..avail-1 : Tail(Contents)[i] = Contents[i + 1]
  BY <1>2, <1>4, HeadTailProperties
<1>7. ASSUME NEW i \in 1..avail-1 PROVE Tail(Contents)[i] = Contents'[i]
  <2>1. i \in 1..Size /\ i + 1 \in 1..avail
    BY <1>1
  <2>2. (((tail + 1) % Size) + i - 1) % Size = (tail + (i + 1) - 1) % Size
    BY <1>1, <2>1, SlotAdvance
  <2> QED
    BY <1>2, <1>3, <1>6, <2>1, <2>2
<1>8. Tail(Contents) = Contents'
  BY <1>1, <1>3, <1>6, <1>7, SeqEqual
<1> QED
  BY <1>4, <1>5, <1>8

LEMMA InitQueue == Init => Queue!Init
<1> SUFFICES ASSUME Init PROVE Queue!Init
  OBVIOUS
<1>1. Contents = << >>
  <2>1. TypeOK
    BY InitIInv DEF IInv
  <2> QED
    BY <2>1, WindowSeq, EmptySeq DEF Init, Contents, TypeOK
<1> QED
  BY <1>1 DEF Queue!Init, Init, Threads

\* Every step of the FIFO is a step of the queue or leaves the queue as it is.
LEMMA StepQueue == IInv /\ IInv' /\ [Next]_vars => [Queue!Next]_(Queue!vars)
<1> SUFFICES ASSUME IInv, IInv', [Next]_vars PROVE [Queue!Next]_(Queue!vars)
  OBVIOUS
<1> DEFINE held == [p \in Producers |->
                      IF pc[p] \in {"lock", "locked", "asleep"} THEN input[p] ELSE NoMsg]
<1> USE DEF Goto, sems, slots
<1>0. Consumer \in Threads /\ Producers \subseteq Threads /\ TypeOK /\ TypeOK'
  BY DEF Threads, IInv
<1>1. ASSUME UNCHANGED slots, UNCHANGED out, UNCHANGED held
      PROVE  UNCHANGED Queue!vars
  BY <1>1 DEF Queue!vars, Contents, Window
<1>2. ASSUME NEW p \in Producers, Put(p) PROVE [Queue!Next]_(Queue!vars)
  <2>1. CASE PutCall(p)
    <3>1. PICK m \in Msgs : input' = [input EXCEPT ![p] = m]
      BY <2>1 DEF PutCall
    <3>2. held[p] = NoMsg /\ held' = [held EXCEPT ![p] = m]
      BY <1>0, <2>1, <3>1 DEF PutCall, TypeOK
    <3>3. Contents' = Contents /\ out' = out
      BY <2>1 DEF PutCall, Contents, Window
    <3> QED
      BY <3>2, <3>3 DEF Queue!Next, Queue!Offer
  <2>2. CASE PutStore(p)
    <3>1. held[p] = input[p] /\ input[p] \in Msgs /\ held' = [held EXCEPT ![p] = NoMsg]
      BY <1>0, <2>2 DEF PutStore, TypeOK, IInv, InOperationOK
    <3>2. Contents' = Append(Contents, held[p]) /\ out' = out
      BY <1>0, <2>2, <3>1, ContentsStore DEF PutStore
    <3>3. Len(Contents) < Size
      BY <1>0, <2>2, WindowSeq DEF Contents, PutStore, TypeOK
    <3>4. held[p] # NoMsg
      BY <3>1
    <3> QED
      BY <3>1, <3>2, <3>3, <3>4 DEF Queue!Next, Queue!Accept
  <2>3. CASE Lock(p) \/ PutBlock(p) \/ PutWake(p) \/ PutReturn(p)
    <3>1. UNCHANGED slots /\ UNCHANGED out /\ UNCHANGED held
      BY <1>0, <2>3 DEF Lock, PutBlock, PutWake, PutReturn, TypeOK
    <3> QED
      BY <1>1, <3>1
  <2> QED
    BY <1>2, <2>1, <2>2, <2>3 DEF Put
<1>3. CASE Get
  <2>1. UNCHANGED held
    BY <1>0, <1>3 DEF Get, GetCall, Lock, GetBlock, GetWake, GetLoad, GetReturn, TypeOK
  <2>2. CASE GetLoad
    BY <1>0, <2>1, <2>2, ContentsLoad DEF Queue!Next, Queue!Deliver
  <2>3. CASE GetCall \/ Lock(Consumer) \/ GetBlock \/ GetWake \/ GetReturn
    <3>1. UNCHANGED slots /\ UNCHANGED out
      BY <2>3 DEF GetCall, Lock, GetBlock, GetWake, GetReturn
    <3> QED
      BY <1>1, <2>1, <3>1
  <2> QED
    BY <1>3, <2>2, <2>3 DEF Get
<1>4. CASE UNCHANGED vars
  BY <1>1, <1>4 DEF vars
<1> QED
  BY <1>2, <1>3, <1>4 DEF Next

\* Whatever the size and the number of producers, the FIFO is a bounded queue:
\* PDUs come out in the order they were accepted, each one once.
THEOREM Refinement == Spec => ImplementsQueue
<1>1. Init => Queue!Init
  BY InitQueue
<1>2. IInv /\ IInv' /\ [Next]_vars => [Queue!Next]_(Queue!vars)
  BY StepQueue
<1> QED
  BY <1>1, <1>2, Invariance, PTL DEF Spec, ImplementsQueue, Queue!Spec
=============================================================================
