------------------------------ MODULE PduFifo ------------------------------
(***************************************************************************)
(* The PDU FIFO of the firmware (0_Investigator/shared.c:103-173): a       *)
(* circular buffer guarded by a binary semaphore "mutex", with two         *)
(* counting semaphores "full" and "empty" on which threads sleep.          *)
(*                                                                         *)
(* rx_pdu_fifo_g has one producer (commandTCP) and one consumer            *)
(* (controlThread); tx_pdu_fifo_g has two producers (controlThread,        *)
(* sensorThread) and one consumer (updateTCP).  Both are instances of this *)
(* module: the difference is the set Producers.                            *)
(*                                                                         *)
(* pc[t] says where thread t is:                                           *)
(*   "idle"    outside pdu_fifo_put / pdu_fifo_get                         *)
(*   "lock"    in sem_wait(&fifo->mutex)                                   *)
(*   "locked"  about to evaluate the condition of the while loop           *)
(*   "asleep"  in sem_wait(&fifo->full) or sem_wait(&fifo->empty)          *)
(*   "post"    has copied the PDU, about to post and to unlock             *)
(***************************************************************************)
EXTENDS Integers, Sequences

CONSTANTS Producers,  \* threads that call pdu_fifo_put
          Consumer,   \* the one thread that calls pdu_fifo_get
          Msgs,       \* the PDUs
          NoMsg,      \* the content of a slot never written
          Size,       \* PDU_FIFO_SIZE
          SemMax      \* largest count of a semaphore; sem_post leaves it there

ASSUME SizeAssumption == Size \in Nat \ {0}
ASSUME SemAssumption == SemMax \in Nat \ {0}
ASSUME ThreadAssumption == Consumer \notin Producers
ASSUME MsgAssumption == NoMsg \notin Msgs

Threads == Producers \cup {Consumer}

VARIABLES buffer, head, tail, avail,   \* fields of pdu_fifo_t
          mutex, full, empty,          \* the semaphores' counts
          pc,                          \* where each thread is
          input,                       \* per producer, its argument of put
          out                          \* what the consumer's last get copied out

sems == <<mutex, full, empty>>
slots == <<buffer, head, tail, avail>>
vars == <<buffer, head, tail, avail, mutex, full, empty, pc, input, out>>

\* sem_post: POSIX fails with EOVERFLOW at the maximum and leaves the count.
SemPost(s) == IF s < SemMax THEN s + 1 ELSE s

Goto(t, label) == pc' = [pc EXCEPT ![t] = label]

\* pdu_fifo_init: the FIFO is empty and unlocked; the buffers are zeroed globals.
Init ==
    /\ buffer = [i \in 0..Size-1 |-> NoMsg]
    /\ head = 0 /\ tail = 0 /\ avail = 0
    /\ mutex = 1 /\ full = 0 /\ empty = 0
    /\ pc = [t \in Threads |-> "idle"]
    /\ input = [p \in Producers |-> NoMsg]
    /\ out = NoMsg

----------------------------------------------------------------------------
(* Both operations take the mutex with sem_wait, first and after each sleep *)

\* Mutated form of Lock: enters without waiting for the mutex.
LockIgnoresMutex(t) ==
    /\ pc[t] = "lock"
    /\ Goto(t, "locked")
    /\ mutex' = 0
    /\ UNCHANGED <<full, empty, slots, input, out>>

Lock(t) ==
    /\ pc[t] = "lock"
    /\ mutex > 0
    /\ mutex' = mutex - 1
    /\ Goto(t, "locked")
    /\ UNCHANGED <<full, empty, slots, input, out>>

----------------------------------------------------------------------------
(* pdu_fifo_put                                                             *)

PutCall(p) ==
    /\ pc[p] = "idle"
    /\ \E m \in Msgs : input' = [input EXCEPT ![p] = m]
    /\ Goto(p, "lock")
    /\ UNCHANGED <<sems, slots, out>>

\* while(avail == size): unlock and go to sleep on full.
PutBlock(p) ==
    /\ pc[p] = "locked"
    /\ avail = Size
    /\ mutex' = SemPost(mutex)
    /\ Goto(p, "asleep")
    /\ UNCHANGED <<full, empty, slots, input, out>>

\* Mutated form of PutWake: "if" instead of "while", so a stale token is
\* taken for a free slot.
PutWakeNoRecheck(p) ==
    /\ pc[p] = "asleep"
    /\ full > 0 /\ mutex > 0
    /\ full' = full - 1 /\ mutex' = mutex - 1
    /\ buffer' = [buffer EXCEPT ![head] = input[p]]
    /\ head' = (head + 1) % Size
    /\ avail' = avail + 1
    /\ Goto(p, "post")
    /\ UNCHANGED <<empty, tail, input, out>>

\* sem_wait(&fifo->full) returns; the condition is tested again under the mutex.
PutWake(p) ==
    /\ pc[p] = "asleep"
    /\ full > 0
    /\ full' = full - 1
    /\ Goto(p, "lock")
    /\ UNCHANGED <<mutex, empty, slots, input, out>>

\* Mutated form of PutStore: head is not wrapped.
PutStoreNoWrap(p) ==
    /\ pc[p] = "locked"
    /\ avail # Size
    /\ buffer' = [buffer EXCEPT ![head] = input[p]]
    /\ head' = head + 1
    /\ avail' = avail + 1
    /\ Goto(p, "post")
    /\ UNCHANGED <<tail, sems, input, out>>

\* memcpy into the slot at head, advance head, count it.
PutStore(p) ==
    /\ pc[p] = "locked"
    /\ avail # Size
    /\ buffer' = [buffer EXCEPT ![head] = input[p]]
    /\ head' = (head + 1) % Size
    /\ avail' = avail + 1
    /\ Goto(p, "post")
    /\ UNCHANGED <<tail, sems, input, out>>

\* Mutated form of PutReturn: posts empty only when the FIFO has become full.
PutReturnPostsWhenFull(p) ==
    /\ pc[p] = "post"
    /\ empty' = IF avail = Size THEN SemPost(empty) ELSE empty
    /\ mutex' = SemPost(mutex)
    /\ Goto(p, "idle")
    /\ UNCHANGED <<full, slots, input, out>>

\* Wake the reader if the FIFO was empty, then unlock.
PutReturn(p) ==
    /\ pc[p] = "post"
    /\ empty' = IF avail = 1 THEN SemPost(empty) ELSE empty
    /\ mutex' = SemPost(mutex)
    /\ Goto(p, "idle")
    /\ UNCHANGED <<full, slots, input, out>>

----------------------------------------------------------------------------
(* pdu_fifo_get                                                             *)

GetCall ==
    /\ pc[Consumer] = "idle"
    /\ Goto(Consumer, "lock")
    /\ UNCHANGED <<sems, slots, input, out>>

\* while(avail < 1): unlock and go to sleep on empty.
GetBlock ==
    /\ pc[Consumer] = "locked"
    /\ avail < 1
    /\ mutex' = SemPost(mutex)
    /\ Goto(Consumer, "asleep")
    /\ UNCHANGED <<full, empty, slots, input, out>>

\* Mutated form of GetWake: the token left by an earlier put is not consumed
\* one at a time but cleared, and the sleep goes on.
GetWakeClears ==
    /\ pc[Consumer] = "asleep"
    /\ empty > 0
    /\ empty' = 0
    /\ UNCHANGED <<mutex, full, slots, pc, input, out>>

GetWake ==
    /\ pc[Consumer] = "asleep"
    /\ empty > 0
    /\ empty' = empty - 1
    /\ Goto(Consumer, "lock")
    /\ UNCHANGED <<mutex, full, slots, input, out>>

GetLoad ==
    /\ pc[Consumer] = "locked"
    /\ avail >= 1
    /\ out' = buffer[tail]
    /\ tail' = (tail + 1) % Size
    /\ avail' = avail - 1
    /\ Goto(Consumer, "post")
    /\ UNCHANGED <<buffer, head, sems, input>>

\* Mutated form of GetReturn: the test forgets that avail has been decremented.
GetReturnOffByOne ==
    /\ pc[Consumer] = "post"
    /\ full' = IF avail = Size THEN SemPost(full) ELSE full
    /\ mutex' = SemPost(mutex)
    /\ Goto(Consumer, "idle")
    /\ UNCHANGED <<empty, slots, input, out>>

\* Wake one writer if the FIFO was full, then unlock.
GetReturn ==
    /\ pc[Consumer] = "post"
    /\ full' = IF avail = Size - 1 THEN SemPost(full) ELSE full
    /\ mutex' = SemPost(mutex)
    /\ Goto(Consumer, "idle")
    /\ UNCHANGED <<empty, slots, input, out>>

----------------------------------------------------------------------------
Put(p) ==
    PutCall(p) \/ Lock(p) \/ PutBlock(p) \/ PutWake(p) \/ PutStore(p) \/ PutReturn(p)

Get ==
    GetCall \/ Lock(Consumer) \/ GetBlock \/ GetWake \/ GetLoad \/ GetReturn

Next == Get \/ \E p \in Producers : Put(p)

Spec == Init /\ [][Next]_vars

\* A thread inside an operation keeps running (the kernel schedules every ready
\* thread), a thread pending on the mutex gets it (waiters queue in order), and
\* the consumer's loop calls get again.  Nothing makes a producer call put.
Fairness ==
    /\ SF_vars(Lock(Consumer))
    /\ WF_vars(GetCall \/ GetBlock \/ GetWake \/ GetLoad \/ GetReturn)
    /\ \A p \in Producers :
        /\ SF_vars(Lock(p))
        /\ WF_vars(PutBlock(p) \/ PutStore(p) \/ PutReturn(p))
        /\ SF_vars(PutWake(p))

FairSpec == Spec /\ Fairness

----------------------------------------------------------------------------
(* Properties                                                               *)

InCritical(t) == pc[t] \in {"locked", "post"}

\* Types and ranges of every variable; in particular the cursors stay inside
\* the array and avail counts at most Size slots (shared.c:132-135, 161-164).
TypeOK ==
    /\ buffer \in [0..Size-1 -> Msgs \cup {NoMsg}]
    /\ head \in 0..Size-1 /\ tail \in 0..Size-1
    /\ avail \in 0..Size
    /\ mutex \in 0..1
    /\ full \in 0..SemMax /\ empty \in 0..SemMax
    /\ pc \in [Threads -> {"idle", "lock", "locked", "asleep", "post"}]
    /\ input \in [Producers -> Msgs \cup {NoMsg}]
    /\ out \in Msgs \cup {NoMsg}

\* The binary semaphore is a lock: it is 0 exactly while one thread, and no
\* other, is between sem_wait(&mutex) and sem_post(&mutex).
MutexOK ==
    /\ mutex = 0 <=> \E t \in Threads : InCritical(t)
    /\ \A s, t \in Threads : InCritical(s) /\ InCritical(t) => s = t

\* The slot about to be written is avail slots after the slot about to be read.
CursorsOK == head = (tail + avail) % Size

\* What a thread inside an operation relies on: a producer has an argument until
\* its PDU is stored; after its copy a producer knows the FIFO is not empty and
\* the consumer knows it is not full (nobody else can have changed avail).
InOperationOK ==
    /\ \A p \in Producers :
        /\ pc[p] \in {"lock", "locked", "asleep"} => input[p] \in Msgs
        /\ pc[p] = "post" => avail > 0
    /\ pc[Consumer] = "post" => avail < Size

\* The a slots of b from t on, oldest first; what the FIFO holds.
Window(b, t, a) == [i \in 1..a |-> b[(t + i - 1) % Size]]
Contents == Window(buffer, tail, avail)

\* No lost wakeup of the reader (shared.c:137-140, "post threads blocked on
\* reading"): if the consumer sleeps while something is in the FIFO, a token is
\* there or the producer that put the first item is about to post it.
ReaderWakes ==
    pc[Consumer] = "asleep" /\ avail > 0 =>
        \/ empty > 0
        \/ avail = 1 /\ \E p \in Producers : pc[p] = "post"

\* The inductive invariant for any number of producers.
IInv == TypeOK /\ MutexOK /\ CursorsOK /\ InOperationOK /\ ReaderWakes

\* No lost wakeup of a writer (shared.c:166-169, "post threads blocked on
\* writing"): if a producer sleeps while there is room, a token is there or the
\* consumer that made the room is about to post it.
WriterWakes ==
    \A p \in Producers :
        pc[p] = "asleep" /\ avail < Size =>
            \/ full > 0
            \/ avail = Size - 1 /\ pc[Consumer] = "post"

\* pdu_fifo_put "blocks if full" (shared.c:119) and full "posts when not full"
\* (shared.h:142): when every thread is outside the operations or asleep in
\* them and no token is left, whoever sleeps on full sleeps on a full FIFO.
BlockedOnlyIfFull ==
    (full = 0 /\ \A t \in Threads : pc[t] \in {"idle", "asleep"}) =>
        \A p \in Producers : pc[p] = "asleep" => avail = Size

\* The FIFO implements the bounded queue: a put takes effect when the PDU is
\* copied in, a get when it is copied out.
Queue ==
    INSTANCE BoundedQueue
        WITH Items <- Msgs, NoItem <- NoMsg, Capacity <- Size,
             queue <- Contents,
             offered <- [p \in Producers |->
                           IF pc[p] \in {"lock", "locked", "asleep"}
                           THEN input[p] ELSE NoMsg],
             received <- out

\* FIFO order, no loss, no duplication, no overwrite: every step of put and get
\* is a step of the bounded queue or changes nothing of it.
ImplementsQueue == Queue!Spec

\* The same with the queue's fairness: nobody is held for no reason; with one producer,
\* a put that found the FIFO full is accepted once the consumer has made room.
ImplementsFairQueue == Queue!FairSpec
=============================================================================
