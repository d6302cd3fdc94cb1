---------------------------- MODULE BufferQueue ----------------------------
(***************************************************************************)
(* What the camera buffers promise: a bounded queue of buffers, given out  *)
(* in order, none lost and none twice.  Their content is safe but for one  *)
(* cell: when all buffers but the producer's are in the queue, the last    *)
(* byte of a picture that finds its buffer full can land in the first cell *)
(* of the oldest one (camHandler.c:97).                                    *)
(***************************************************************************)
EXTENDS BoundedQueue

CONSTANT Bytes   \* what the producer writes

Overrun ==
    /\ queue # << >> /\ Len(queue) = Capacity - 1
    /\ \E x \in Bytes : queue' = [queue EXCEPT ![1] = [@ EXCEPT ![1] = x]]
    /\ UNCHANGED <<offered, received>>

BufferNext == Next \/ Overrun

BufferSpec == Init /\ [][BufferNext]_vars

\* The fairness of the bounded queue; nothing makes a picture overrun.
FairBufferSpec ==
    BufferSpec /\ WF_vars(Deliver) /\ \A p \in Producers : WF_vars(Accept(p))
============================================================================
