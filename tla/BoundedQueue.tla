--------------------------- MODULE BoundedQueue ---------------------------
(***************************************************************************)
(* What the two inter-thread channels of the firmware promise their        *)
(* callers (shared.h:156-166 for the PDU FIFO, pingpong_ipc.h:75-95 for    *)
(* the camera buffers): a blocking bounded queue.  A producer offers an    *)
(* item and is held until there is room; the consumer receives the items   *)
(* in the order they were accepted, each one once.  PduFifo is shown to    *)
(* implement this specification, PingPong what BufferQueue adds to it.     *)
(***************************************************************************)
EXTENDS Naturals, Sequences

CONSTANTS Producers,   \* the threads that put
          Items,       \* what is put
          NoItem,      \* "nothing": not an item
          Capacity     \* slots in the queue

VARIABLES queue,       \* the accepted items, oldest first
          offered,     \* per producer, the item it is putting, or NoItem
          received     \* the last item handed to the consumer, or NoItem

vars == <<queue, offered, received>>

Init ==
    /\ queue = << >>
    /\ offered = [p \in Producers |-> NoItem]
    /\ received = NoItem

\* A producer calls put with an item.
Offer(p) ==
    /\ offered[p] = NoItem
    /\ \E m \in Items : offered' = [offered EXCEPT ![p] = m]
    /\ UNCHANGED <<queue, received>>

\* The queue accepts the item: only when there is room.
Accept(p) ==
    /\ offered[p] # NoItem
    /\ Len(queue) < Capacity
    /\ queue' = Append(queue, offered[p])
    /\ offered' = [offered EXCEPT ![p] = NoItem]
    /\ UNCHANGED received

\* The oldest item is handed over.
Deliver ==
    /\ queue # << >>
    /\ received' = Head(queue)
    /\ queue' = Tail(queue)
    /\ UNCHANGED offered

Next == Deliver \/ \E p \in Producers : Offer(p) \/ Accept(p)

Spec == Init /\ [][Next]_vars

\* Nobody is held for no reason: an item that stays acceptable is accepted,
\* and a queue that stays non-empty is read.
FairSpec == Spec /\ WF_vars(Deliver) /\ \A p \in Producers : WF_vars(Accept(p))
============================================================================
