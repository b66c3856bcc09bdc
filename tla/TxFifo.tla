--------------------------------- MODULE TxFifo ---------------------------------
(* What the transmit side of the XTM runtime driver promises: each transmit queue *)
(* of a device is a bounded first-in first-out queue.  Packets enter at the back  *)
(* while there is room, are transmitted strictly in order, and leave from the     *)
(* front, and only transmitted ones do.  A queue's packets vanish otherwise only  *)
(* when the device's queues are torn down together.                               *)
EXTENDS Naturals, Sequences

CONSTANTS FDevs, FSkbs, FMaxQueues

VARIABLE fifo     \* device -> sequence of queues [cap, pkts, sent]

FQueue == [cap : Nat, pkts : Seq(FSkbs), sent : Nat]

EmptyQueue(c) == [cap |-> c, pkts |-> <<>>, sent |-> 0]

FInit == fifo = [d \in FDevs |-> <<>>]

(* A queue without the packets that have been transmitted. *)
Trimmed(q) == [q EXCEPT !.pkts = SubSeq(@, q.sent + 1, Len(@)), !.sent = 0]

TrimAll(qs) == [i \in DOMAIN qs |-> Trimmed(qs[i])]

(* Drop the transmitted packets of some devices. *)
Release(D) ==
    fifo' = [d \in FDevs |-> IF d \in D THEN TrimAll(fifo[d]) ELSE fifo[d]]

(* Drop the transmitted packets of d, then accept s on queue i if it has room. *)
Accept(d, i, s) ==
    LET qs == TrimAll(fifo[d])
    IN  /\ i \in DOMAIN qs
        /\ Len(qs[i].pkts) < qs[i].cap
        /\ fifo' = [fifo EXCEPT ![d] =
                       [qs EXCEPT ![i].pkts = Append(@, s)]]

Transmit(d, i) ==
    /\ i \in DOMAIN fifo[d]
    /\ fifo[d][i].sent < Len(fifo[d][i].pkts)
    /\ fifo' = [fifo EXCEPT ![d][i].sent = @ + 1]

(* New queues without room; a queue without room gets its capacity. *)
SetUp(d) ==
    \E n \in 0 .. FMaxQueues :
        fifo' = [fifo EXCEPT ![d] = [i \in 1 .. n |-> EmptyQueue(0)]]

Size(d, i) ==
    /\ i \in DOMAIN fifo[d]
    /\ fifo[d][i] = EmptyQueue(0)
    /\ fifo'[d][i].cap > 0
    /\ fifo' = [fifo EXCEPT ![d][i] = EmptyQueue(fifo'[d][i].cap)]

TearDown(d) == fifo' = [fifo EXCEPT ![d] = <<>>]

FNext ==
    \/ \E D \in SUBSET FDevs : Release(D)
    \/ \E d \in FDevs :
          \/ SetUp(d) \/ TearDown(d)
          \/ \E i \in DOMAIN fifo[d] :
                \/ Size(d, i) \/ Transmit(d, i)
                \/ \E s \in FSkbs : Accept(d, i, s)

FSpec == FInit /\ [][FNext]_fifo
=================================================================================
