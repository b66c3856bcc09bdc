------------------------------- MODULE XtmTxProofs -------------------------------
(* The transmit rings, for any number of devices, packets, queues and descriptors: *)
(* type correctness and consistency; the link state and the ghosts of ShutdownLink *)
(* (RunInv, StrayInv); no packet is in two places (SkbsApart); nothing is freed    *)
(* before its transmission has ended; every queue implements a bounded FIFO.       *)
EXTENDS XtmTx, SequenceTheorems, TLAPS

(* ------------------------------------------------------------------------------ *)
(* Arithmetic of the descriptor rings *)

(* What a ring record must satisfy for its positions to make sense. *)
Positions(r) == r.size \in Nat /\ r.head \in Nat /\ r.head < r.size

(* The j-th descriptor from the head is a descriptor of the ring. *)
LEMMA SlotInRing ==
    ASSUME NEW r, Positions(r), NEW j \in 0 .. r.size
    PROVE  Slot(r, j) \in 0 .. r.size - 1
BY DEF Slot, Positions

(* Different offsets name different descriptors. *)
LEMMA SlotInjective ==
    ASSUME NEW r, Positions(r), NEW j \in 0 .. r.size - 1, NEW k \in 0 .. r.size - 1,
           Slot(r, j) = Slot(r, k)
    PROVE  j = k
BY DEF Slot, Positions

(* NextBd moves from one offset to the next. *)
LEMMA SlotNext ==
    ASSUME NEW r, Positions(r), NEW j \in 0 .. r.size - 1
    PROVE  NextBd(r, Slot(r, j)) = Slot(r, j + 1)
BY DEF Slot, Positions, NextBd

(* A ring whose head has moved k descriptors on counts its offsets from there. *)
LEMMA SlotShift ==
    ASSUME NEW r, Positions(r), NEW k \in 0 .. r.size, NEW t, Positions(t),
           t.size = r.size, t.head = Slot(r, k),
           NEW j \in 0 .. r.size - k
    PROVE  Slot(t, j) = Slot(r, k + j)
BY DEF Slot, Positions

(* ------------------------------------------------------------------------------ *)
(* The operations on a ring *)

(* The descriptors of ring r from offset p on belong to the DMA engine. *)
OwnFrom(r, p) == r.own = {Slot(r, j) : j \in p .. Used(r) - 1}

LEMMA RingFacts ==
    ASSUME NEW r \in TxRing, RingConsistent(r)
    PROVE  /\ Positions(r) /\ r.size \in Nat
           /\ Used(r) \in 0 .. r.size
           /\ r.free \in Nat
           /\ r.size <= MaxQueueSize
BY DEF TxRing, RingConsistent, Positions, Used

(* The release loop stops exactly at the position of the DMA engine. *)
LEMMA CompletedIsSent ==
    ASSUME NEW r \in TxRing, RingConsistent(r), NEW p \in 0 .. Used(r), OwnFrom(r, p)
    PROVE  Completed(r) = {p}
<1>0. /\ Positions(r) /\ r.size \in Nat
      /\ Used(r) \in 0 .. r.size /\ p \in Nat
  BY RingFacts
<1> USE <1>0
<1>1. \A j \in 0 .. Used(r) - 1 : Slot(r, j) \in r.own <=> j >= p
  <2> TAKE j \in 0 .. Used(r) - 1
  <2>1. j \in 0 .. r.size - 1
    OBVIOUS
  <2>2. ASSUME j >= p PROVE Slot(r, j) \in r.own
    <3>1. j \in p .. Used(r) - 1
      BY <2>2
    <3> QED BY <3>1 DEF OwnFrom
  <2>3. ASSUME Slot(r, j) \in r.own PROVE j >= p
    <3>1. PICK m \in p .. Used(r) - 1 : Slot(r, j) = Slot(r, m)
      BY <2>3 DEF OwnFrom
    <3>2. m \in 0 .. r.size - 1
      OBVIOUS
    <3>3. j = m
      BY <2>1, <3>1, <3>2, SlotInjective
    <3> QED BY <3>3
  <2> QED BY <2>2, <2>3
<1>2. p \in Completed(r)
  BY <1>1 DEF Completed
<1>3. ASSUME NEW k \in Completed(r) PROVE k = p
  <2>1. /\ k \in 0 .. Used(r)
        /\ \A j \in 0 .. k - 1 : Slot(r, j) \notin r.own
        /\ k = Used(r) \/ Slot(r, k) \in r.own
    BY <1>3 DEF Completed
  <2>2. CASE k < p
    <3>1. Slot(r, k) \in r.own /\ k \in 0 .. Used(r) - 1
      BY <2>1, <2>2
    <3> QED BY <1>1, <2>2, <3>1
  <2>3. CASE k > p
    <3>1. p \in 0 .. k - 1 /\ p \in 0 .. Used(r) - 1
      BY <2>1, <2>3
    <3> QED BY <1>1, <2>1, <3>1
  <2> QED BY <2>1, <2>2, <2>3
<1> QED BY <1>2, <1>3

(* Queueing a packet keeps a ring consistent. *)
LEMMA PushConsistent ==
    ASSUME NEW r \in TxRing, RingConsistent(r), r.free > 0, NEW s \in Skbs
    PROVE  PushRing(r, s) \in TxRing /\ RingConsistent(PushRing(r, s))
<1> DEFINE t == PushRing(r, s)
           u == Used(r)
<1>1. /\ Positions(r) /\ r.size \in Nat
      /\ u \in 0 .. r.size - 1 /\ r.free \in Nat
      /\ r.size <= MaxQueueSize /\ r.tail = Slot(r, u)
  BY DEF TxRing, RingConsistent, Positions, Used
<1>2. r.tail \in Bds
  <2>1. Slot(r, u) \in 0 .. r.size - 1
    BY <1>1, SlotInRing
  <2> QED BY <1>1, <2>1, TxAssumption DEF Bds, Positions
<1>3. /\ t \in TxRing
      /\ t.size = r.size /\ t.head = r.head /\ t.free = r.free - 1 /\ t.hw = r.hw
      /\ t.tail = NextBd(r, r.tail) /\ t.own = r.own \cup {r.tail}
      /\ t.skb = [r.skb EXCEPT ![r.tail] = s]
  <2>1. NextBd(r, r.tail) \in Nat
    BY <1>1, <1>2 DEF NextBd, Bds, Positions
  <2>2. r.free - 1 \in Nat
    BY <1>1
  <2>3. r.own \cup {r.tail} \in SUBSET Bds
    BY <1>2 DEF TxRing
  <2>4. [r.skb EXCEPT ![r.tail] = s] \in [Bds -> Skbs \cup {NULL}]
    BY <1>2 DEF TxRing
  <2>5. t \in TxRing
    BY <2>1, <2>2, <2>3, <2>4 DEF PushRing, TxRing
  <2> QED BY <2>5 DEF PushRing, TxRing
<1>4. Used(t) = u + 1
  BY <1>1, <1>3 DEF Used, Positions
<1>5. \A j : Slot(t, j) = Slot(r, j)
  BY <1>3 DEF Slot
<1>6. t.tail = Slot(t, Used(t))
  BY <1>1, <1>3, <1>4, <1>5, SlotNext
<1>7. \E p \in 0 .. Used(t) : t.hw = Slot(t, p) /\ OwnFrom(t, p)
  <2>1. PICK p \in 0 .. u : r.hw = Slot(r, p) /\ OwnFrom(r, p)
    BY DEF RingConsistent, OwnFrom
  <2>2. {Slot(t, j) : j \in p .. Used(t) - 1}
           = {Slot(r, j) : j \in p .. u - 1} \cup {Slot(r, u)}
    <3>1. p .. Used(t) - 1 = (p .. u - 1) \cup {u}
      BY <1>1, <1>4
    <3> QED BY <1>5, <3>1
  <2>3. OwnFrom(t, p)
    BY <1>1, <1>3, <2>1, <2>2 DEF OwnFrom
  <2> QED BY <1>1, <1>3, <1>4, <1>5, <2>1, <2>3
<1>8. \A i \in Bds : t.skb[i] # NULL <=> \E j \in 0 .. Used(t) - 1 : i = Slot(t, j)
  <2> TAKE i \in Bds
  <2>1. 0 .. Used(t) - 1 = (0 .. u - 1) \cup {u}
    BY <1>1, <1>4
  <2>2. r.skb[i] # NULL <=> \E j \in 0 .. u - 1 : i = Slot(r, j)
    BY DEF RingConsistent
  <2>3. t.skb[i] = IF i = r.tail THEN s ELSE r.skb[i]
    BY <1>3 DEF TxRing
  <2> QED BY <1>1, <1>5, <2>1, <2>2, <2>3, TxAssumption
<1>9. t.size <= MaxQueueSize /\ t.free <= t.size /\ t.head < t.size
  BY <1>1, <1>3, RingFacts, TxAssumption DEF Positions, RingConsistent
<1> HIDE DEF t, u
<1>10. RingConsistent(t)
  BY <1>6, <1>7, <1>8, <1>9 DEF RingConsistent, OwnFrom
<1> QED BY <1>3, <1>10 DEF t

(* Transmission of a descriptor keeps a ring consistent. *)
LEMMA TransmitConsistent ==
    ASSUME NEW r \in TxRing, RingConsistent(r), r.hw \in r.own
    PROVE  TransmitRing(r) \in TxRing /\ RingConsistent(TransmitRing(r))
<1> DEFINE t == TransmitRing(r)
           u == Used(r)
<1>1. PICK p \in 0 .. u : r.hw = Slot(r, p) /\ OwnFrom(r, p)
  BY DEF RingConsistent, OwnFrom
<1>2. /\ Positions(r) /\ r.size \in Nat /\ r.size <= MaxQueueSize
      /\ u \in 0 .. r.size /\ r.free \in Nat
  BY RingFacts
<1>3. PICK m \in p .. u - 1 : Slot(r, p) = Slot(r, m)
  BY <1>1 DEF OwnFrom
<1>4. p \in 0 .. u - 1 /\ p \in 0 .. r.size - 1
  BY <1>2, <1>3
<1>5. NextBd(r, r.hw) = Slot(r, p + 1)
  BY <1>1, <1>2, <1>4, SlotNext
<1>6. /\ t \in TxRing
      /\ t.size = r.size /\ t.head = r.head /\ t.free = r.free /\ t.tail = r.tail
      /\ t.skb = r.skb /\ t.own = r.own \ {r.hw} /\ t.hw = NextBd(r, r.hw)
  <2>1. Slot(r, p + 1) \in Nat
    BY <1>2, <1>4, SlotInRing
  <2> QED BY <1>5, <2>1 DEF TransmitRing, TxRing
<1>7. Used(t) = u /\ \A j : Slot(t, j) = Slot(r, j)
  BY <1>6 DEF Used, Slot
<1>8. OwnFrom(t, p + 1)
  <2>1. \A j \in p + 1 .. u - 1 : Slot(r, j) # Slot(r, p)
    BY <1>2, <1>4, SlotInjective
  <2>2. p .. u - 1 = {p} \cup (p + 1 .. u - 1)
    BY <1>2, <1>4
  <2>3. t.own = {Slot(r, j) : j \in p + 1 .. u - 1}
    BY <1>1, <1>6, <2>1, <2>2 DEF OwnFrom
  <2> QED BY <1>7, <2>3 DEF OwnFrom
<1>9. p + 1 \in 0 .. Used(t)
  BY <1>2, <1>4, <1>7
<1> HIDE DEF t
<1>10. RingConsistent(t)
  <2>1. /\ t.size <= MaxQueueSize /\ t.free <= t.size /\ t.head < t.size
        /\ t.tail = Slot(t, Used(t))
    BY <1>6, <1>7 DEF RingConsistent
  <2>2. t.hw = Slot(t, p + 1)
    BY <1>5, <1>6, <1>7
  <2>3. \A i \in Bds : t.skb[i] # NULL <=> \E j \in 0 .. Used(t) - 1 : i = Slot(t, j)
    BY <1>6, <1>7 DEF RingConsistent
  <2> QED BY <1>8, <1>9, <2>1, <2>2, <2>3 DEF RingConsistent, OwnFrom
<1> QED BY <1>6, <1>10 DEF t

(* The release loop keeps a ring consistent. *)
LEMMA ReapConsistent ==
    ASSUME NEW r \in TxRing, RingConsistent(r), r.bds
    PROVE  ReapRing(r) \in TxRing /\ RingConsistent(ReapRing(r))
<1> DEFINE t == ReapRing(r)
           u == Used(r)
<1>1. PICK p \in 0 .. u : r.hw = Slot(r, p) /\ OwnFrom(r, p)
  BY DEF RingConsistent, OwnFrom
<1>2. /\ Positions(r) /\ r.size \in Nat /\ r.size <= MaxQueueSize
      /\ u \in 0 .. r.size /\ r.free \in Nat
  BY RingFacts
<1>3. (CHOOSE n \in Completed(r) : TRUE) = p
  BY <1>1, CompletedIsSent
<1>4. ReleasedSlots(r) = {Slot(r, j) : j \in 0 .. p - 1}
  BY <1>3 DEF ReleasedSlots
<1>5. Slot(r, p) \in 0 .. r.size - 1
  BY <1>2, SlotInRing
<1>6. t = [r EXCEPT !.head = Slot(r, p), !.free = r.free + p,
                    !.skb = [i \in Bds |-> IF i \in ReleasedSlots(r) THEN NULL
                                           ELSE r.skb[i]]]
  BY <1>3 DEF ReapRing
<1>7. /\ t \in TxRing
      /\ t.size = r.size /\ t.head = Slot(r, p) /\ t.free = r.free + p
      /\ t.tail = r.tail /\ t.hw = r.hw /\ t.own = r.own
      /\ \A i \in Bds : t.skb[i] = IF i \in ReleasedSlots(r) THEN NULL ELSE r.skb[i]
  <2>1. [i \in Bds |-> IF i \in ReleasedSlots(r) THEN NULL ELSE r.skb[i]]
           \in [Bds -> Skbs \cup {NULL}]
    BY DEF TxRing
  <2>2. r.free + p \in Nat /\ Slot(r, p) \in Nat
    BY <1>2, <1>5
  <2>3. t = [port |-> r.port, size |-> r.size, free |-> r.free + p,
             head |-> Slot(r, p), tail |-> r.tail, hw |-> r.hw, own |-> r.own,
             skb |-> [i \in Bds |-> IF i \in ReleasedSlots(r) THEN NULL ELSE r.skb[i]],
             dma |-> r.dma, bds |-> r.bds]
    BY <1>6 DEF TxRing
  <2> QED BY <2>1, <2>2, <2>3 DEF TxRing
<1>8. Used(t) = u - p /\ Positions(t) /\ t.free <= t.size
  BY <1>2, <1>5, <1>7 DEF Used, Positions
<1>9. \A j \in 0 .. u - p : Slot(t, j) = Slot(r, p + j)
  BY <1>2, <1>7, <1>8, SlotShift
<1>10. t.tail = Slot(t, Used(t))
  <2>1. Slot(t, u - p) = Slot(r, p + (u - p))
    BY <1>2, <1>9
  <2> QED BY <1>2, <1>7, <1>8, <2>1 DEF RingConsistent
<1>11. t.hw = Slot(t, 0)
  BY <1>1, <1>2, <1>7, <1>9
<1>12. OwnFrom(t, 0)
  <2>1. {Slot(t, j) : j \in 0 .. u - p - 1} = {Slot(r, j) : j \in p .. u - 1}
    <3>1. \A j \in 0 .. u - p - 1 : p + j \in p .. u - 1 /\ Slot(t, j) = Slot(r, p + j)
      BY <1>2, <1>9
    <3>2. \A j \in p .. u - 1 : j - p \in 0 .. u - p - 1 /\ Slot(t, j - p) = Slot(r, j)
      BY <1>2, <1>9
    <3> QED BY <3>1, <3>2
  <2> QED BY <1>1, <1>7, <1>8, <2>1 DEF OwnFrom
<1>13. \A i \in Bds : t.skb[i] # NULL <=> \E j \in 0 .. Used(t) - 1 : i = Slot(t, j)
  <2> TAKE i \in Bds
  <2>1. r.skb[i] # NULL <=> \E j \in 0 .. u - 1 : i = Slot(r, j)
    BY DEF RingConsistent
  <2>2. ASSUME t.skb[i] # NULL PROVE \E j \in 0 .. Used(t) - 1 : i = Slot(t, j)
    <3>1. PICK j \in 0 .. u - 1 : i = Slot(r, j)
      BY <1>7, <2>1, <2>2
    <3>2. j >= p
      BY <1>4, <1>7, <2>2, <3>1
    <3>3. j - p \in 0 .. Used(t) - 1 /\ Slot(t, j - p) = Slot(r, p + (j - p))
      BY <1>2, <1>8, <1>9, <3>2
    <3> QED BY <3>1, <3>3
  <2>3. ASSUME NEW j \in 0 .. Used(t) - 1, i = Slot(t, j) PROVE t.skb[i] # NULL
    <3>1. p + j \in 0 .. u - 1 /\ i = Slot(r, p + j)
      BY <1>2, <1>8, <1>9, <2>3
    <3>2. r.skb[i] # NULL
      BY <2>1, <3>1
    <3>3. \A m \in 0 .. p - 1 : Slot(r, m) # Slot(r, p + j)
      BY <1>2, <3>1, SlotInjective
    <3> QED BY <1>4, <1>7, <3>1, <3>2, <3>3
  <2> QED BY <2>2, <2>3
<1>14. 0 \in 0 .. Used(t)
  BY <1>2, <1>8
<1> QED BY <1>2, <1>7, <1>8, <1>10, <1>11, <1>12, <1>13, <1>14
        DEF RingConsistent, OwnFrom, Positions

(* ------------------------------------------------------------------------------ *)
(* What is true of every entry of TxQInfos: one with descriptors is consistent,   *)
(* one without has no room and nothing to transmit.                               *)
RingInv(r) ==
    /\ r \in TxRing
    /\ r.bds => RingConsistent(r)
    /\ ~ r.bds => r.free = 0 /\ r.own = {}

LEMMA ReapInv ==
    ASSUME NEW r, RingInv(r)
    PROVE  RingInv(ReapRing(r)) /\ (ReapRing(r).bds <=> r.bds)
<1>1. CASE r.bds
  <2>1. ReapRing(r).bds = r.bds
    BY <1>1 DEF ReapRing, RingInv, TxRing
  <2> QED BY <1>1, <2>1, ReapConsistent DEF RingInv
<1>2. CASE ~ r.bds
  <2>1. ReapRing(r) = r
    BY <1>2 DEF ReapRing
  <2> QED BY <2>1
<1> QED BY <1>1, <1>2

LEMMA PushInv ==
    ASSUME NEW r, RingInv(r), r.free > 0, NEW s \in Skbs
    PROVE  RingInv(PushRing(r, s))
<1>1. r \in TxRing /\ r.bds
  BY DEF RingInv
<1>2. PushRing(r, s).bds = r.bds
  BY <1>1 DEF PushRing, TxRing
<1> QED BY <1>1, <1>2, PushConsistent DEF RingInv

LEMMA TransmitInv ==
    ASSUME NEW r, RingInv(r), r.hw \in r.own
    PROVE  RingInv(TransmitRing(r))
<1>1. r \in TxRing /\ r.bds
  BY DEF RingInv
<1>2. TransmitRing(r).bds = r.bds
  BY <1>1 DEF TransmitRing, TxRing
<1> QED BY <1>1, <1>2, TransmitConsistent DEF RingInv

LEMMA HaltInv ==
    ASSUME NEW r, RingInv(r)
    PROVE  RingInv([r EXCEPT !.dma = "off"])
<1> DEFINE t == [r EXCEPT !.dma = "off"]
<1>1. /\ t \in TxRing /\ t.bds = r.bds /\ t.free = r.free /\ t.own = r.own
      /\ t.size = r.size /\ t.head = r.head /\ t.tail = r.tail /\ t.hw = r.hw
      /\ t.skb = r.skb
  BY DEF RingInv, TxRing
<1>2. Used(t) = Used(r) /\ \A j : Slot(t, j) = Slot(r, j)
  BY <1>1 DEF Used, Slot
<1> HIDE DEF t
<1>3. RingConsistent(r) => RingConsistent(t)
  BY <1>1, <1>2 DEF RingConsistent
<1>4. RingInv(t)
  BY <1>1, <1>3 DEF RingInv
<1> QED BY <1>4 DEF t

LEMMA ZeroInv == RingInv(ZeroRing)
BY DEF RingInv, ZeroRing, NoSkbs, TxRing

LEMMA HalfInv ==
    ASSUME NEW id \in TxQueueId
    PROVE  RingInv(HalfRing(id))
<1> DEFINE z == ZeroRing
<1>1. z \in TxRing /\ ~ z.bds /\ z.free = 0 /\ z.own = {}
  BY DEF ZeroRing, NoSkbs, TxRing
<1>2. id.port \in Nat /\ id.size \in Nat
  BY TxAssumption DEF TxQueueId
<1>3. HalfRing(id) = [z EXCEPT !.port = id.port, !.size = id.size]
  BY DEF HalfRing
<1> HIDE DEF z
<1>4. HalfRing(id) \in TxRing
  BY <1>1, <1>2, <1>3 DEF TxRing
<1>5. HalfRing(id).bds = z.bds /\ HalfRing(id).free = 0 /\ HalfRing(id).own = {}
  BY <1>1, <1>3 DEF TxRing
<1> QED BY <1>1, <1>4, <1>5 DEF RingInv

LEMMA FreshInv ==
    ASSUME NEW id \in TxQueueId
    PROVE  RingInv(FreshRing(id))
<1> DEFINE r == FreshRing(id)
<1>1. id.size \in 1 .. MaxQueueSize /\ id.port \in Nat /\ MaxQueueSize \in Nat
  BY TxAssumption DEF TxQueueId
<1>2. /\ r \in TxRing /\ r.bds
      /\ r.size = id.size /\ r.free = id.size /\ r.head = 0 /\ r.tail = 0 /\ r.hw = 0
      /\ r.own = {} /\ \A i \in Bds : r.skb[i] = NULL
  BY <1>1 DEF FreshRing, NoSkbs, TxRing
<1>3. Used(r) = 0 /\ Slot(r, 0) = 0
  BY <1>1, <1>2 DEF Used, Slot
<1>4. 0 .. Used(r) - 1 = {} /\ 0 \in 0 .. Used(r)
  BY <1>3
<1> HIDE DEF r
<1>5. RingConsistent(r)
  BY <1>1, <1>2, <1>3, <1>4 DEF RingConsistent
<1>6. RingInv(r)
  BY <1>2, <1>5 DEF RingInv
<1> QED BY <1>6 DEF r

(* ------------------------------------------------------------------------------ *)
(* The inductive invariant: the types, the rings, and that a queue DoLinkUp is in *)
(* the middle of is one of its list, and a valid one.                             *)
HalfQueue ==
    (req.op = "up" /\ req.half)
        => req.i <= Len(req.cfg) /\ ValidQueueId(req.cfg[req.i])

TxInv ==
    /\ TxTypeOK
    /\ \A d \in Devs : \A i \in 1 .. MaxTxQueues : RingInv(txq[d][i])
    /\ HalfQueue

(* Reaping the rings of a device keeps them well-formed. *)
LEMMA ReapedInv ==
    ASSUME TxInv, NEW d \in Devs
    PROVE  /\ Reaped(d) \in [1 .. MaxTxQueues -> TxRing]
           /\ \A i \in 1 .. MaxTxQueues : RingInv(Reaped(d)[i])
<1>1. ASSUME NEW i \in 1 .. MaxTxQueues
      PROVE  RingInv(Reaped(d)[i]) /\ Reaped(d)[i] \in TxRing
  <2>1. RingInv(txq[d][i]) /\ RingInv(ReapRing(txq[d][i]))
    BY ReapInv DEF TxInv
  <2> QED BY <2>1 DEF Reaped, RingInv
<1> QED BY <1>1 DEF Reaped

(* bcmxtmrt_xmit keeps the rings well-formed. *)
LEMMA XmitInv ==
    ASSUME TxInv, NEW d \in Devs, NEW s \in Skbs, NEW prio, Xmit(d, s, prio)
    PROVE  /\ txq' \in [Devs -> [1 .. MaxTxQueues -> TxRing]]
           /\ \A e \in Devs : \A i \in 1 .. MaxTxQueues : RingInv(txq'[e][i])
           /\ held' \subseteq Skbs
<1> DEFINE rs == Reaped(d)
           q == PickQueue(d, prio)
<1>1. rs \in [1 .. MaxTxQueues -> TxRing] /\ \A i \in 1 .. MaxTxQueues : RingInv(rs[i])
  BY ReapedInv
<1>2. q \in 1 .. MaxTxQueues
  <2>1. 0 \in 0 .. MaxPhyPorts - 1 /\ 1 \in 1 .. MaxTxQueues /\ MaxTxQueues \in Nat
    BY TxAssumption
  <2>2. prio \in SubPrios => txPrio[d][0][prio] \in 0 .. MaxTxQueues
    <3>1. txPrio[d] \in [0 .. MaxPhyPorts - 1 -> [SubPrios -> 0 .. MaxTxQueues]]
      BY DEF TxInv, TxTypeOK
    <3>2. txPrio[d][0] \in [SubPrios -> 0 .. MaxTxQueues]
      BY <2>1, <3>1
    <3> QED BY <3>2
  <2> QED BY <2>1, <2>2 DEF PickQueue
<1>3. txq \in [Devs -> [1 .. MaxTxQueues -> TxRing]] /\ held \subseteq Skbs
  BY DEF TxInv, TxTypeOK
<1>4. \A e \in Devs : \A i \in 1 .. MaxTxQueues : RingInv(txq[e][i])
  BY DEF TxInv
<1>5. \/ /\ rs[q].free > 0
         /\ txq' = [txq EXCEPT ![d] = [rs EXCEPT ![q] = PushRing(rs[q], s)]]
         /\ held' = (held \ Freed(d)) \cup {s}
      \/ /\ txq' = [txq EXCEPT ![d] = rs]
         /\ held' = held \ Freed(d)
  BY DEF Xmit
<1> HIDE DEF rs, q
<1>6. CASE /\ rs[q].free > 0
           /\ txq' = [txq EXCEPT ![d] = [rs EXCEPT ![q] = PushRing(rs[q], s)]]
           /\ held' = (held \ Freed(d)) \cup {s}
  <2>1. RingInv(PushRing(rs[q], s)) /\ PushRing(rs[q], s) \in TxRing
    BY <1>1, <1>2, <1>6, PushInv DEF RingInv
  <2> QED BY <1>1, <1>2, <1>3, <1>4, <1>6, <2>1
<1>7. CASE /\ txq' = [txq EXCEPT ![d] = rs]
           /\ held' = held \ Freed(d)
  BY <1>1, <1>3, <1>4, <1>7
<1> QED BY <1>5, <1>6, <1>7

(* The configuration of the queue DoLinkUp is at. *)
LEMMA CurrentQueue ==
    ASSUME TxInv, req.op = "up", req.i <= Len(req.cfg)
    PROVE  /\ req \in [op : {"up"}, d : Devs, cfg : TxQConfigs,
                       i : 1 .. MaxTxQueues + 1, half : BOOLEAN]
           /\ req.i \in 1 .. MaxTxQueues
           /\ req.cfg[req.i] \in TxQueueId
<1>1. req \in [op : {"up"}, d : Devs, cfg : TxQConfigs,
               i : 1 .. MaxTxQueues + 1, half : BOOLEAN]
  BY DEF TxInv, TxTypeOK, Request, Idle
<1>2. req.cfg \in Seq(TxQueueId) /\ Len(req.cfg) <= MaxTxQueues /\ MaxTxQueues \in Nat
  BY <1>1, TxAssumption
<1>3. req.i \in 1 .. Len(req.cfg)
  BY <1>1, <1>2
<1> QED BY <1>1, <1>2, <1>3

(* ------------------------------------------------------------------------------ *)
LEMMA TxInitInv == TxInit => TxInv
<1> SUFFICES ASSUME TxInit PROVE TxInv
  OBVIOUS
<1>1. ZeroRing \in TxRing /\ RingInv(ZeroRing)
  BY ZeroInv DEF RingInv
<1>2. NoRings \in [1 .. MaxTxQueues -> TxRing] /\ 0 \in 0 .. MaxTxQueues
  BY <1>1, TxAssumption DEF NoRings
<1>3. NoPrio \in [0 .. MaxPhyPorts - 1 -> [SubPrios -> 0 .. MaxTxQueues]]
  BY <1>2 DEF NoPrio
<1>4. TxTypeOK
  BY <1>2, <1>3 DEF TxInit, TxTypeOK, Request
<1>5. \A d \in Devs : \A i \in 1 .. MaxTxQueues : RingInv(txq[d][i])
  BY <1>1 DEF TxInit, NoRings
<1>6. HalfQueue
  BY DEF TxInit, HalfQueue, Idle
<1> QED BY <1>4, <1>5, <1>6 DEF TxInv

(* The ring part of the invariant, for steps that leave the rings alone. *)
LEMMA SameRings ==
    ASSUME TxInv, txq' = txq
    PROVE  \A d \in Devs : \A i \in 1 .. MaxTxQueues : RingInv(txq'[d][i])
BY DEF TxInv

(* Requests and interface operations on devices. *)
LEMMA DeviceInv ==
    ASSUME TxInv, NEW d \in Devs,
           \/ DoCreateDeviceReq(d) \/ DoDeleteDeviceReq(d) \/ SetAdminStatus(d)
           \/ Open(d) \/ Close(d) \/ Timeout(d)
    PROVE  TxInv'
<1> USE DEF TxInv
<1>0. TxTypeOK /\ HalfQueue
  OBVIOUS
<1>1. CASE DoCreateDeviceReq(d)
  <2>1. NoRings \in [1 .. MaxTxQueues -> TxRing] /\ \A i \in 1 .. MaxTxQueues : RingInv(NoRings[i])
    BY ZeroInv DEF NoRings, RingInv
  <2>2. NoPrio \in [0 .. MaxPhyPorts - 1 -> [SubPrios -> 0 .. MaxTxQueues]]
        /\ 0 \in 0 .. MaxTxQueues
    BY TxAssumption DEF NoPrio
  <2>3. TxTypeOK'
    BY <1>0, <1>1, <2>1, <2>2 DEF TxTypeOK, DoCreateDeviceReq
  <2>4. \A e \in Devs : \A i \in 1 .. MaxTxQueues : RingInv(txq'[e][i])
    BY <1>1, <2>1 DEF DoCreateDeviceReq, TxTypeOK
  <2>5. HalfQueue'
    BY <1>0, <1>1 DEF DoCreateDeviceReq, HalfQueue
  <2> QED BY <2>3, <2>4, <2>5
<1>2. CASE DoDeleteDeviceReq(d)
  <2>1. TxTypeOK'
    BY <1>0, <1>2 DEF TxTypeOK, DoDeleteDeviceReq
  <2> QED BY <1>0, <1>2, <2>1, SameRings DEF DoDeleteDeviceReq, HalfQueue
<1>3. CASE SetAdminStatus(d)
  <2>1. TxTypeOK'
    BY <1>0, <1>3 DEF TxTypeOK, SetAdminStatus
  <2> QED BY <1>0, <1>3, <2>1, SameRings DEF SetAdminStatus, HalfQueue
<1>4. CASE Open(d)
  <2>1. TxTypeOK'
    BY <1>0, <1>4 DEF TxTypeOK, Open
  <2> QED BY <1>0, <1>4, <2>1, SameRings DEF Open, HalfQueue
<1>5. CASE Close(d)
  <2>1. TxTypeOK'
    BY <1>0, <1>5 DEF TxTypeOK, Close
  <2> QED BY <1>0, <1>5, <2>1, SameRings DEF Close, HalfQueue
<1>6. CASE Timeout(d)
  <2>1. TxTypeOK'
    BY <1>0, <1>6 DEF TxTypeOK, Timeout, devVars
  <2> QED BY <1>0, <1>6, <2>1, SameRings DEF Timeout, HalfQueue
<1> QED BY <1>1, <1>2, <1>3, <1>4, <1>5, <1>6

(* Transmission, release and the DMA engine. *)
LEMMA TransferInv ==
    ASSUME TxInv,
           \/ \E d \in Devs, s \in Skbs, prio \in SubPrios : HardStartXmit(d, s, prio)
           \/ \E d \in Devs, s \in Skbs, port \in Ports : DoSendCellReq(d, port, s)
           \/ \E d \in Devs, i \in 1 .. MaxTxQueues : DmaTransmit(d, i)
           \/ TimerTick
    PROVE  TxInv'
<1> USE DEF TxInv
<1>0. TxTypeOK /\ HalfQueue
  OBVIOUS
<1>1. ASSUME NEW d \in Devs, NEW s \in Skbs, NEW prio,
             Xmit(d, s, prio),
             UNCHANGED <<drvState, timer, devVars, stopped, linkUp, cfgUp, nTxQ,
                         txPrio, txMem, req>>
      PROVE  TxInv'
  <2>1. /\ txq' \in [Devs -> [1 .. MaxTxQueues -> TxRing]]
        /\ \A e \in Devs : \A i \in 1 .. MaxTxQueues : RingInv(txq'[e][i])
        /\ held' \subseteq Skbs
    BY <1>1, XmitInv
  <2>2. TxTypeOK'
    BY <1>0, <1>1, <2>1 DEF TxTypeOK, devVars
  <2> QED BY <1>0, <1>1, <2>1, <2>2 DEF HalfQueue
<1>2. ASSUME NEW d \in Devs, NEW s \in Skbs, NEW prio \in SubPrios,
             HardStartXmit(d, s, prio)
      PROVE  TxInv'
  BY <1>1, <1>2 DEF HardStartXmit
<1>3. ASSUME NEW d \in Devs, NEW s \in Skbs, NEW port \in Ports,
             DoSendCellReq(d, port, s)
      PROVE  TxInv'
  BY <1>1, <1>3 DEF DoSendCellReq
<1>4. ASSUME NEW d \in Devs, NEW i \in 1 .. MaxTxQueues, DmaTransmit(d, i)
      PROVE  TxInv'
  <2> DEFINE r == txq[d][i]
             t == TransmitRing(r)
  <2>1. RingInv(t) /\ t \in TxRing
    BY <1>4, TransmitInv DEF DmaTransmit, RingInv
  <2>2. txq' = [txq EXCEPT ![d] = [txq[d] EXCEPT ![i] = t]]
    BY <1>0, <1>4 DEF DmaTransmit, TxTypeOK
  <2> HIDE DEF r, t
  <2>3. txq' \in [Devs -> [1 .. MaxTxQueues -> TxRing]]
    BY <1>0, <2>1, <2>2 DEF TxTypeOK
  <2>4. \A e \in Devs : \A j \in 1 .. MaxTxQueues : RingInv(txq'[e][j])
    BY <1>0, <2>1, <2>2 DEF TxTypeOK
  <2>5. TxTypeOK'
    BY <1>0, <1>4, <2>3 DEF TxTypeOK, DmaTransmit, devVars
  <2> QED BY <1>0, <1>4, <2>4, <2>5 DEF DmaTransmit, HalfQueue
<1>5. CASE TimerTick
  <2>1. \A d \in Devs : /\ Reaped(d) \in [1 .. MaxTxQueues -> TxRing]
                        /\ \A i \in 1 .. MaxTxQueues : RingInv(Reaped(d)[i])
    BY ReapedInv
  <2>2. /\ txq' = [d \in Devs |-> IF d \in table THEN Reaped(d) ELSE txq[d]]
        /\ held' \subseteq held
    BY <1>5 DEF TimerTick
  <2>3. txq' \in [Devs -> [1 .. MaxTxQueues -> TxRing]]
    BY <1>0, <2>1, <2>2 DEF TxTypeOK
  <2>4. \A e \in Devs : \A j \in 1 .. MaxTxQueues : RingInv(txq'[e][j])
    BY <2>1, <2>2
  <2>5. TxTypeOK'
    BY <1>0, <1>5, <2>2, <2>3 DEF TxTypeOK, TimerTick, devVars
  <2> QED BY <1>0, <1>5, <2>4, <2>5 DEF TimerTick, HalfQueue
<1> QED BY <1>2, <1>3, <1>4, <1>5

(* The steps of DoLinkUp. *)
LEMMA LinkUpInv ==
    ASSUME TxInv,
           \/ \E d \in Devs, cfg \in TxQConfigs : DoLinkUp(d, cfg)
           \/ \E d \in Devs : DoLinkUpNoMem(d)
           \/ LinkUpSteps
    PROVE  TxInv'
<1> USE DEF TxInv
<1>0. TxTypeOK /\ HalfQueue
  OBVIOUS
<1> DEFINE UpReq == [op : {"up"}, d : Devs, cfg : TxQConfigs,
                     i : 1 .. MaxTxQueues + 1, half : BOOLEAN]
<1>1. ASSUME NEW d \in Devs, NEW cfg \in TxQConfigs, DoLinkUp(d, cfg)
      PROVE  TxInv'
  <2>1. Len(cfg) \in 0 .. MaxTxQueues /\ 1 \in 1 .. MaxTxQueues + 1
    BY TxAssumption
  <2>2. req' \in UpReq /\ ~ req'.half
    BY <1>1, <2>1 DEF DoLinkUp
  <2>3. TxTypeOK'
    BY <1>0, <1>1, <2>1, <2>2 DEF TxTypeOK, DoLinkUp, devVars, Request
  <2> QED BY <1>1, <2>2, <2>3, SameRings DEF DoLinkUp, HalfQueue
<1>2. ASSUME NEW d \in Devs, DoLinkUpNoMem(d)
      PROVE  TxInv'
  <2>1. TxTypeOK'
    BY <1>0, <1>2 DEF TxTypeOK, DoLinkUpNoMem, devVars
  <2> QED BY <1>0, <1>2, <2>1, SameRings DEF DoLinkUpNoMem, HalfQueue
<1>3. CASE LinkUpQueueBegin
  <2>1. /\ req \in UpReq /\ req.i \in 1 .. MaxTxQueues /\ req.op = "up"
        /\ req.i <= Len(req.cfg) /\ req.cfg[req.i] \in TxQueueId /\ ~ req.half
    BY <1>3, CurrentQueue DEF LinkUpQueueBegin
  <2>2. CASE ~ ValidQueueId(req.cfg[req.i]) /\ req' = [req EXCEPT !.i = @ + 1]
             /\ txq' = txq
    <3>1. req.i + 1 \in 1 .. MaxTxQueues + 1
      BY <2>1, TxAssumption
    <3>2. req' \in UpReq /\ ~ req'.half
      BY <2>1, <2>2, <3>1
    <3>3. TxTypeOK'
      BY <1>0, <1>3, <2>2, <3>2 DEF TxTypeOK, LinkUpQueueBegin, devVars, Request
    <3> QED BY <2>2, <3>2, <3>3, SameRings DEF HalfQueue
  <2>3. CASE /\ ValidQueueId(req.cfg[req.i])
             /\ txq' = [txq EXCEPT ![req.d][req.i] = HalfRing(req.cfg[req.i])]
             /\ req' = [req EXCEPT !.half = TRUE]
    <3> DEFINE t == HalfRing(req.cfg[req.i])
    <3>1. RingInv(t) /\ t \in TxRing
      BY <2>1, HalfInv DEF RingInv
    <3>2. req' \in UpReq /\ req'.i = req.i /\ req'.cfg = req.cfg
      BY <2>1, <2>3
    <3> HIDE DEF t
    <3>3. txq' = [txq EXCEPT ![req.d] = [txq[req.d] EXCEPT ![req.i] = t]]
      BY <1>0, <2>1, <2>3 DEF TxTypeOK, t
    <3>4. txq' \in [Devs -> [1 .. MaxTxQueues -> TxRing]]
      BY <1>0, <2>1, <3>1, <3>3 DEF TxTypeOK
    <3>5. \A e \in Devs : \A j \in 1 .. MaxTxQueues : RingInv(txq'[e][j])
      BY <1>0, <2>1, <3>1, <3>3 DEF TxTypeOK
    <3>6. TxTypeOK'
      BY <1>0, <1>3, <3>2, <3>4 DEF TxTypeOK, LinkUpQueueBegin, devVars, Request
    <3> QED BY <2>1, <2>3, <3>2, <3>5, <3>6 DEF HalfQueue
  <2> QED BY <1>3, <2>2, <2>3 DEF LinkUpQueueBegin
<1>4. CASE LinkUpQueueEnd
  <2>1. /\ req \in UpReq /\ req.i \in 1 .. MaxTxQueues /\ req.op = "up"
        /\ req.cfg[req.i] \in TxQueueId /\ ValidQueueId(req.cfg[req.i])
    BY <1>0, <1>4, CurrentQueue DEF LinkUpQueueEnd, HalfQueue
  <2> DEFINE id == req.cfg[req.i]
             t == FreshRing(id)
  <2>2. RingInv(t) /\ t \in TxRing
    BY <2>1, FreshInv DEF RingInv
  <2>3. id.port \in 0 .. MaxPhyPorts - 1 /\ id.prio \in SubPrios
    BY <2>1, TxAssumption DEF TxQueueId, ValidQueueId
  <2>4. req.i + 1 \in 1 .. MaxTxQueues + 1
    BY <2>1, TxAssumption
  <2>5. req' \in UpReq /\ ~ req'.half
    BY <1>4, <2>1, <2>4 DEF LinkUpQueueEnd
  <2>6. /\ txq' = [txq EXCEPT ![req.d][req.i] = t]
        /\ txPrio' = [txPrio EXCEPT ![req.d][id.port][id.prio] = req.i]
    BY <1>4 DEF LinkUpQueueEnd
  <2> HIDE DEF t, id
  <2>7. txq' \in [Devs -> [1 .. MaxTxQueues -> TxRing]]
    BY <1>0, <2>1, <2>2, <2>6 DEF TxTypeOK
  <2>8. \A e \in Devs : \A j \in 1 .. MaxTxQueues : RingInv(txq'[e][j])
    <3>1. txq' = [txq EXCEPT ![req.d] = [txq[req.d] EXCEPT ![req.i] = t]]
      BY <1>0, <2>1, <2>6 DEF TxTypeOK
    <3> QED BY <1>0, <2>1, <2>2, <3>1 DEF TxTypeOK
  <2>9. txPrio' \in [Devs -> [0 .. MaxPhyPorts - 1 -> [SubPrios -> 0 .. MaxTxQueues]]]
    <3>1. req.i \in 0 .. MaxTxQueues /\ req.d \in Devs
      BY <2>1
    <3> QED BY <1>0, <2>3, <2>6, <3>1 DEF TxTypeOK
  <2>10. TxTypeOK'
    BY <1>0, <1>4, <2>5, <2>7, <2>9 DEF TxTypeOK, LinkUpQueueEnd, devVars, Request
  <2> QED BY <2>5, <2>8, <2>10 DEF HalfQueue
<1>5. CASE LinkUpEnd
  <2>1. TxTypeOK'
    BY <1>0, <1>5 DEF TxTypeOK, LinkUpEnd, devVars, Request
  <2> QED BY <1>5, <2>1, SameRings DEF LinkUpEnd, HalfQueue, Idle
<1> QED BY <1>1, <1>2, <1>3, <1>4, <1>5 DEF LinkUpSteps

(* The steps of DoLinkDown. *)
LEMMA LinkDownInv ==
    ASSUME TxInv, (\E d \in Devs : DoLinkDown(d)) \/ LinkDownSteps
    PROVE  TxInv'
<1> USE DEF TxInv
<1>0. TxTypeOK /\ HalfQueue
  OBVIOUS
<1> DEFINE DownReq == [op : {"down"}, d : Devs, step : {"free", "zero", "stop"}]
<1>1. ASSUME NEW d \in Devs, DoLinkDown(d)
      PROVE  TxInv'
  <2>1. /\ Reaped(d) \in [1 .. MaxTxQueues -> TxRing]
        /\ \A i \in 1 .. MaxTxQueues : RingInv(Reaped(d)[i])
    BY ReapedInv
  <2>2. txq' = [txq EXCEPT ![d] = Reaped(d)] /\ held' \subseteq held
    BY <1>1 DEF DoLinkDown
  <2>3. req' \in DownReq /\ req'.op = "down"
    BY <1>1 DEF DoLinkDown
  <2>4. TxTypeOK'
    BY <1>0, <1>1, <2>1, <2>2, <2>3 DEF TxTypeOK, DoLinkDown, devVars, Request
  <2>5. \A e \in Devs : \A j \in 1 .. MaxTxQueues : RingInv(txq'[e][j])
    BY <1>0, <2>1, <2>2 DEF TxTypeOK
  <2> QED BY <2>3, <2>4, <2>5 DEF HalfQueue
<1>2. ASSUME LinkDownSteps
      PROVE  req \in DownReq /\ req.op = "down"
  BY <1>0, <1>2 DEF LinkDownSteps, LinkDownFree, LinkDownZero, LinkDownEnd, TxTypeOK,
                    Request, Idle
<1>3. CASE LinkDownFree
  <2>1. req \in DownReq
    BY <1>2, <1>3 DEF LinkDownSteps
  <2> DEFINE rs == [i \in 1 .. MaxTxQueues |-> [txq[req.d][i] EXCEPT !.dma = "off"]]
  <2>2. \A i \in 1 .. MaxTxQueues : RingInv(rs[i]) /\ rs[i] \in TxRing
    BY <2>1, HaltInv DEF RingInv
  <2>3. rs \in [1 .. MaxTxQueues -> TxRing]
    BY <2>2
  <2>4. txq' = [txq EXCEPT ![req.d] = rs]
    BY <1>3 DEF LinkDownFree
  <2>5. req' \in DownReq /\ req'.op = "down"
    BY <1>3, <2>1 DEF LinkDownFree
  <2>6. txMem' \in [Devs -> {"null", "live", "freed"}]
    BY <1>0, <1>3 DEF LinkDownFree, TxTypeOK
  <2> HIDE DEF rs
  <2>7. TxTypeOK'
    BY <1>0, <1>3, <2>1, <2>3, <2>4, <2>5, <2>6
       DEF TxTypeOK, LinkDownFree, devVars, Request
  <2>8. \A e \in Devs : \A j \in 1 .. MaxTxQueues : RingInv(txq'[e][j])
    BY <1>0, <2>1, <2>2, <2>4 DEF TxTypeOK
  <2> QED BY <2>5, <2>7, <2>8 DEF HalfQueue
<1>4. CASE LinkDownZero
  <2>1. req \in DownReq
    BY <1>2, <1>4 DEF LinkDownSteps
  <2>2. /\ NoRings \in [1 .. MaxTxQueues -> TxRing]
        /\ \A i \in 1 .. MaxTxQueues : RingInv(NoRings[i])
    BY ZeroInv DEF NoRings, RingInv
  <2>3. NoPrio \in [0 .. MaxPhyPorts - 1 -> [SubPrios -> 0 .. MaxTxQueues]]
        /\ 0 \in 0 .. MaxTxQueues
    BY TxAssumption DEF NoPrio
  <2>4. req' \in DownReq /\ req'.op = "down"
    BY <1>4, <2>1 DEF LinkDownZero
  <2>5. TxTypeOK'
    BY <1>0, <1>4, <2>1, <2>2, <2>3, <2>4
       DEF TxTypeOK, LinkDownZero, devVars, Request
  <2>6. \A e \in Devs : \A j \in 1 .. MaxTxQueues : RingInv(txq'[e][j])
    BY <1>0, <1>4, <2>1, <2>2 DEF LinkDownZero, TxTypeOK
  <2> QED BY <2>4, <2>5, <2>6 DEF HalfQueue
<1>5. CASE LinkDownEnd
  <2>1. TxTypeOK'
    BY <1>0, <1>5 DEF TxTypeOK, LinkDownEnd, devVars, Request
  <2> QED BY <1>5, <2>1, SameRings DEF LinkDownEnd, HalfQueue, Idle
<1> QED BY <1>1, <1>3, <1>4, <1>5 DEF LinkDownSteps

LEMMA TxNextInv == TxInv /\ [TxNext]_txVars => TxInv'
<1> SUFFICES ASSUME TxInv, [TxNext]_txVars PROVE TxInv'
  OBVIOUS
<1>1. CASE UNCHANGED txVars
  BY <1>1 DEF TxInv, TxTypeOK, HalfQueue, txVars, devVars
<1>2. CASE TxNext
  BY <1>2, DeviceInv, TransferInv, LinkUpInv, LinkDownInv DEF TxNext
<1> QED BY <1>1, <1>2

(* The variables of the transmit side keep their types. *)
THEOREM TxTypeCorrect == TxSpec => []TxTypeOK
<1>1. TxInv => TxTypeOK
  BY DEF TxInv
<1> QED BY <1>1, TxInitInv, TxNextInv, PTL DEF TxSpec

(* However xmit, the timer, the link requests and the DMA engine interleave, on   *)
(* any number of devices and queues of any size: ulFreeBds, ulHead, ulTail,       *)
(* ppSkbs and the DMA_OWN bits of a ring agree.                                   *)
THEOREM TxRingsAlwaysConsistent == TxSpec => []TxRingsConsistent
<1>1. TxInv => TxRingsConsistent
  <2> SUFFICES ASSUME TxInv, NEW d \in Devs, NEW i \in Live(d), txq[d][i].bds
               PROVE  RingConsistent(txq[d][i])
    BY DEF TxRingsConsistent
  <2>1. i \in 1 .. MaxTxQueues
    BY TxAssumption DEF TxInv, TxTypeOK, Live
  <2> QED BY <2>1 DEF TxInv, RingInv
<1> QED BY <1>1, TxInitInv, TxNextInv, PTL DEF TxSpec

(* ------------------------------------------------------------------------------ *)
(* The driver runs when a link is up *)

UpReq   == [op : {"up"}, d : Devs, cfg : TxQConfigs, i : 1 .. MaxTxQueues + 1,
            half : BOOLEAN]
DownReq == [op : {"down"}, d : Devs, step : {"free", "zero", "stop"}]

(* DoLinkDown is at work on d and has not yet reset ulLinkState. *)
ComingDown(d) == req.op = "down" /\ req.d = d /\ req.step # "stop"

SomeLinkUp == \E d \in table : linkUp[d]

(* The timer is pending when the driver runs; a link is up only if the            *)
(* configuration driver asked for it, or DoLinkDown is at work on it; the device  *)
(* of a DoLinkUp is in the table with its link up; the driver runs if a link is   *)
(* up, a DoLinkUp in progress excepted, and outside requests only then.           *)
RunInv ==
    /\ timer <=> drvState = "RUNNING"
    /\ \A d \in Devs : linkUp[d] => cfgUp[d] \/ ComingDown(d)
    /\ req.op = "up" => req.d \in table /\ linkUp[req.d]
    /\ req.op # "up" => (SomeLinkUp => drvState = "RUNNING")
    /\ req.op = "idle" => (drvState = "RUNNING" => SomeLinkUp)

(* The three forms of a request. *)
LEMMA RequestForms ==
    ASSUME TxTypeOK
    PROVE  /\ req = Idle <=> req.op = "idle"
           /\ req.op = "up" => req \in UpReq
           /\ req.op = "down" => req \in DownReq
           /\ req.op \in {"idle", "up", "down"}
BY DEF TxTypeOK, Request, Idle, UpReq, DownReq

LEMMA RunInitInv == TxInit => RunInv
BY DEF TxInit, RunInv, Idle, SomeLinkUp

(* Steps that leave alone all that RunInv is about. *)
LEMMA RunSame ==
    ASSUME RunInv, UNCHANGED <<drvState, timer, table, linkUp, cfgUp, req>>
    PROVE  RunInv'
BY DEF RunInv, ComingDown, SomeLinkUp

LEMMA RunNextInv == TxInv /\ RunInv /\ [TxNext]_txVars => RunInv'
<1> SUFFICES ASSUME TxInv, RunInv, [TxNext]_txVars PROVE RunInv'
  OBVIOUS
<1>0. /\ TxTypeOK
      /\ req = Idle <=> req.op = "idle"
      /\ req.op = "up" => req \in UpReq
      /\ req.op = "down" => req \in DownReq
      /\ req.op \in {"idle", "up", "down"}
  BY RequestForms DEF TxInv
<1>1. CASE UNCHANGED txVars
  BY <1>1, RunSame DEF txVars, devVars
<1>2. ASSUME NEW d \in Devs, DoCreateDeviceReq(d) PROVE RunInv'
  <2>1. d \notin table /\ linkUp \in [Devs -> BOOLEAN] /\ table \subseteq Devs
    BY <1>0, <1>2 DEF DoCreateDeviceReq, TxTypeOK
  <2>2. SomeLinkUp' <=> SomeLinkUp
    BY <1>2, <2>1 DEF DoCreateDeviceReq, SomeLinkUp
  <2>3. \A e \in Devs : linkUp'[e] => linkUp[e]
    BY <1>2, <2>1 DEF DoCreateDeviceReq
  <2> QED BY <1>0, <1>2, <2>2, <2>3 DEF DoCreateDeviceReq, RunInv, ComingDown
<1>3. ASSUME NEW d \in Devs, DoDeleteDeviceReq(d) PROVE RunInv'
  <2>1. ~ linkUp[d]
    BY <1>0, <1>3 DEF DoDeleteDeviceReq, RunInv, ComingDown
  <2>2. SomeLinkUp' <=> SomeLinkUp
    BY <1>3, <2>1 DEF DoDeleteDeviceReq, SomeLinkUp
  <2> QED BY <1>0, <1>3, <2>2 DEF DoDeleteDeviceReq, RunInv, ComingDown
<1>4. ASSUME NEW d \in Devs,
             \/ SetAdminStatus(d) \/ Open(d) \/ Close(d) \/ Timeout(d)
             \/ \E s \in Skbs :
                   \/ \E prio \in SubPrios : HardStartXmit(d, s, prio)
                   \/ \E port \in Ports : DoSendCellReq(d, port, s)
             \/ \E i \in 1 .. MaxTxQueues : DmaTransmit(d, i)
      PROVE  RunInv'
  BY <1>4, RunSame DEF SetAdminStatus, Open, Close, Timeout, HardStartXmit,
                       DoSendCellReq, DmaTransmit, devVars
<1>5. CASE TimerTick
  BY <1>5, RunSame DEF TimerTick, devVars
<1>6. ASSUME NEW d \in Devs, NEW cfg \in TxQConfigs, DoLinkUp(d, cfg) PROVE RunInv'
  <2>1. /\ req'.op = "up" /\ req'.d = d /\ d \in table /\ table' = table
        /\ linkUp' = [linkUp EXCEPT ![d] = TRUE] /\ cfgUp' = [cfgUp EXCEPT ![d] = TRUE]
        /\ timer' = timer /\ drvState' = drvState /\ req.op = "idle"
    BY <1>0, <1>6 DEF DoLinkUp, devVars
  <2>2. linkUp \in [Devs -> BOOLEAN] /\ cfgUp \in [Devs -> BOOLEAN]
    BY <1>0 DEF TxTypeOK
  <2>3. \A e \in Devs : linkUp'[e] => cfgUp'[e]
    BY <2>1, <2>2 DEF RunInv, ComingDown
  <2> QED BY <2>1, <2>2, <2>3 DEF RunInv
<1>7. ASSUME NEW d \in Devs, DoLinkUpNoMem(d) PROVE RunInv'
  <2>1. ~ linkUp[d] /\ cfgUp \in [Devs -> BOOLEAN]
    BY <1>0, <1>7 DEF DoLinkUpNoMem, RunInv, ComingDown, TxTypeOK
  <2>2. PICK b \in BOOLEAN : cfgUp' = [cfgUp EXCEPT ![d] = b]
    BY <1>7 DEF DoLinkUpNoMem
  <2>3. \A e \in Devs : linkUp[e] => cfgUp'[e]
    BY <1>0, <1>7, <2>1, <2>2 DEF DoLinkUpNoMem, RunInv, ComingDown
  <2> QED BY <1>7, <2>3 DEF DoLinkUpNoMem, RunInv, ComingDown, SomeLinkUp, devVars
<1>8. CASE LinkUpQueueBegin \/ LinkUpQueueEnd
  <2>1. req \in UpReq /\ req.op = "up"
    BY <1>0, <1>8 DEF LinkUpQueueBegin, LinkUpQueueEnd
  <2>2. req'.op = "up" /\ req'.d = req.d
    BY <1>8, <2>1 DEF LinkUpQueueBegin, LinkUpQueueEnd, UpReq
  <2>3. UNCHANGED <<drvState, timer, table, linkUp, cfgUp>>
    BY <1>8 DEF LinkUpQueueBegin, LinkUpQueueEnd, devVars
  <2> QED BY <2>1, <2>2, <2>3 DEF RunInv, ComingDown
<1>9. CASE LinkUpEnd
  <2>1. /\ req'.op = "idle" /\ UNCHANGED <<table, linkUp, cfgUp>> /\ req.op = "up"
    BY <1>9 DEF LinkUpEnd, Idle, devVars
  <2>2. req.d \in table /\ linkUp[req.d]
    BY <2>1 DEF RunInv
  <2>3. SomeLinkUp'
    BY <2>1, <2>2 DEF SomeLinkUp
  <2>4. timer' <=> drvState' = "RUNNING"
    BY <1>9 DEF LinkUpEnd, RunInv
  <2>5. drvState' = "RUNNING"
    BY <1>0, <1>9 DEF LinkUpEnd, TxTypeOK
  <2>6. \A d \in Devs : linkUp'[d] => cfgUp'[d]
    BY <2>1 DEF RunInv, ComingDown
  <2> QED BY <2>1, <2>3, <2>4, <2>5, <2>6 DEF RunInv
<1>10. ASSUME NEW d \in Devs, DoLinkDown(d) PROVE RunInv'
  <2>1. /\ req'.op = "down" /\ req'.d = d /\ req'.step = "free" /\ req.op = "idle"
        /\ cfgUp' = [cfgUp EXCEPT ![d] = FALSE]
        /\ UNCHANGED <<drvState, timer, table, linkUp>>
    BY <1>0, <1>10 DEF DoLinkDown, devVars
  <2>2. cfgUp \in [Devs -> BOOLEAN]
    BY <1>0 DEF TxTypeOK
  <2>3. \A e \in Devs : linkUp'[e] => cfgUp'[e] \/ ComingDown(e)'
    BY <2>1, <2>2 DEF RunInv, ComingDown
  <2> QED BY <2>1, <2>3 DEF RunInv, SomeLinkUp
<1>11. CASE LinkDownFree
  <2>1. req \in DownReq /\ req.op = "down" /\ req.step = "free"
    BY <1>0, <1>11 DEF LinkDownFree
  <2>2. req'.op = "down" /\ req'.d = req.d /\ req'.step = "zero"
    BY <1>11, <2>1 DEF LinkDownFree, DownReq
  <2>3. UNCHANGED <<drvState, timer, table, linkUp, cfgUp>>
    BY <1>11 DEF LinkDownFree, devVars
  <2> QED BY <2>1, <2>2, <2>3 DEF RunInv, ComingDown, SomeLinkUp
<1>12. CASE LinkDownZero
  <2>1. req \in DownReq /\ req.op = "down" /\ req.step = "zero"
    BY <1>0, <1>12 DEF LinkDownZero
  <2>2. req'.op = "down" /\ req'.d = req.d /\ req'.step = "stop"
    BY <1>12, <2>1 DEF LinkDownZero, DownReq
  <2>3. UNCHANGED <<drvState, timer, table, cfgUp>>
    BY <1>12 DEF LinkDownZero, devVars
  <2>4. /\ linkUp' = [linkUp EXCEPT ![req.d] = FALSE] /\ linkUp \in [Devs -> BOOLEAN]
        /\ table \subseteq Devs
    BY <1>0, <1>12 DEF LinkDownZero, TxTypeOK
  <2>5. \A e \in Devs : linkUp'[e] => e # req.d /\ linkUp[e]
    BY <2>1, <2>4 DEF DownReq
  <2>6. SomeLinkUp' => SomeLinkUp
    BY <2>3, <2>4, <2>5 DEF SomeLinkUp
  <2>7. \A e \in Devs : linkUp'[e] => cfgUp'[e] \/ ComingDown(e)'
    BY <2>3, <2>5 DEF RunInv, ComingDown
  <2>8. timer' <=> drvState' = "RUNNING"
    BY <2>3 DEF RunInv
  <2> QED BY <2>1, <2>2, <2>3, <2>6, <2>7, <2>8 DEF RunInv
<1>13. CASE LinkDownEnd
  <2>1. /\ req.op = "down" /\ req.step = "stop" /\ req'.op = "idle"
        /\ UNCHANGED <<table, linkUp, cfgUp>>
    BY <1>13 DEF LinkDownEnd, Idle, devVars
  <2>2. timer' <=> drvState' = "RUNNING"
    BY <1>13 DEF LinkDownEnd, RunInv
  <2>3. drvState' = "RUNNING" <=> SomeLinkUp
    BY <1>13, <2>1 DEF LinkDownEnd, RunInv, LastLinkDown, SomeLinkUp
  <2>4. SomeLinkUp' <=> SomeLinkUp
    BY <2>1 DEF SomeLinkUp
  <2>5. \A e \in Devs : linkUp'[e] => cfgUp'[e]
    BY <2>1 DEF RunInv, ComingDown
  <2> QED BY <2>1, <2>2, <2>3, <2>4, <2>5 DEF RunInv
<1> QED BY <1>1, <1>2, <1>3, <1>4, <1>5, <1>6, <1>7, <1>8, <1>9, <1>10, <1>11, <1>12,
           <1>13 DEF TxNext, LinkUpSteps, LinkDownSteps

(* Outside requests the driver runs, with its timer pending, exactly when some    *)
(* device of the table has its link up: no sequence of creations, deletions, link *)
(* requests and failed allocations leaves the timer dead with a link up, or alive *)
(* with none.                                                                     *)
THEOREM RunningAlwaysIffLinkUp == TxSpec => []RunningIffLinkUp
<1>1. TxInv /\ RunInv => RunningIffLinkUp
  BY DEF RunInv, RunningIffLinkUp, SomeLinkUp, Idle
<1> QED BY <1>1, TxInitInv, TxNextInv, RunInitInv, RunNextInv, PTL DEF TxSpec

(* ------------------------------------------------------------------------------ *)
(* Where the socket buffers are *)

Queues == 1 .. MaxTxQueues

(* SkbInOnePlace for all entries of TxQInfos, the ones past ulTxQInfosSize        *)
(* included: DoLinkUp makes those current without a look at them.                 *)
SkbsApart ==
    \A d, e \in Devs : \A i, j \in Queues : \A a, b \in Bds :
        txq[d][i].skb[a] # NULL =>
            /\ txq[d][i].skb[a] \in held
            /\ txq[d][i].skb[a] = txq[e][j].skb[b] => d = e /\ i = j /\ a = b

(* A step after which every descriptor has the packet it had or none, and that    *)
(* frees no packet still in a descriptor, keeps the packets apart.                *)
LEMMA FewerSkbs ==
    ASSUME SkbsApart,
           \A d \in Devs : \A i \in Queues : \A a \in Bds :
               txq'[d][i].skb[a] # NULL => /\ txq'[d][i].skb[a] = txq[d][i].skb[a]
                                           /\ txq'[d][i].skb[a] \in held'
    PROVE  SkbsApart'
BY DEF SkbsApart, Queues, Bds

(* The released descriptors are descriptors of the ring. *)
LEMMA ReleasedInRing ==
    ASSUME NEW r, RingInv(r), r.bds
    PROVE  \E p \in 0 .. Used(r) :
               /\ ReleasedSlots(r) = {Slot(r, j) : j \in 0 .. p - 1}
               /\ OwnFrom(r, p)
               /\ \A j \in 0 .. Used(r) : Slot(r, j) \in Bds
<1>1. r \in TxRing /\ RingConsistent(r)
  BY DEF RingInv
<1>2. PICK p \in 0 .. Used(r) : OwnFrom(r, p)
  BY <1>1 DEF RingConsistent, OwnFrom
<1>3. (CHOOSE n \in Completed(r) : TRUE) = p
  BY <1>1, <1>2, CompletedIsSent
<1>4. ReleasedSlots(r) = {Slot(r, j) : j \in 0 .. p - 1}
  BY <1>3 DEF ReleasedSlots
<1>5. /\ Positions(r) /\ r.size \in Nat /\ Used(r) \in 0 .. r.size
      /\ r.size <= MaxQueueSize
  BY <1>1, RingFacts
<1>6. \A j \in 0 .. Used(r) : Slot(r, j) \in 0 .. r.size - 1
  BY <1>5, SlotInRing
<1>7. \A j \in 0 .. Used(r) : Slot(r, j) \in Bds
  BY <1>5, <1>6, TxAssumption DEF Bds
<1> QED BY <1>2, <1>4, <1>7

LEMMA ReleasedAreBds ==
    ASSUME NEW r, RingInv(r), r.bds
    PROVE  ReleasedSlots(r) \subseteq Bds
<1>1. PICK p \in 0 .. Used(r) :
          /\ ReleasedSlots(r) = {Slot(r, j) : j \in 0 .. p - 1}
          /\ \A j \in 0 .. Used(r) : Slot(r, j) \in Bds
  BY ReleasedInRing
<1>2. Used(r) \in Nat
  BY RingFacts DEF RingInv
<1>3. \A j \in 0 .. p - 1 : j \in 0 .. Used(r)
  BY <1>2
<1> QED BY <1>1, <1>3

(* What the release loop leaves in a descriptor: nothing if it was released, the  *)
(* packet it had otherwise.                                                       *)
LEMMA ReapedSkb ==
    ASSUME NEW r, RingInv(r), NEW a \in Bds
    PROVE  ReapRing(r).skb[a] = IF r.bds /\ a \in ReleasedSlots(r) THEN NULL ELSE r.skb[a]
<1>1. CASE r.bds
  <2> DEFINE k == CHOOSE n \in Completed(r) : TRUE
             f == [i \in Bds |-> IF i \in ReleasedSlots(r) THEN NULL ELSE r.skb[i]]
  <2>1. ReapRing(r) = [r EXCEPT !.head = Slot(r, k), !.free = r.free + k, !.skb = f]
    BY <1>1 DEF ReapRing, RingInv, TxRing
  <2>2. r \in TxRing
    BY DEF RingInv
  <2> HIDE DEF k, f
  <2>3. ReapRing(r).skb = f
    BY <2>1, <2>2 DEF TxRing
  <2> QED BY <1>1, <2>3 DEF f
<1>2. CASE ~ r.bds
  BY <1>2 DEF ReapRing
<1> QED BY <1>1, <1>2

(* The queues in use are entries of TxQInfos. *)
LEMMA LiveQueues ==
    ASSUME TxTypeOK, NEW d \in Devs
    PROVE  Live(d) \subseteq Queues
<1>1. nTxQ[d] \in 0 .. MaxTxQueues /\ MaxTxQueues \in Nat
  BY TxAssumption DEF TxTypeOK
<1> QED BY <1>1 DEF Live, Queues

(* A packet freed by the release loop of e sits in a released descriptor of e. *)
LEMMA FreedFrom ==
    ASSUME TxInv, NEW e \in Devs, NEW s \in Freed(e)
    PROVE  \E j \in Live(e) : \E b \in Bds :
               /\ j \in Queues /\ txq[e][j].bds /\ b \in ReleasedSlots(txq[e][j])
               /\ s = txq[e][j].skb[b]
<1>1. PICK j \in Live(e) : s \in FreedBy(txq[e][j])
  BY DEF Freed
<1>2. txq[e][j].bds /\ s \in {txq[e][j].skb[b] : b \in ReleasedSlots(txq[e][j])}
  BY <1>1 DEF FreedBy
<1>3. PICK b \in ReleasedSlots(txq[e][j]) : s = txq[e][j].skb[b]
  BY <1>2
<1>4. j \in Queues
  BY LiveQueues DEF TxInv
<1>5. RingInv(txq[e][j])
  BY <1>4 DEF TxInv, Queues
<1>6. b \in Bds
  BY <1>2, <1>5, ReleasedAreBds
<1> QED BY <1>1, <1>2, <1>3, <1>4, <1>6

(* A packet left in a descriptor of d is one no release loop frees. *)
LEMMA LeftIsKept ==
    ASSUME TxInv, SkbsApart, NEW d \in Devs, NEW i \in Queues, NEW a \in Bds,
           Reaped(d)[i].skb[a] # NULL
    PROVE  /\ Reaped(d)[i].skb[a] = txq[d][i].skb[a]
           /\ txq[d][i].skb[a] \in held \ Freed(d)
<1>1. RingInv(txq[d][i])
  BY DEF TxInv, Queues
<1>2. Reaped(d)[i] = IF i \in Live(d) THEN ReapRing(txq[d][i]) ELSE txq[d][i]
  BY DEF Reaped, Queues
<1>3. Reaped(d)[i].skb[a] = txq[d][i].skb[a]
  BY <1>1, <1>2, ReapedSkb
<1>4. txq[d][i].skb[a] # NULL /\ txq[d][i].skb[a] \in held
  BY <1>3 DEF SkbsApart
<1>5. ASSUME txq[d][i].skb[a] \in Freed(d) PROVE FALSE
  <2>1. PICK j \in Live(d), b \in Bds :
            /\ j \in Queues /\ txq[d][j].bds /\ b \in ReleasedSlots(txq[d][j])
            /\ txq[d][i].skb[a] = txq[d][j].skb[b]
    BY <1>5, FreedFrom
  <2>2. i = j /\ a = b
    BY <1>4, <2>1 DEF SkbsApart
  <2>3. Reaped(d)[i].skb[a] = NULL
    BY <1>1, <1>2, <2>1, <2>2, ReapedSkb
  <2> QED BY <2>3
<1> QED BY <1>3, <1>4, <1>5

(* The packets of other devices are not freed. *)
LEMMA OthersKept ==
    ASSUME TxInv, SkbsApart, NEW d \in Devs, NEW e \in Devs, d # e, NEW i \in Queues,
           NEW a \in Bds, txq[d][i].skb[a] # NULL
    PROVE  txq[d][i].skb[a] \in held \ Freed(e)
<1>1. txq[d][i].skb[a] \in held
  BY DEF SkbsApart
<1>2. ASSUME txq[d][i].skb[a] \in Freed(e) PROVE FALSE
  <2>1. PICK j \in Live(e), b \in Bds : j \in Queues /\ txq[d][i].skb[a] = txq[e][j].skb[b]
    BY <1>2, FreedFrom
  <2> QED BY <2>1 DEF SkbsApart
<1> QED BY <1>1, <1>2

LEMMA ApartInitInv == TxInit => SkbsApart
BY DEF TxInit, SkbsApart, NoRings, ZeroRing, NoSkbs, Queues

(* The queue bcmxtmrt_xmit picks is an entry of TxQInfos. *)
LEMMA PickedQueue ==
    ASSUME TxTypeOK, NEW d \in Devs, NEW prio
    PROVE  PickQueue(d, prio) \in Queues
<1>1. 0 \in 0 .. MaxPhyPorts - 1 /\ 1 \in 1 .. MaxTxQueues /\ MaxTxQueues \in Nat
  BY TxAssumption
<1>2. txPrio[d] \in [0 .. MaxPhyPorts - 1 -> [SubPrios -> 0 .. MaxTxQueues]]
  BY DEF TxTypeOK
<1>3. txPrio[d][0] \in [SubPrios -> 0 .. MaxTxQueues]
  BY <1>1, <1>2
<1>4. prio \in SubPrios => txPrio[d][0][prio] \in 0 .. MaxTxQueues
  BY <1>3
<1> QED BY <1>1, <1>4 DEF PickQueue, Queues

(* The two outcomes of bcmxtmrt_xmit. *)
LEMMA XmitOutcomes ==
    ASSUME TxInv, NEW d \in Devs, NEW s, NEW prio, Xmit(d, s, prio)
    PROVE  \E q \in Queues :
              \/ /\ nTxQ[d] > 0 /\ q = PickQueue(d, prio)
                 /\ Reaped(d)[q].free > 0
                 /\ txq' = [txq EXCEPT ![d] =
                              [Reaped(d) EXCEPT ![q] = PushRing(Reaped(d)[q], s)]]
                 /\ held' = (held \ Freed(d)) \cup {s}
              \/ /\ txq' = [txq EXCEPT ![d] = Reaped(d)]
                 /\ held' = held \ Freed(d)
<1>1. PickQueue(d, prio) \in Queues
  BY PickedQueue DEF TxInv
<1> QED BY <1>1, Zenon DEF Xmit

(* Queueing a packet changes one descriptor. *)
LEMMA PushedSkb ==
    ASSUME NEW r, RingInv(r), r.free > 0, NEW s
    PROVE  /\ r.tail \in Bds
           /\ \A a \in Bds : PushRing(r, s).skb[a] = IF a = r.tail THEN s ELSE r.skb[a]
<1>1. r \in TxRing /\ r.bds /\ RingConsistent(r)
  BY DEF RingInv
<1>2. r.tail \in Bds
  <2>1. /\ Positions(r) /\ r.size \in Nat /\ Used(r) \in 0 .. r.size
        /\ r.size <= MaxQueueSize /\ r.tail = Slot(r, Used(r))
    BY <1>1, RingFacts DEF RingConsistent
  <2>2. Slot(r, Used(r)) \in 0 .. r.size - 1
    BY <2>1, SlotInRing
  <2> QED BY <2>1, <2>2, TxAssumption DEF Bds
<1>3. PushRing(r, s).skb = [r.skb EXCEPT ![r.tail] = s]
  BY <1>1 DEF PushRing, TxRing
<1> QED BY <1>1, <1>2, <1>3 DEF TxRing

(* A packet the driver does not hold goes to one descriptor. *)
LEMMA XmitApart ==
    ASSUME TxInv, SkbsApart, NEW d \in Devs, NEW s \in Skbs, s \notin held, NEW prio,
           Xmit(d, s, prio)
    PROVE  SkbsApart'
<1>0. txq \in [Devs -> [Queues -> TxRing]]
  BY DEF TxInv, TxTypeOK, Queues
<1>1. PICK q \in Queues :
          \/ /\ Reaped(d)[q].free > 0
             /\ txq' = [txq EXCEPT ![d] =
                          [Reaped(d) EXCEPT ![q] = PushRing(Reaped(d)[q], s)]]
             /\ held' = (held \ Freed(d)) \cup {s}
          \/ /\ txq' = [txq EXCEPT ![d] = Reaped(d)]
             /\ held' = held \ Freed(d)
  BY XmitOutcomes
<1>2. Reaped(d) \in [Queues -> TxRing] /\ \A i \in Queues : RingInv(Reaped(d)[i])
  BY ReapedInv DEF Queues
<1>3. \A i \in Queues : \A a \in Bds : Reaped(d)[i].skb[a] # NULL =>
          /\ Reaped(d)[i].skb[a] = txq[d][i].skb[a]
          /\ txq[d][i].skb[a] \in held \ Freed(d)
  BY LeftIsKept
<1>4. \A e \in Devs : \A i \in Queues : \A a \in Bds :
          e # d /\ txq[e][i].skb[a] # NULL => txq[e][i].skb[a] \in held \ Freed(d)
  BY OthersKept
<1>5. CASE txq' = [txq EXCEPT ![d] = Reaped(d)] /\ held' = held \ Freed(d)
  <2>1. ASSUME NEW e \in Devs, NEW i \in Queues, NEW a \in Bds,
               txq'[e][i].skb[a] # NULL
        PROVE  /\ txq'[e][i].skb[a] = txq[e][i].skb[a]
               /\ txq'[e][i].skb[a] \in held'
    <3>1. CASE e = d
      <4>1. txq'[e] = Reaped(d)
        BY <1>0, <1>5, <3>1
      <4> QED BY <1>3, <1>5, <2>1, <3>1, <4>1
    <3>2. CASE e # d
      <4>1. txq'[e] = txq[e]
        BY <1>0, <1>5, <3>2
      <4> QED BY <1>4, <1>5, <2>1, <3>2, <4>1
    <3> QED BY <3>1, <3>2
  <2> QED BY <2>1, FewerSkbs
<1>6. CASE /\ Reaped(d)[q].free > 0
           /\ txq' = [txq EXCEPT ![d] =
                        [Reaped(d) EXCEPT ![q] = PushRing(Reaped(d)[q], s)]]
           /\ held' = (held \ Freed(d)) \cup {s}
  <2> DEFINE r == Reaped(d)[q]
  <2>1. /\ r.tail \in Bds
        /\ \A a \in Bds : PushRing(r, s).skb[a] = IF a = r.tail THEN s ELSE r.skb[a]
    BY <1>2, <1>6, PushedSkb
  <2>2. /\ txq'[d][q] = PushRing(r, s)
        /\ \A i \in Queues : i # q => txq'[d][i] = Reaped(d)[i]
        /\ \A e \in Devs : e # d => txq'[e] = txq[e]
    BY <1>0, <1>2, <1>6
  <2>3. ASSUME NEW e \in Devs, NEW i \in Queues, NEW a \in Bds,
               txq'[e][i].skb[a] # NULL, ~ (e = d /\ i = q /\ a = r.tail)
        PROVE  /\ txq'[e][i].skb[a] = txq[e][i].skb[a]
               /\ txq'[e][i].skb[a] \in held /\ txq'[e][i].skb[a] \in held'
    <3>1. CASE e = d /\ i = q
      <4>1. txq'[e][i].skb[a] = r.skb[a]
        BY <2>1, <2>2, <2>3, <3>1
      <4> QED BY <1>3, <1>6, <2>3, <3>1, <4>1
    <3>2. CASE e = d /\ i # q
      BY <1>3, <1>6, <2>2, <2>3, <3>2
    <3>3. CASE e # d
      BY <1>4, <1>6, <2>2, <2>3, <3>3
    <3> QED BY <3>1, <3>2, <3>3
  <2>4. txq'[d][q].skb[r.tail] = s /\ s \in held'
    BY <1>6, <2>1, <2>2
  <2> DEFINE new(e, i, a) == e = d /\ i = q /\ a = r.tail
             at(e, i, a) == txq'[e][i].skb[a]
  <2> HIDE DEF r
  <2>5. ASSUME NEW e \in Devs, NEW i \in Queues, NEW a \in Bds, at(e, i, a) # NULL,
               NEW f \in Devs, NEW j \in Queues, NEW b \in Bds
        PROVE  /\ at(e, i, a) \in held'
               /\ at(e, i, a) = at(f, j, b) => e = f /\ i = j /\ a = b
    <3>1. CASE new(e, i, a) /\ new(f, j, b)
      BY <2>4, <3>1
    <3>2. CASE new(e, i, a) /\ ~ new(f, j, b)
      BY <2>3, <2>4, <2>5, <3>2
    <3>3. CASE ~ new(e, i, a) /\ new(f, j, b)
      BY <2>3, <2>4, <2>5, <3>3
    <3>4. CASE ~ new(e, i, a) /\ ~ new(f, j, b)
      BY <2>3, <2>5, <3>4 DEF SkbsApart
    <3> QED BY <3>1, <3>2, <3>3, <3>4
  <2>6. SkbsApart'
    BY <2>5 DEF SkbsApart, Queues, Bds
  <2> QED BY <2>6
<1> QED BY <1>1, <1>5, <1>6

LEMMA ApartNextInv == TxInv /\ SkbsApart /\ [TxNext]_txVars => SkbsApart'
<1> SUFFICES ASSUME TxInv, SkbsApart, [TxNext]_txVars PROVE SkbsApart'
  OBVIOUS
<1>0. /\ TxTypeOK /\ txq \in [Devs -> [Queues -> TxRing]]
      /\ req.op = "up" => req \in UpReq
      /\ req.op = "down" => req \in DownReq
  BY RequestForms DEF TxInv, TxTypeOK, Queues
<1>1. ASSUME UNCHANGED <<txq, held>> PROVE SkbsApart'
  BY <1>1, FewerSkbs DEF SkbsApart
(* Rings replaced by rings without packets. *)
<1>2. ASSUME NEW d \in Devs, NEW Q \in SUBSET Queues, held' = held,
             \A e \in Devs : \A i \in Queues :
                 IF e = d /\ i \in Q THEN txq'[e][i].skb = NoSkbs
                 ELSE txq'[e][i] = txq[e][i]
      PROVE  SkbsApart'
  <2>1. \A a \in Bds : NoSkbs[a] = NULL
    BY DEF NoSkbs
  <2>2. ASSUME NEW e \in Devs, NEW i \in Queues, NEW a \in Bds,
               txq'[e][i].skb[a] # NULL
        PROVE  /\ txq'[e][i].skb[a] = txq[e][i].skb[a]
               /\ txq'[e][i].skb[a] \in held'
    <3>1. txq'[e][i] = txq[e][i]
      BY <1>2, <2>1, <2>2
    <3> QED BY <1>2, <2>2, <3>1 DEF SkbsApart
  <2> QED BY <2>2, FewerSkbs
<1>3. \A i \in Queues : NoRings[i].skb = NoSkbs
  BY DEF NoRings, ZeroRing, Queues
<1>4. ASSUME NEW d \in Devs, DoCreateDeviceReq(d) PROVE SkbsApart'
  <2>1. txq' = [txq EXCEPT ![d] = NoRings] /\ held' = held
    BY <1>4 DEF DoCreateDeviceReq
  <2>2. \A e \in Devs : \A i \in Queues :
            IF e = d /\ i \in Queues THEN txq'[e][i].skb = NoSkbs
            ELSE txq'[e][i] = txq[e][i]
    BY <1>0, <1>3, <2>1
  <2> QED BY <1>2, <2>1, <2>2
<1>5. ASSUME NEW d \in Devs, NEW s \in Skbs, NEW prio \in SubPrios,
             HardStartXmit(d, s, prio)
      PROVE  SkbsApart'
  BY <1>5, XmitApart DEF HardStartXmit
<1>6. ASSUME NEW d \in Devs, NEW s \in Skbs, NEW port \in Ports,
             DoSendCellReq(d, port, s)
      PROVE  SkbsApart'
  BY <1>6, XmitApart DEF DoSendCellReq
<1>7. ASSUME NEW d \in Devs, NEW i \in Queues, DmaTransmit(d, i) PROVE SkbsApart'
  <2>1. txq[d][i] \in TxRing
    BY <1>0
  <2>2. TransmitRing(txq[d][i]).skb = txq[d][i].skb
    BY <2>1 DEF TransmitRing, TxRing
  <2>3. txq' = [txq EXCEPT ![d] = [txq[d] EXCEPT ![i] = TransmitRing(txq[d][i])]]
        /\ held' = held
    BY <1>0, <1>7 DEF DmaTransmit
  <2> DEFINE t == TransmitRing(txq[d][i])
  <2> HIDE DEF t
  <2>4. \A e \in Devs : \A j \in Queues : txq'[e][j].skb = txq[e][j].skb
    BY <1>0, <2>2, <2>3 DEF t
  <2> QED BY <2>3, <2>4, FewerSkbs, SMTT(30) DEF SkbsApart
<1>8. CASE TimerTick
  <2>1. /\ txq' = [d \in Devs |-> IF d \in table THEN Reaped(d) ELSE txq[d]]
        /\ held' = held \ UNION {Freed(d) : d \in table}
        /\ table \subseteq Devs
    BY <1>0, <1>8 DEF TimerTick, TxTypeOK
  <2>2. ASSUME NEW d \in Devs, NEW i \in Queues, NEW a \in Bds,
               txq'[d][i].skb[a] # NULL
        PROVE  /\ txq'[d][i].skb[a] = txq[d][i].skb[a]
               /\ txq'[d][i].skb[a] \in held'
    <3>1. /\ txq'[d][i].skb[a] = txq[d][i].skb[a]
          /\ txq[d][i].skb[a] \in held
          /\ d \in table => txq[d][i].skb[a] \notin Freed(d)
      BY <2>1, <2>2, LeftIsKept DEF SkbsApart
    <3>2. \A e \in table : e # d => txq[d][i].skb[a] \notin Freed(e)
      BY <2>1, <2>2, <3>1, OthersKept
    <3> QED BY <2>1, <3>1, <3>2
  <2> QED BY <2>2, FewerSkbs
<1>9. CASE LinkUpQueueBegin
  <2>1. CASE txq' = txq
    BY <1>1, <1>9, <2>1 DEF LinkUpQueueBegin
  <2>2. CASE txq' = [txq EXCEPT ![req.d][req.i] = HalfRing(req.cfg[req.i])]
    <3>1. req \in UpReq /\ req.d \in Devs /\ req.i \in Queues /\ req.cfg[req.i] \in TxQueueId
      BY <1>9, CurrentQueue DEF LinkUpQueueBegin, UpReq, Queues
    <3> DEFINE t == HalfRing(req.cfg[req.i])
    <3>2. t.skb = NoSkbs
      BY DEF HalfRing, ZeroRing
    <3> HIDE DEF t
    <3>3. \A e \in Devs : \A i \in Queues :
              IF e = req.d /\ i \in {req.i} THEN txq'[e][i].skb = NoSkbs
              ELSE txq'[e][i] = txq[e][i]
      BY <1>0, <2>2, <3>1, <3>2 DEF t
    <3>4. held' = held
      BY <1>9 DEF LinkUpQueueBegin
    <3>5. {req.i} \in SUBSET Queues
      BY <3>1
    <3> QED BY <1>2, <3>1, <3>3, <3>4, <3>5, Zenon
  <2> QED BY <1>9, <2>1, <2>2 DEF LinkUpQueueBegin
<1>10. CASE LinkUpQueueEnd
  <2>1. req \in UpReq /\ req.d \in Devs /\ req.i \in Queues
    <3>1. req.i <= Len(req.cfg) /\ req.op = "up"
      BY <1>10 DEF LinkUpQueueEnd, HalfQueue, TxInv
    <3> QED BY <3>1, CurrentQueue DEF UpReq, Queues
  <2> DEFINE t == FreshRing(req.cfg[req.i])
  <2>2. t.skb = NoSkbs
    BY DEF FreshRing
  <2>3. txq' = [txq EXCEPT ![req.d][req.i] = t] /\ held' = held
    BY <1>10 DEF LinkUpQueueEnd
  <2> HIDE DEF t
  <2>4. \A e \in Devs : \A i \in Queues :
            IF e = req.d /\ i \in {req.i} THEN txq'[e][i].skb = NoSkbs
            ELSE txq'[e][i] = txq[e][i]
    BY <1>0, <2>1, <2>2, <2>3
  <2>5. {req.i} \in SUBSET Queues
    BY <2>1
  <2> QED BY <1>2, <2>1, <2>3, <2>4, <2>5, Zenon
<1>11. ASSUME NEW d \in Devs, DoLinkDown(d) PROVE SkbsApart'
  <2>1. txq' = [txq EXCEPT ![d] = Reaped(d)] /\ held' = held \ Freed(d)
    BY <1>11 DEF DoLinkDown
  <2>2. ASSUME NEW e \in Devs, NEW i \in Queues, NEW a \in Bds,
               txq'[e][i].skb[a] # NULL
        PROVE  /\ txq'[e][i].skb[a] = txq[e][i].skb[a]
               /\ txq'[e][i].skb[a] \in held'
    <3>1. CASE e = d
      <4>1. txq'[e] = Reaped(d)
        BY <1>0, <2>1, <3>1
      <4> QED BY <2>1, <2>2, <3>1, <4>1, LeftIsKept
    <3>2. CASE e # d
      <4>1. txq'[e] = txq[e]
        BY <1>0, <2>1, <3>2
      <4> QED BY <2>1, <2>2, <3>2, <4>1, OthersKept
    <3> QED BY <3>1, <3>2
  <2> QED BY <2>2, FewerSkbs
<1>12. CASE LinkDownFree
  <2>1. req \in DownReq /\ req.d \in Devs
    BY <1>0, <1>12 DEF LinkDownFree, DownReq
  <2>2. txq' = [txq EXCEPT ![req.d] =
                  [i \in Queues |-> [txq[req.d][i] EXCEPT !.dma = "off"]]]
        /\ held' = held
    BY <1>12 DEF LinkDownFree, Queues
  <2>3. \A i \in Queues : [txq[req.d][i] EXCEPT !.dma = "off"].skb = txq[req.d][i].skb
    <3> TAKE i \in Queues
    <3>1. txq[req.d][i] \in TxRing
      BY <1>0, <2>1
    <3> QED BY <3>1 DEF TxRing
  <2>4. \A e \in Devs : \A j \in Queues : txq'[e][j].skb = txq[e][j].skb
    BY <1>0, <2>1, <2>2, <2>3
  <2> QED BY <2>2, <2>4, FewerSkbs DEF SkbsApart
<1>13. CASE LinkDownZero
  <2>1. req \in DownReq /\ req.d \in Devs
    BY <1>0, <1>13 DEF LinkDownZero, DownReq
  <2>2. txq' = [txq EXCEPT ![req.d] = NoRings] /\ held' = held
    BY <1>13 DEF LinkDownZero
  <2>3. \A e \in Devs : \A i \in Queues :
            IF e = req.d /\ i \in Queues THEN txq'[e][i].skb = NoSkbs
            ELSE txq'[e][i] = txq[e][i]
    BY <1>0, <1>3, <2>1, <2>2
  <2> QED BY <1>2, <2>1, <2>2, <2>3
<1>14. ASSUME \/ UNCHANGED txVars \/ LinkUpEnd \/ LinkDownEnd
              \/ \E d \in Devs :
                    \/ DoDeleteDeviceReq(d) \/ SetAdminStatus(d) \/ Open(d) \/ Close(d)
                    \/ Timeout(d) \/ DoLinkUpNoMem(d)
                    \/ \E cfg \in TxQConfigs : DoLinkUp(d, cfg)
       PROVE  SkbsApart'
  BY <1>1, <1>14 DEF txVars, LinkUpEnd, LinkDownEnd, DoDeleteDeviceReq,
     SetAdminStatus, Open, Close, Timeout, DoLinkUpNoMem, DoLinkUp
<1> QED BY <1>4, <1>5, <1>6, <1>7, <1>8, <1>9, <1>10, <1>11, <1>12, <1>13, <1>14
        DEF TxNext, LinkUpSteps, LinkDownSteps, Queues

(* No packet is freed twice and no descriptor points to a freed packet, whatever  *)
(* the order of transmissions, releases and link requests on any number of        *)
(* devices and queues.                                                            *)
THEOREM SkbAlwaysInOnePlace == TxSpec => []SkbInOnePlace
<1>1. TxInv /\ SkbsApart => SkbInOnePlace
  <2> SUFFICES ASSUME TxInv, SkbsApart, NEW d \in Devs, NEW e \in Devs,
                      NEW i \in Live(d), NEW j \in Live(e), NEW a \in Bds, NEW b \in Bds,
                      txq[d][i].skb[a] # NULL
               PROVE  /\ txq[d][i].skb[a] \in held
                      /\ txq[d][i].skb[a] = txq[e][j].skb[b] => <<d, i, a>> = <<e, j, b>>
    BY DEF SkbInOnePlace
  <2>1. i \in Queues /\ j \in Queues
    BY LiveQueues DEF TxInv
  <2> QED BY <2>1 DEF SkbsApart
<1> QED BY <1>1, TxInitInv, TxNextInv, ApartInitInv, ApartNextInv, PTL DEF TxSpec

(* ------------------------------------------------------------------------------ *)
(* When a packet is freed *)

(* A packet a release loop frees is in no descriptor of another device, and in a  *)
(* released one of its own.                                                       *)
LEMMA FreedWhere ==
    ASSUME TxInv, SkbsApart, NEW d \in Devs, NEW e \in Devs, NEW i \in Queues,
           NEW a \in Bds, txq[d][i].skb[a] # NULL, txq[d][i].skb[a] \in Freed(e)
    PROVE  d = e /\ a \in ReleasedSlots(txq[d][i])
<1>1. PICK j \in Live(e), b \in Bds :
          /\ j \in Queues /\ txq[e][j].bds /\ b \in ReleasedSlots(txq[e][j])
          /\ txq[d][i].skb[a] = txq[e][j].skb[b]
  BY FreedFrom
<1>2. d = e /\ i = j /\ a = b
  BY <1>1 DEF SkbsApart
<1> QED BY <1>1, <1>2

(* The body of FreedAfterTransmit, for one ring. *)
FreedInOrder(r) ==
    \A j \in 0 .. Used(r) - 1 :
        (r.bds /\ r.skb[Slot(r, j)] \in held \ held')
            => \A k \in 0 .. j : /\ Slot(r, k) \notin r.own
                                 /\ r.skb[Slot(r, k)] \notin held'

(* Freeing what the release loops of the devices D find transmitted, and possibly *)
(* accepting a packet the driver did not hold, frees in order.                    *)
LEMMA ReleaseFreesInOrder ==
    ASSUME TxInv, SkbsApart, NEW D \in SUBSET Devs, NEW S, S \cap held = {},
           held' = (held \ UNION {Freed(e) : e \in D}) \cup S,
           NEW d \in Devs, NEW i \in Live(d)
    PROVE  FreedInOrder(txq[d][i])
<1> DEFINE r == txq[d][i]
<1>0. i \in Queues
  BY LiveQueues DEF TxInv
<1>1. RingInv(r)
  BY <1>0 DEF TxInv, Queues
<1>2. SUFFICES ASSUME NEW j \in 0 .. Used(r) - 1, r.bds,
                      r.skb[Slot(r, j)] \in held \ held',
                      NEW k \in 0 .. j
               PROVE  Slot(r, k) \notin r.own /\ r.skb[Slot(r, k)] \notin held'
  BY DEF FreedInOrder
<1>3. /\ Positions(r) /\ r.size \in Nat /\ Used(r) \in 0 .. r.size
      /\ r \in TxRing /\ RingConsistent(r)
  BY <1>1, <1>2, RingFacts DEF RingInv
<1>4. PICK p \in 0 .. Used(r) :
          /\ ReleasedSlots(r) = {Slot(r, m) : m \in 0 .. p - 1}
          /\ OwnFrom(r, p)
          /\ \A m \in 0 .. Used(r) : Slot(r, m) \in Bds
  BY <1>1, <1>2, ReleasedInRing
<1>5. j \in 0 .. Used(r) /\ k \in 0 .. Used(r) - 1 /\ k \in 0 .. Used(r)
      /\ j \in 0 .. r.size - 1 /\ k \in 0 .. r.size - 1
  BY <1>2, <1>3
<1>6. Slot(r, j) \in Bds /\ Slot(r, k) \in Bds
  BY <1>4, <1>5
<1>7. r.skb[Slot(r, j)] # NULL /\ r.skb[Slot(r, k)] # NULL
  BY <1>2, <1>3, <1>5, <1>6 DEF RingConsistent
<1>8. PICK e \in D : r.skb[Slot(r, j)] \in Freed(e)
  BY <1>2
<1>9. d = e /\ Slot(r, j) \in ReleasedSlots(r)
  BY <1>0, <1>6, <1>7, <1>8, FreedWhere
<1>10. PICK m \in 0 .. p - 1 : Slot(r, j) = Slot(r, m)
  BY <1>4, <1>9
<1>11. j = m
  <2>1. m \in 0 .. r.size - 1
    BY <1>3, <1>4
  <2> QED BY <1>3, <1>5, <1>10, <2>1, SlotInjective
<1>12. k \in 0 .. p - 1
  BY <1>2, <1>3, <1>4, <1>10, <1>11
<1>13. Slot(r, k) \notin r.own
  <2>1. \A n \in p .. Used(r) - 1 : n \in 0 .. r.size - 1 /\ n # k
    BY <1>3, <1>4, <1>12
  <2>2. \A n \in p .. Used(r) - 1 : Slot(r, n) # Slot(r, k)
    BY <1>3, <1>5, <2>1, SlotInjective
  <2> QED BY <1>4, <2>2 DEF OwnFrom
<1>14. r.skb[Slot(r, k)] \in Freed(d)
  <2>1. Slot(r, k) \in ReleasedSlots(r)
    BY <1>4, <1>12
  <2>2. r.skb[Slot(r, k)] \in FreedBy(r)
    BY <1>2, <2>1 DEF FreedBy
  <2> QED BY <2>2 DEF Freed
<1>15. r.skb[Slot(r, k)] \in held
  BY <1>0, <1>6, <1>7 DEF SkbsApart
<1> HIDE DEF r
<1>16. r.skb[Slot(r, k)] \notin held'
  BY <1>8, <1>9, <1>14, <1>15
<1> QED BY <1>13, <1>16

(* Every step frees what release loops find, or nothing. *)
LEMMA StepFrees ==
    ASSUME TxInv, [TxNext]_txVars
    PROVE  \E D \in SUBSET Devs : \E S :
              S \cap held = {} /\ held' = (held \ UNION {Freed(e) : e \in D}) \cup S
<1> DEFINE Goal == \E D \in SUBSET Devs : \E S :
              S \cap held = {} /\ held' = (held \ UNION {Freed(e) : e \in D}) \cup S
<1>1. ASSUME held' = held PROVE Goal
  <2>1. {} \in SUBSET Devs /\ {} \cap held = {}
        /\ held' = (held \ UNION {Freed(e) : e \in {}}) \cup {}
    BY <1>1
  <2> QED BY <2>1
<1>2. ASSUME NEW d \in Devs, held' = held \ Freed(d) PROVE Goal
  <2>1. {d} \in SUBSET Devs /\ {} \cap held = {}
        /\ held' = (held \ UNION {Freed(e) : e \in {d}}) \cup {}
    BY <1>2
  <2> QED BY <2>1
<1>3. ASSUME NEW d \in Devs, NEW s, s \notin held, held' = (held \ Freed(d)) \cup {s}
      PROVE  Goal
  <2>1. {d} \in SUBSET Devs /\ {s} \cap held = {}
        /\ held' = (held \ UNION {Freed(e) : e \in {d}}) \cup {s}
    BY <1>3
  <2> QED BY <2>1
<1>4. ASSUME TimerTick PROVE Goal
  <2>1. table \in SUBSET Devs /\ {} \cap held = {}
        /\ held' = (held \ UNION {Freed(e) : e \in table}) \cup {}
    BY <1>4 DEF TimerTick, TxInv, TxTypeOK
  <2> QED BY <2>1
<1> HIDE DEF Goal
<1>5. ASSUME NEW d \in Devs, NEW s \in Skbs, NEW prio, s \notin held, Xmit(d, s, prio)
      PROVE  Goal
  BY <1>2, <1>3, <1>5 DEF Xmit
<1>6. ASSUME NEW d \in Devs, DoLinkDown(d) PROVE Goal
  BY <1>2, <1>6 DEF DoLinkDown
<1>7. ASSUME NEW d \in Devs, NEW s \in Skbs,
             \/ \E prio \in SubPrios : HardStartXmit(d, s, prio)
             \/ \E port \in Ports : DoSendCellReq(d, port, s)
      PROVE  Goal
  BY <1>5, <1>7 DEF HardStartXmit, DoSendCellReq
<1>8. ASSUME \/ UNCHANGED txVars \/ LinkUpSteps \/ LinkDownSteps
             \/ \E d \in Devs :
                   \/ DoCreateDeviceReq(d) \/ DoDeleteDeviceReq(d) \/ SetAdminStatus(d)
                   \/ Open(d) \/ Close(d) \/ Timeout(d) \/ DoLinkUpNoMem(d)
                   \/ \E i \in 1 .. MaxTxQueues : DmaTransmit(d, i)
                   \/ \E cfg \in TxQConfigs : DoLinkUp(d, cfg)
      PROVE  Goal
  <2>1. held' = held
    BY <1>8 DEF txVars, LinkUpSteps, LinkUpQueueBegin, LinkUpQueueEnd, LinkUpEnd,
       LinkDownSteps, LinkDownFree, LinkDownZero, LinkDownEnd, DoCreateDeviceReq,
       DoDeleteDeviceReq, SetAdminStatus, Open, Close, Timeout, DoLinkUpNoMem,
       DmaTransmit, DoLinkUp
  <2> QED BY <1>1, <2>1
<1>9. Goal
  BY <1>4, <1>6, <1>7, <1>8 DEF TxNext
<1> QED BY <1>9 DEF Goal

(* A packet is freed only when the DMA engine is done with it, and the packets of *)
(* a ring are freed in the order they were queued, by every step of every         *)
(* behaviour.                                                                     *)
THEOREM AlwaysFreedAfterTransmit == TxSpec => FreedAfterTransmit
<1>1. ASSUME TxInv, SkbsApart, [TxNext]_txVars
      PROVE  \A d \in Devs : \A i \in Live(d) : FreedInOrder(txq[d][i])
  <2>1. PICK D, S : /\ D \in SUBSET Devs
                    /\ S \cap held = {}
                    /\ held' = (held \ UNION {Freed(e) : e \in D}) \cup S
    BY <1>1, StepFrees
  <2> QED BY <1>1, <2>1, ReleaseFreesInOrder
<1>2. TxInv /\ SkbsApart /\ [TxNext]_txVars
         => [\A d \in Devs : \A i \in Live(d) :
               LET r == txq[d][i]
               IN  \A j \in 0 .. Used(r) - 1 :
                     (r.bds /\ r.skb[Slot(r, j)] \in held \ held')
                        => \A k \in 0 .. j : /\ Slot(r, k) \notin r.own
                                             /\ r.skb[Slot(r, k)] \notin held']_txVars
  BY <1>1 DEF FreedInOrder
<1> QED BY <1>2, TxInitInv, TxNextInv, ApartInitInv, ApartNextInv, PTL
        DEF TxSpec, FreedAfterTransmit

(* ------------------------------------------------------------------------------ *)
(* Rings without their descriptors *)

(* DoLinkUp is between the size and the descriptors of entry i of d. *)
HalfBuilt(d, i) == req.op = "up" /\ req.half /\ req.d = d /\ req.i = i

(* DoLinkDown has freed the rings of d and not yet zeroed them. *)
HalfFreed(d) == req.op = "down" /\ req.d = d /\ req.step = "zero"

(* An entry without descriptors has size 0 unless DoLinkUp is just building it;   *)
(* pTxQMem points to freed memory only while no entry has descriptors, or         *)
(* DoLinkDown is about to zero them; the memory of a DoLinkUp is live.            *)
StrayInv ==
    /\ \A d \in Devs : \A i \in Queues :
          ~ txq[d][i].bds => txq[d][i].size = 0 \/ HalfBuilt(d, i)
    /\ \A d \in Devs :
          txMem[d] = "freed" => (\A i \in Queues : ~ txq[d][i].bds) \/ HalfFreed(d)
    /\ req.op = "up" => txMem[req.d] = "live"

LEMMA StrayInitInv == TxInit => StrayInv
BY DEF TxInit, StrayInv, NoRings, ZeroRing, Queues, Idle

(* Steps that keep the size and the descriptors of every ring, and what else      *)
(* StrayInv is about.                                                             *)
LEMMA StraySame ==
    ASSUME StrayInv, UNCHANGED <<txMem, req>>,
           \A d \in Devs : \A i \in Queues :
               /\ txq'[d][i].bds <=> txq[d][i].bds
               /\ txq'[d][i].size = txq[d][i].size
    PROVE  StrayInv'
BY DEF StrayInv, HalfBuilt, HalfFreed, Queues

(* The release loop, queueing and transmission keep the size of a ring and        *)
(* whether it has descriptors.                                                    *)
LEMMA SameShape ==
    ASSUME NEW r, RingInv(r)
    PROVE  /\ ReapRing(r).size = r.size /\ (ReapRing(r).bds <=> r.bds)
           /\ TransmitRing(r).size = r.size /\ (TransmitRing(r).bds <=> r.bds)
           /\ \A s : PushRing(r, s).size = r.size /\ (PushRing(r, s).bds <=> r.bds)
<1>1. r \in TxRing
  BY DEF RingInv
<1>2. ReapRing(r).size = r.size
  BY <1>1 DEF ReapRing, TxRing
<1>3. ReapRing(r).bds <=> r.bds
  BY ReapInv
<1>4. TransmitRing(r).size = r.size /\ TransmitRing(r).bds = r.bds
  BY <1>1 DEF TransmitRing, TxRing
<1>5. ASSUME NEW s PROVE PushRing(r, s).size = r.size /\ PushRing(r, s).bds = r.bds
  BY <1>1 DEF PushRing, TxRing
<1> QED BY <1>2, <1>3, <1>4, <1>5

LEMMA ReapedShape ==
    ASSUME TxInv, NEW d \in Devs, NEW i \in Queues
    PROVE  Reaped(d)[i].size = txq[d][i].size /\ (Reaped(d)[i].bds <=> txq[d][i].bds)
<1>1. RingInv(txq[d][i])
  BY DEF TxInv, Queues
<1>2. Reaped(d)[i] = IF i \in Live(d) THEN ReapRing(txq[d][i]) ELSE txq[d][i]
  BY DEF Reaped, Queues
<1> QED BY <1>1, <1>2, SameShape

LEMMA XmitShape ==
    ASSUME TxInv, NEW d \in Devs, NEW s, NEW prio, Xmit(d, s, prio)
    PROVE  \A e \in Devs : \A i \in Queues :
               /\ txq'[e][i].bds <=> txq[e][i].bds
               /\ txq'[e][i].size = txq[e][i].size
<1>0. txq \in [Devs -> [Queues -> TxRing]]
  BY DEF TxInv, TxTypeOK, Queues
<1>1. PICK q \in Queues :
          \/ /\ Reaped(d)[q].free > 0
             /\ txq' = [txq EXCEPT ![d] =
                          [Reaped(d) EXCEPT ![q] = PushRing(Reaped(d)[q], s)]]
          \/ txq' = [txq EXCEPT ![d] = Reaped(d)]
  BY XmitOutcomes
<1>2. Reaped(d) \in [Queues -> TxRing] /\ \A i \in Queues : RingInv(Reaped(d)[i])
  BY ReapedInv DEF Queues
<1>3. \A i \in Queues :
          Reaped(d)[i].size = txq[d][i].size /\ (Reaped(d)[i].bds <=> txq[d][i].bds)
  BY ReapedShape
<1>4. /\ PushRing(Reaped(d)[q], s).size = Reaped(d)[q].size
      /\ PushRing(Reaped(d)[q], s).bds <=> Reaped(d)[q].bds
  BY <1>2, SameShape
<1>5. CASE txq' = [txq EXCEPT ![d] = Reaped(d)]
  <2> TAKE e \in Devs
  <2> TAKE i \in Queues
  <2>1. txq'[e][i] = IF e = d THEN Reaped(d)[i] ELSE txq[e][i]
    BY <1>0, <1>5
  <2> QED BY <1>3, <2>1
<1>6. CASE txq' = [txq EXCEPT ![d] =
                     [Reaped(d) EXCEPT ![q] = PushRing(Reaped(d)[q], s)]]
  <2> TAKE e \in Devs
  <2> TAKE i \in Queues
  <2>1. txq'[e][i] = IF e = d THEN IF i = q THEN PushRing(Reaped(d)[q], s)
                                   ELSE Reaped(d)[i]
                     ELSE txq[e][i]
    BY <1>0, <1>2, <1>6
  <2> QED BY <1>3, <1>4, <2>1
<1> QED BY <1>1, <1>5, <1>6

LEMMA StrayNextInv == TxInv /\ StrayInv /\ [TxNext]_txVars => StrayInv'
<1> SUFFICES ASSUME TxInv, StrayInv, [TxNext]_txVars PROVE StrayInv'
  OBVIOUS
<1>0. /\ TxTypeOK /\ txq \in [Devs -> [Queues -> TxRing]]
      /\ txMem \in [Devs -> {"null", "live", "freed"}]
      /\ req = Idle <=> req.op = "idle"
      /\ req.op = "up" => req \in UpReq
      /\ req.op = "down" => req \in DownReq
  BY RequestForms DEF TxInv, TxTypeOK, Queues
<1>1. \A i \in Queues : ~ NoRings[i].bds /\ NoRings[i].size = 0
  BY DEF NoRings, ZeroRing, Queues
<1>2. ASSUME NEW d \in Devs, DoCreateDeviceReq(d) PROVE StrayInv'
  <2>1. /\ txq' = [txq EXCEPT ![d] = NoRings] /\ txMem' = [txMem EXCEPT ![d] = "null"]
        /\ req' = req /\ req.op = "idle"
    BY <1>0, <1>2 DEF DoCreateDeviceReq
  <2>2. \A e \in Devs : \A i \in Queues :
            IF e = d THEN ~ txq'[e][i].bds /\ txq'[e][i].size = 0
            ELSE txq'[e][i] = txq[e][i]
    BY <1>0, <1>1, <2>1
  <2>3. \A e \in Devs : txMem'[e] = IF e = d THEN "null" ELSE txMem[e]
    BY <1>0, <2>1
  <2> QED BY <2>1, <2>2, <2>3 DEF StrayInv, HalfBuilt, HalfFreed, Queues
<1>3. ASSUME NEW d \in Devs, NEW s \in Skbs,
             \/ \E prio \in SubPrios : HardStartXmit(d, s, prio)
             \/ \E port \in Ports : DoSendCellReq(d, port, s)
      PROVE  StrayInv'
  <2>1. PICK prio : Xmit(d, s, prio)
    BY <1>3 DEF HardStartXmit, DoSendCellReq
  <2>2. UNCHANGED <<txMem, req>>
    BY <1>3 DEF HardStartXmit, DoSendCellReq
  <2> QED BY <2>1, <2>2, XmitShape, StraySame
<1>4. ASSUME NEW d \in Devs, NEW i \in Queues, DmaTransmit(d, i) PROVE StrayInv'
  <2> DEFINE t == TransmitRing(txq[d][i])
  <2>1. t.size = txq[d][i].size /\ (t.bds <=> txq[d][i].bds)
    BY SameShape DEF TxInv, Queues
  <2>2. /\ txq' = [txq EXCEPT ![d] = [txq[d] EXCEPT ![i] = t]]
        /\ UNCHANGED <<txMem, req>>
    BY <1>0, <1>4 DEF DmaTransmit
  <2> HIDE DEF t
  <2>3. \A e \in Devs : \A j \in Queues :
            txq'[e][j] = IF e = d /\ j = i THEN t ELSE txq[e][j]
    BY <1>0, <2>2
  <2> QED BY <2>1, <2>2, <2>3, StraySame
<1>5. CASE TimerTick
  <2>1. txq' = [d \in Devs |-> IF d \in table THEN Reaped(d) ELSE txq[d]]
        /\ UNCHANGED <<txMem, req>>
    BY <1>5 DEF TimerTick
  <2> QED BY <2>1, ReapedShape, StraySame
<1>6. ASSUME NEW d \in Devs, NEW cfg \in TxQConfigs, DoLinkUp(d, cfg) PROVE StrayInv'
  <2>1. /\ req.op = "idle" /\ req'.op = "up" /\ req'.d = d /\ txq' = txq
        /\ txMem' = [txMem EXCEPT ![d] = "live"]
    BY <1>0, <1>6 DEF DoLinkUp
  <2>2. \A e \in Devs : txMem'[e] = IF e = d THEN "live" ELSE txMem[e]
    BY <1>0, <2>1
  <2> QED BY <2>1, <2>2 DEF StrayInv, HalfBuilt, HalfFreed
<1>7. ASSUME NEW d \in Devs, DoLinkUpNoMem(d) PROVE StrayInv'
  <2>1. /\ req.op = "idle" /\ req' = req /\ txq' = txq
        /\ txMem' = [txMem EXCEPT ![d] = "null"]
    BY <1>0, <1>7 DEF DoLinkUpNoMem
  <2>2. \A e \in Devs : txMem'[e] = IF e = d THEN "null" ELSE txMem[e]
    BY <1>0, <2>1
  <2> QED BY <2>1, <2>2 DEF StrayInv, HalfBuilt, HalfFreed
<1>8. CASE LinkUpQueueBegin
  <2>1. req \in UpReq /\ req.d \in Devs /\ req.i \in Queues /\ req.op = "up" /\ ~ req.half
    BY <1>8, CurrentQueue DEF LinkUpQueueBegin, UpReq, Queues
  <2>2. txMem' = txMem
    BY <1>8 DEF LinkUpQueueBegin
  <2>3. CASE txq' = txq /\ req' = [req EXCEPT !.i = @ + 1]
    <3>1. req'.op = "up" /\ req'.d = req.d
      BY <2>1, <2>3 DEF UpReq
    <3> QED BY <2>1, <2>2, <2>3, <3>1 DEF StrayInv, HalfBuilt, HalfFreed
  <2>4. CASE /\ txq' = [txq EXCEPT ![req.d][req.i] = HalfRing(req.cfg[req.i])]
             /\ req' = [req EXCEPT !.half = TRUE]
    <3> DEFINE t == HalfRing(req.cfg[req.i])
    <3>1. req'.op = "up" /\ req'.d = req.d /\ req'.i = req.i /\ req'.half
      BY <2>1, <2>4 DEF UpReq
    <3>2. ~ t.bds
      BY DEF HalfRing, ZeroRing
    <3> HIDE DEF t
    <3>3. \A e \in Devs : \A j \in Queues :
              txq'[e][j] = IF e = req.d /\ j = req.i THEN t ELSE txq[e][j]
      BY <1>0, <2>1, <2>4 DEF t
    <3>4. \A e \in Devs : \A j \in Queues :
              ~ txq'[e][j].bds => txq'[e][j].size = 0 \/ HalfBuilt(e, j)'
      BY <2>1, <3>1, <3>3 DEF StrayInv, HalfBuilt
    <3>5. ASSUME NEW e \in Devs, txMem'[e] = "freed"
          PROVE  \A j \in Queues : ~ txq'[e][j].bds
      BY <2>1, <2>2, <3>2, <3>3, <3>5 DEF StrayInv, HalfFreed
    <3>6. req'.op = "up" => txMem'[req'.d] = "live"
      BY <2>1, <2>2, <3>1 DEF StrayInv
    <3> QED BY <3>4, <3>5, <3>6 DEF StrayInv, Queues
  <2> QED BY <1>8, <2>3, <2>4 DEF LinkUpQueueBegin
<1>9. CASE LinkUpQueueEnd
  <2>1. req \in UpReq /\ req.d \in Devs /\ req.i \in Queues /\ req.op = "up"
    <3>1. req.i <= Len(req.cfg) /\ req.op = "up"
      BY <1>9 DEF LinkUpQueueEnd, HalfQueue, TxInv
    <3> QED BY <3>1, CurrentQueue DEF UpReq, Queues
  <2> DEFINE t == FreshRing(req.cfg[req.i])
  <2>2. t.bds
    BY DEF FreshRing
  <2>3. /\ txq' = [txq EXCEPT ![req.d][req.i] = t] /\ txMem' = txMem
        /\ req' = [req EXCEPT !.i = @ + 1, !.half = FALSE]
    BY <1>9 DEF LinkUpQueueEnd
  <2> HIDE DEF t
  <2>4. \A e \in Devs : \A j \in Queues :
            txq'[e][j] = IF e = req.d /\ j = req.i THEN t ELSE txq[e][j]
    BY <1>0, <2>1, <2>3
  <2>5. req'.op = "up" /\ req'.d = req.d
    BY <2>1, <2>3 DEF UpReq
  <2>6. \A e \in Devs : \A j \in Queues : ~ txq'[e][j].bds => txq'[e][j].size = 0
    BY <2>1, <2>2, <2>4 DEF StrayInv, HalfBuilt
  <2>7. txMem'[req.d] = "live"
    BY <2>1, <2>3 DEF StrayInv
  <2>8. ASSUME NEW e \in Devs, txMem'[e] = "freed"
        PROVE  \A j \in Queues : ~ txq'[e][j].bds
    <3>1. e # req.d
      BY <2>7, <2>8
    <3> QED BY <2>1, <2>3, <2>4, <2>8, <3>1 DEF StrayInv, HalfFreed
  <2> QED BY <2>5, <2>6, <2>7, <2>8 DEF StrayInv, Queues
<1>10. CASE LinkUpEnd
  <2>1. /\ req.op = "up" /\ req'.op = "idle" /\ UNCHANGED <<txq, txMem>>
        /\ req.i > Len(req.cfg)
    BY <1>10 DEF LinkUpEnd, Idle
  <2>2. ~ req.half
    <3>1. req.i \in Nat /\ Len(req.cfg) \in Nat
      <4>1. req \in UpReq
        BY <1>0, <2>1
      <4>2. req.cfg \in Seq(TxQueueId) /\ MaxTxQueues \in Nat
        BY <4>1, TxAssumption DEF UpReq
      <4> QED BY <4>1, <4>2 DEF UpReq
    <3>2. ~ (req.i <= Len(req.cfg))
      BY <2>1, <3>1
    <3> QED BY <2>1, <3>2 DEF TxInv, HalfQueue
  <2> QED BY <2>1, <2>2 DEF StrayInv, HalfBuilt, HalfFreed
<1>11. ASSUME NEW d \in Devs, DoLinkDown(d) PROVE StrayInv'
  <2>1. /\ txq' = [txq EXCEPT ![d] = Reaped(d)] /\ txMem' = txMem
        /\ req'.op = "down" /\ req.op = "idle"
    BY <1>0, <1>11 DEF DoLinkDown
  <2>2. \A e \in Devs : \A i \in Queues :
            txq'[e][i] = IF e = d THEN Reaped(d)[i] ELSE txq[e][i]
    BY <1>0, <2>1
  <2>3. \A e \in Devs : \A i \in Queues :
            /\ txq'[e][i].bds <=> txq[e][i].bds
            /\ txq'[e][i].size = txq[e][i].size
    BY <2>2, ReapedShape
  <2> QED BY <2>1, <2>3 DEF StrayInv, HalfBuilt, HalfFreed, Queues
<1>12. CASE LinkDownFree
  <2>1. req \in DownReq /\ req.d \in Devs /\ req.op = "down" /\ req.step = "free"
    BY <1>0, <1>12 DEF LinkDownFree, DownReq
  <2>2. /\ txq' = [txq EXCEPT ![req.d] =
                     [i \in Queues |-> [txq[req.d][i] EXCEPT !.dma = "off"]]]
        /\ req' = [req EXCEPT !.step = "zero"]
        /\ txMem' = [txMem EXCEPT ![req.d] = IF @ = "live" THEN "freed" ELSE @]
    BY <1>12 DEF LinkDownFree, Queues
  <2>3. req'.op = "down" /\ req'.d = req.d /\ req'.step = "zero"
    BY <2>1, <2>2 DEF DownReq
  <2>4. \A i \in Queues : /\ [txq[req.d][i] EXCEPT !.dma = "off"].bds = txq[req.d][i].bds
                          /\ [txq[req.d][i] EXCEPT !.dma = "off"].size = txq[req.d][i].size
    <3> TAKE i \in Queues
    <3>1. txq[req.d][i] \in TxRing
      BY <1>0, <2>1
    <3> QED BY <3>1 DEF TxRing
  <2>5. \A e \in Devs : \A j \in Queues : /\ txq'[e][j].bds <=> txq[e][j].bds
                                          /\ txq'[e][j].size = txq[e][j].size
    BY <1>0, <2>1, <2>2, <2>4
  <2>6. \A e \in Devs : e # req.d => txMem'[e] = txMem[e]
    BY <1>0, <2>1, <2>2
  <2> QED BY <2>1, <2>3, <2>5, <2>6 DEF StrayInv, HalfBuilt, HalfFreed, Queues
<1>13. CASE LinkDownZero
  <2>1. req \in DownReq /\ req.d \in Devs /\ req.op = "down" /\ req.step = "zero"
    BY <1>0, <1>13 DEF LinkDownZero, DownReq
  <2>2. /\ txq' = [txq EXCEPT ![req.d] = NoRings] /\ txMem' = txMem
        /\ req' = [req EXCEPT !.step = "stop"]
    BY <1>13 DEF LinkDownZero
  <2>3. req'.op = "down"
    BY <2>1, <2>2 DEF DownReq
  <2>4. \A e \in Devs : \A i \in Queues :
            IF e = req.d THEN ~ txq'[e][i].bds /\ txq'[e][i].size = 0
            ELSE txq'[e][i] = txq[e][i]
    BY <1>0, <1>1, <2>1, <2>2
  <2> QED BY <2>1, <2>2, <2>3, <2>4 DEF StrayInv, HalfBuilt, HalfFreed, Queues
<1>14. CASE LinkDownEnd
  <2>1. /\ req.op = "down" /\ req.step = "stop" /\ req'.op = "idle"
        /\ UNCHANGED <<txq, txMem>>
    BY <1>14 DEF LinkDownEnd, Idle
  <2> QED BY <2>1 DEF StrayInv, HalfBuilt, HalfFreed
<1>15. ASSUME \/ UNCHANGED txVars
              \/ \E d \in Devs : \/ DoDeleteDeviceReq(d) \/ SetAdminStatus(d)
                                 \/ Open(d) \/ Close(d) \/ Timeout(d)
       PROVE  StrayInv'
  <2>1. UNCHANGED <<txq, txMem, req>>
    BY <1>15 DEF txVars, DoDeleteDeviceReq, SetAdminStatus, Open, Close, Timeout
  <2> QED BY <2>1, StraySame
<1> QED BY <1>2, <1>3, <1>4, <1>5, <1>6, <1>7, <1>8, <1>9, <1>10, <1>11, <1>12, <1>13,
           <1>14, <1>15 DEF TxNext, LinkUpSteps, LinkDownSteps, Queues

(* No order of requests, failed allocations included, leaves behind a ring the    *)
(* timer would walk without its descriptors: only the request at work on that     *)
(* very device opens such a window.                                               *)
THEOREM StrayAlwaysInRequest == TxSpec => []StrayOnlyInRequest
<1>1. TxInv /\ StrayInv => StrayOnlyInRequest
  <2> SUFFICES ASSUME TxInv, StrayInv, NEW d \in table, NEW i \in Live(d),
                      StrayRing(d, txq[d][i])
               PROVE  req # Idle /\ req.d = d /\ (req.op = "down" => req.step = "zero")
    BY DEF StrayOnlyInRequest
  <2>1. d \in Devs /\ TxTypeOK
    BY DEF TxInv, TxTypeOK
  <2>2. i \in Queues
    BY <2>1, LiveQueues
  <2>3. RingInv(txq[d][i])
    BY <2>1, <2>2 DEF TxInv, Queues
  <2>4. CASE ~ txq[d][i].bds
    <3>1. txq[d][i].size # 0
      BY <2>3, <2>4 DEF RingInv, StrayRing, TxRing
    <3> QED BY <2>1, <2>2, <2>4, <3>1 DEF StrayInv, HalfBuilt, Idle
  <2>5. CASE txq[d][i].bds
    <3>1. txMem[d] = "freed"
      BY <2>5 DEF StrayRing
    <3> QED BY <2>1, <2>2, <2>5, <3>1 DEF StrayInv, HalfFreed, Idle
  <2> QED BY <2>4, <2>5
<1> QED BY <1>1, TxInitInv, TxNextInv, StrayInitInv, StrayNextInv, PTL DEF TxSpec

(* ------------------------------------------------------------------------------ *)
(* The rings implement bounded first-in first-out queues *)

(* A sequence given as a function. *)
LEMMA AsSequence ==
    ASSUME NEW n \in Nat, NEW f, f = [j \in 1 .. n |-> f[j]],
           \A j \in 1 .. n : f[j] \in Skbs
    PROVE  f \in Seq(Skbs) /\ Len(f) = n /\ DOMAIN f = 1 .. n
<1>1. f \in [1 .. n -> Skbs]
  BY Zenon
<1>2. f \in Seq(Skbs)
  BY <1>1, SeqDef
<1>3. Len(f) \in Nat /\ DOMAIN f = 1 .. Len(f)
  BY <1>2, LenProperties
<1>4. DOMAIN f = 1 .. n
  BY <1>1
<1> QED BY <1>2, <1>3, <1>4

(* Sequences of packets with the same elements are equal. *)
LEMMA SamePackets ==
    ASSUME NEW f \in Seq(Skbs), NEW g \in Seq(Skbs), Len(f) = Len(g),
           \A j \in 1 .. Len(f) : f[j] = g[j]
    PROVE  f = g
BY SeqEqual

(* A function on nothing is the empty sequence. *)
LEMMA NoneIsEmpty ==
    ASSUME NEW f, f = [j \in DOMAIN f |-> f[j]], DOMAIN f = {}
    PROVE  f = << >>
<1>1. /\ << >> \in Seq({}) /\ Len(<< >>) = 0
  BY EmptySeq
<1>2. << >> \in [1 .. 0 -> {}]
  BY <1>1, LenProperties
<1>3. << >> = [j \in {} |-> << >>[j]]
  BY <1>2
<1>4. [j \in {} |-> << >>[j]] = [j \in {} |-> f[j]]
  OBVIOUS
<1>5. f = [j \in {} |-> f[j]]
  OBVIOUS
<1> QED BY <1>3, <1>4, <1>5

(* The packets in flight on ring r, from the head on. *)
Packets(r) == [j \in 1 .. Used(r) |-> r.skb[Slot(r, j - 1)]]

(* What a consistent ring is as a queue. *)
LEMMA QueueOf ==
    ASSUME NEW r, RingInv(r), r.bds
    PROVE  \E p \in 0 .. Used(r) :
               /\ OwnFrom(r, p) /\ r.hw = Slot(r, p)
               /\ AsQueue(r) = [cap |-> r.size, pkts |-> Packets(r), sent |-> p]
               /\ Packets(r) \in Seq(Skbs) /\ Len(Packets(r)) = Used(r)
               /\ Used(r) \in Nat
<1>1. r \in TxRing /\ RingConsistent(r)
  BY DEF RingInv
<1>2. PICK p \in 0 .. Used(r) : OwnFrom(r, p) /\ r.hw = Slot(r, p)
  BY <1>1 DEF RingConsistent, OwnFrom
<1>3. (CHOOSE k \in Completed(r) : TRUE) = p
  BY <1>1, <1>2, CompletedIsSent
<1>4. AsQueue(r) = [cap |-> r.size, pkts |-> Packets(r), sent |-> p]
  BY <1>3 DEF AsQueue, Packets
<1>5. Used(r) \in Nat /\ Used(r) \in 0 .. r.size /\ r.size \in Nat /\ Positions(r)
      /\ r.size <= MaxQueueSize
  BY <1>1, RingFacts
<1>6. \A j \in 1 .. Used(r) : Packets(r)[j] \in Skbs
  <2> TAKE j \in 1 .. Used(r)
  <2>1. j - 1 \in 0 .. Used(r) - 1 /\ j - 1 \in 0 .. r.size
    BY <1>5
  <2>2. Slot(r, j - 1) \in Bds
    <3>1. Slot(r, j - 1) \in 0 .. r.size - 1
      BY <1>5, <2>1, SlotInRing
    <3> QED BY <1>5, <3>1, TxAssumption DEF Bds
  <2>3. r.skb[Slot(r, j - 1)] # NULL
    BY <1>1, <2>1, <2>2 DEF RingConsistent
  <2>4. r.skb[Slot(r, j - 1)] \in Skbs
    BY <1>1, <2>2, <2>3 DEF TxRing
  <2> QED BY <2>4 DEF Packets
<1>7. Packets(r) = [j \in 1 .. Used(r) |-> Packets(r)[j]]
  BY DEF Packets
<1>8. Packets(r) \in Seq(Skbs) /\ Len(Packets(r)) = Used(r)
  BY <1>5, <1>6, <1>7, AsSequence
<1> QED BY <1>2, <1>4, <1>5, <1>8

(* The position of the DMA engine tells how much has been sent. *)
LEMMA SentAt ==
    ASSUME NEW r, RingInv(r), r.bds, NEW p \in 0 .. Used(r), OwnFrom(r, p)
    PROVE  AsQueue(r) = [cap |-> r.size, pkts |-> Packets(r), sent |-> p]
<1>1. (CHOOSE k \in Completed(r) : TRUE) = p
  BY CompletedIsSent DEF RingInv
<1> QED BY <1>1 DEF AsQueue, Packets

(* A ring without descriptors is a queue without room. *)
LEMMA NoQueue ==
    ASSUME NEW r, ~ r.bds
    PROVE  AsQueue(r) = Fifo!EmptyQueue(0)
BY DEF AsQueue, Fifo!EmptyQueue

(* A new ring is an empty queue. *)
LEMMA FreshQueue ==
    ASSUME NEW id \in TxQueueId
    PROVE  AsQueue(FreshRing(id)) = Fifo!EmptyQueue(id.size)
<1> DEFINE r == FreshRing(id)
<1>1. RingInv(r) /\ r.bds /\ r.size = id.size /\ r.free = id.size
  BY FreshInv DEF FreshRing
<1>2. id.size \in Nat
  BY TxAssumption DEF TxQueueId
<1>3. Used(r) = 0
  BY <1>1, <1>2 DEF Used
<1> HIDE DEF r
<1>4. PICK p \in 0 .. Used(r) :
          /\ AsQueue(r) = [cap |-> r.size, pkts |-> Packets(r), sent |-> p]
          /\ Packets(r) \in Seq(Skbs) /\ Len(Packets(r)) = Used(r)
  BY <1>1, QueueOf
<1>5. p = 0
  BY <1>3
<1>6. Packets(r) = << >>
  BY <1>3, <1>4, EmptySeq
<1>7. AsQueue(r) = Fifo!EmptyQueue(id.size)
  BY <1>1, <1>4, <1>5, <1>6 DEF Fifo!EmptyQueue
<1> QED BY <1>7 DEF r

(* Trimming a queue given by its parts. *)
LEMMA TrimmedParts ==
    ASSUME NEW c, NEW f, NEW p
    PROVE  Fifo!Trimmed([cap |-> c, pkts |-> f, sent |-> p])
              = [cap |-> c, pkts |-> SubSeq(f, p + 1, Len(f)), sent |-> 0]
<1> DEFINE q == [cap |-> c, pkts |-> f, sent |-> p]
<1>1. q.pkts = f /\ q.sent = p
  OBVIOUS
<1>2. Fifo!Trimmed(q) = [q EXCEPT !.pkts = SubSeq(q.pkts, q.sent + 1, Len(q.pkts)), !.sent = 0]
  BY DEF Fifo!Trimmed
<1> DEFINE g == SubSeq(f, p + 1, Len(f))
<1>3. [q EXCEPT !.pkts = SubSeq(q.pkts, q.sent + 1, Len(q.pkts)), !.sent = 0]
         = [q EXCEPT !.pkts = g, !.sent = 0]
  BY <1>1
<1> HIDE DEF g
<1>4. [q EXCEPT !.pkts = g, !.sent = 0] = [cap |-> c, pkts |-> g, sent |-> 0]
  <2>1. q \in [cap : {c}, pkts : {f}, sent : {p}]
    OBVIOUS
  <2> DEFINE t == [q EXCEPT !.pkts = g, !.sent = 0]
  <2> HIDE DEF q
  <2>2. t \in [cap : {c}, pkts : {g}, sent : {0}]
    BY <2>1
  <2> HIDE DEF t
  <2>3. t = [cap |-> c, pkts |-> g, sent |-> 0]
    BY <2>2
  <2> QED BY <2>3 DEF t
<1> QED BY <1>2, <1>3, <1>4 DEF g

(* The release loop drops the transmitted packets. *)
LEMMA ReapTrims ==
    ASSUME NEW r, RingInv(r)
    PROVE  AsQueue(ReapRing(r)) = Fifo!Trimmed(AsQueue(r))
<1>1. CASE ~ r.bds
  <2>1. ReapRing(r) = r
    BY <1>1 DEF ReapRing
  <2>2. SubSeq(<< >>, 1, 0) = << >>
    BY SubSeqEmpty
  <2>3. Len(<< >>) = 0
    BY EmptySeq
  <2>4. AsQueue(r) = [cap |-> 0, pkts |-> << >>, sent |-> 0]
    BY <1>1 DEF AsQueue
  <2>5. SubSeq(<< >>, 0 + 1, Len(<< >>)) = << >>
    BY <2>2, <2>3
  <2>6. Fifo!Trimmed([cap |-> 0, pkts |-> << >>, sent |-> 0])
           = [cap |-> 0, pkts |-> SubSeq(<< >>, 0 + 1, Len(<< >>)), sent |-> 0]
    BY TrimmedParts
  <2> QED BY <2>1, <2>4, <2>5, <2>6
<1>2. CASE r.bds
  <2> DEFINE t == ReapRing(r)
             u == Used(r)
  <2>1. PICK p \in 0 .. u :
            /\ OwnFrom(r, p)
            /\ AsQueue(r) = [cap |-> r.size, pkts |-> Packets(r), sent |-> p]
            /\ Packets(r) \in Seq(Skbs) /\ Len(Packets(r)) = u /\ u \in Nat
    BY <1>2, QueueOf
  <2>2. RingInv(t) /\ t.bds
    BY <1>2, ReapInv
  <2>3. r \in TxRing /\ RingConsistent(r)
    BY <1>2 DEF RingInv
  <2>4. (CHOOSE n \in Completed(r) : TRUE) = p
    BY <2>1, <2>3, CompletedIsSent
  <2>5. t = [r EXCEPT !.head = Slot(r, p), !.free = r.free + p,
                      !.skb = [i \in Bds |-> IF i \in ReleasedSlots(r) THEN NULL
                                             ELSE r.skb[i]]]
    BY <1>2, <2>4 DEF ReapRing
  <2>6. t.size = r.size /\ t.head = Slot(r, p) /\ t.free = r.free + p /\ t.own = r.own
    BY <2>3, <2>5 DEF TxRing
  <2>7. /\ Positions(r) /\ r.size \in Nat /\ u \in 0 .. r.size /\ r.free \in Nat
        /\ r.size <= MaxQueueSize
    BY <2>3, RingFacts
  <2>8. t \in TxRing /\ RingConsistent(t) /\ Positions(t)
    <3>1. t \in TxRing /\ RingConsistent(t)
      BY <2>2 DEF RingInv
    <3> QED BY <3>1, RingFacts
  <2>9. Used(t) = u - p
    BY <2>6, <2>7 DEF Used
  <2>10. \A j \in 0 .. u - p : Slot(t, j) = Slot(r, p + j)
    <3> TAKE j \in 0 .. u - p
    <3>1. p \in 0 .. r.size /\ j \in 0 .. r.size - p
      BY <2>7
    <3> QED BY <2>6, <2>7, <2>8, <3>1, SlotShift
  <2>11. OwnFrom(t, 0)
    <3>1. {Slot(t, j) : j \in 0 .. u - p - 1} = {Slot(r, j) : j \in p .. u - 1}
      <4>1. \A j \in 0 .. u - p - 1 : p + j \in p .. u - 1 /\ Slot(t, j) = Slot(r, p + j)
        BY <2>7, <2>10
      <4>2. \A j \in p .. u - 1 : j - p \in 0 .. u - p - 1 /\ Slot(t, j - p) = Slot(r, j)
        BY <2>7, <2>10
      <4> QED BY <4>1, <4>2
    <3> QED BY <2>1, <2>6, <2>9, <3>1 DEF OwnFrom
  <2>12. 0 \in 0 .. Used(t) /\ Used(t) \in Nat
    BY <2>7, <2>9
  <2> HIDE DEF t, u
  <2>13. AsQueue(t) = [cap |-> t.size, pkts |-> Packets(t), sent |-> 0]
    BY <2>2, <2>11, <2>12, SentAt
  <2>14. Packets(t) \in Seq(Skbs) /\ Len(Packets(t)) = u - p
    BY <2>2, <2>9, QueueOf
  <2> DEFINE g == SubSeq(Packets(r), p + 1, u)
  <2>15. /\ g \in Seq(Skbs) /\ Len(g) = u - p
         /\ \A j \in 1 .. u - p : g[j] = Packets(r)[p + j]
    <3>1. \A j \in p + 1 .. u : Packets(r)[j] \in Skbs
      <4> TAKE j \in p + 1 .. u
      <4>1. j \in 1 .. Len(Packets(r))
        BY <2>1
      <4> QED BY <2>1, <4>1, ElementOfSeq
    <3>2. /\ SubSeq(Packets(r), p + 1, u) \in Seq(Skbs)
          /\ Len(SubSeq(Packets(r), p + 1, u)) = IF p + 1 <= u THEN u - (p + 1) + 1 ELSE 0
          /\ \A i \in 1 .. u - (p + 1) + 1 :
                SubSeq(Packets(r), p + 1, u)[i] = Packets(r)[(p + 1) + i - 1]
      <4>1. p + 1 \in Int /\ u \in Int
        BY <2>1
      <4> HIDE DEF g
      <4> QED BY <3>1, <4>1, SubSeqProperties
    <3>3. u - (p + 1) + 1 = u - p
      BY <2>1
    <3>4. \A j \in 1 .. u - p : (p + 1) + j - 1 = p + j
      BY <2>1
    <3>5. Len(g) = u - p
      BY <2>1, <3>2
    <3> QED BY <3>2, <3>3, <3>4, <3>5
  <2>16. \A j \in 1 .. u - p : Packets(t)[j] = Packets(r)[p + j]
    <3> TAKE j \in 1 .. u - p
    <3>1. /\ j \in 1 .. Used(t) /\ p + j \in 1 .. Used(r) /\ j - 1 \in 0 .. u - p
          /\ p + (j - 1) = (p + j) - 1 /\ p + j - 1 \in 0 .. u - 1
          /\ p + j - 1 \in p .. u - 1
      BY <2>1, <2>7, <2>9 DEF u
    <3>2. Slot(t, j - 1) = Slot(r, (p + j) - 1)
      BY <2>10, <3>1
    <3>3. Packets(t)[j] = t.skb[Slot(t, j - 1)] /\ Packets(r)[p + j] = r.skb[Slot(r, (p + j) - 1)]
      BY <3>1 DEF Packets
    <3>4. Slot(t, j - 1) \in Bds /\ t.skb[Slot(t, j - 1)] # NULL
      <4>1. j - 1 \in 0 .. Used(t) - 1 /\ j - 1 \in 0 .. t.size
        BY <2>1, <2>6, <2>7, <2>9
      <4>2. Slot(t, j - 1) \in 0 .. t.size - 1
        BY <2>8, <4>1, SlotInRing
      <4>3. Slot(t, j - 1) \in Bds
        BY <2>6, <2>7, <4>2, TxAssumption DEF Bds
      <4> QED BY <2>8, <4>1, <4>3 DEF RingConsistent
    <3>5. t.skb[Slot(t, j - 1)] = r.skb[Slot(t, j - 1)]
      BY <3>4, ReapedSkb DEF t
    <3> QED BY <3>2, <3>3, <3>5
  <2>17. Packets(t) = g
    <3> HIDE DEF g
    <3> QED BY <2>14, <2>15, <2>16, SamePackets
  <2> HIDE DEF g
  <2>18. Fifo!Trimmed(AsQueue(r)) = [cap |-> r.size, pkts |-> g, sent |-> 0]
    BY <2>1, TrimmedParts DEF g
  <2>19. AsQueue(t) = Fifo!Trimmed(AsQueue(r))
    BY <2>6, <2>13, <2>17, <2>18
  <2> QED BY <2>19 DEF t
<1> QED BY <1>1, <1>2

(* Queueing a packet appends it. *)
LEMMA PushAppends ==
    ASSUME NEW r, RingInv(r), r.free > 0, NEW s \in Skbs
    PROVE  /\ Len(AsQueue(r).pkts) < AsQueue(r).cap
           /\ AsQueue(PushRing(r, s))
                 = [AsQueue(r) EXCEPT !.pkts = Append(AsQueue(r).pkts, s)]
<1> DEFINE t == PushRing(r, s)
           u == Used(r)
<1>1. r \in TxRing /\ r.bds /\ RingConsistent(r)
  BY DEF RingInv
<1>2. RingInv(t)
  BY PushInv
<1>3. /\ t.bds /\ t.size = r.size /\ t.head = r.head /\ t.free = r.free - 1
      /\ t.own = r.own \cup {r.tail}
  BY <1>1 DEF PushRing, TxRing
<1>4. /\ Positions(r) /\ r.size \in Nat /\ u \in 0 .. r.size /\ r.free \in Nat
      /\ r.tail = Slot(r, u)
  BY <1>1, RingFacts DEF RingConsistent
<1>5. Used(t) = u + 1 /\ u < r.size
  BY <1>1, <1>3, <1>4 DEF Used
<1>6. \A j : Slot(t, j) = Slot(r, j)
  BY <1>3 DEF Slot
<1>7. PICK p \in 0 .. u :
          /\ OwnFrom(r, p)
          /\ AsQueue(r) = [cap |-> r.size, pkts |-> Packets(r), sent |-> p]
          /\ Packets(r) \in Seq(Skbs) /\ Len(Packets(r)) = u /\ u \in Nat
  BY <1>1, QueueOf
<1>8. \A a \in Bds : t.skb[a] = IF a = r.tail THEN s ELSE r.skb[a]
  BY PushedSkb
<1> HIDE DEF t, u
<1>9. OwnFrom(t, p)
  <2>1. p .. Used(t) - 1 = (p .. u - 1) \cup {u}
    BY <1>4, <1>5
  <2>2. {Slot(t, j) : j \in p .. Used(t) - 1}
           = {Slot(r, j) : j \in p .. u - 1} \cup {Slot(r, u)}
    BY <1>6, <2>1
  <2> QED BY <1>3, <1>4, <1>7, <2>2 DEF OwnFrom, u
<1>10. p \in 0 .. Used(t)
  BY <1>4, <1>5
<1>11. AsQueue(t) = [cap |-> r.size, pkts |-> Packets(t), sent |-> p]
  BY <1>2, <1>3, <1>9, <1>10, SentAt
<1>12. Packets(t) \in Seq(Skbs) /\ Len(Packets(t)) = u + 1
  BY <1>2, <1>3, <1>5, QueueOf
<1> DEFINE g == Append(Packets(r), s)
<1>13. /\ g \in Seq(Skbs) /\ Len(g) = u + 1
       /\ \A j \in 1 .. u : g[j] = Packets(r)[j]
       /\ g[u + 1] = s
  BY <1>7, AppendProperties
<1> HIDE DEF g
<1>14. \A j \in 1 .. u : Packets(t)[j] = Packets(r)[j]
  <2> TAKE j \in 1 .. u
  <2>1. j \in 1 .. Used(t) /\ j \in 1 .. Used(r) /\ j - 1 \in 0 .. u - 1 /\ j - 1 # u
        /\ j - 1 \in 0 .. r.size - 1 /\ u \in 0 .. r.size - 1 /\ j - 1 \in 0 .. r.size
    BY <1>4, <1>5 DEF u
  <2>2. Slot(r, j - 1) # r.tail
    BY <1>4, <2>1, SlotInjective
  <2>3. Slot(r, j - 1) \in Bds
    <3>1. Slot(r, j - 1) \in 0 .. r.size - 1 /\ r.size <= MaxQueueSize
      BY <1>1, <1>4, <2>1, SlotInRing, RingFacts
    <3> QED BY <1>4, <3>1, TxAssumption DEF Bds
  <2>4. t.skb[Slot(t, j - 1)] = r.skb[Slot(r, j - 1)]
    BY <1>6, <1>8, <2>2, <2>3
  <2> QED BY <2>1, <2>4 DEF Packets
<1>15. Packets(t)[u + 1] = s
  <2>1. u + 1 \in 1 .. Used(t) /\ (u + 1) - 1 = u
    BY <1>5, <1>7
  <2>2. Packets(t)[u + 1] = t.skb[Slot(t, u)]
    BY <2>1 DEF Packets
  <2>3. r.tail \in Bds
    BY PushedSkb
  <2> QED BY <1>4, <1>6, <1>8, <2>2, <2>3
<1>16. Packets(t) = g
  <2>1. \A j \in 1 .. u + 1 : j = u + 1 \/ j \in 1 .. u
    BY <1>7
  <2>2. \A j \in 1 .. u + 1 : Packets(t)[j] = g[j]
    BY <1>13, <1>14, <1>15, <2>1
  <2> QED BY <1>12, <1>13, <2>2, SamePackets
<1>17. [AsQueue(r) EXCEPT !.pkts = Append(AsQueue(r).pkts, s)]
          = [cap |-> r.size, pkts |-> g, sent |-> p]
  BY <1>7, SMTT(30) DEF g
<1>18. Len(AsQueue(r).pkts) < AsQueue(r).cap
  BY <1>5, <1>7
<1>19. AsQueue(t) = [AsQueue(r) EXCEPT !.pkts = Append(AsQueue(r).pkts, s)]
  BY <1>11, <1>16, <1>17
<1> QED BY <1>18, <1>19 DEF t

(* Transmission of a descriptor counts one more packet as sent. *)
LEMMA TransmitSends ==
    ASSUME NEW r, RingInv(r), r.hw \in r.own
    PROVE  /\ AsQueue(r).sent < Len(AsQueue(r).pkts)
           /\ AsQueue(TransmitRing(r)) = [AsQueue(r) EXCEPT !.sent = AsQueue(r).sent + 1]
<1> DEFINE t == TransmitRing(r)
           u == Used(r)
<1>1. r \in TxRing /\ r.bds /\ RingConsistent(r)
  BY DEF RingInv
<1>2. RingInv(t)
  BY TransmitInv
<1>3. /\ t.bds /\ t.size = r.size /\ t.head = r.head /\ t.free = r.free
      /\ t.skb = r.skb /\ t.own = r.own \ {r.hw}
  BY <1>1 DEF TransmitRing, TxRing
<1>4. /\ Positions(r) /\ r.size \in Nat /\ u \in 0 .. r.size /\ r.free \in Nat
  BY <1>1, RingFacts
<1>5. Used(t) = u /\ \A j : Slot(t, j) = Slot(r, j)
  BY <1>3 DEF Used, Slot
<1>6. Packets(t) = Packets(r)
  BY <1>3, <1>5 DEF Packets
<1>7. PICK p \in 0 .. u :
          /\ OwnFrom(r, p) /\ r.hw = Slot(r, p)
          /\ AsQueue(r) = [cap |-> r.size, pkts |-> Packets(r), sent |-> p]
          /\ Packets(r) \in Seq(Skbs) /\ Len(Packets(r)) = u /\ u \in Nat
  BY <1>1, QueueOf
<1>8. PICK m \in p .. u - 1 : Slot(r, p) = Slot(r, m)
  BY <1>7 DEF OwnFrom
<1>9. p \in 0 .. u - 1 /\ p \in 0 .. r.size - 1
  BY <1>4, <1>8
<1> HIDE DEF t, u
<1>10. OwnFrom(t, p + 1)
  <2>1. \A j \in p + 1 .. u - 1 : j \in 0 .. r.size - 1 /\ j # p
    BY <1>4, <1>9
  <2>2. \A j \in p + 1 .. u - 1 : Slot(r, j) # Slot(r, p)
    BY <1>4, <1>9, <2>1, SlotInjective
  <2>3. p .. u - 1 = {p} \cup (p + 1 .. u - 1)
    BY <1>4, <1>9
  <2>4. t.own = {Slot(r, j) : j \in p + 1 .. u - 1}
    BY <1>3, <1>7, <2>2, <2>3 DEF OwnFrom, u
  <2> QED BY <1>5, <2>4 DEF OwnFrom
<1>11. p + 1 \in 0 .. Used(t) /\ p < u
  BY <1>4, <1>5, <1>9
<1>12. AsQueue(t) = [cap |-> r.size, pkts |-> Packets(r), sent |-> p + 1]
  BY <1>2, <1>3, <1>6, <1>10, <1>11, SentAt
<1>13. [AsQueue(r) EXCEPT !.sent = AsQueue(r).sent + 1]
          = [cap |-> r.size, pkts |-> Packets(r), sent |-> p + 1]
  BY <1>7
<1>14. AsQueue(r).sent < Len(AsQueue(r).pkts)
  BY <1>7, <1>11
<1> QED BY <1>12, <1>13, <1>14 DEF t

(* Halting a channel leaves its queue alone. *)
LEMMA HaltKeeps ==
    ASSUME NEW r, RingInv(r)
    PROVE  AsQueue([r EXCEPT !.dma = "off"]) = AsQueue(r)
<1> DEFINE t == [r EXCEPT !.dma = "off"]
<1>1. /\ t.bds = r.bds /\ t.free = r.free /\ t.own = r.own
      /\ t.size = r.size /\ t.head = r.head /\ t.skb = r.skb
  BY DEF RingInv, TxRing
<1>2. RingInv(t)
  BY HaltInv
<1>3. Used(t) = Used(r) /\ \A j : Slot(t, j) = Slot(r, j)
  BY <1>1 DEF Used, Slot
<1> HIDE DEF t
<1>4. ASSUME ~ r.bds PROVE AsQueue(t) = AsQueue(r)
  BY <1>1, <1>4, NoQueue
<1>5. ASSUME r.bds PROVE AsQueue(t) = AsQueue(r)
  <2>1. Packets(t) = Packets(r)
    BY <1>1, <1>3 DEF Packets
  <2>2. PICK p \in 0 .. Used(r) :
            /\ OwnFrom(r, p)
            /\ AsQueue(r) = [cap |-> r.size, pkts |-> Packets(r), sent |-> p]
    BY <1>5, QueueOf
  <2>3. OwnFrom(t, p)
    BY <1>1, <1>3, <2>2 DEF OwnFrom
  <2>4. AsQueue(t) = [cap |-> t.size, pkts |-> Packets(t), sent |-> p]
    BY <1>1, <1>2, <1>3, <1>5, <2>3, SentAt
  <2> QED BY <1>1, <2>1, <2>2, <2>4
<1>6. AsQueue(t) = AsQueue(r)
  BY <1>4, <1>5
<1> QED BY <1>6 DEF t

(* ------------------------------------------------------------------------------ *)
(* A device whose link is down has no queues; the queues pTxPriorities names are  *)
(* in use; DoLinkUp has set ulTxQInfosSize to the length of its list, and the     *)
(* entries from the one it is at on have no descriptors.                          *)
LinkInv ==
    /\ \A d \in Devs : ~ linkUp[d] => nTxQ[d] = 0 /\ \A i \in Queues : ~ txq[d][i].bds
    /\ \A d \in Devs : \A p \in 0 .. MaxPhyPorts - 1 : \A b \in SubPrios :
          txPrio[d][p][b] <= nTxQ[d]
    /\ req.op = "up" => /\ nTxQ[req.d] = Len(req.cfg)
                        /\ \A i \in Queues : i >= req.i => ~ txq[req.d][i].bds

LEMMA LinkInitInv == TxInit => LinkInv
<1> SUFFICES ASSUME TxInit PROVE LinkInv
  OBVIOUS
<1>1. \A d \in Devs : nTxQ[d] = 0 /\ \A i \in Queues : ~ txq[d][i].bds
  BY DEF TxInit, NoRings, ZeroRing, Queues
<1>2. \A d \in Devs : \A p \in 0 .. MaxPhyPorts - 1 : \A b \in SubPrios :
          txPrio[d][p][b] = 0
  BY DEF TxInit, NoPrio
<1>3. req.op # "up"
  BY DEF TxInit, Idle
<1> QED BY <1>1, <1>2, <1>3 DEF LinkInv

(* Steps that keep the shape of every ring, and what else LinkInv is about. *)
LEMMA LinkSame ==
    ASSUME LinkInv, UNCHANGED <<linkUp, nTxQ, txPrio, req>>,
           \A d \in Devs : \A i \in Queues : txq'[d][i].bds <=> txq[d][i].bds,
           req.op = "up" => req.d \in Devs
    PROVE  LinkInv'
<1>1. \A d \in Devs : ~ linkUp'[d] => nTxQ'[d] = 0 /\ \A i \in Queues : ~ txq'[d][i].bds
  BY DEF LinkInv
<1>2. \A d \in Devs : \A p \in 0 .. MaxPhyPorts - 1 : \A b \in SubPrios :
          txPrio'[d][p][b] <= nTxQ'[d]
  BY DEF LinkInv
<1>3. req'.op = "up" => /\ nTxQ'[req'.d] = Len(req'.cfg)
                        /\ \A i \in Queues : i >= req'.i => ~ txq'[req'.d][i].bds
  BY DEF LinkInv
<1> QED BY <1>1, <1>2, <1>3 DEF LinkInv, Queues

LEMMA LinkNextInv == TxInv /\ RunInv /\ LinkInv /\ [TxNext]_txVars => LinkInv'
<1> SUFFICES ASSUME TxInv, RunInv, LinkInv, [TxNext]_txVars PROVE LinkInv'
  OBVIOUS
<1>0. /\ TxTypeOK /\ txq \in [Devs -> [Queues -> TxRing]]
      /\ linkUp \in [Devs -> BOOLEAN] /\ nTxQ \in [Devs -> 0 .. MaxTxQueues]
      /\ txPrio \in [Devs -> [0 .. MaxPhyPorts - 1 -> [SubPrios -> 0 .. MaxTxQueues]]]
      /\ MaxTxQueues \in Nat
      /\ req = Idle <=> req.op = "idle"
      /\ req.op = "up" => req \in UpReq /\ req.d \in Devs
      /\ req.op = "down" => req \in DownReq /\ req.d \in Devs
  BY RequestForms, TxAssumption DEF TxInv, TxTypeOK, Queues, UpReq, DownReq
<1>1. /\ \A i \in Queues : ~ NoRings[i].bds
      /\ \A p \in 0 .. MaxPhyPorts - 1 : \A b \in SubPrios : NoPrio[p][b] = 0
  BY DEF NoRings, ZeroRing, Queues, NoPrio
(* The queues of a device are zeroed. *)
<1>2. ASSUME NEW d \in Devs, req'.op # "up",
             linkUp' = [linkUp EXCEPT ![d] = FALSE], nTxQ' = [nTxQ EXCEPT ![d] = 0],
             txq' = [txq EXCEPT ![d] = NoRings], txPrio' = [txPrio EXCEPT ![d] = NoPrio]
      PROVE  LinkInv'
  <2>1. \A e \in Devs : ~ linkUp'[e] => nTxQ'[e] = 0 /\ \A i \in Queues : ~ txq'[e][i].bds
    BY <1>0, <1>1, <1>2 DEF LinkInv
  <2>2. ASSUME NEW e \in Devs, NEW p \in 0 .. MaxPhyPorts - 1, NEW b \in SubPrios
        PROVE  txPrio'[e][p][b] <= nTxQ'[e]
    <3>1. CASE e = d
      <4>1. txPrio'[e][p][b] = 0 /\ nTxQ'[e] = 0
        BY <1>0, <1>1, <1>2, <3>1
      <4> QED BY <4>1
    <3>2. CASE e # d
      BY <1>0, <1>2, <3>2 DEF LinkInv
    <3> QED BY <3>1, <3>2
  <2> QED BY <1>2, <2>1, <2>2 DEF LinkInv, Queues
<1>3. ASSUME NEW d \in Devs, DoCreateDeviceReq(d) PROVE LinkInv'
  <2>1. req'.op # "up"
    BY <1>0, <1>3 DEF DoCreateDeviceReq
  <2> QED BY <1>2, <1>3, <2>1 DEF DoCreateDeviceReq
<1>4. ASSUME NEW d \in Devs, NEW s \in Skbs,
             \/ \E prio \in SubPrios : HardStartXmit(d, s, prio)
             \/ \E port \in Ports : DoSendCellReq(d, port, s)
      PROVE  LinkInv'
  <2>1. PICK prio : Xmit(d, s, prio)
    BY <1>4 DEF HardStartXmit, DoSendCellReq
  <2>2. UNCHANGED <<linkUp, nTxQ, txPrio, req>>
    BY <1>4 DEF HardStartXmit, DoSendCellReq
  <2> QED BY <1>0, <2>1, <2>2, XmitShape, LinkSame
<1>5. ASSUME NEW d \in Devs, NEW i \in Queues, DmaTransmit(d, i) PROVE LinkInv'
  <2> DEFINE t == TransmitRing(txq[d][i])
  <2>1. t.bds <=> txq[d][i].bds
    BY SameShape DEF TxInv, Queues
  <2>2. /\ txq' = [txq EXCEPT ![d] = [txq[d] EXCEPT ![i] = t]]
        /\ UNCHANGED <<linkUp, nTxQ, txPrio, req>>
    BY <1>0, <1>5 DEF DmaTransmit
  <2> HIDE DEF t
  <2>3. \A e \in Devs : \A j \in Queues :
            txq'[e][j] = IF e = d /\ j = i THEN t ELSE txq[e][j]
    BY <1>0, <2>2
  <2> QED BY <1>0, <2>1, <2>2, <2>3, LinkSame
<1>6. CASE TimerTick
  <2>1. txq' = [d \in Devs |-> IF d \in table THEN Reaped(d) ELSE txq[d]]
        /\ UNCHANGED <<linkUp, nTxQ, txPrio, req>>
    BY <1>6 DEF TimerTick
  <2> QED BY <1>0, <2>1, ReapedShape, LinkSame
<1>7. ASSUME NEW d \in Devs, NEW cfg \in TxQConfigs, DoLinkUp(d, cfg) PROVE LinkInv'
  <2>1. /\ req.op = "idle" /\ req' = [op |-> "up", d |-> d, cfg |-> cfg, i |-> 1, half |-> FALSE]
        /\ txq' = txq /\ txPrio' = txPrio /\ ~ cfgUp[d]
        /\ linkUp' = [linkUp EXCEPT ![d] = TRUE] /\ nTxQ' = [nTxQ EXCEPT ![d] = Len(cfg)]
    BY <1>0, <1>7 DEF DoLinkUp
  <2>2. ~ linkUp[d]
    BY <2>1 DEF RunInv, ComingDown
  <2>3. nTxQ[d] = 0 /\ \A i \in Queues : ~ txq[d][i].bds
    BY <2>2 DEF LinkInv
  <2>4. Len(cfg) \in Nat
    BY TxAssumption
  <2>5. \A e \in Devs : ~ linkUp'[e] => nTxQ'[e] = 0 /\ \A i \in Queues : ~ txq'[e][i].bds
    BY <1>0, <2>1 DEF LinkInv
  <2>6. ASSUME NEW e \in Devs, NEW p \in 0 .. MaxPhyPorts - 1, NEW b \in SubPrios
        PROVE  txPrio'[e][p][b] <= nTxQ'[e]
    <3>1. txPrio[e][p][b] <= nTxQ[e] /\ txPrio[e][p][b] \in Nat
      <4>1. txPrio[e] \in [0 .. MaxPhyPorts - 1 -> [SubPrios -> 0 .. MaxTxQueues]]
        BY <1>0
      <4>2. txPrio[e][p] \in [SubPrios -> 0 .. MaxTxQueues]
        BY <4>1
      <4> QED BY <1>0, <4>2 DEF LinkInv
    <3>2. CASE e = d
      <4>1. nTxQ'[e] = Len(cfg)
        BY <1>0, <2>1, <3>2
      <4> QED BY <2>1, <2>3, <2>4, <3>1, <3>2, <4>1
    <3>3. CASE e # d
      BY <1>0, <2>1, <3>1, <3>3
    <3> QED BY <3>2, <3>3
  <2>7. nTxQ'[req'.d] = Len(req'.cfg) /\ \A i \in Queues : ~ txq'[req'.d][i].bds
    BY <1>0, <2>1, <2>3
  <2> QED BY <2>5, <2>6, <2>7 DEF LinkInv, Queues
<1>8. ASSUME NEW d \in Devs, DoLinkDown(d) PROVE LinkInv'
  <2>1. /\ txq' = [txq EXCEPT ![d] = Reaped(d)] /\ UNCHANGED <<linkUp, nTxQ, txPrio>>
        /\ req'.op # "up"
    BY <1>8 DEF DoLinkDown
  <2>2. \A e \in Devs : \A i \in Queues :
            txq'[e][i] = IF e = d THEN Reaped(d)[i] ELSE txq[e][i]
    BY <1>0, <2>1
  <2>3. \A e \in Devs : \A i \in Queues : txq'[e][i].bds <=> txq[e][i].bds
    BY <2>2, ReapedShape
  <2> QED BY <2>1, <2>3 DEF LinkInv, Queues
<1>9. CASE LinkUpQueueBegin
  <2>1. req \in UpReq /\ req.d \in Devs /\ req.i \in Queues /\ req.op = "up" /\ ~ req.half
    BY <1>9, CurrentQueue DEF LinkUpQueueBegin, UpReq, Queues
  <2>2. UNCHANGED <<linkUp, nTxQ, txPrio>>
    BY <1>9 DEF LinkUpQueueBegin
  <2>3. CASE txq' = txq /\ req' = [req EXCEPT !.i = @ + 1]
    <3>1. req'.op = "up" /\ req'.d = req.d /\ req'.cfg = req.cfg /\ req'.i = req.i + 1
      BY <2>1, <2>3 DEF UpReq
    <3>2. \A i \in Queues : i >= req'.i => i >= req.i
      BY <1>0, <2>1, <3>1 DEF Queues
    <3> QED BY <2>1, <2>2, <2>3, <3>1, <3>2 DEF LinkInv, Queues
  <2>4. CASE /\ txq' = [txq EXCEPT ![req.d][req.i] = HalfRing(req.cfg[req.i])]
             /\ req' = [req EXCEPT !.half = TRUE]
    <3> DEFINE t == HalfRing(req.cfg[req.i])
    <3>1. req'.op = "up" /\ req'.d = req.d /\ req'.i = req.i /\ req'.cfg = req.cfg
      BY <2>1, <2>4 DEF UpReq
    <3>2. ~ t.bds
      BY DEF HalfRing, ZeroRing
    <3> HIDE DEF t
    <3>3. \A e \in Devs : \A j \in Queues :
              txq'[e][j] = IF e = req.d /\ j = req.i THEN t ELSE txq[e][j]
      BY <1>0, <2>1, <2>4 DEF t
    <3>4. \A e \in Devs : \A j \in Queues : txq'[e][j].bds => txq[e][j].bds
      BY <3>2, <3>3
    <3> QED BY <2>1, <2>2, <3>1, <3>4 DEF LinkInv, Queues
  <2> QED BY <1>9, <2>3, <2>4 DEF LinkUpQueueBegin
<1>10. CASE LinkUpQueueEnd
  <2>1. req \in UpReq /\ req.d \in Devs /\ req.i \in Queues /\ req.op = "up"
        /\ req.i <= Len(req.cfg) /\ ValidQueueId(req.cfg[req.i])
        /\ req.cfg[req.i] \in TxQueueId
    <3>1. req.i <= Len(req.cfg) /\ req.op = "up" /\ ValidQueueId(req.cfg[req.i])
      BY <1>10 DEF LinkUpQueueEnd, HalfQueue, TxInv
    <3> QED BY <3>1, CurrentQueue DEF UpReq, Queues
  <2> DEFINE id == req.cfg[req.i]
             t == FreshRing(id)
  <2>2. id.port \in 0 .. MaxPhyPorts - 1 /\ id.prio \in SubPrios
    BY <2>1, TxAssumption DEF TxQueueId, ValidQueueId
  <2>3. /\ txq' = [txq EXCEPT ![req.d][req.i] = t] /\ UNCHANGED <<linkUp, nTxQ>>
        /\ txPrio' = [txPrio EXCEPT ![req.d][id.port][id.prio] = req.i]
        /\ req' = [req EXCEPT !.i = @ + 1, !.half = FALSE]
    BY <1>10 DEF LinkUpQueueEnd
  <2> HIDE DEF t, id
  <2>4. \A e \in Devs : \A j \in Queues :
            txq'[e][j] = IF e = req.d /\ j = req.i THEN t ELSE txq[e][j]
    BY <1>0, <2>1, <2>3
  <2>5. req'.op = "up" /\ req'.d = req.d /\ req'.cfg = req.cfg /\ req'.i = req.i + 1
    BY <2>1, <2>3 DEF UpReq
  <2>6. linkUp[req.d] /\ nTxQ[req.d] = Len(req.cfg)
    BY <2>1 DEF RunInv, LinkInv
  <2>7. \A e \in Devs : ~ linkUp'[e] => nTxQ'[e] = 0 /\ \A i \in Queues : ~ txq'[e][i].bds
    BY <2>3, <2>4, <2>6 DEF LinkInv
  <2>8. ASSUME NEW e \in Devs, NEW p \in 0 .. MaxPhyPorts - 1, NEW b \in SubPrios
        PROVE  txPrio'[e][p][b] <= nTxQ'[e]
    <3>1. txPrio'[e][p][b] = IF e = req.d /\ p = id.port /\ b = id.prio THEN req.i
                             ELSE txPrio[e][p][b]
      <4> DEFINE row == [txPrio[req.d][id.port] EXCEPT ![id.prio] = req.i]
                 rows == [txPrio[req.d] EXCEPT ![id.port] = row]
      <4>1. txPrio' = [txPrio EXCEPT ![req.d] = rows]
        BY <2>3
      <4>2. /\ txPrio[req.d] \in [0 .. MaxPhyPorts - 1 -> [SubPrios -> 0 .. MaxTxQueues]]
            /\ txPrio[req.d][id.port] \in [SubPrios -> 0 .. MaxTxQueues]
        BY <1>0, <2>1, <2>2
      <4>3. row[b] = IF b = id.prio THEN req.i ELSE txPrio[req.d][id.port][b]
        BY <4>2
      <4> HIDE DEF row
      <4>4. rows[p] = IF p = id.port THEN row ELSE txPrio[req.d][p]
        BY <4>2
      <4> HIDE DEF rows
      <4>5. txPrio'[e] = IF e = req.d THEN rows ELSE txPrio[e]
        BY <1>0, <2>1, <4>1
      <4> QED BY <4>3, <4>4, <4>5
    <3>2. CASE e = req.d /\ p = id.port /\ b = id.prio
      BY <2>1, <2>3, <2>6, <3>1, <3>2
    <3>3. CASE ~ (e = req.d /\ p = id.port /\ b = id.prio)
      BY <2>3, <3>1, <3>3 DEF LinkInv
    <3> QED BY <3>2, <3>3
  <2>9. \A i \in Queues : i >= req'.i => i >= req.i /\ i # req.i
    BY <1>0, <2>1, <2>5 DEF Queues
  <2>10. \A i \in Queues : i >= req'.i => ~ txq'[req'.d][i].bds
    BY <2>1, <2>4, <2>5, <2>9 DEF LinkInv
  <2> QED BY <2>3, <2>5, <2>6, <2>7, <2>8, <2>10 DEF LinkInv, Queues
<1>11. CASE LinkDownFree
  <2>1. req \in DownReq /\ req.d \in Devs /\ req.op = "down"
    BY <1>0, <1>11 DEF LinkDownFree
  <2>2. /\ txq' = [txq EXCEPT ![req.d] =
                     [i \in Queues |-> [txq[req.d][i] EXCEPT !.dma = "off"]]]
        /\ req' = [req EXCEPT !.step = "zero"] /\ UNCHANGED <<linkUp, nTxQ, txPrio>>
    BY <1>11 DEF LinkDownFree, Queues
  <2>3. req'.op = "down"
    BY <2>1, <2>2 DEF DownReq
  <2>4. \A i \in Queues : [txq[req.d][i] EXCEPT !.dma = "off"].bds = txq[req.d][i].bds
    <3> TAKE i \in Queues
    <3>1. txq[req.d][i] \in TxRing
      BY <1>0, <2>1
    <3> QED BY <3>1 DEF TxRing
  <2>5. \A e \in Devs : \A j \in Queues : txq'[e][j].bds <=> txq[e][j].bds
    BY <1>0, <2>1, <2>2, <2>4
  <2> QED BY <2>2, <2>3, <2>5 DEF LinkInv, Queues
<1>12. CASE LinkDownZero
  <2>1. req \in DownReq /\ req.d \in Devs /\ req.op = "down"
    BY <1>0, <1>12 DEF LinkDownZero
  <2>2. req'.op # "up"
    BY <1>12, <2>1 DEF DownReq, LinkDownZero
  <2> QED BY <1>2, <1>12, <2>1, <2>2 DEF LinkDownZero
<1>13. ASSUME UNCHANGED <<linkUp, nTxQ, txPrio, txq>>, req' = req \/ req' = Idle
       PROVE  LinkInv'
  <2>1. CASE req' = req
    BY <1>0, <1>13, <2>1, LinkSame
  <2>2. CASE req' = Idle
    <3>1. req'.op # "up"
      BY <2>2 DEF Idle
    <3> QED BY <1>13, <3>1 DEF LinkInv, Queues
  <2> QED BY <1>13, <2>1, <2>2
<1>14. ASSUME \/ UNCHANGED txVars \/ LinkUpEnd \/ LinkDownEnd
              \/ \E d \in Devs : \/ DoDeleteDeviceReq(d) \/ SetAdminStatus(d)
                                 \/ Open(d) \/ Close(d) \/ Timeout(d) \/ DoLinkUpNoMem(d)
       PROVE  LinkInv'
  <2>1. UNCHANGED <<linkUp, nTxQ, txPrio, txq>> /\ (req' = req \/ req' = Idle)
    BY <1>14 DEF txVars, LinkUpEnd, LinkDownEnd, DoDeleteDeviceReq, SetAdminStatus, Open,
                 Close, Timeout, DoLinkUpNoMem
  <2> QED BY <1>13, <2>1
<1> QED BY <1>3, <1>4, <1>5, <1>6, <1>7, <1>8, <1>9, <1>10, <1>11, <1>12, <1>14
        DEF TxNext, LinkUpSteps, LinkDownSteps, Queues

(* ------------------------------------------------------------------------------ *)
(* The steps of the driver as steps of the queues *)

(* The rings of d as queues. *)
QueuesOf(d) == [i \in Live(d) |-> AsQueue(txq[d][i])]

LEMMA QueuesFacts ==
    /\ TxQueues = [d \in Devs |-> QueuesOf(d)]
    /\ \A d \in Devs : TxQueues[d] = QueuesOf(d)
    /\ \A d : DOMAIN QueuesOf(d) = Live(d)
BY DEF TxQueues, QueuesOf

(* The queues after a step. *)
LEMMA QueuesAfter ==
    TxQueues' = [d \in Devs |-> [i \in Live(d)' |-> AsQueue(txq'[d][i])]]
BY DEF TxQueues, AsQueue, Live, Completed, Used, Slot

(* A step that changes no queue is a stutter. *)
LEMMA QueuesSame ==
    ASSUME TxInv, nTxQ' = nTxQ,
           \A d \in Devs : \A i \in Live(d) : AsQueue(txq'[d][i]) = AsQueue(txq[d][i])
    PROVE  TxQueues' = TxQueues
<1>1. \A d : Live(d)' = Live(d)
  BY DEF Live
<1> QED BY <1>1, QueuesAfter, Zenon DEF TxQueues

(* The queues of d after its release loop. *)
LEMMA ReapedQueues ==
    ASSUME TxInv, NEW d \in Devs
    PROVE  /\ [i \in Live(d) |-> AsQueue(Reaped(d)[i])] = Fifo!TrimAll(QueuesOf(d))
           /\ DOMAIN Fifo!TrimAll(QueuesOf(d)) = Live(d)
<1>1. ASSUME NEW i \in Live(d)
      PROVE  AsQueue(Reaped(d)[i]) = Fifo!Trimmed(QueuesOf(d)[i])
  <2>1. i \in Queues
    BY LiveQueues DEF TxInv
  <2>2. RingInv(txq[d][i]) /\ Reaped(d)[i] = ReapRing(txq[d][i])
    BY <2>1 DEF TxInv, Reaped, Queues
  <2>3. QueuesOf(d)[i] = AsQueue(txq[d][i])
    BY DEF QueuesOf
  <2> QED BY <2>2, <2>3, ReapTrims
<1>2. Fifo!TrimAll(QueuesOf(d)) = [i \in Live(d) |-> Fifo!Trimmed(QueuesOf(d)[i])]
  BY QueuesFacts DEF Fifo!TrimAll
<1> QED BY <1>1, <1>2

(* Release loops on the devices D. *)
LEMMA ReleaseStep ==
    ASSUME TxInv, NEW D \in SUBSET Devs, nTxQ' = nTxQ,
           \A d \in Devs : txq'[d] = IF d \in D THEN Reaped(d) ELSE txq[d]
    PROVE  Fifo!Release(D)
<1>1. \A d : Live(d)' = Live(d)
  BY DEF Live
<1>2. ASSUME NEW d \in Devs
      PROVE  [i \in Live(d)' |-> AsQueue(txq'[d][i])]
                = IF d \in D THEN Fifo!TrimAll(TxQueues[d]) ELSE TxQueues[d]
  <2>1. CASE d \in D
    <3>1. [i \in Live(d)' |-> AsQueue(txq'[d][i])] = [i \in Live(d) |-> AsQueue(Reaped(d)[i])]
      BY <1>1, <2>1
    <3> QED BY <2>1, <3>1, ReapedQueues, QueuesFacts
  <2>2. CASE d \notin D
    <3>1. [i \in Live(d)' |-> AsQueue(txq'[d][i])] = QueuesOf(d)
      BY <1>1, <2>2 DEF QueuesOf
    <3> QED BY <2>2, <3>1, QueuesFacts
  <2> QED BY <2>1, <2>2
<1>3. TxQueues' = [d \in Devs |-> IF d \in D THEN Fifo!TrimAll(TxQueues[d])
                                  ELSE TxQueues[d]]
  BY <1>2, QueuesAfter
<1> QED BY <1>3 DEF Fifo!Release

(* The queues of one device are replaced. *)
LEMMA OneDevice ==
    ASSUME TxInv, NEW d \in Devs, NEW qs,
           \A e \in Devs : e # d => txq'[e] = txq[e] /\ nTxQ'[e] = nTxQ[e],
           [i \in Live(d)' |-> AsQueue(txq'[d][i])] = qs
    PROVE  TxQueues' = [TxQueues EXCEPT ![d] = qs]
<1>1. \A e \in Devs : e # d => [i \in Live(e)' |-> AsQueue(txq'[e][i])] = TxQueues[e]
  <2> SUFFICES ASSUME NEW e \in Devs, e # d
               PROVE  [i \in Live(e)' |-> AsQueue(txq'[e][i])] = TxQueues[e]
    OBVIOUS
  <2>1. Live(e)' = Live(e)
    BY DEF Live
  <2> QED BY <2>1 DEF TxQueues
<1>2. TxQueues' = [e \in Devs |-> IF e = d THEN qs ELSE TxQueues[e]]
  BY <1>1, QueuesAfter
<1>3. DOMAIN TxQueues = Devs
  BY DEF TxQueues
<1> QED BY <1>2, <1>3

(* A step after which d has no queues. *)
LEMMA TearDownStep ==
    ASSUME TxInv, NEW d \in Devs,
           \A e \in Devs : e # d => txq'[e] = txq[e] /\ nTxQ'[e] = nTxQ[e],
           nTxQ'[d] = 0
    PROVE  Fifo!TearDown(d)
<1> DEFINE qs == [i \in Live(d)' |-> AsQueue(txq'[d][i])]
<1>1. Live(d)' = {}
  BY DEF Live
<1>2. qs = << >>
  <2>1. qs = [i \in DOMAIN qs |-> qs[i]] /\ DOMAIN qs = {}
    BY <1>1
  <2> HIDE DEF qs
  <2> QED BY <2>1, NoneIsEmpty
<1>3. TxQueues' = [TxQueues EXCEPT ![d] = << >>]
  BY <1>2, OneDevice
<1> QED BY <1>3 DEF Fifo!TearDown

(* bcmxtmrt_xmit releases, and accepts the packet on a queue in use with room. *)
LEMMA XmitStep ==
    ASSUME TxInv, LinkInv, NEW d \in Devs, NEW s \in Skbs, NEW prio, Xmit(d, s, prio),
           nTxQ' = nTxQ
    PROVE  \/ Fifo!Release({d})
           \/ \E i \in DOMAIN TxQueues[d] : Fifo!Accept(d, i, s)
<1>0. /\ txq \in [Devs -> [Queues -> TxRing]] /\ nTxQ[d] \in Nat
      /\ txPrio \in [Devs -> [0 .. MaxPhyPorts - 1 -> [SubPrios -> 0 .. MaxTxQueues]]]
  BY TxAssumption DEF TxInv, TxTypeOK, Queues
<1>1. PICK q \in Queues :
          \/ /\ nTxQ[d] > 0 /\ q = PickQueue(d, prio)
             /\ Reaped(d)[q].free > 0
             /\ txq' = [txq EXCEPT ![d] =
                          [Reaped(d) EXCEPT ![q] = PushRing(Reaped(d)[q], s)]]
          \/ txq' = [txq EXCEPT ![d] = Reaped(d)]
  BY XmitOutcomes
<1>2. CASE txq' = [txq EXCEPT ![d] = Reaped(d)]
  <2>1. \A e \in Devs : txq'[e] = IF e \in {d} THEN Reaped(e) ELSE txq[e]
    BY <1>0, <1>2
  <2> QED BY <2>1, ReleaseStep
<1>3. CASE /\ nTxQ[d] > 0 /\ q = PickQueue(d, prio)
           /\ Reaped(d)[q].free > 0
           /\ txq' = [txq EXCEPT ![d] =
                        [Reaped(d) EXCEPT ![q] = PushRing(Reaped(d)[q], s)]]
  <2> DEFINE rs == Reaped(d)
             t == PushRing(rs[q], s)
             tr == Fifo!TrimAll(QueuesOf(d))
  <2>1. q \in Live(d)
    <3>1. 0 \in 0 .. MaxPhyPorts - 1
      BY TxAssumption
    <3>2. \A b \in SubPrios : txPrio[d][0][b] \in Nat /\ txPrio[d][0][b] <= nTxQ[d]
      <4> TAKE b \in SubPrios
      <4>1. txPrio[d] \in [0 .. MaxPhyPorts - 1 -> [SubPrios -> 0 .. MaxTxQueues]]
        BY <1>0
      <4>2. txPrio[d][0] \in [SubPrios -> 0 .. MaxTxQueues]
        BY <3>1, <4>1
      <4>3. txPrio[d][0][b] \in 0 .. MaxTxQueues /\ MaxTxQueues \in Nat
        BY <4>2, TxAssumption
      <4> QED BY <3>1, <4>3 DEF LinkInv
    <3> QED BY <1>0, <1>3, <3>2 DEF PickQueue, Live
  <2>2. rs \in [Queues -> TxRing] /\ RingInv(rs[q])
    BY ReapedInv DEF Queues
  <2>3. /\ Len(AsQueue(rs[q]).pkts) < AsQueue(rs[q]).cap
        /\ AsQueue(t) = [AsQueue(rs[q]) EXCEPT !.pkts = Append(AsQueue(rs[q]).pkts, s)]
    BY <1>3, <2>2, PushAppends
  <2>4. /\ [i \in Live(d) |-> AsQueue(rs[i])] = tr /\ DOMAIN tr = Live(d)
    BY ReapedQueues
  <2>5. tr[q] = AsQueue(rs[q])
    <3> HIDE DEF rs, tr
    <3> QED BY <2>1, <2>4
  <2>6. /\ txq'[d][q] = t
        /\ \A i \in Live(d) : i # q => txq'[d][i] = rs[i]
        /\ \A e \in Devs : e # d => txq'[e] = txq[e] /\ nTxQ'[e] = nTxQ[e]
    <3>1. Live(d) \subseteq Queues
      BY LiveQueues DEF TxInv
    <3> QED BY <1>0, <1>3, <2>2, <3>1
  <2> DEFINE qs == [tr EXCEPT ![q].pkts = Append(tr[q].pkts, s)]
  <2>7. [i \in Live(d)' |-> AsQueue(txq'[d][i])] = qs
    <3>1. Live(d)' = Live(d)
      BY DEF Live
    <3> HIDE DEF rs, t, tr
    <3>2. tr = [i \in Live(d) |-> tr[i]] /\ \A i \in Live(d) : tr[i] = AsQueue(rs[i])
      BY <2>4
    <3>3. qs = [tr EXCEPT ![q] = [tr[q] EXCEPT !.pkts = Append(tr[q].pkts, s)]]
      OBVIOUS
    <3>4. qs = [i \in Live(d) |-> IF i = q THEN [tr[q] EXCEPT !.pkts = Append(tr[q].pkts, s)]
                                  ELSE tr[i]]
      BY <2>1, <3>2, <3>3
    <3>5. \A i \in Live(d) : AsQueue(txq'[d][i]) =
              IF i = q THEN [tr[q] EXCEPT !.pkts = Append(tr[q].pkts, s)] ELSE tr[i]
      BY <2>3, <2>5, <2>6, <3>2
    <3> HIDE DEF qs
    <3> QED BY <3>1, <3>4, <3>5
  <2>8. TxQueues' = [TxQueues EXCEPT ![d] = qs]
    <3> HIDE DEF qs
    <3> QED BY <2>6, <2>7, OneDevice
  <2>9. TxQueues[d] = QueuesOf(d) /\ DOMAIN TxQueues[d] = Live(d)
    BY QueuesFacts
  <2>10. Len(tr[q].pkts) < tr[q].cap
    <3> HIDE DEF rs, tr
    <3> QED BY <2>3, <2>5
  <2>11. Fifo!Accept(d, q, s)
    <3>1. tr = Fifo!TrimAll(TxQueues[d])
      BY <2>9
    <3>2. q \in DOMAIN tr
      BY <2>1, <2>4
    <3>3. TxQueues' = [TxQueues EXCEPT ![d] = [tr EXCEPT ![q].pkts = Append(@, s)]]
      <4> HIDE DEF rs, tr
      <4> QED BY <2>8
    <3> HIDE DEF rs, tr
    <3> QED BY <2>10, <3>1, <3>2, <3>3 DEF Fifo!Accept
  <2> QED BY <2>1, <2>9, <2>11
<1> QED BY <1>1, <1>2, <1>3

(* The DMA engine transmits the next packet of a queue. *)
LEMMA TransmitStep ==
    ASSUME TxInv, NEW d \in Devs, NEW i \in Queues, DmaTransmit(d, i)
    PROVE  i \in DOMAIN TxQueues[d] /\ Fifo!Transmit(d, i)
<1> DEFINE t == TransmitRing(txq[d][i])
           qs == QueuesOf(d)
<1>0. txq \in [Devs -> [Queues -> TxRing]] /\ RingInv(txq[d][i])
  BY DEF TxInv, TxTypeOK, Queues
<1>1. i \in Live(d) /\ txq[d][i].hw \in txq[d][i].own /\ nTxQ' = nTxQ
      /\ txq' = [txq EXCEPT ![d] = [txq[d] EXCEPT ![i] = t]]
  BY <1>0 DEF DmaTransmit
<1>2. /\ AsQueue(txq[d][i]).sent < Len(AsQueue(txq[d][i]).pkts)
      /\ AsQueue(t) = [AsQueue(txq[d][i]) EXCEPT !.sent = AsQueue(txq[d][i]).sent + 1]
  BY <1>0, <1>1, TransmitSends
<1>3. /\ TxQueues[d] = qs /\ DOMAIN qs = Live(d) /\ qs = [j \in Live(d) |-> qs[j]]
      /\ \A j \in Live(d) : qs[j] = AsQueue(txq[d][j])
  BY QueuesFacts DEF QueuesOf
<1> HIDE DEF t, qs
<1>4. /\ txq'[d][i] = t /\ \A j \in Live(d) : j # i => txq'[d][j] = txq[d][j]
      /\ \A e \in Devs : e # d => txq'[e] = txq[e] /\ nTxQ'[e] = nTxQ[e]
  <2>1. Live(d) \subseteq Queues
    BY LiveQueues DEF TxInv
  <2> QED BY <1>0, <1>1, <2>1
<1> DEFINE new == [qs EXCEPT ![i].sent = qs[i].sent + 1]
<1>5. [j \in Live(d)' |-> AsQueue(txq'[d][j])] = new
  <2>1. Live(d)' = Live(d)
    BY <1>1 DEF Live
  <2>2. new = [j \in Live(d) |-> IF j = i THEN [qs[i] EXCEPT !.sent = qs[i].sent + 1]
                                 ELSE qs[j]]
    BY <1>1, <1>3
  <2>3. \A j \in Live(d) : AsQueue(txq'[d][j]) =
            IF j = i THEN [qs[i] EXCEPT !.sent = qs[i].sent + 1] ELSE qs[j]
    BY <1>1, <1>2, <1>3, <1>4
  <2> HIDE DEF new
  <2> QED BY <2>1, <2>2, <2>3
<1>6. TxQueues' = [TxQueues EXCEPT ![d] = new]
  <2> HIDE DEF new
  <2> QED BY <1>4, <1>5, OneDevice
<1>7. TxQueues' = [TxQueues EXCEPT ![d][i].sent = @ + 1]
  <2>1. [TxQueues EXCEPT ![d][i].sent = @ + 1]
           = [TxQueues EXCEPT ![d] = [TxQueues[d] EXCEPT ![i].sent = TxQueues[d][i].sent + 1]]
    OBVIOUS
  <2> QED BY <1>3, <1>6, <2>1
<1>8. TxQueues[d][i].sent < Len(TxQueues[d][i].pkts)
  BY <1>1, <1>2, <1>3
<1> QED BY <1>1, <1>3, <1>7, <1>8 DEF Fifo!Transmit

(* DoLinkUp sets up queues without room. *)
LEMMA SetUpStep ==
    ASSUME TxInv, RunInv, LinkInv, NEW d \in Devs, NEW cfg \in TxQConfigs, DoLinkUp(d, cfg)
    PROVE  Fifo!SetUp(d)
<1>1. /\ req.op = "idle" /\ ~ cfgUp[d] /\ txq' = txq
      /\ nTxQ' = [nTxQ EXCEPT ![d] = Len(cfg)]
  BY RequestForms DEF DoLinkUp, TxInv
<1>2. \A i \in Queues : ~ txq[d][i].bds
  BY <1>1 DEF RunInv, ComingDown, LinkInv
<1>3. Len(cfg) \in 0 .. MaxTxQueues /\ nTxQ \in [Devs -> 0 .. MaxTxQueues]
  BY TxAssumption DEF TxInv, TxTypeOK
<1>4. Live(d)' = 1 .. Len(cfg)
  BY <1>1, <1>3 DEF Live
<1>5. \A i \in 1 .. Len(cfg) : AsQueue(txq'[d][i]) = Fifo!EmptyQueue(0)
  <2> TAKE i \in 1 .. Len(cfg)
  <2>1. i \in Queues
    BY <1>3, TxAssumption DEF Queues
  <2> QED BY <1>1, <1>2, <2>1, NoQueue
<1>6. [i \in Live(d)' |-> AsQueue(txq'[d][i])]
         = [i \in 1 .. Len(cfg) |-> Fifo!EmptyQueue(0)]
  BY <1>4, <1>5
<1>7. TxQueues' = [TxQueues EXCEPT ![d] = [i \in 1 .. Len(cfg) |-> Fifo!EmptyQueue(0)]]
  BY <1>1, <1>3, <1>6, OneDevice
<1> QED BY <1>3, <1>7 DEF Fifo!SetUp

(* DoLinkUp gives a queue its capacity. *)
LEMMA SizeStep ==
    ASSUME TxInv, RunInv, LinkInv, LinkUpQueueEnd
    PROVE  \E d \in Devs : \E i \in DOMAIN TxQueues[d] : Fifo!Size(d, i)
<1>0. txq \in [Devs -> [Queues -> TxRing]] /\ nTxQ' = nTxQ
  BY DEF TxInv, TxTypeOK, Queues, LinkUpQueueEnd
<1>1. req \in UpReq /\ req.d \in Devs /\ req.i \in Queues /\ req.op = "up"
      /\ req.i <= Len(req.cfg) /\ req.cfg[req.i] \in TxQueueId
  <2>1. req.i <= Len(req.cfg) /\ req.op = "up"
    BY DEF LinkUpQueueEnd, HalfQueue, TxInv
  <2> QED BY <2>1, CurrentQueue DEF UpReq, Queues
<1> DEFINE d == req.d
           i == req.i
           id == req.cfg[req.i]
           t == FreshRing(id)
           qs == QueuesOf(d)
           eq == Fifo!EmptyQueue(id.size)
<1>2. i \in Live(d) /\ ~ txq[d][i].bds
  <2>1. nTxQ[d] = Len(req.cfg) /\ ~ txq[d][i].bds
    <3>1. i \in Nat /\ i >= req.i
      BY <1>1, TxAssumption DEF Queues
    <3> QED BY <1>1, <3>1 DEF LinkInv
  <2>2. nTxQ[d] \in Nat /\ i \in Nat /\ i >= 1
    BY <1>1, TxAssumption DEF TxInv, TxTypeOK, Queues
  <2> QED BY <1>1, <2>1, <2>2 DEF Live
<1>3. AsQueue(t) = eq /\ id.size > 0
  BY <1>1, FreshQueue, TxAssumption DEF TxQueueId
<1>4. txq' = [txq EXCEPT ![d] = [txq[d] EXCEPT ![i] = t]]
  BY <1>0, <1>1 DEF LinkUpQueueEnd
<1>5. /\ TxQueues[d] = qs /\ DOMAIN qs = Live(d) /\ qs = [j \in Live(d) |-> qs[j]]
      /\ \A j \in Live(d) : qs[j] = AsQueue(txq[d][j])
  BY <1>1, QueuesFacts DEF QueuesOf
<1>6. d \in Devs /\ i \in Queues
  BY <1>1
<1>7. AsQueue(txq[d][i]) = Fifo!EmptyQueue(0)
  BY <1>2, NoQueue
<1>8. eq.cap = id.size
  BY DEF Fifo!EmptyQueue
<1>9. Live(d) \subseteq Queues
  BY <1>6, LiveQueues DEF TxInv
<1>11. \A e : Live(e)' = Live(e)
  BY <1>0 DEF Live
<1>12. \E e \in Devs, j \in Queues : e = d /\ j = i
  BY <1>6
<1>13. SUFFICES ASSUME NEW e \in Devs, NEW j \in Queues, e = d, j = i
                PROVE  j \in DOMAIN TxQueues[e] /\ Fifo!Size(e, j)
  BY <1>12
<1> DEFINE q0 == QueuesOf(e)
<1>14. TxQueues[e] = q0 /\ DOMAIN q0 = Live(e) /\ q0 = [m \in Live(e) |-> q0[m]]
       /\ (\A m \in Live(e) : q0[m] = AsQueue(txq[e][m])) /\ j \in Live(e)
       /\ q0[j] = Fifo!EmptyQueue(0)
  BY <1>2, <1>5, <1>7, <1>13
<1>15. /\ txq'[e][j] = t /\ \A m \in Live(e) : m # j => txq'[e][m] = txq[e][m]
       /\ \A f \in Devs : f # e => txq'[f] = txq[f] /\ nTxQ'[f] = nTxQ[f]
  BY <1>0, <1>4, <1>9, <1>13
<1>17. PICK c : c = id.size
  OBVIOUS
<1>18. AsQueue(txq'[e][j]) = Fifo!EmptyQueue(c) /\ c > 0
  BY <1>3, <1>15, <1>17
<1> HIDE DEF d, i, id, t, qs, eq, q0
<1> DEFINE new == [q0 EXCEPT ![j] = Fifo!EmptyQueue(c)]
<1>19. [m \in Live(e)' |-> AsQueue(txq'[e][m])] = new
  <2>1. new = [m \in Live(e) |-> IF m = j THEN Fifo!EmptyQueue(c) ELSE q0[m]]
    BY <1>14
  <2>2. \A m \in Live(e) : AsQueue(txq'[e][m]) = IF m = j THEN Fifo!EmptyQueue(c) ELSE q0[m]
    BY <1>14, <1>15, <1>18
  <2> HIDE DEF new
  <2> QED BY <1>11, <2>1, <2>2
<1>20. TxQueues' = [TxQueues EXCEPT ![e] = new]
  <2> HIDE DEF new
  <2> QED BY <1>15, <1>19, OneDevice
<1>21. TxQueues'[e][j] = Fifo!EmptyQueue(c)
  <2>1. e \in DOMAIN TxQueues
    BY DEF TxQueues
  <2> QED BY <1>14, <1>20, <2>1
<1>22. TxQueues'[e][j].cap = c
  BY <1>21 DEF Fifo!EmptyQueue
<1>23. TxQueues' = [TxQueues EXCEPT ![e][j] = Fifo!EmptyQueue(TxQueues'[e][j].cap)]
  BY <1>14, <1>20, <1>22
<1> QED BY <1>14, <1>18, <1>22, <1>23 DEF Fifo!Size

LEMMA FifoInit == TxInit => Fifo!FInit
<1> SUFFICES ASSUME TxInit PROVE TxQueues = [d \in Devs |-> << >>]
  BY DEF Fifo!FInit
<1>1. ASSUME NEW d \in Devs PROVE QueuesOf(d) = << >>
  <2>1. Live(d) = {}
    BY DEF TxInit, Live
  <2>2. QueuesOf(d) = [i \in DOMAIN QueuesOf(d) |-> QueuesOf(d)[i]]
        /\ DOMAIN QueuesOf(d) = {}
    BY <2>1 DEF QueuesOf
  <2> QED BY <2>2, NoneIsEmpty
<1> QED BY <1>1, QueuesFacts

LEMMA FifoStep ==
    TxInv /\ RunInv /\ LinkInv /\ [TxNext]_txVars => [Fifo!FNext]_TxQueues
<1> SUFFICES ASSUME TxInv, RunInv, LinkInv, [TxNext]_txVars
             PROVE  Fifo!FNext \/ TxQueues' = TxQueues
  OBVIOUS
<1>0. /\ TxTypeOK /\ txq \in [Devs -> [Queues -> TxRing]]
      /\ nTxQ \in [Devs -> 0 .. MaxTxQueues] /\ MaxTxQueues \in Nat
      /\ req.op = "up" => req \in UpReq /\ req.d \in Devs
      /\ req.op = "down" => req \in DownReq /\ req.d \in Devs
  BY RequestForms, TxAssumption DEF TxInv, TxTypeOK, Queues, UpReq, DownReq
<1>1. ASSUME NEW D \in SUBSET Devs, Fifo!Release(D) PROVE Fifo!FNext
  BY <1>1 DEF Fifo!FNext
<1>2. ASSUME NEW d \in Devs, Fifo!TearDown(d) \/ Fifo!SetUp(d) PROVE Fifo!FNext
  BY <1>2 DEF Fifo!FNext
<1>3. ASSUME NEW d \in Devs, DoCreateDeviceReq(d) PROVE Fifo!FNext
  <2>1. /\ \A e \in Devs : e # d => txq'[e] = txq[e] /\ nTxQ'[e] = nTxQ[e]
        /\ nTxQ'[d] = 0
    BY <1>0, <1>3 DEF DoCreateDeviceReq
  <2> QED BY <1>2, <2>1, TearDownStep
<1>4. ASSUME NEW d \in Devs, NEW s \in Skbs,
             \/ \E prio \in SubPrios : HardStartXmit(d, s, prio)
             \/ \E port \in Ports : DoSendCellReq(d, port, s)
      PROVE  Fifo!FNext
  <2>1. PICK prio : Xmit(d, s, prio)
    BY <1>4 DEF HardStartXmit, DoSendCellReq
  <2>2. nTxQ' = nTxQ
    BY <1>4 DEF HardStartXmit, DoSendCellReq
  <2>3. \/ Fifo!Release({d})
        \/ \E i \in DOMAIN TxQueues[d] : Fifo!Accept(d, i, s)
    BY <2>1, <2>2, XmitStep
  <2>4. {d} \in SUBSET Devs
    OBVIOUS
  <2> QED BY <1>1, <2>3, <2>4 DEF Fifo!FNext
<1>5. ASSUME NEW d \in Devs, NEW i \in Queues, DmaTransmit(d, i) PROVE Fifo!FNext
  BY <1>5, TransmitStep DEF Fifo!FNext
<1>6. ASSUME TimerTick PROVE Fifo!FNext
  <2>1. /\ table \in SUBSET Devs /\ nTxQ' = nTxQ
        /\ \A d \in Devs : txq'[d] = IF d \in table THEN Reaped(d) ELSE txq[d]
    BY <1>0, <1>6 DEF TimerTick, TxTypeOK
  <2> QED BY <1>1, <2>1, ReleaseStep
<1>7. ASSUME NEW d \in Devs, NEW cfg \in TxQConfigs, DoLinkUp(d, cfg) PROVE Fifo!FNext
  BY <1>2, <1>7, SetUpStep
<1>8. ASSUME NEW d \in Devs, DoLinkDown(d) PROVE Fifo!FNext
  <2>1. /\ {d} \in SUBSET Devs /\ nTxQ' = nTxQ
        /\ \A e \in Devs : txq'[e] = IF e \in {d} THEN Reaped(e) ELSE txq[e]
    BY <1>0, <1>8 DEF DoLinkDown
  <2> QED BY <1>1, <2>1, ReleaseStep
<1>9. ASSUME LinkUpQueueBegin PROVE TxQueues' = TxQueues
  <2>1. req \in UpReq /\ req.d \in Devs /\ req.i \in Queues /\ req.op = "up"
    BY <1>9, CurrentQueue DEF LinkUpQueueBegin, UpReq, Queues
  <2>2. nTxQ' = nTxQ
    BY <1>9 DEF LinkUpQueueBegin
  <2>3. CASE txq' = txq
    BY <2>2, <2>3, QueuesSame
  <2>4. CASE txq' = [txq EXCEPT ![req.d][req.i] = HalfRing(req.cfg[req.i])]
    <3> DEFINE t == HalfRing(req.cfg[req.i])
    <3>1. ~ t.bds
      BY DEF HalfRing, ZeroRing
    <3>2. ~ txq[req.d][req.i].bds
      <4>1. req.i >= req.i
        BY <1>0, <2>1 DEF Queues
      <4> QED BY <2>1, <4>1 DEF LinkInv
    <3>3. AsQueue(t) = AsQueue(txq[req.d][req.i])
      BY <3>1, <3>2, NoQueue
    <3> HIDE DEF t
    <3>4. \A e \in Devs : \A j \in Queues :
              txq'[e][j] = IF e = req.d /\ j = req.i THEN t ELSE txq[e][j]
      BY <1>0, <2>1, <2>4 DEF t
    <3>5. \A e \in Devs : \A j \in Live(e) : AsQueue(txq'[e][j]) = AsQueue(txq[e][j])
      <4> TAKE e \in Devs
      <4> TAKE j \in Live(e)
      <4>1. j \in Queues
        BY <1>0, LiveQueues
      <4> QED BY <3>3, <3>4, <4>1
    <3> QED BY <2>2, <3>5, QueuesSame
  <2> QED BY <1>9, <2>3, <2>4 DEF LinkUpQueueBegin
<1>10. ASSUME LinkUpQueueEnd PROVE Fifo!FNext
  BY <1>10, SizeStep DEF Fifo!FNext
<1>11. ASSUME LinkDownFree PROVE TxQueues' = TxQueues
  <2>1. req \in DownReq /\ req.d \in Devs
    BY <1>0, <1>11 DEF LinkDownFree
  <2>2. txq' = [txq EXCEPT ![req.d] =
                  [i \in Queues |-> [txq[req.d][i] EXCEPT !.dma = "off"]]]
        /\ nTxQ' = nTxQ
    BY <1>11 DEF LinkDownFree, Queues
  <2>3. \A i \in Queues : AsQueue([txq[req.d][i] EXCEPT !.dma = "off"]) = AsQueue(txq[req.d][i])
    BY <2>1, HaltKeeps DEF TxInv, Queues
  <2>4. ASSUME NEW e \in Devs, NEW j \in Live(e)
        PROVE  AsQueue(txq'[e][j]) = AsQueue(txq[e][j])
    <3>1. j \in Queues
      BY <1>0, LiveQueues
    <3>2. txq'[e][j] = IF e = req.d THEN [txq[req.d][j] EXCEPT !.dma = "off"] ELSE txq[e][j]
      BY <1>0, <2>1, <2>2, <3>1
    <3> QED BY <2>3, <3>1, <3>2
  <2> QED BY <2>2, <2>4, QueuesSame
<1>12. ASSUME LinkDownZero PROVE Fifo!FNext
  <2>1. req \in DownReq /\ req.d \in Devs
    BY <1>0, <1>12 DEF LinkDownZero
  <2>2. /\ \A e \in Devs : e # req.d => txq'[e] = txq[e] /\ nTxQ'[e] = nTxQ[e]
        /\ nTxQ'[req.d] = 0
    BY <1>0, <1>12, <2>1 DEF LinkDownZero
  <2>3. \E d \in Devs : Fifo!TearDown(d)
    <3>1. \E d \in Devs : d = req.d
      BY <2>1
    <3>2. PICK d \in Devs : d = req.d
      BY <3>1
    <3>3. /\ \A e \in Devs : e # d => txq'[e] = txq[e] /\ nTxQ'[e] = nTxQ[e]
          /\ nTxQ'[d] = 0
      BY <2>2, <3>2
    <3> QED BY <3>3, TearDownStep
  <2> QED BY <1>2, <2>3
<1>13. ASSUME \/ UNCHANGED txVars \/ LinkUpEnd \/ LinkDownEnd
              \/ \E d \in Devs : \/ DoDeleteDeviceReq(d) \/ SetAdminStatus(d)
                                 \/ Open(d) \/ Close(d) \/ Timeout(d) \/ DoLinkUpNoMem(d)
       PROVE  TxQueues' = TxQueues
  <2>1. UNCHANGED <<nTxQ, txq>>
    BY <1>13 DEF txVars, LinkUpEnd, LinkDownEnd, DoDeleteDeviceReq, SetAdminStatus, Open,
                 Close, Timeout, DoLinkUpNoMem
  <2> QED BY <2>1, QueuesSame
<1> QED BY <1>3, <1>4, <1>5, <1>6, <1>7, <1>8, <1>9, <1>10, <1>11, <1>12, <1>13
        DEF TxNext, LinkUpSteps, LinkDownSteps, Queues

(* The rings of descriptors implement bounded first-in first-out queues that      *)
(* transmit in order and release transmitted packets only: every step of the      *)
(* driver and of the DMA engine is a step of TxFifo or changes no queue.          *)
THEOREM RingsImplementFifo == TxSpec => ImplementsFifo
<1> QED BY FifoInit, FifoStep, TxInitInv, TxNextInv, RunInitInv, RunNextInv, LinkInitInv,
           LinkNextInv, PTL DEF TxSpec, ImplementsFifo, Fifo!FSpec
====================================================================================
