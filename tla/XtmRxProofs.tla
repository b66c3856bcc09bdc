------------------------------- MODULE XtmRxProofs -------------------------------
(* Safety of the receive side, for any number of queues, descriptors and devices. *)
EXTENDS XtmRx, FiniteSetTheorems, WellFoundedInduction, TLAPS

(* ------------------------------------------------------------------------------ *)
(* Arithmetic of the descriptor rings *)

(* The j-th descriptor from the head is a descriptor of the ring. *)
LEMMA RxSlotInRing ==
    ASSUME NEW q, NEW r, RxSizes[q] \in Nat, r.head \in 0 .. RxSizes[q] - 1,
           NEW j \in 0 .. RxSizes[q]
    PROVE  RxSlot(q, r, j) \in 0 .. RxSizes[q] - 1
BY DEF RxSlot

(* Different offsets name different descriptors. *)
LEMMA RxSlotInjective ==
    ASSUME NEW q, NEW r, RxSizes[q] \in Nat, r.head \in 0 .. RxSizes[q] - 1,
           NEW j \in 0 .. RxSizes[q] - 1, NEW k \in 0 .. RxSizes[q] - 1,
           RxSlot(q, r, j) = RxSlot(q, r, k)
    PROVE  j = k
BY DEF RxSlot

(* NextRxBd moves from one offset to the next. *)
LEMMA RxSlotNext ==
    ASSUME NEW q, NEW r, RxSizes[q] \in Nat, r.head \in 0 .. RxSizes[q] - 1,
           NEW j \in 0 .. RxSizes[q] - 1
    PROVE  NextRxBd(q, RxSlot(q, r, j)) = RxSlot(q, r, j + 1)
BY DEF RxSlot, NextRxBd

(* A ring whose head has moved one descriptor on. *)
LEMMA RxSlotShift ==
    ASSUME NEW q, NEW r, NEW t, RxSizes[q] \in Nat, r.head \in 0 .. RxSizes[q] - 1,
           t.head = NextRxBd(q, r.head), NEW j \in 0 .. RxSizes[q] - 1
    PROVE  RxSlot(q, t, j) = RxSlot(q, r, j + 1)
BY DEF RxSlot, NextRxBd

(* ------------------------------------------------------------------------------ *)
(* The operations on a ring *)

(* The DMA engine fills a descriptor. *)
LEMMA FilledHas ==
    ASSUME NEW q \in Rings, NEW r \in RxRing,
           NEW f \in 0 .. RxSizes[q], NEW m \in 0 .. RxSizes[q], f + m <= RxSizes[q],
           RingHas(q, r, f, m), r.hw \in r.own
    PROVE  /\ m > 0
           /\ Filled(q, r) \in RxRing
           /\ RingHas(q, Filled(q, r), f + 1, m - 1)
<1> DEFINE t == Filled(q, r)
<1>1. RxSizes[q] \in Nat /\ r.head \in 0 .. RxSizes[q] - 1
  BY RxAssumption DEF Rings, RxRing, RingHas
<1>2. PICK j \in f .. f + m - 1 : r.hw = RxSlot(q, r, j)
  BY DEF RingHas
<1>3. m > 0 /\ f \in 0 .. RxSizes[q] - 1
  BY <1>1, <1>2
<1>4. NextRxBd(q, r.hw) = RxSlot(q, r, f + 1)
  BY <1>1, <1>3, RxSlotNext DEF RingHas
<1>5. RxSlot(q, r, f + 1) \in Nat
  <2>1. f + 1 \in 0 .. RxSizes[q]
    BY <1>1, <1>3
  <2>2. RxSlot(q, r, f + 1) \in 0 .. RxSizes[q] - 1
    BY <1>1, <2>1, RxSlotInRing
  <2> QED BY <1>1, <2>2
<1>6. t \in RxRing
  BY <1>4, <1>5 DEF RxRing, Filled
<1>7. /\ t.buf = r.buf /\ t.head = r.head /\ t.tail = r.tail
      /\ t.own = r.own \ {r.hw} /\ t.hw = NextRxBd(q, r.hw)
  BY DEF RxRing, Filled
<1>8. \A k : RxSlot(q, t, k) = RxSlot(q, r, k)
  BY <1>7 DEF RxSlot
<1> HIDE DEF t
<1>9. t.own = {RxSlot(q, t, k) : k \in f + 1 .. (f + 1) + (m - 1) - 1}
  <2>1. \A k \in f + 1 .. f + m - 1 : RxSlot(q, r, k) # RxSlot(q, r, f)
    BY <1>1, <1>3, RxSlotInjective
  <2>2. f .. f + m - 1 = {f} \cup (f + 1 .. f + m - 1)
    BY <1>1, <1>3
  <2>3. t.own = {RxSlot(q, r, k) : k \in f + 1 .. f + m - 1}
    BY <1>7, <2>1, <2>2 DEF RingHas
  <2>4. (f + 1) + (m - 1) - 1 = f + m - 1
    BY <1>1
  <2> QED BY <1>8, <2>3, <2>4
<1>10. (f + 1) + (m - 1) = f + m
  BY <1>1
<1>11. RingHas(q, t, f + 1, m - 1)
  BY <1>4, <1>7, <1>8, <1>9, <1>10 DEF RingHas
<1> QED BY <1>3, <1>6, <1>11 DEF t

(* At a descriptor that is not the engine's there is none left for it. *)
LEMMA StoppedEmpty ==
    ASSUME NEW q \in Rings, NEW r \in RxRing,
           NEW f \in 0 .. RxSizes[q], NEW m \in 0 .. RxSizes[q],
           RingHas(q, r, f, m), r.hw \notin r.own
    PROVE  r.own = {}
<1>1. RxSizes[q] \in Nat
  BY RxAssumption DEF Rings
<1>2. CASE m > 0
  <2>1. f \in f .. f + m - 1
    BY <1>1, <1>2
  <2> QED BY <2>1 DEF RingHas
<1>3. CASE m = 0
  <2>1. f .. f + m - 1 = {}
    BY <1>1, <1>3
  <2> QED BY <2>1 DEF RingHas
<1> QED BY <1>1, <1>2, <1>3

(* Taking a received buffer from the head. *)
LEMMA TakenHas ==
    ASSUME NEW q \in Rings, NEW r \in RxRing,
           NEW f \in 0 .. RxSizes[q], NEW m \in 0 .. RxSizes[q], f + m <= RxSizes[q],
           RingHas(q, r, f, m), r.head \in r.buf \ r.own
    PROVE  /\ f > 0
           /\ Taken(q, r) \in RxRing
           /\ RingHas(q, Taken(q, r), f - 1, m)
           /\ Taken(q, r).own = r.own
<1> DEFINE t == Taken(q, r)
<1>1. RxSizes[q] \in Nat /\ r.head \in 0 .. RxSizes[q] - 1
  BY RxAssumption DEF Rings, RxRing, RingHas
<1>2. r.head = RxSlot(q, r, 0)
  BY <1>1 DEF RxSlot
<1>3. f > 0
  <2>1. CASE f = 0
    <3>1. PICK j \in 0 .. f + m - 1 : r.head = RxSlot(q, r, j)
      BY DEF RingHas
    <3>2. j \in f .. f + m - 1
      BY <2>1
    <3> QED BY <3>1, <3>2 DEF RingHas
  <2> QED BY <1>1, <2>1
<1>4. NextRxBd(q, r.head) = RxSlot(q, r, 1) /\ NextRxBd(q, r.head) \in 0 .. RxSizes[q] - 1
  <2>1. 0 \in 0 .. RxSizes[q] - 1 /\ 1 \in 0 .. RxSizes[q]
    BY <1>1
  <2> QED BY <1>1, <1>2, <2>1, RxSlotNext, RxSlotInRing
<1>5. t \in RxRing
  <2>1. NextRxBd(q, r.head) \in Nat
    BY <1>1, <1>4
  <2> QED BY <2>1 DEF RxRing, Taken
<1>6. /\ t.buf = r.buf \ {r.head} /\ t.own = r.own \ {r.head}
      /\ t.head = NextRxBd(q, r.head) /\ t.tail = r.tail /\ t.hw = r.hw
  BY DEF RxRing, Taken
<1> HIDE DEF t
<1>7. t.own = r.own
  BY <1>6
<1>8. \A k \in 0 .. RxSizes[q] - 1 : RxSlot(q, t, k) = RxSlot(q, r, k + 1)
  BY <1>1, <1>6, RxSlotShift
<1>9. t.hw = RxSlot(q, t, f - 1) /\ t.tail = RxSlot(q, t, f - 1 + m)
  <2>1. /\ f - 1 \in 0 .. RxSizes[q] - 1 /\ f - 1 + m \in 0 .. RxSizes[q] - 1
        /\ (f - 1) + 1 = f /\ (f - 1 + m) + 1 = f + m
    BY <1>1, <1>3
  <2>2. RxSlot(q, t, f - 1) = RxSlot(q, r, f) /\ RxSlot(q, t, f - 1 + m) = RxSlot(q, r, f + m)
    BY <1>8, <2>1
  <2> QED BY <1>6, <2>2 DEF RingHas
<1>10. ASSUME NEW a \in 0 .. RxSizes[q] - 1
       PROVE  {RxSlot(q, t, j) : j \in a .. f - 1 + m - 1}
                 = {RxSlot(q, r, j) : j \in a + 1 .. f + m - 1}
  <2>1. \A j \in a .. f - 1 + m - 1 : j + 1 \in a + 1 .. f + m - 1
                                      /\ RxSlot(q, t, j) = RxSlot(q, r, j + 1)
    BY <1>1, <1>3, <1>8
  <2>2. \A j \in a + 1 .. f + m - 1 : j - 1 \in a .. f - 1 + m - 1
                                      /\ RxSlot(q, t, j - 1) = RxSlot(q, r, j)
    <3> TAKE j \in a + 1 .. f + m - 1
    <3>1. j - 1 \in 0 .. RxSizes[q] - 1 /\ (j - 1) + 1 = j
          /\ j - 1 \in a .. f - 1 + m - 1
      BY <1>1, <1>3
    <3> QED BY <1>8, <3>1
  <2> QED BY <2>1, <2>2
<1>11. t.own = {RxSlot(q, t, j) : j \in f - 1 .. f - 1 + m - 1}
  <2>1. f - 1 \in 0 .. RxSizes[q] - 1 /\ (f - 1) + 1 = f
    BY <1>1, <1>3
  <2>2. {RxSlot(q, t, j) : j \in f - 1 .. f - 1 + m - 1}
           = {RxSlot(q, r, j) : j \in f .. f + m - 1}
    BY <1>10, <2>1
  <2> QED BY <1>7, <2>2 DEF RingHas
<1>12. t.buf = {RxSlot(q, t, j) : j \in 0 .. f - 1 + m - 1}
  <2>1. 0 \in 0 .. RxSizes[q] - 1 /\ 0 + 1 = 1
    BY <1>1
  <2>2. {RxSlot(q, t, j) : j \in 0 .. f - 1 + m - 1}
           = {RxSlot(q, r, j) : j \in 1 .. f + m - 1}
    BY <1>10, <2>1
  <2>3. \A j \in 1 .. f + m - 1 : RxSlot(q, r, j) # RxSlot(q, r, 0)
    BY <1>1, <2>1, RxSlotInjective
  <2>4. 0 .. f + m - 1 = {0} \cup (1 .. f + m - 1)
    BY <1>1, <1>3
  <2>5. r.buf = {RxSlot(q, r, j) : j \in 0 .. f + m - 1}
    BY DEF RingHas
  <2> QED BY <1>2, <1>6, <2>2, <2>3, <2>4, <2>5
<1>13. t.head < RxSizes[q]
  BY <1>1, <1>4, <1>6
<1>14. RingHas(q, t, f - 1, m)
  BY <1>9, <1>11, <1>12, <1>13 DEF RingHas
<1> QED BY <1>3, <1>5, <1>7, <1>14 DEF t

(* With a descriptor to spare, the tail has no buffer and takes one. *)
LEMMA AssignedHas ==
    ASSUME NEW q \in Rings, NEW r \in RxRing,
           NEW f \in 0 .. RxSizes[q], NEW m \in 0 .. RxSizes[q], f + m < RxSizes[q],
           RingHas(q, r, f, m)
    PROVE  /\ r.tail \notin r.buf
           /\ Assigned(q, r) \in RxRing
           /\ RingHas(q, Assigned(q, r), f, m + 1)
<1> DEFINE t == Assigned(q, r)
<1>1. RxSizes[q] \in Nat /\ r.head \in 0 .. RxSizes[q] - 1
  BY RxAssumption DEF Rings, RxRing, RingHas
<1>2. f + m \in 0 .. RxSizes[q] - 1
  BY <1>1
<1>3. r.tail \notin r.buf
  <2>1. \A j \in 0 .. f + m - 1 : RxSlot(q, r, j) # RxSlot(q, r, f + m)
    BY <1>1, <1>2, RxSlotInjective
  <2> QED BY <2>1 DEF RingHas
<1>4. NextRxBd(q, r.tail) = RxSlot(q, r, f + m + 1)
  BY <1>1, <1>2, RxSlotNext DEF RingHas
<1>5. RxSlot(q, r, f + m + 1) \in Nat /\ r.tail \in Nat
  <2>1. f + m + 1 \in 0 .. RxSizes[q]
    BY <1>1, <1>2
  <2>2. RxSlot(q, r, f + m + 1) \in 0 .. RxSizes[q] - 1
    BY <1>1, <2>1, RxSlotInRing
  <2> QED BY <1>1, <2>2 DEF RxRing
<1>6. t = [r EXCEPT !.buf = @ \cup {r.tail}, !.own = @ \cup {r.tail},
                    !.tail = NextRxBd(q, @)]
  BY <1>3 DEF Assigned
<1> HIDE DEF t
<1>7. t \in RxRing
  BY <1>4, <1>5, <1>6 DEF RxRing
<1>8. /\ t.buf = r.buf \cup {r.tail} /\ t.own = r.own \cup {r.tail}
      /\ t.head = r.head /\ t.hw = r.hw /\ t.tail = NextRxBd(q, r.tail)
  BY <1>6 DEF RxRing
<1>9. \A k : RxSlot(q, t, k) = RxSlot(q, r, k)
  BY <1>8 DEF RxSlot
<1>10. /\ 0 .. f + (m + 1) - 1 = (0 .. f + m - 1) \cup {f + m}
       /\ f .. f + (m + 1) - 1 = (f .. f + m - 1) \cup {f + m}
       /\ f + (m + 1) = f + m + 1
  BY <1>1
<1>11. t.buf = {RxSlot(q, t, j) : j \in 0 .. f + (m + 1) - 1}
  BY <1>8, <1>9, <1>10 DEF RingHas
<1>12. t.own = {RxSlot(q, t, j) : j \in f .. f + (m + 1) - 1}
  BY <1>8, <1>9, <1>10 DEF RingHas
<1>13. RingHas(q, t, f, m + 1)
  BY <1>4, <1>8, <1>9, <1>10, <1>11, <1>12 DEF RingHas
<1> QED BY <1>3, <1>7, <1>13 DEF t

(* ------------------------------------------------------------------------------ *)
(* Sums *)

(* A set of numbers has a least one. *)
LEMMA LeastOf ==
    ASSUME NEW T \in SUBSET Nat, T # {}
    PROVE  \E x \in T : \A y \in T : x <= y
<1>1. PICK R : R = OpToRel(<, Nat)
  BY Zenon
<1>2. \A y, x \in Nat : y < x => <<y, x>> \in R
  BY <1>1, Zenon DEF OpToRel
<1>3. IsWellFoundedOn(R, Nat)
  BY <1>1, NatLessThanWellFounded, Zenon
<1>4. PICK x \in T : \A y \in T : <<y, x>> \notin R
  BY <1>3, WFMin
<1>5. ASSUME NEW y \in T PROVE x <= y
  <2>1. x \in Nat /\ y \in Nat /\ ~(y < x)
    BY <1>2, <1>4
  <2> QED BY <2>1
<1> QED BY <1>5

(* Induction, for a set of numbers. *)
LEMMA AllNumbers ==
    ASSUME NEW S, 0 \in S, \A n \in Nat : n \in S => n + 1 \in S
    PROVE  Nat \subseteq S
<1> DEFINE T == Nat \ S
<1> SUFFICES ASSUME T # {} PROVE FALSE
  OBVIOUS
<1>1. PICK x \in T : \A y \in T : x <= y
  BY LeastOf
<1>2. x \in Nat /\ x # 0 /\ x \notin S
  BY <1>1
<1>3. x - 1 \in Nat /\ (x - 1) + 1 = x
  BY <1>2
<1>4. x - 1 \notin T
  BY <1>1, <1>3
<1> QED BY <1>2, <1>3, <1>4

(* The member of a set that a fold takes first, and what it leaves. *)
First(s) == CHOOSE x \in s : TRUE
Rest(s) == s \ {First(s)}

LEMMA FirstRest ==
    ASSUME NEW s, s # {}, IsFiniteSet(s)
    PROVE  /\ First(s) \in s /\ Rest(s) \subseteq s /\ IsFiniteSet(Rest(s))
           /\ Cardinality(s) \in Nat /\ Cardinality(s) > 0
           /\ Cardinality(Rest(s)) = Cardinality(s) - 1
<1>1. First(s) \in s
  BY DEF First
<1>2. Cardinality(s) \in Nat /\ Cardinality(s) # 0
  BY FS_CardinalityType, FS_EmptySet
<1>3. IsFiniteSet(Rest(s)) /\ Cardinality(Rest(s)) = Cardinality(s) - 1
  BY <1>1, FS_RemoveElement DEF Rest
<1> QED BY <1>1, <1>2, <1>3 DEF Rest

(* g sums f over every set of members of D. *)
SumsUp(g, f, D) ==
    g = [s \in SUBSET D |-> IF s = {} THEN 0 ELSE f[First(s)] + g[Rest(s)]]

(* There is such a g when D is finite: set by set, the larger ones last. *)
LEMMA SumExists ==
    ASSUME NEW f, NEW D, IsFiniteSet(D)
    PROVE  \E g : SumsUp(g, f, D)
<1> DEFINE At(g, s) == IF s = {} THEN 0 ELSE f[First(s)] + g[Rest(s)]
           UpTo(g, n) == \A s \in SUBSET D : Cardinality(s) <= n => g[s] = At(g, s)
           S == {n \in Nat : \E g : UpTo(g, n)}
<1>1. \A s \in SUBSET D : IsFiniteSet(s) /\ Cardinality(s) \in Nat
  BY FS_Subset, FS_CardinalityType
<1>2. 0 \in S
  <2> DEFINE g == [s \in SUBSET D |-> 0]
  <2>1. UpTo(g, 0)
    <3> SUFFICES ASSUME NEW s \in SUBSET D, Cardinality(s) <= 0 PROVE g[s] = At(g, s)
      OBVIOUS
    <3>1. s = {}
      BY <1>1, FirstRest
    <3> QED BY <3>1
  <2> QED BY <2>1
<1>3. ASSUME NEW n \in Nat, n \in S PROVE n + 1 \in S
  <2>1. PICK g : UpTo(g, n)
    BY <1>3
  <2> DEFINE h == [s \in SUBSET D |-> At(g, s)]
  <2>2. ASSUME NEW s \in SUBSET D, Cardinality(s) <= n PROVE h[s] = g[s]
    BY <2>1, <2>2
  <2>3. UpTo(h, n + 1)
    <3> SUFFICES ASSUME NEW s \in SUBSET D, Cardinality(s) <= n + 1
                 PROVE  h[s] = At(h, s)
      OBVIOUS
    <3>1. CASE s = {}
      BY <3>1
    <3>2. CASE s # {}
      <4>1. Rest(s) \in SUBSET D /\ Cardinality(Rest(s)) <= n
        BY <1>1, <3>2, FirstRest
      <4>2. h[Rest(s)] = g[Rest(s)]
        BY <2>2, <4>1
      <4>3. h[s] = f[First(s)] + g[Rest(s)]
        BY <3>2
      <4> HIDE DEF h
      <4> QED BY <3>2, <4>2, <4>3
    <3> QED BY <3>1, <3>2
  <2> HIDE DEF UpTo, h
  <2>4. n + 1 \in Nat
    OBVIOUS
  <2> QED BY <2>3, <2>4
<1>4. Cardinality(D) \in S
  <2> HIDE DEF S
  <2>1. Nat \subseteq S
    BY <1>2, <1>3, AllNumbers
  <2> QED BY <1>1, <2>1
<1>5. PICK g : UpTo(g, Cardinality(D))
  BY <1>4
<1> DEFINE h == [s \in SUBSET D |-> g[s]]
<1>6. ASSUME NEW s \in SUBSET D PROVE h[s] = At(h, s)
  <2>1. Cardinality(s) <= Cardinality(D)
    BY FS_Subset
  <2>2. h[s] = At(g, s)
    BY <1>5, <2>1
  <2>3. CASE s = {}
    BY <2>2, <2>3
  <2>4. CASE s # {}
    <3>1. h[Rest(s)] = g[Rest(s)]
      BY DEF Rest
    <3> HIDE DEF h
    <3> QED BY <2>2, <2>4, <3>1
  <2> QED BY <2>3, <2>4
<1>7. h = [s \in SUBSET D |-> At(h, s)]
  <2>1. DOMAIN h = SUBSET D /\ h = [s \in SUBSET D |-> h[s]]
    OBVIOUS
  <2> HIDE DEF h
  <2> QED BY <1>6, <2>1
<1> QED BY <1>7 DEF SumsUp

(* Sums of numbers are numbers and compare as what they sum. *)
LEMMA SumsCompare ==
    ASSUME NEW D, IsFiniteSet(D), NEW f \in [D -> Nat], NEW h \in [D -> Nat],
           \A x \in D : f[x] <= h[x], NEW a, NEW b, SumsUp(a, f, D), SumsUp(b, h, D)
    PROVE  /\ a[D] \in Nat /\ b[D] \in Nat /\ a[D] <= b[D]
           /\ (\E x \in D : f[x] < h[x]) => a[D] < b[D]
<1> DEFINE Good(s) == /\ a[s] \in Nat /\ b[s] \in Nat /\ a[s] <= b[s]
                      /\ (\E x \in s : f[x] < h[x]) => a[s] < b[s]
           S == {n \in Nat : \A s \in SUBSET D : Cardinality(s) = n => Good(s)}
<1>1. \A s \in SUBSET D : IsFiniteSet(s) /\ Cardinality(s) \in Nat
  BY FS_Subset, FS_CardinalityType
<1>2. ASSUME NEW s \in SUBSET D
      PROVE  /\ s = {} => a[s] = 0 /\ b[s] = 0
             /\ s # {} => a[s] = f[First(s)] + a[Rest(s)] /\ b[s] = h[First(s)] + b[Rest(s)]
  <2>1. a[s] = IF s = {} THEN 0 ELSE f[First(s)] + a[Rest(s)]
    BY DEF SumsUp
  <2>2. b[s] = IF s = {} THEN 0 ELSE h[First(s)] + b[Rest(s)]
    BY DEF SumsUp
  <2> QED BY <2>1, <2>2
<1>3. 0 \in S
  <2> SUFFICES ASSUME NEW s \in SUBSET D, Cardinality(s) = 0 PROVE Good(s)
    OBVIOUS
  <2>1. s = {}
    BY <1>1, FirstRest
  <2> QED BY <1>2, <2>1, SMTT(30)
<1>4. ASSUME NEW n \in Nat, n \in S PROVE n + 1 \in S
  <2> SUFFICES ASSUME NEW s \in SUBSET D, Cardinality(s) = n + 1 PROVE Good(s)
    OBVIOUS
  <2>1. s # {}
    BY FS_EmptySet
  <2>2. First(s) \in s /\ Rest(s) \in SUBSET D /\ Cardinality(Rest(s)) = n
    BY <1>1, <2>1, FirstRest
  <2>3. Good(Rest(s))
    BY <1>4, <2>2
  <2>4. a[s] = f[First(s)] + a[Rest(s)] /\ b[s] = h[First(s)] + b[Rest(s)]
    BY <1>2, <2>1
  <2>5. f[First(s)] \in Nat /\ h[First(s)] \in Nat /\ f[First(s)] <= h[First(s)]
    BY <2>2
  <2>6. a[s] \in Nat /\ b[s] \in Nat /\ a[s] <= b[s]
    BY <2>3, <2>4, <2>5
  <2>7. ASSUME NEW x \in s, f[x] < h[x] PROVE a[s] < b[s]
    <3>1. CASE x = First(s)
      BY <2>3, <2>4, <2>5, <2>7, <3>1
    <3>2. CASE x # First(s)
      <4>1. x \in Rest(s)
        BY <3>2 DEF Rest
      <4>2. a[Rest(s)] < b[Rest(s)]
        BY <2>3, <2>7, <4>1
      <4> QED BY <2>3, <2>4, <2>5, <4>2
    <3> QED BY <3>1, <3>2
  <2> QED BY <2>6, <2>7
<1>5. Cardinality(D) \in S
  <2> HIDE DEF S
  <2>1. Nat \subseteq S
    BY <1>3, <1>4, AllNumbers
  <2> QED BY <1>1, <2>1
<1> QED BY <1>5

(* The library's fold is such a sum. *)
LEMMA FoldSumsUp ==
    ASSUME NEW D, IsFiniteSet(D), NEW f, DOMAIN f = D
    PROVE  \E g : SumsUp(g, f, D) /\ FoldFunction(+, 0, f) = g[D]
<1> DEFINE g == CHOOSE g : g = [s \in SUBSET DOMAIN f |->
                    IF s = {} THEN 0
                    ELSE f[CHOOSE x \in s : TRUE] + g[s \ {CHOOSE x \in s : TRUE}]]
<1>1. FoldFunction(+, 0, f) = g[DOMAIN f]
  BY DEF FoldFunction, FoldFunctionOnSet, MapThenFoldSet
<1>2. SumsUp(g, f, D)
  <2>1. PICK k : SumsUp(k, f, D)
    BY SumExists
  <2>2. k = [s \in SUBSET DOMAIN f |->
                IF s = {} THEN 0
                ELSE f[CHOOSE x \in s : TRUE] + k[s \ {CHOOSE x \in s : TRUE}]]
    BY <2>1 DEF SumsUp, First, Rest
  <2>3. g = [s \in SUBSET DOMAIN f |->
                IF s = {} THEN 0
                ELSE f[CHOOSE x \in s : TRUE] + g[s \ {CHOOSE x \in s : TRUE}]]
    BY <2>2, Zenon
  <2> HIDE DEF g
  <2> QED BY <2>3 DEF SumsUp, First, Rest
<1> QED BY <1>1, <1>2

LEMMA FoldsCompare ==
    ASSUME NEW D, IsFiniteSet(D), NEW f \in [D -> Nat], NEW h \in [D -> Nat],
           \A x \in D : f[x] <= h[x]
    PROVE  /\ FoldFunction(+, 0, f) \in Nat /\ FoldFunction(+, 0, h) \in Nat
           /\ (\E x \in D : f[x] < h[x]) => FoldFunction(+, 0, f) < FoldFunction(+, 0, h)
<1>1. PICK a : SumsUp(a, f, D) /\ FoldFunction(+, 0, f) = a[D]
  BY FoldSumsUp
<1>2. PICK b : SumsUp(b, h, D) /\ FoldFunction(+, 0, h) = b[D]
  BY FoldSumsUp
<1>3. /\ a[D] \in Nat /\ b[D] \in Nat
      /\ (\E x \in D : f[x] < h[x]) => a[D] < b[D]
  BY <1>1, <1>2, SumsCompare
<1> QED BY <1>1, <1>2, <1>3, Zenon

(* ------------------------------------------------------------------------------ *)
(* The inductive invariant.  While the tasklet scans, a received buffer is        *)
(* accounted for by the part of the round that is still to come.                  *)
StillNoticed ==
    \A q \in Rings : HeadFull(q) =>
        \/ sched \/ q \in done
        \/ tl.pc = "scan" /\ (tl.more \/ tl.i <= q)

(* ulMask is only in use once it has been read. *)
MaskRead == tl.pc \in {"idle", "scan", "mask"} => tl.mask = {}

RxInv ==
    /\ RxTypeOK
    /\ RxRingsConsistent
    /\ NoStuckChannel
    /\ StillNoticed
    /\ MaskRead

LEMMA RingsAreQueues == Rings \subseteq Queues /\ \A q \in Queues : RxSizes[q] \in Nat
BY RxAssumption DEF Rings

(* There is a number of headers. *)
LEMMA RxTotalIsNat == RxTotal \in Nat
<1>1. IsFiniteSet(Queues)
  BY RxAssumption, FS_Interval DEF Queues
<1>2. RxSizes \in [Queues -> Nat] /\ \A q \in Queues : RxSizes[q] <= RxSizes[q]
  BY RxAssumption
<1> QED BY <1>1, <1>2, FoldsCompare DEF RxTotal

LEMMA RxInitInv == RxInit => RxInv
<1> SUFFICES ASSUME RxInit PROVE RxInv
  OBVIOUS
<1> USE RingsAreQueues
<1>1. RxTypeOK
  <2>1. \A q \in Queues : 0 .. RxSizes[q] - 1 \in SUBSET Nat
    OBVIOUS
  <2>2. ring \in [Queues -> RxRing]
    BY <2>1 DEF RxInit, RxRing
  <2>3. tl \in [pc : {"idle", "scan", "mask", "zero", "enable"}, i : Queues,
                more : BOOLEAN, mask : SUBSET Rings]
    BY RxAssumption DEF RxInit, TlIdle, Queues
  <2> QED BY <2>2, <2>3, RxTotalIsNat DEF RxInit, RxTypeOK
<1>2. RxRingsConsistent
  <2> SUFFICES ASSUME NEW q \in Rings
               PROVE  \E f, m \in 0 .. RxSizes[q] :
                         f + m + up[q] = RxSizes[q] /\ RingHas(q, ring[q], f, m)
    BY DEF RxRingsConsistent
  <2>1. RxSizes[q] \in Nat /\ RxSizes[q] > 0
    BY DEF Rings
  <2> DEFINE r == ring[q]
  <2>2. /\ r.buf = 0 .. RxSizes[q] - 1 /\ r.own = 0 .. RxSizes[q] - 1
        /\ r.head = 0 /\ r.tail = 0 /\ r.hw = 0 /\ up[q] = 0
    BY DEF RxInit
  <2> HIDE DEF r
  <2>3. \A j \in 0 .. RxSizes[q] - 1 : RxSlot(q, r, j) = j
    BY <2>1, <2>2 DEF RxSlot
  <2>4. RxSlot(q, r, RxSizes[q]) = 0 /\ RxSlot(q, r, 0) = 0
    BY <2>1, <2>2 DEF RxSlot
  <2>5. {RxSlot(q, r, j) : j \in 0 .. RxSizes[q] - 1} = 0 .. RxSizes[q] - 1
    BY <2>3
  <2>6. 0 + RxSizes[q] = RxSizes[q]
    BY <2>1
  <2>7. RingHas(q, r, 0, RxSizes[q])
    BY <2>1, <2>2, <2>4, <2>5, <2>6 DEF RingHas
  <2>8. 0 \in 0 .. RxSizes[q] /\ RxSizes[q] \in 0 .. RxSizes[q]
        /\ 0 + RxSizes[q] + up[q] = RxSizes[q]
    BY <2>1, <2>2
  <2> QED BY <2>7, <2>8 DEF r
<1>3. NoStuckChannel
  BY DEF RxInit, NoStuckChannel
<1>4. StillNoticed
  <2> SUFFICES ASSUME NEW q \in Rings PROVE ~ HeadFull(q)
    BY DEF StillNoticed
  <2>1. q \in Queues /\ ring[q].buf = ring[q].own
    BY DEF RxInit
  <2> QED BY <2>1 DEF HeadFull
<1>5. MaskRead
  BY DEF RxInit, MaskRead, TlIdle
<1> QED BY <1>1, <1>2, <1>3, <1>4, <1>5 DEF RxInv

(* The witnesses of a consistent ring. *)
LEMMA RingWitness ==
    ASSUME RxInv, NEW q \in Rings
    PROVE  /\ q \in Queues /\ RxSizes[q] \in Nat
           /\ ring[q] \in RxRing /\ up[q] \in Nat
           /\ \E f, m \in 0 .. RxSizes[q] :
                 f + m + up[q] = RxSizes[q] /\ RingHas(q, ring[q], f, m)
BY RingsAreQueues DEF RxInv, RxTypeOK, RxRingsConsistent

(* Steps that leave the rings alone keep them consistent. *)
LEMMA RingsUntouched ==
    ASSUME RxRingsConsistent, ring' = ring, up' = up
    PROVE  RxRingsConsistent'
BY DEF RxRingsConsistent, RingHas, RxSlot

(* A step on the ring of one queue keeps all rings consistent. *)
LEMMA OneRingStep ==
    ASSUME RxInv, NEW q \in Rings, NEW t \in RxRing, NEW n \in Nat,
           ring' = [ring EXCEPT ![q] = t], up' = [up EXCEPT ![q] = n],
           NEW f \in 0 .. RxSizes[q], NEW m \in 0 .. RxSizes[q],
           f + m + n = RxSizes[q], RingHas(q, t, f, m)
    PROVE  RxRingsConsistent' /\ ring' \in [Queues -> RxRing] /\ up' \in [Queues -> Nat]
<1>1. q \in Queues /\ ring \in [Queues -> RxRing] /\ up \in [Queues -> Nat]
  BY RingsAreQueues DEF RxInv, RxTypeOK
<1>2. \A p \in Rings : \E g, k \in 0 .. RxSizes[p] :
          g + k + up'[p] = RxSizes[p] /\ RingHas(p, ring'[p], g, k)
  <2> TAKE p \in Rings
  <2>1. CASE p = q
    <3>1. ring'[p] = t /\ up'[p] = n
      BY <1>1, <2>1
    <3> QED BY <2>1, <3>1
  <2>2. CASE p # q
    <3>1. ring'[p] = ring[p] /\ up'[p] = up[p]
      BY <1>1, <2>2, RingsAreQueues
    <3> QED BY <3>1, RingWitness
  <2> QED BY <2>1, <2>2
<1> QED BY <1>1, <1>2 DEF RxRingsConsistent, RingHas, RxSlot

TlType == [pc : {"idle", "scan", "mask", "zero", "enable"}, i : Queues,
           more : BOOLEAN, mask : SUBSET Rings]

(* The loop counter stays a queue; after something was received the whole round   *)
(* is still to come.                                                              *)
LEMMA AdvanceTypes ==
    ASSUME RxInv, tl.pc = "scan", NEW more \in BOOLEAN, Advance(more)
    PROVE  /\ tl' \in TlType
           /\ tl'.pc \in {"scan", "mask"} /\ tl'.mask = {}
           /\ more => tl'.pc = "scan" /\ (tl'.more \/ tl'.i = 0)
<1>1. tl \in TlType /\ tl.i \in Queues /\ tl.mask = {}
  BY DEF RxInv, RxTypeOK, TlType, MaskRead
<1>2. 0 \in Queues /\ (tl.i < MaxRxQueues - 1 => tl.i + 1 \in Queues)
  BY <1>1, RxAssumption DEF Queues
<1>3. CASE tl.i < MaxRxQueues - 1
  <2>1. tl' = [tl EXCEPT !.i = @ + 1, !.more = more]
    BY <1>3 DEF Advance
  <2> QED BY <1>1, <1>2, <1>3, <2>1 DEF TlType
<1>4. CASE ~ (tl.i < MaxRxQueues - 1) /\ more
  <2>1. tl' = [tl EXCEPT !.i = 0, !.more = FALSE]
    BY <1>4 DEF Advance
  <2> QED BY <1>1, <1>2, <2>1 DEF TlType
<1>5. CASE ~ (tl.i < MaxRxQueues - 1) /\ ~ more
  <2>1. tl' = [tl EXCEPT !.i = 0, !.more = FALSE, !.pc = "mask"]
    BY <1>5 DEF Advance
  <2> QED BY <1>1, <1>2, <1>5, <2>1 DEF TlType
<1> QED BY <1>3, <1>4, <1>5

LEMMA RxDmaInv ==
    ASSUME RxInv, NEW q \in Rings, RxDma(q)
    PROVE  RxInv'
<1>0. /\ RxTypeOK /\ RxRingsConsistent /\ NoStuckChannel /\ StillNoticed /\ MaskRead
      /\ q \in Queues /\ q \in dmaOn
  BY RingsAreQueues DEF RxInv, RxDma
<1>1. CASE /\ ring[q].hw \in ring[q].own
           /\ ring' = [ring EXCEPT ![q] = Filled(q, ring[q])]
           /\ done' = done \cup {q}
           /\ UNCHANGED <<dmaOn, noDesc>>
  <2>1. PICK f \in 0 .. RxSizes[q], m \in 0 .. RxSizes[q] :
             f + m + up[q] = RxSizes[q] /\ RingHas(q, ring[q], f, m)
    BY RingWitness
  <2>2. ring[q] \in RxRing /\ up[q] \in Nat /\ RxSizes[q] \in Nat
    BY RingWitness
  <2>3. /\ m > 0 /\ Filled(q, ring[q]) \in RxRing
        /\ RingHas(q, Filled(q, ring[q]), f + 1, m - 1)
    BY <1>1, <2>1, <2>2, FilledHas
  <2>4. /\ f + 1 \in 0 .. RxSizes[q] /\ m - 1 \in 0 .. RxSizes[q]
        /\ (f + 1) + (m - 1) + up[q] = RxSizes[q]
    BY <2>1, <2>2, <2>3
  <2>5. up' = [up EXCEPT ![q] = up[q]]
    BY <1>0 DEF RxDma, RxTypeOK
  <2>6. RxRingsConsistent' /\ ring' \in [Queues -> RxRing] /\ up' \in [Queues -> Nat]
    BY <1>1, <2>2, <2>3, <2>4, <2>5, OneRingStep
  <2>7. RxTypeOK'
    BY <1>0, <1>1, <2>6 DEF RxDma, RxTypeOK, linkVars
  <2>8. \A p \in Rings : p # q => ring'[p] = ring[p]
    BY <1>0, <1>1, RingsAreQueues DEF RxTypeOK
  <2>9. NoStuckChannel'
    BY <1>0, <1>1, <2>8 DEF NoStuckChannel, RxDma, linkVars
  <2>10. StillNoticed'
    BY <1>0, <1>1, <2>8 DEF StillNoticed, HeadFull, RxDma
  <2>11. MaskRead'
    BY <1>0 DEF MaskRead, RxDma
  <2> QED BY <2>6, <2>7, <2>9, <2>10, <2>11 DEF RxInv
<1>2. CASE /\ ring[q].hw \notin ring[q].own
           /\ noDesc' = noDesc \cup {q}
           /\ dmaOn' = dmaOn \ {q}
           /\ UNCHANGED <<ring, done>>
  <2>1. ring[q].own = {}
    BY <1>2, RingWitness, StoppedEmpty
  <2>2. RxRingsConsistent'
    BY <1>0, <1>2, RingsUntouched DEF RxDma
  <2>3. RxTypeOK'
    BY <1>0, <1>2 DEF RxDma, RxTypeOK, linkVars
  <2>4. NoStuckChannel'
    BY <1>0, <1>2, <2>1 DEF NoStuckChannel, RxDma, linkVars
  <2>5. StillNoticed'
    BY <1>0, <1>2 DEF StillNoticed, HeadFull, RxDma
  <2>6. MaskRead'
    BY <1>0 DEF MaskRead, RxDma
  <2> QED BY <2>2, <2>3, <2>4, <2>5, <2>6 DEF RxInv
<1> QED BY <1>1, <1>2 DEF RxDma

(* The interrupt handler, the tasklet outside its loop, the headers and the links *)
(* leave the rings alone.                                                         *)
LEMMA OtherInv ==
    ASSUME RxInv,
           \/ \E q \in Rings : RxIsr(q)
           \/ TaskletStart \/ TaskletReadMask \/ TaskletZeroMask \/ TaskletEnable
           \/ FreeHeader
           \/ \E d \in Devs : RxLinkDown(d) \/ \E ids \in RxVcids[d] : RxLinkUp(d, ids)
           \/ RxStart
    PROVE  RxInv'
<1>0. RxTypeOK /\ RxRingsConsistent /\ NoStuckChannel /\ StillNoticed /\ MaskRead
  BY DEF RxInv
<1>1. ASSUME NEW q \in Rings, RxIsr(q) PROVE RxInv'
  <2>1. RxTypeOK'
    BY <1>0, <1>1 DEF RxTypeOK, RxIsr, linkVars
  <2>2. NoStuckChannel'
    BY <1>0, <1>1 DEF NoStuckChannel, RxIsr, linkVars
  <2>3. StillNoticed'
    BY <1>1 DEF StillNoticed, RxIsr
  <2> QED BY <1>0, <1>1, <2>1, <2>2, <2>3, RingsUntouched DEF RxInv, RxIsr, MaskRead
<1>2. CASE TaskletStart
  <2>1. tl' = [pc |-> "scan", i |-> 0, more |-> FALSE, mask |-> {}] /\ 0 \in Queues
    BY <1>2, RxAssumption DEF TaskletStart, TlIdle, Queues
  <2>a. tl' \in TlType
    BY <2>1 DEF TlType
  <2>2. RxTypeOK'
    BY <1>0, <1>2, <2>a DEF RxTypeOK, TaskletStart, linkVars, hwVars, TlType
  <2>3. NoStuckChannel'
    BY <1>0, <1>2 DEF NoStuckChannel, TaskletStart, linkVars, hwVars
  <2>4. StillNoticed'
    BY <2>1, RingsAreQueues DEF StillNoticed, Queues
  <2> QED BY <1>0, <1>2, <2>1, <2>2, <2>3, <2>4, RingsUntouched
          DEF RxInv, TaskletStart, MaskRead
<1>3. CASE TaskletReadMask
  <2>1. RxTypeOK'
    BY <1>0, <1>3 DEF RxTypeOK, TaskletReadMask, linkVars, hwVars
  <2>2. tl'.pc = "zero"
    BY <1>0, <1>3 DEF RxTypeOK, TaskletReadMask
  <2>3. NoStuckChannel'
    BY <1>0, <1>3 DEF NoStuckChannel, TaskletReadMask, linkVars, hwVars
  <2>4. StillNoticed'
    BY <1>0, <1>3 DEF StillNoticed, HeadFull, TaskletReadMask, hwVars
  <2> QED BY <1>0, <1>3, <2>1, <2>2, <2>3, <2>4, RingsUntouched
          DEF RxInv, TaskletReadMask, MaskRead
<1>4. CASE TaskletZeroMask
  <2>1. RxTypeOK'
    BY <1>0, <1>4 DEF RxTypeOK, TaskletZeroMask, linkVars, hwVars
  <2>2. tl'.pc = "enable"
    BY <1>0, <1>4 DEF RxTypeOK, TaskletZeroMask
  <2>3. NoStuckChannel'
    BY <1>0, <1>4 DEF NoStuckChannel, TaskletZeroMask, linkVars, hwVars
  <2>4. StillNoticed'
    BY <1>0, <1>4 DEF StillNoticed, HeadFull, TaskletZeroMask, hwVars
  <2> QED BY <1>0, <1>4, <2>1, <2>2, <2>3, <2>4, RingsUntouched
          DEF RxInv, TaskletZeroMask, MaskRead
<1>5. CASE TaskletEnable
  <2>1. RxTypeOK'
    BY <1>0, <1>5, RxAssumption DEF RxTypeOK, TaskletEnable, linkVars, TlIdle, Queues
  <2>2. NoStuckChannel'
    BY <1>0, <1>5 DEF NoStuckChannel, TaskletEnable, linkVars
  <2>3. StillNoticed'
    BY <1>0, <1>5 DEF StillNoticed, HeadFull, TaskletEnable
  <2> QED BY <1>0, <1>5, <2>1, <2>2, <2>3, RingsUntouched
          DEF RxInv, TaskletEnable, MaskRead, TlIdle
<1>6. CASE FreeHeader
  <2>1. RxTypeOK'
    BY <1>0, <1>6 DEF RxTypeOK, FreeHeader, linkVars, hwVars
  <2>2. NoStuckChannel'
    BY <1>0, <1>6 DEF NoStuckChannel, FreeHeader, linkVars, hwVars
  <2>3. StillNoticed'
    BY <1>0, <1>6 DEF StillNoticed, HeadFull, FreeHeader, hwVars
  <2> QED BY <1>0, <1>6, <2>1, <2>2, <2>3, RingsUntouched DEF RxInv, FreeHeader, MaskRead
<1>7. ASSUME NEW d \in Devs, RxLinkDown(d) PROVE RxInv'
  <2>1. RxTypeOK'
    BY <1>0, <1>7 DEF RxTypeOK, RxLinkDown
  <2>2. NoStuckChannel'
    BY <1>0, <1>7 DEF NoStuckChannel, RxLinkDown
  <2>3. StillNoticed'
    BY <1>0, <1>7 DEF StillNoticed, HeadFull, RxLinkDown
  <2> QED BY <1>0, <1>7, <2>1, <2>2, <2>3, RingsUntouched DEF RxInv, RxLinkDown, MaskRead
<1>8. ASSUME NEW d \in Devs, NEW ids \in RxVcids[d], RxLinkUp(d, ids) PROVE RxInv'
  <2>1. RxTypeOK'
    BY <1>0, <1>8 DEF RxTypeOK, RxLinkUp, hwVars
  <2>2. NoStuckChannel'
    BY <1>0, <1>8 DEF NoStuckChannel, RxLinkUp, hwVars
  <2>3. StillNoticed'
    BY <1>0, <1>8 DEF StillNoticed, HeadFull, RxLinkUp, hwVars
  <2> QED BY <1>0, <1>8, <2>1, <2>2, <2>3, RingsUntouched DEF RxInv, RxLinkUp, MaskRead
<1>9. CASE RxStart
  <2>1. RxTypeOK'
    BY <1>0, <1>9 DEF RxTypeOK, RxStart
  <2>2. NoStuckChannel'
    BY <1>0, <1>9 DEF NoStuckChannel, RxStart
  <2>3. StillNoticed'
    BY <1>0, <1>9 DEF StillNoticed, HeadFull, RxStart
  <2> QED BY <1>0, <1>9, <2>1, <2>2, <2>3, RingsUntouched DEF RxInv, RxStart, MaskRead
<1> QED BY <1>1, <1>2, <1>3, <1>4, <1>5, <1>6, <1>7, <1>8, <1>9

(* A round of the tasklet that finds nothing at queue tl.i. *)
LEMMA ScanEmptyInv ==
    ASSUME RxInv, ScanEmpty
    PROVE  RxInv'
<1>0. /\ RxTypeOK /\ RxRingsConsistent /\ NoStuckChannel /\ StillNoticed /\ MaskRead
      /\ tl.pc = "scan" /\ ~ HeadFull(tl.i)
      /\ tl.more \in BOOLEAN /\ tl.i \in Queues /\ Advance(tl.more)
  BY DEF RxInv, RxTypeOK, ScanEmpty
<1>1. /\ tl' \in TlType /\ tl'.pc \in {"scan", "mask"} /\ tl'.mask = {}
      /\ tl.more => tl'.pc = "scan" /\ (tl'.more \/ tl'.i = 0)
  BY <1>0, AdvanceTypes
<1>2. RxTypeOK'
  BY <1>0, <1>1 DEF ScanEmpty, RxTypeOK, linkVars, hwVars, TlType
<1>3. RxRingsConsistent'
  BY <1>0, RingsUntouched DEF ScanEmpty
<1>4. NoStuckChannel'
  BY <1>0 DEF ScanEmpty, NoStuckChannel, linkVars, hwVars
<1>5. StillNoticed'
  <2> SUFFICES ASSUME NEW q \in Rings, HeadFull(q)'
               PROVE  (\/ sched \/ q \in done
                       \/ tl.pc = "scan" /\ (tl.more \/ tl.i <= q))'
    BY DEF StillNoticed
  <2>1. HeadFull(q) /\ sched' = sched /\ done' = done
    BY DEF HeadFull, ScanEmpty, hwVars
  <2>2. q # tl.i /\ q \in Queues
    BY <1>0, <2>1, RingsAreQueues
  <2>3. CASE tl.more
    BY <1>1, <2>2, <2>3 DEF Queues
  <2>4. CASE ~ tl.more /\ ~ sched /\ q \notin done
    <3>1. tl.i <= q
      BY <1>0, <2>1, <2>4 DEF StillNoticed
    <3>2. tl.i < MaxRxQueues - 1 /\ tl.i + 1 <= q
      BY <1>0, <2>2, <3>1, RxAssumption DEF Queues
    <3>3. tl' = [tl EXCEPT !.i = @ + 1, !.more = tl.more]
      BY <1>0, <3>2 DEF Advance
    <3>4. tl'.pc = "scan" /\ tl'.i = tl.i + 1
      BY <1>0, <3>3 DEF RxTypeOK
    <3> QED BY <3>2, <3>4
  <2> QED BY <2>1, <2>3, <2>4
<1>6. MaskRead'
  BY <1>1 DEF MaskRead
<1> QED BY <1>2, <1>3, <1>4, <1>5, <1>6 DEF RxInv

(* The tasklet hands the buffer at the head of queue tl.i to the stack. *)
LEMMA ScanPacketInv ==
    ASSUME RxInv, NEW mid \in MatchIds, ScanPacket(mid)
    PROVE  RxInv'
<1> DEFINE q == tl.i
<1>0. /\ RxTypeOK /\ NoStuckChannel /\ MaskRead
      /\ tl.pc = "scan" /\ HeadFull(q) /\ q \in Rings /\ q \in Queues
      /\ ring[q].head \in ring[q].buf \ ring[q].own /\ Advance(TRUE)
  BY RingsAreQueues DEF RxInv, ScanPacket, HeadFull
<1> HIDE DEF q
<1>1. /\ tl' \in TlType /\ tl'.pc = "scan" /\ tl'.mask = {}
      /\ tl'.more \/ tl'.i = 0
  BY <1>0, AdvanceTypes
<1>2. PICK f \in 0 .. RxSizes[q], m \in 0 .. RxSizes[q] :
           f + m + up[q] = RxSizes[q] /\ RingHas(q, ring[q], f, m)
  BY <1>0, RingWitness
<1>3. ring[q] \in RxRing /\ up[q] \in Nat /\ RxSizes[q] \in Nat
  BY <1>0, RingWitness
<1>4. f + m <= RxSizes[q]
  BY <1>2, <1>3
<1>5. /\ f > 0 /\ Taken(q, ring[q]) \in RxRing
      /\ RingHas(q, Taken(q, ring[q]), f - 1, m)
      /\ Taken(q, ring[q]).own = ring[q].own
  BY <1>0, <1>2, <1>3, <1>4, TakenHas
<1>6. /\ f - 1 \in 0 .. RxSizes[q] /\ up[q] + 1 \in Nat
      /\ (f - 1) + m + (up[q] + 1) = RxSizes[q]
  BY <1>2, <1>3, <1>5
<1>7. /\ ring' = [ring EXCEPT ![q] = Taken(q, ring[q])]
      /\ up' = [up EXCEPT ![q] = up[q] + 1]
  BY DEF ScanPacket, q
<1>8. RxRingsConsistent' /\ ring' \in [Queues -> RxRing] /\ up' \in [Queues -> Nat]
  BY <1>0, <1>5, <1>6, <1>7, OneRingStep
<1>9. RxTypeOK'
  <2>1. free' \in Nat /\ upHdrs' \in Nat
    BY <1>0 DEF ScanPacket, RxTypeOK
  <2> QED BY <1>0, <1>1, <1>8, <2>1 DEF ScanPacket, RxTypeOK, linkVars, hwVars, TlType
<1>10. NoStuckChannel'
  <2>1. \A p \in Rings : ring'[p].own = ring[p].own
    BY <1>0, <1>5, <1>7, RingsAreQueues DEF RxTypeOK
  <2> QED BY <1>0, <2>1 DEF ScanPacket, NoStuckChannel, linkVars, hwVars
<1>11. StillNoticed'
  BY <1>1, RingsAreQueues DEF StillNoticed, Queues
<1>12. MaskRead'
  BY <1>1 DEF MaskRead
<1> QED BY <1>8, <1>9, <1>10, <1>11, <1>12 DEF RxInv

(* The tasklet gives the buffer at the head of queue tl.i back to its ring. *)
LEMMA ScanReassignInv ==
    ASSUME RxInv, ScanReassign
    PROVE  RxInv'
<1> DEFINE q == tl.i
           t == Taken(q, ring[q])
<1>0. /\ RxTypeOK /\ NoStuckChannel /\ MaskRead
      /\ tl.pc = "scan" /\ HeadFull(q) /\ q \in Rings /\ q \in Queues
      /\ ring[q].head \in ring[q].buf \ ring[q].own
      /\ Advance(TRUE) /\ RestartDma(q)
      /\ ring' = [ring EXCEPT ![q] = Assigned(q, t)]
  BY RingsAreQueues DEF RxInv, ScanReassign, HeadFull
<1> HIDE DEF q
<1>1. /\ tl' \in TlType /\ tl'.pc = "scan" /\ tl'.mask = {}
      /\ tl'.more \/ tl'.i = 0
  BY <1>0, AdvanceTypes
<1>2. PICK f \in 0 .. RxSizes[q], m \in 0 .. RxSizes[q] :
           f + m + up[q] = RxSizes[q] /\ RingHas(q, ring[q], f, m)
  BY <1>0, RingWitness
<1>3. ring[q] \in RxRing /\ up[q] \in Nat /\ RxSizes[q] \in Nat
  BY <1>0, RingWitness
<1>4. f + m <= RxSizes[q]
  BY <1>2, <1>3
<1>5. f > 0 /\ t \in RxRing /\ RingHas(q, t, f - 1, m)
  BY <1>0, <1>2, <1>3, <1>4, TakenHas
<1> HIDE DEF t
<1>6. f - 1 \in 0 .. RxSizes[q] /\ (f - 1) + m < RxSizes[q]
  BY <1>2, <1>3, <1>5
<1>7. Assigned(q, t) \in RxRing /\ RingHas(q, Assigned(q, t), f - 1, m + 1)
  BY <1>0, <1>5, <1>6, AssignedHas
<1>8. m + 1 \in 0 .. RxSizes[q] /\ (f - 1) + (m + 1) + up[q] = RxSizes[q]
  BY <1>2, <1>3, <1>5
<1>9. up' = [up EXCEPT ![q] = up[q]]
  BY <1>0 DEF ScanReassign, RxTypeOK
<1>10. RxRingsConsistent' /\ ring' \in [Queues -> RxRing] /\ up' \in [Queues -> Nat]
  BY <1>0, <1>3, <1>6, <1>7, <1>8, <1>9, OneRingStep
<1>11. noDesc' \subseteq Rings /\ dmaOn' \subseteq Rings
  BY <1>0 DEF RxTypeOK, RestartDma
<1>12. RxTypeOK'
  BY <1>0, <1>1, <1>10, <1>11 DEF ScanReassign, RxTypeOK, linkVars, TlType
<1>13. \A p \in Rings : p # q => ring'[p] = ring[p]
  BY <1>0, RingsAreQueues DEF RxTypeOK
<1>14. NoStuckChannel'
  <2> SUFFICES ASSUME running', NEW p \in Rings, p \notin dmaOn'
               PROVE  p \in noDesc' /\ ring'[p].own = {}
    BY DEF NoStuckChannel
  <2>1. running /\ p \notin dmaOn
    BY <1>0 DEF ScanReassign, linkVars, RestartDma
  <2>2. p \in noDesc
    BY <1>0, <2>1 DEF NoStuckChannel
  <2>3. p # q
    BY <1>0, <2>2 DEF RestartDma
  <2> QED BY <1>0, <1>13, <2>1, <2>2, <2>3 DEF NoStuckChannel, RestartDma
<1>15. StillNoticed'
  BY <1>1, RingsAreQueues DEF StillNoticed, Queues
<1>16. MaskRead'
  BY <1>1 DEF MaskRead
<1> QED BY <1>10, <1>12, <1>14, <1>15, <1>16 DEF RxInv

(* The stack returns a data buffer of queue q. *)
LEMMA FreeDataInv ==
    ASSUME RxInv, NEW q \in Rings, FreeData(q)
    PROVE  RxInv'
<1>0. /\ RxTypeOK /\ NoStuckChannel /\ StillNoticed /\ MaskRead
      /\ tl.pc = "idle" /\ q \in Queues /\ up[q] > 0 /\ RestartDma(q)
      /\ ring' = [ring EXCEPT ![q] = Assigned(q, ring[q])]
      /\ up' = [up EXCEPT ![q] = up[q] - 1]
  BY RingsAreQueues DEF RxInv, FreeData
<1>2. PICK f \in 0 .. RxSizes[q], m \in 0 .. RxSizes[q] :
           f + m + up[q] = RxSizes[q] /\ RingHas(q, ring[q], f, m)
  BY <1>0, RingWitness
<1>3. ring[q] \in RxRing /\ up[q] \in Nat /\ RxSizes[q] \in Nat
  BY <1>0, RingWitness
<1>4. f + m < RxSizes[q] /\ m + 1 \in 0 .. RxSizes[q] /\ up[q] - 1 \in Nat
      /\ f + (m + 1) + (up[q] - 1) = RxSizes[q]
  BY <1>0, <1>2, <1>3
<1>5. /\ ring[q].tail \notin ring[q].buf
      /\ Assigned(q, ring[q]) \in RxRing
      /\ RingHas(q, Assigned(q, ring[q]), f, m + 1)
  BY <1>2, <1>3, <1>4, AssignedHas
<1>6. RxRingsConsistent' /\ ring' \in [Queues -> RxRing] /\ up' \in [Queues -> Nat]
  BY <1>0, <1>4, <1>5, OneRingStep
<1>7. noDesc' \subseteq Rings /\ dmaOn' \subseteq Rings
  BY <1>0 DEF RxTypeOK, RestartDma
<1>8. RxTypeOK'
  BY <1>0, <1>6, <1>7 DEF FreeData, RxTypeOK, linkVars
<1>9. \A p \in Rings : p # q => ring'[p] = ring[p]
  BY <1>0, RingsAreQueues DEF RxTypeOK
<1>10. NoStuckChannel'
  <2> SUFFICES ASSUME running', NEW p \in Rings, p \notin dmaOn'
               PROVE  p \in noDesc' /\ ring'[p].own = {}
    BY DEF NoStuckChannel
  <2>1. running /\ p \notin dmaOn
    BY <1>0 DEF FreeData, linkVars, RestartDma
  <2>2. p \in noDesc
    BY <1>0, <2>1 DEF NoStuckChannel
  <2>3. p # q
    BY <1>0, <2>2 DEF RestartDma
  <2> QED BY <1>0, <1>9, <2>1, <2>2, <2>3 DEF NoStuckChannel, RestartDma
<1>11. StillNoticed'
  <2> SUFFICES ASSUME NEW p \in Rings, HeadFull(p)' PROVE sched' \/ p \in done'
    BY DEF StillNoticed
  <2>1. HeadFull(p)
    <3>1. CASE p # q
      BY <1>9, <3>1 DEF HeadFull
    <3>2. CASE p = q
      <4> DEFINE t == Assigned(q, ring[q])
      <4>1. t = [ring[q] EXCEPT !.buf = @ \cup {ring[q].tail},
                                !.own = @ \cup {ring[q].tail},
                                !.tail = NextRxBd(q, @)]
        BY <1>5 DEF Assigned
      <4>2. ring'[q] = t
        BY <1>0 DEF RxTypeOK
      <4> HIDE DEF t
      <4>3. /\ t.buf = ring[q].buf \cup {ring[q].tail}
            /\ t.own = ring[q].own \cup {ring[q].tail} /\ t.head = ring[q].head
        BY <1>3, <4>1 DEF RxRing
      <4> QED BY <3>2, <4>2, <4>3 DEF HeadFull
    <3> QED BY <3>1, <3>2
  <2> QED BY <1>0, <2>1 DEF StillNoticed, FreeData
<1>12. MaskRead'
  BY <1>0 DEF MaskRead, FreeData
<1> QED BY <1>6, <1>8, <1>10, <1>11, <1>12 DEF RxInv

LEMMA RxStutterInv == RxInv /\ UNCHANGED rxVars => RxInv'
<1> SUFFICES ASSUME RxInv, UNCHANGED rxVars PROVE RxInv'
  OBVIOUS
<1>1. /\ RxTypeOK /\ RxRingsConsistent /\ NoStuckChannel /\ StillNoticed /\ MaskRead
      /\ UNCHANGED <<ring, up, free, upHdrs, byMatch, links, running, dmaOn, noDesc,
                     done, irqOn, intMask, sched, tl>>
  BY DEF RxInv, rxVars, linkVars, hwVars
<1>2. RxTypeOK'
  BY <1>1 DEF RxTypeOK
<1>3. NoStuckChannel' /\ MaskRead'
  BY <1>1 DEF NoStuckChannel, MaskRead
<1>4. StillNoticed'
  BY <1>1 DEF StillNoticed, HeadFull
<1> QED BY <1>1, <1>2, <1>3, <1>4, RingsUntouched DEF RxInv

LEMMA RxNextInv == RxInv /\ [RxNext]_rxVars => RxInv'
BY RxDmaInv, OtherInv, ScanEmptyInv, ScanPacketInv, ScanReassignInv, FreeDataInv,
   RxStutterInv DEF RxNext, Tasklet

(* ------------------------------------------------------------------------------ *)
(* Theorems *)

(* The inductive invariant of the receive side holds in every reachable state. *)
THEOREM RxInvariant == RxSpec => []RxInv
BY RxInitInv, RxNextInv, PTL DEF RxSpec

(* Type correctness: the tasklet's loop counter never leaves the queues and no    *)
(* counter of headers or buffers goes below zero.                                 *)
THEOREM RxTypeCorrect == RxSpec => []RxTypeOK
<1>1. RxInv => RxTypeOK
  BY DEF RxInv
<1> QED BY <1>1, RxInvariant, PTL

(* Every buffer of a ring is in one of its descriptors or with the stack, and the *)
(* descriptors without a buffer are the ones from the tail to the head.           *)
THEOREM RxRingsAlwaysConsistent == RxSpec => []RxRingsConsistent
<1>1. RxInv => RxRingsConsistent
  BY DEF RxInv
<1> QED BY <1>1, RxInvariant, PTL

(* AssignRxBuffer's error branch, "This should not happen", is unreachable: each  *)
(* of its callers finds the tail descriptor without a buffer.                     *)
THEOREM PlaceAlwaysFound == RxSpec => []PlaceForFreeBuffer
<1>1. RxInv => PlaceForFreeBuffer
  <2> SUFFICES ASSUME RxInv, NEW q \in Rings
               PROVE  /\ up[q] > 0 => ring[q].tail \notin ring[q].buf
                      /\ HeadFull(q) =>
                            LET r == Taken(q, ring[q]) IN r.tail \notin r.buf
    BY DEF PlaceForFreeBuffer
  <2>1. PICK f \in 0 .. RxSizes[q], m \in 0 .. RxSizes[q] :
             f + m + up[q] = RxSizes[q] /\ RingHas(q, ring[q], f, m)
    BY RingWitness
  <2>2. ring[q] \in RxRing /\ up[q] \in Nat /\ RxSizes[q] \in Nat
    BY RingWitness
  <2>3. ASSUME up[q] > 0 PROVE ring[q].tail \notin ring[q].buf
    <3>1. f + m < RxSizes[q]
      BY <2>1, <2>2, <2>3
    <3> QED BY <2>1, <2>2, <3>1, AssignedHas
  <2>4. ASSUME HeadFull(q) PROVE Taken(q, ring[q]).tail \notin Taken(q, ring[q]).buf
    <3>1. f + m <= RxSizes[q] /\ ring[q].head \in ring[q].buf \ ring[q].own
      BY <2>1, <2>2, <2>4 DEF HeadFull
    <3>2. /\ f > 0 /\ Taken(q, ring[q]) \in RxRing
          /\ RingHas(q, Taken(q, ring[q]), f - 1, m)
      BY <2>1, <2>2, <3>1, TakenHas
    <3>3. f - 1 \in 0 .. RxSizes[q] /\ (f - 1) + m < RxSizes[q]
      BY <2>1, <2>2, <3>2
    <3> QED BY <2>1, <3>2, <3>3, AssignedHas
  <2> QED BY <2>3, <2>4
<1> QED BY <1>1, RxInvariant, PTL

(* A channel that is shut down while the driver runs is waiting for a buffer:     *)
(* DMA_NO_DESC is latched and it owns no descriptor.                              *)
THEOREM NoChannelStuck == RxSpec => []NoStuckChannel
<1>1. RxInv => NoStuckChannel
  BY DEF RxInv
<1> QED BY <1>1, RxInvariant, PTL

(* A received buffer is seen by the tasklet or has its interrupt latched. *)
THEOREM ReceivedAlwaysNoticed == RxSpec => []ReceivedIsNoticed
<1>1. RxInv => ReceivedIsNoticed
  BY DEF RxInv, StillNoticed, ReceivedIsNoticed
<1> QED BY <1>1, RxInvariant, PTL

(* Only the zeroing of ulIntEnableMask, after its value was read, can leave a     *)
(* receive interrupt masked for good.                                             *)
THEOREM OnlyZeroingLosesIrq == RxSpec => IrqLostOnlyByZeroing
<1>1. RxInv /\ [RxNext]_rxVars =>
        [\A q \in Rings : (IrqLost(q)' /\ ~ IrqLost(q)) => tl.pc = "zero"]_rxVars
  <2> SUFFICES ASSUME RxInv, RxNext, NEW q \in Rings, IrqLost(q)', ~ IrqLost(q),
                      tl.pc # "zero"
               PROVE  FALSE
    OBVIOUS
  <2>1. RxTypeOK /\ MaskRead
    BY DEF RxInv
  <2>2. ASSUME \E p \in Rings : RxDma(p) \/ RxIsr(p) \/ FreeData(p)
        PROVE  FALSE
    BY <2>2 DEF IrqLost, RxDma, RxIsr, FreeData, linkVars
  <2>3. ASSUME FreeHeader PROVE FALSE
    BY <2>3 DEF IrqLost, FreeHeader, linkVars, hwVars
  <2>4. ASSUME ScanEmpty \/ ScanReassign \/ \E m \in MatchIds : ScanPacket(m)
        PROVE  FALSE
    <3>1. /\ UNCHANGED <<running, irqOn, intMask>>
          /\ tl.pc = "scan"
      BY <2>4 DEF ScanEmpty, ScanReassign, ScanPacket, linkVars, hwVars
    <3>2. tl.mask = {}
      BY <2>1, <3>1 DEF MaskRead
    <3> QED BY <3>1, <3>2 DEF IrqLost
  <2>5. ASSUME TaskletStart PROVE FALSE
    BY <2>1, <2>5 DEF IrqLost, TaskletStart, MaskRead, linkVars, hwVars
  <2>6. ASSUME TaskletReadMask PROVE FALSE
    BY <2>1, <2>6 DEF IrqLost, TaskletReadMask, MaskRead, linkVars, hwVars
  <2>7. ASSUME TaskletZeroMask PROVE FALSE
    BY <2>7 DEF TaskletZeroMask
  <2>8. ASSUME TaskletEnable PROVE FALSE
    BY <2>8 DEF IrqLost, TaskletEnable, linkVars
  <2>9. ASSUME NEW d \in Devs,
               RxLinkDown(d) \/ \E ids \in RxVcids[d] : RxLinkUp(d, ids)
        PROVE  FALSE
    BY <2>9 DEF IrqLost, RxLinkDown, RxLinkUp, hwVars
  <2>10. ASSUME RxStart PROVE FALSE
    BY <2>10 DEF IrqLost, RxStart
  <2> QED BY <2>2, <2>3, <2>4, <2>5, <2>6, <2>7, <2>8, <2>9, <2>10
          DEF RxNext, Tasklet
<1> QED BY <1>1, RxInvariant, PTL DEF RxSpec, IrqLostOnlyByZeroing

(* ------------------------------------------------------------------------------ *)
(* Headers: every one is on the free list or with the stack, and a queue without  *)
(* a ring has no buffers.                                                         *)
HeaderInv ==
    /\ free + upHdrs = RxTotal
    /\ \A q \in Queues \ Rings : up[q] = 0

LEMMA HeaderInitInv == RxInit => HeaderInv
<1> SUFFICES ASSUME RxInit PROVE HeaderInv
  OBVIOUS
<1>1. free + upHdrs = RxTotal
  BY RxTotalIsNat DEF RxInit
<1>2. \A q \in Queues \ Rings : up[q] = 0
  BY DEF RxInit
<1> QED BY <1>1, <1>2 DEF HeaderInv

LEMMA HeaderNextInv == RxInv /\ HeaderInv /\ [RxNext]_rxVars => HeaderInv'
<1> SUFFICES ASSUME RxInv, HeaderInv, [RxNext]_rxVars PROVE HeaderInv'
  OBVIOUS
<1>0. /\ free \in Nat /\ upHdrs \in Nat /\ up \in [Queues -> Nat]
      /\ free + upHdrs = RxTotal /\ \A q \in Queues \ Rings : up[q] = 0
  BY DEF RxInv, RxTypeOK, HeaderInv
<1>1. CASE UNCHANGED <<free, upHdrs, up>>
  BY <1>1 DEF HeaderInv
<1>2. ASSUME NEW q \in Rings, FreeData(q) PROVE HeaderInv'
  <2>1. up' = [up EXCEPT ![q] = @ - 1] /\ free' = free /\ upHdrs' = upHdrs
    BY <1>2 DEF FreeData
  <2>2. \A p \in Queues \ Rings : up'[p] = 0
    BY <1>0, <2>1
  <2> QED BY <1>0, <2>1, <2>2 DEF HeaderInv
<1>3. CASE FreeHeader
  <2>1. up' = up /\ free' = free + 1 /\ upHdrs' = upHdrs - 1
    BY <1>3 DEF FreeHeader
  <2>2. free' + upHdrs' = free + upHdrs
    BY <1>0, <2>1
  <2> QED BY <1>0, <2>1, <2>2 DEF HeaderInv
<1>4. ASSUME NEW m \in MatchIds, ScanPacket(m) PROVE HeaderInv'
  <2>1. /\ up' = [up EXCEPT ![tl.i] = @ + 1] /\ free' = free - 1 /\ upHdrs' = upHdrs + 1
        /\ tl.i \in Rings
    BY <1>4 DEF ScanPacket, HeadFull
  <2>2. free' + upHdrs' = free + upHdrs
    BY <1>0, <2>1
  <2>3. \A p \in Queues \ Rings : up'[p] = 0
    BY <1>0, <2>1
  <2> QED BY <1>0, <2>2, <2>3 DEF HeaderInv
<1>5. CASE UNCHANGED rxVars
  BY <1>1, <1>5 DEF rxVars
<1>6. ASSUME NEW q \in Rings, RxDma(q) \/ RxIsr(q) PROVE HeaderInv'
  BY <1>1, <1>6 DEF RxDma, RxIsr
<1>7. CASE TaskletStart \/ ScanEmpty \/ ScanReassign \/ TaskletReadMask
           \/ TaskletZeroMask \/ TaskletEnable
  BY <1>1, <1>7 DEF TaskletStart, ScanEmpty, ScanReassign, TaskletReadMask,
                    TaskletZeroMask, TaskletEnable
<1>8. ASSUME NEW d \in Devs, RxLinkDown(d) \/ \E ids \in RxVcids[d] : RxLinkUp(d, ids)
      PROVE  HeaderInv'
  BY <1>1, <1>8 DEF RxLinkDown, RxLinkUp
<1>9. CASE RxStart
  BY <1>1, <1>9 DEF RxStart
<1> QED BY <1>2, <1>3, <1>4, <1>5, <1>6, <1>7, <1>8, <1>9 DEF RxNext, Tasklet

(* A received buffer is one the stack does not hold: with an empty list it has a  *)
(* header for every buffer there is, which is more than it holds of buffers.      *)
LEMMA EmptyListMeansHeldHeaders ==
    ASSUME RxInv, HeaderInv
    PROVE  HeadersLast
<1> SUFFICES ASSUME NEW q \in Rings, HeadFull(q), free = 0
             PROVE  upHdrs > FoldFunction(+, 0, up)
  BY DEF HeadersLast
<1>1. /\ up \in [Queues -> Nat] /\ RxSizes \in [Queues -> Nat] /\ upHdrs \in Nat
      /\ q \in Queues
  BY RxAssumption, RingsAreQueues DEF RxInv, RxTypeOK
<1>2. IsFiniteSet(Queues)
  BY RxAssumption, FS_Interval DEF Queues
<1>3. \A p \in Queues : up[p] <= RxSizes[p]
  <2> TAKE p \in Queues
  <2>1. CASE p \in Rings
    <3>1. PICK f \in 0 .. RxSizes[p], m \in 0 .. RxSizes[p] : f + m + up[p] = RxSizes[p]
      BY <2>1, RingWitness
    <3> QED BY <1>1, <3>1
  <2>2. CASE p \notin Rings
    BY <1>1, <2>2 DEF HeaderInv
  <2> QED BY <2>1, <2>2
<1>4. up[q] < RxSizes[q]
  <2>1. PICK f \in 0 .. RxSizes[q], m \in 0 .. RxSizes[q] :
             f + m + up[q] = RxSizes[q] /\ RingHas(q, ring[q], f, m)
    BY RingWitness
  <2>2. ring[q] \in RxRing /\ f + m <= RxSizes[q] /\ up[q] \in Nat /\ RxSizes[q] \in Nat
    BY <1>1, <2>1, RingWitness
  <2>3. ring[q].head \in ring[q].buf \ ring[q].own
    BY DEF HeadFull
  <2>4. f > 0
    BY <2>1, <2>2, <2>3, TakenHas
  <2> QED BY <2>1, <2>2, <2>4
<1>5. FoldFunction(+, 0, up) < FoldFunction(+, 0, RxSizes)
  BY <1>1, <1>2, <1>3, <1>4, FoldsCompare
<1>6. FoldFunction(+, 0, up) \in Nat
  BY <1>1, <1>2, <1>3, FoldsCompare
<1>7. upHdrs = RxTotal
  BY <1>1 DEF HeaderInv
<1>8. FoldFunction(+, 0, up) < upHdrs
  BY <1>5, <1>7, Zenon DEF RxTotal
<1> DEFINE sum == FoldFunction(+, 0, up)
<1>9. sum \in Nat /\ sum < upHdrs
  BY <1>6, <1>8, Zenon
<1> HIDE DEF sum
<1>10. upHdrs > sum
  BY <1>1, <1>9
<1> QED BY <1>10, Zenon DEF sum

(* HeadersLast: for any queues and any ring sizes, the list of headers that the   *)
(* tasklet takes from unchecked is empty at a received packet only when the stack *)
(* holds more headers than buffers.                                               *)
THEOREM HeadersAlwaysLast == RxSpec => []HeadersLast
<1>1. RxInit => RxInv /\ HeaderInv
  BY RxInitInv, HeaderInitInv
<1>2. RxInv /\ HeaderInv /\ [RxNext]_rxVars => (RxInv /\ HeaderInv)'
  BY RxNextInv, HeaderNextInv
<1>3. RxInv /\ HeaderInv => HeadersLast
  BY EmptyListMeansHeldHeaders
<1> QED BY <1>1, <1>2, <1>3, PTL DEF RxSpec
==================================================================================
