------------------------------ MODULE ScratchPadProofs ------------------------------
(* The scratch pad implements a map from names to data, and both of its loops see   *)
(* the same tokens, for every length of the pad and all data, also data that look   *)
(* like tokens.                                                                     *)
EXTENDS ScratchPad, WellFoundedInduction, NaturalsInduction, TLAPS

-------------------------------------------------------------------------------------
(* Numbers *)

(* A set of numbers has a least one. *)
LEMMA LeastNumberOf ==
    ASSUME NEW T \in SUBSET Nat, T # {}
    PROVE  \E x \in T : \A y \in T : x <= y
<1>1. PICK R : R = OpToRel(<, Nat)
  BY Zenon
<1>2. \A y, x \in Nat : y < x => <<y, x>> \in R
  BY <1>1, Zenon DEF OpToRel
<1>3. IsWellFoundedOn(R, Nat)
  BY <1>1, NatLessThanWellFounded, Zenon
<1>4. PICK x \in T : \A y \in T : <<y, x>> \notin R
  BY <1>3, WFMin
<1>5. ASSUME NEW y \in T PROVE x <= y
  <2>1. x \in Nat /\ y \in Nat /\ ~(y < x)
    BY <1>2, <1>4
  <2> QED BY <2>1
<1> QED BY <1>5

(* Induction, for a set of numbers. *)
LEMMA EveryNumber ==
    ASSUME NEW S, 0 \in S, \A n \in Nat : n \in S => n + 1 \in S
    PROVE  Nat \subseteq S
<1> DEFINE T == Nat \ S
<1> SUFFICES ASSUME T # {} PROVE FALSE
  OBVIOUS
<1>1. PICK x \in T : \A y \in T : x <= y
  BY LeastNumberOf
<1>2. x \in Nat /\ x # 0 /\ x \notin S
  BY <1>1
<1>3. x - 1 \in Nat /\ (x - 1) + 1 = x
  BY <1>2
<1>4. x - 1 \notin T
  BY <1>1, <1>3
<1> QED BY <1>2, <1>3, <1>4

(* With a header of two units the alignment is one unit or two. *)
LEMMA AlignValues == Align \in {1, 2}
<1>1. Align \in Nat /\ Align # 0 /\ 2 % Align = 0
  BY PadAssumption DEF HeaderLen
<1>2. CASE Align > 2
  <2>1. 2 % Align = 2
    BY <1>1, <1>2
  <2> QED BY <1>1, <2>1
<1> QED BY <1>1, <1>2

LEMMA PadLenFacts == PadLen \in Nat /\ PadLen > 4 /\ PadLen % Align = 0
BY PadAssumption DEF HeaderLen, TokenLen

Aligned(x) == x % Align = 0

(* Rounding up: the least aligned number that is no smaller. *)
LEMMA RoundedFacts ==
    ASSUME NEW n \in Nat
    PROVE  /\ Rounded(n) \in Nat /\ n <= Rounded(n) /\ Aligned(Rounded(n))
           /\ \A x \in Nat : Aligned(x) /\ n <= x => Rounded(n) <= x
<1>1. CASE Align = 1
  <2>1. Rounded(n) = n
    BY <1>1 DEF Rounded
  <2> QED BY <1>1, <2>1 DEF Aligned
<1>2. CASE Align = 2
  <2>1. Rounded(n) = ((n + 1) \div 2) * 2
    BY <1>2 DEF Rounded
  <2> QED BY <1>2, <2>1 DEF Aligned
<1> QED BY <1>1, <1>2, AlignValues

LEMMA AlignedSum ==
    ASSUME NEW x \in Nat, NEW y \in Nat, Aligned(x), Aligned(y)
    PROVE  Aligned(x + y) /\ Aligned(x + 2 + y) /\ Aligned(2)
<1>1. CASE Align = 1
  BY <1>1 DEF Aligned
<1>2. CASE Align = 2
  BY <1>2 DEF Aligned
<1> QED BY <1>1, <1>2, AlignValues

LEMMA AlignedDifference ==
    ASSUME NEW x \in Nat, NEW y \in Nat, x >= y, Aligned(x), Aligned(y)
    PROVE  Aligned(x - y)
<1>1. CASE Align = 1
  BY <1>1 DEF Aligned
<1>2. CASE Align = 2
  BY <1>2 DEF Aligned
<1> QED BY <1>1, <1>2, AlignValues

(* A length that a loop accepts lies in the pad, and the way on leads no further  *)
(* than the loops may look.                                                       *)
LEMMA SkipFacts ==
    ASSUME NEW m, NEW i \in Nat, ValidLen(At(m, i + 1))
    PROVE  /\ i + 1 \in Offsets /\ At(m, i + 1) = m[i + 1] /\ m[i + 1] \in 1 .. PadLen - 1
           /\ Rounded(m[i + 1]) \in 0 .. PadLen
           /\ Skip(m, i) = 2 + Rounded(m[i + 1])
           /\ i + Skip(m, i) \in Places /\ i + Skip(m, i) > i
<1>1. i + 1 \in Offsets /\ At(m, i + 1) = m[i + 1]
  BY UnitsApart DEF At, ValidLen
<1>2. m[i + 1] \in 1 .. PadLen - 1
  BY <1>1 DEF ValidLen
<1>3. Rounded(m[i + 1]) \in Nat /\ Rounded(m[i + 1]) <= PadLen
  BY <1>2, RoundedFacts, PadLenFacts DEF Aligned
<1>4. Skip(m, i) = 2 + Rounded(m[i + 1])
  BY <1>1 DEF Skip, TokenLen
<1>5. i + 1 < PadLen
  BY <1>1, PadLenFacts DEF Offsets
<1> HIDE DEF Rounded
<1> QED BY <1>1, <1>2, <1>3, <1>4, <1>5, PadLenFacts DEF Places

-------------------------------------------------------------------------------------
(* The loops *)

(* w is the first loop of kerSysScratchPadSet from every place. *)
TokenLoop(w, m) ==
    w = [i \in Places |-> IF TokenAt(m, i) THEN {i} \cup w[i + Skip(m, i)] ELSE {}]

LEMMA TokenLoopExists ==
    ASSUME NEW m
    PROVE  \E w : TokenLoop(w, m)
<1> DEFINE Val(g, i) == IF TokenAt(m, i) THEN {i} \cup g[i + Skip(m, i)] ELSE {}
           From(g, n) == \A i \in Places : i + n >= 2 * PadLen => g[i] = Val(g, i)
           S == {n \in Nat : \E g : From(g, n)}
<1>1. \A i \in Places : TokenAt(m, i) =>
          i + Skip(m, i) \in Places /\ i + Skip(m, i) > i
  BY SkipFacts DEF TokenAt, Places
<1>2. 0 \in S
  <2> DEFINE g == [i \in Places |-> {}]
  <2>1. From(g, 0)
    <3> SUFFICES ASSUME NEW i \in Places, i >= 2 * PadLen PROVE g[i] = Val(g, i)
      BY PadLenFacts DEF Places
    <3>1. ~ TokenAt(m, i)
      BY PadLenFacts DEF TokenAt, Places
    <3> QED BY <3>1
  <2> QED BY <2>1
<1>3. ASSUME NEW n \in Nat, n \in S PROVE n + 1 \in S
  <2>1. PICK g : From(g, n)
    BY <1>3
  <2> DEFINE h == [i \in Places |-> Val(g, i)]
  <2>2. ASSUME NEW i \in Places, i + n >= 2 * PadLen PROVE h[i] = g[i]
    BY <2>1, <2>2
  <2>3. From(h, n + 1)
    <3> SUFFICES ASSUME NEW i \in Places, i + (n + 1) >= 2 * PadLen PROVE h[i] = Val(h, i)
      OBVIOUS
    <3>1. CASE ~ TokenAt(m, i)
      BY <3>1
    <3>2. CASE TokenAt(m, i)
      <4> DEFINE j == i + Skip(m, i)
      <4>1. j \in Places /\ j > i
        BY <1>1, <3>2
      <4> HIDE DEF j
      <4>2. j + n >= 2 * PadLen
        BY <4>1, PadLenFacts DEF Places
      <4>3. h[j] = g[j]
        BY <2>2, <4>1, <4>2
      <4>4. h[i] = {i} \cup g[j]
        BY <3>2 DEF j
      <4> HIDE DEF h
      <4> QED BY <3>2, <4>3, <4>4 DEF j
    <3> QED BY <3>1, <3>2
  <2> HIDE DEF From, h
  <2> QED BY <2>3
<1>4. 2 * PadLen \in S
  <2> HIDE DEF S
  <2>1. Nat \subseteq S
    BY <1>2, <1>3, EveryNumber
  <2> QED BY <2>1, PadLenFacts
<1>5. PICK g : From(g, 2 * PadLen)
  BY <1>4
<1> DEFINE h == [i \in Places |-> g[i]]
<1>6. ASSUME NEW i \in Places PROVE h[i] = Val(h, i)
  <2>1. i + 2 * PadLen >= 2 * PadLen
    BY PadLenFacts DEF Places
  <2>2. h[i] = Val(g, i)
    BY <1>5, <2>1
  <2>3. TokenAt(m, i) => h[i + Skip(m, i)] = g[i + Skip(m, i)]
    BY <1>1
  <2> HIDE DEF h
  <2> QED BY <2>2, <2>3
<1>7. h = [i \in Places |-> Val(h, i)]
  <2>1. h = [i \in Places |-> h[i]]
    OBVIOUS
  <2> HIDE DEF h
  <2> QED BY <1>6, <2>1
<1> QED BY <1>7 DEF TokenLoop

LEMMA TokensFromLoop ==
    ASSUME NEW m
    PROVE  \E w : TokenLoop(w, m) /\ TokensFrom(m) = w[HeaderLen]
<1> DEFINE w == CHOOSE w : w = [i \in Places |->
                    IF TokenAt(m, i) THEN {i} \cup w[i + Skip(m, i)] ELSE {}]
<1>1. TokensFrom(m) = w[HeaderLen]
  BY DEF TokensFrom
<1>2. TokenLoop(w, m)
  <2>1. PICK k : TokenLoop(k, m)
    BY TokenLoopExists
  <2>2. k = [i \in Places |-> IF TokenAt(m, i) THEN {i} \cup k[i + Skip(m, i)] ELSE {}]
    BY <2>1 DEF TokenLoop
  <2>3. w = [i \in Places |-> IF TokenAt(m, i) THEN {i} \cup w[i + Skip(m, i)] ELSE {}]
    BY <2>2, Zenon
  <2> HIDE DEF w
  <2> QED BY <2>3 DEF TokenLoop
<1> QED BY <1>1, <1>2

-------------------------------------------------------------------------------------
(* A pad with its tokens *)

(* No token begins at e and nothing follows but blank flash, except for the name   *)
(* and the length 0 that a set of nothing leaves there.                            *)
CleanFrom(m, e) ==
    /\ ~ ValidLen(At(m, e + 1))
    /\ \A i \in e + 2 .. PadLen - 1 : m[i] \in {Zero, Erased}

(* The tokens of m begin at ord[1] .. ord[n] and end at ord[n + 1]. *)
After(m, at) == at + 2 + Rounded(m[at + 1])
Layout(m, n, ord) ==
    /\ n \in Nat
    /\ ord \in [1 .. n + 1 -> 2 .. PadLen]
    /\ ord[1] = 2
    /\ \A k \in 1 .. n + 1 : Aligned(ord[k])
    /\ \A k \in 1 .. n : /\ m[ord[k]] \in Tokens
                         /\ m[ord[k] + 1] \in 1 .. MaxBuf - 1
                         /\ ord[k + 1] = After(m, ord[k])
    /\ \A j, k \in 1 .. n + 1 : j < k => After(m, ord[j]) <= ord[k]
    /\ \A j, k \in 1 .. n : m[ord[j]] = m[ord[k]] => j = k
    /\ CleanFrom(m, ord[n + 1])

LEMMA MaxBufFacts == MaxBuf = PadLen - 4
BY PadLenFacts DEF MaxBuf, HeaderLen, TokenLen

(* A token of a layout is one for both loops. *)
LEMMA TokenOfLayout ==
    ASSUME NEW m, NEW n, NEW ord, Layout(m, n, ord), NEW k \in 1 .. n
    PROVE  /\ ord[k] \in 2 .. PadLen - 3 /\ k + 1 \in 1 .. n + 1 /\ k \in 1 .. n + 1
           /\ ord[k] \in Offsets /\ ord[k] + 1 \in Offsets /\ ord[k] \in Places
           /\ m[ord[k] + 1] \in 1 .. PadLen - 5
           /\ At(m, ord[k]) = m[ord[k]] /\ At(m, ord[k] + 1) = m[ord[k] + 1]
           /\ ValidLen(At(m, ord[k] + 1)) /\ TokenAt(m, ord[k])
           /\ Rounded(m[ord[k] + 1]) \in Nat /\ m[ord[k] + 1] <= Rounded(m[ord[k] + 1])
           /\ Skip(m, ord[k]) = 2 + Rounded(m[ord[k] + 1])
           /\ ord[k + 1] = ord[k] + Skip(m, ord[k])
           /\ ord[k + 1] = ord[k] + 2 + Rounded(m[ord[k] + 1])
           /\ ord[k + 1] \in 2 .. PadLen
<1>1. /\ n \in Nat /\ k + 1 \in 1 .. n + 1 /\ k \in 1 .. n + 1
      /\ m[ord[k]] \in Tokens /\ m[ord[k] + 1] \in 1 .. MaxBuf - 1
      /\ ord[k + 1] = ord[k] + 2 + Rounded(m[ord[k] + 1])
  BY DEF Layout, After
<1>2. ord[k] \in 2 .. PadLen /\ ord[k + 1] \in 2 .. PadLen
  BY <1>1 DEF Layout
<1>3. m[ord[k] + 1] \in 1 .. PadLen - 5
  BY <1>1, MaxBufFacts, PadLenFacts
<1>4. Rounded(m[ord[k] + 1]) \in Nat /\ m[ord[k] + 1] <= Rounded(m[ord[k] + 1])
  BY <1>3, RoundedFacts, PadLenFacts
<1>5. ord[k] \in 2 .. PadLen - 3
  BY <1>1, <1>2, <1>3, <1>4, PadLenFacts
<1>6. ord[k] \in Offsets /\ ord[k] + 1 \in Offsets /\ ord[k] \in Places /\ ord[k] < PadLen
  BY <1>5, PadLenFacts DEF Offsets, Places
<1>7. At(m, ord[k]) = m[ord[k]] /\ At(m, ord[k] + 1) = m[ord[k] + 1]
  BY <1>6 DEF At
<1>8. ValidLen(At(m, ord[k] + 1)) /\ TokenAt(m, ord[k])
  BY <1>1, <1>3, <1>6, <1>7, PadLenFacts DEF ValidLen, TokenAt
<1>9. Skip(m, ord[k]) = 2 + Rounded(m[ord[k] + 1])
  BY <1>7 DEF Skip, TokenLen
<1>10. ord[k + 1] = ord[k] + Skip(m, ord[k])
  BY <1>1, <1>4, <1>5, <1>9
<1> QED BY <1>1, <1>2, <1>3, <1>4, <1>5, <1>6, <1>7, <1>8, <1>9, <1>10

LEMMA EndOfLayout ==
    ASSUME NEW m, NEW n, NEW ord, Layout(m, n, ord)
    PROVE  /\ n \in Nat /\ n + 1 \in 1 .. n + 1 /\ ord[n + 1] \in 2 .. PadLen
           /\ ord[n + 1] \in Places /\ ~ ValidLen(At(m, ord[n + 1] + 1))
           /\ ~ TokenAt(m, ord[n + 1])
           /\ Aligned(ord[n + 1])
<1>1. n \in Nat /\ n + 1 \in 1 .. n + 1
  BY DEF Layout
<1>2. ord[n + 1] \in 2 .. PadLen /\ ~ ValidLen(At(m, ord[n + 1] + 1)) /\ Aligned(ord[n + 1])
  BY <1>1 DEF Layout, CleanFrom
<1> QED BY <1>1, <1>2, PadLenFacts DEF Places, TokenAt

(* The first loop of kerSysScratchPadSet finds the tokens ... *)
LEMMA LoopFindsTokens ==
    ASSUME NEW m, NEW n, NEW ord, Layout(m, n, ord)
    PROVE  TokensFrom(m) = {ord[k] : k \in 1 .. n}
<1>1. PICK w : TokenLoop(w, m) /\ TokensFrom(m) = w[HeaderLen]
  BY TokensFromLoop
<1>2. n \in Nat
  BY DEF Layout
<1>3. \A i \in Places : w[i] = IF TokenAt(m, i) THEN {i} \cup w[i + Skip(m, i)] ELSE {}
  BY <1>1 DEF TokenLoop
<1> DEFINE S == {j \in Nat : j <= n => w[ord[n + 1 - j]] = {ord[k] : k \in n + 1 - j .. n}}
<1>4. 0 \in S
  <2>1. w[ord[n + 1]] = {}
    BY <1>3, EndOfLayout
  <2>2. n + 1 - 0 = n + 1 /\ n + 1 .. n = {}
    BY <1>2
  <2> QED BY <2>1, <2>2
<1>5. ASSUME NEW j \in Nat, j \in S PROVE j + 1 \in S
  <2> SUFFICES ASSUME j + 1 <= n
               PROVE  w[ord[n + 1 - (j + 1)]] = {ord[k] : k \in n + 1 - (j + 1) .. n}
    OBVIOUS
  <2> DEFINE i == n - j
  <2>1. i \in 1 .. n /\ n + 1 - (j + 1) = i /\ n + 1 - j = i + 1 /\ j <= n
    BY <1>2
  <2>2. w[ord[i + 1]] = {ord[k] : k \in i + 1 .. n}
    BY <1>5, <2>1
  <2> HIDE DEF i
  <2>3. TokenAt(m, ord[i]) /\ ord[i] \in Places /\ ord[i + 1] = ord[i] + Skip(m, ord[i])
    BY <2>1, TokenOfLayout
  <2>4. w[ord[i]] = {ord[i]} \cup w[ord[i + 1]]
    BY <1>3, <2>3
  <2>5. i .. n = {i} \cup (i + 1 .. n)
    BY <1>2, <2>1
  <2>6. w[ord[i]] = {ord[k] : k \in i .. n}
    BY <2>2, <2>4, <2>5
  <2> QED BY <2>1, <2>6
<1>6. n \in S
  <2> HIDE DEF S
  <2>1. Nat \subseteq S
    BY <1>4, <1>5, EveryNumber
  <2> QED BY <1>2, <2>1
<1>7. n + 1 - n = 1 /\ n <= n
  BY <1>2
<1>8. ord[1] = HeaderLen
  BY DEF Layout, HeaderLen
<1> QED BY <1>1, <1>6, <1>7, <1>8

(* ... and stops at their end. *)
LEMMA LoopFindsEnd ==
    ASSUME NEW m, NEW n, NEW ord, Layout(m, n, ord)
    PROVE  UsedLen(m) = ord[n + 1]
<1>0. n \in Nat
  BY DEF Layout
<1>1. n \in Nat /\ TokensFrom(m) = {ord[k] : k \in 1 .. n}
  BY <1>0, LoopFindsTokens
<1>2. CASE n = 0
  <2>1. TokensFrom(m) = {}
    BY <1>1, <1>2
  <2> QED BY <1>2, <2>1 DEF UsedLen, Layout, HeaderLen
<1>3. CASE n > 0
  <2> DEFINE T == {ord[k] : k \in 1 .. n}
  <2>1. n \in 1 .. n
    BY <1>1, <1>3
  <2>2. ord[n] \in T /\ T # {} /\ ord[n] \in Int
    BY <2>1, TokenOfLayout
  <2>3. \A y \in T : y \in Int /\ ord[n] >= y
    <3> SUFFICES ASSUME NEW k \in 1 .. n PROVE ord[k] \in Int /\ ord[n] >= ord[k]
      OBVIOUS
    <3>1. /\ ord[k] \in Int /\ k \in 1 .. n + 1 /\ n \in 1 .. n + 1
          /\ Rounded(m[ord[k] + 1]) \in Nat
      BY <2>1, TokenOfLayout
    <3>2. k < n => ord[k] + 2 + Rounded(m[ord[k] + 1]) <= ord[n]
      BY <3>1 DEF Layout, After
    <3>3. k < n \/ k = n
      BY <1>1
    <3> QED BY <2>2, <3>1, <3>2, <3>3
  <2> HIDE DEF T
  <2>4. Max(T) = ord[n]
    <3>1. \E x \in T : \A y \in T : x >= y
      BY <2>2, <2>3
    <3>2. Max(T) \in T /\ \A y \in T : Max(T) >= y
      BY <3>1 DEF Max
    <3> QED BY <2>2, <2>3, <3>2
  <2>5. UsedLen(m) = ord[n] + Skip(m, ord[n])
    BY <1>1, <2>2, <2>4 DEF UsedLen, T
  <2> QED BY <2>1, <2>5, TokenOfLayout
<1> QED BY <1>1, <1>2, <1>3

(* What the second loop finds. *)
LEMMA FindsToken ==
    ASSUME NEW m, NEW n, NEW ord, Layout(m, n, ord), NEW k \in 1 .. n
    PROVE  /\ Find(m, m[ord[k]]) = {ord[k]} /\ Find(m, m[ord[k]]) # {}
           /\ Min(Find(m, m[ord[k]])) = ord[k]
<1>1. TokensFrom(m) = {ord[j] : j \in 1 .. n}
  BY LoopFindsTokens
<1>2. \A j \in 1 .. n : m[ord[j]] = m[ord[k]] => j = k
  BY DEF Layout
<1>3. Find(m, m[ord[k]]) = {ord[k]}
  BY <1>1, <1>2 DEF Find
<1>4. ord[k] \in Int
  BY TokenOfLayout
<1>5. Min({ord[k]}) = ord[k]
  BY <1>4 DEF Min
<1> QED BY <1>3, <1>5

LEMMA FindsNothing ==
    ASSUME NEW m, NEW n, NEW ord, Layout(m, n, ord), NEW t,
           \A k \in 1 .. n : m[ord[k]] # t
    PROVE  Find(m, t) = {}
BY LoopFindsTokens DEF Find

(* The data of the token at a place. *)
DataAt(m, at) == [k \in 1 .. m[at + 1] |-> m[at + 2 + k - 1]]

LEMMA DataOfToken ==
    ASSUME NEW m, m[0] = Magic, NEW n, NEW ord, Layout(m, n, ord), NEW k \in 1 .. n
    PROVE  DataOf(m, m[ord[k]]) = DataAt(m, ord[k])
<1>0. PICK t : t = m[ord[k]]
  OBVIOUS
<1>1. Find(m, t) # {} /\ Min(Find(m, t)) = ord[k]
  BY <1>0, FindsToken
<1>2. DataOf(m, t) = [j \in 1 .. m[ord[k] + 1] |-> m[ord[k] + TokenLen + j - 1]]
  BY <1>1, Zenon DEF DataOf
<1> QED BY <1>0, <1>2 DEF DataAt, TokenLen

LEMMA DataOfNothing ==
    ASSUME NEW m, NEW n, NEW ord, Layout(m, n, ord), NEW t,
           \A k \in 1 .. n : m[ord[k]] # t
    PROVE  DataOf(m, t) = NoData
BY FindsNothing DEF DataOf

(* w is the loop of kerSysScratchPadGet from every place and count. *)
GetTurn(w, m, t, bufLen, i) ==
    [used \in Places |->
        IF At(m, i) = Zero \/ ~ValidLen(At(m, i + 1)) \/ used >= PadLen THEN NoData
        ELSE IF At(m, i) = t
        THEN IF At(m, i + 1) > bufLen THEN NoData
             ELSE [k \in 1 .. At(m, i + 1) |-> At(m, i + TokenLen + k - 1)]
        ELSE w[i + Skip(m, i)][used + Rounded(At(m, i + 1))]]
GetLoop(w, m, t, bufLen) == w = [i \in Places |-> GetTurn(w, m, t, bufLen, i)]

(* A turn looks at the next place only when it meets a valid length. *)
LEMMA GetTurnDepends ==
    ASSUME NEW m, NEW t, NEW bufLen, NEW i \in Places, NEW g, NEW h,
           ValidLen(At(m, i + 1)) => g[i + Skip(m, i)] = h[i + Skip(m, i)]
    PROVE  GetTurn(g, m, t, bufLen, i) = GetTurn(h, m, t, bufLen, i)
<1>1. CASE ValidLen(At(m, i + 1))
  BY <1>1 DEF GetTurn
<1>2. CASE ~ ValidLen(At(m, i + 1))
  BY <1>2 DEF GetTurn
<1> QED BY <1>1, <1>2

LEMMA GetLoopExists ==
    ASSUME NEW m, NEW t, NEW bufLen
    PROVE  \E w : GetLoop(w, m, t, bufLen)
<1> DEFINE Val(g, i) == GetTurn(g, m, t, bufLen, i)
           From(g, n) == \A i \in Places : i + n >= 2 * PadLen => g[i] = Val(g, i)
           S == {n \in Nat : \E g : From(g, n)}
<1>1. \A i \in Places : ValidLen(At(m, i + 1)) =>
          i + Skip(m, i) \in Places /\ i + Skip(m, i) > i
  BY SkipFacts DEF Places
<1> HIDE DEF Val
<1>2. 0 \in S
  <2> DEFINE e == [i \in Places |-> {}]
             g == [i \in Places |-> Val(e, i)]
  <2>1. From(g, 0)
    <3> SUFFICES ASSUME NEW i \in Places, i + 0 >= 2 * PadLen PROVE g[i] = Val(g, i)
      OBVIOUS
    <3>1. i + 1 \notin Offsets
      BY PadLenFacts DEF Offsets, Places
    <3>2. ~ ValidLen(At(m, i + 1))
      BY <3>1, UnitsApart DEF At, ValidLen
    <3>3. g[i] = Val(e, i)
      OBVIOUS
    <3> HIDE DEF g, e
    <3> QED BY <3>2, <3>3, GetTurnDepends DEF Val
  <2> QED BY <2>1
<1>3. ASSUME NEW n \in Nat, n \in S PROVE n + 1 \in S
  <2>1. PICK g : From(g, n)
    BY <1>3
  <2> DEFINE h == [i \in Places |-> Val(g, i)]
  <2>2. ASSUME NEW i \in Places, i + n >= 2 * PadLen PROVE h[i] = g[i]
    BY <2>1, <2>2
  <2>3. From(h, n + 1)
    <3> SUFFICES ASSUME NEW i \in Places, i + (n + 1) >= 2 * PadLen PROVE h[i] = Val(h, i)
      OBVIOUS
    <3> DEFINE j == i + Skip(m, i)
    <3>1. ASSUME ValidLen(At(m, i + 1)) PROVE g[j] = h[j]
      <4>1. j \in Places /\ j > i
        BY <1>1, <3>1
      <4> HIDE DEF j
      <4>2. j + n >= 2 * PadLen
        BY <4>1, PadLenFacts DEF Places
      <4> QED BY <2>2, <4>1, <4>2
    <3>2. h[i] = Val(g, i)
      OBVIOUS
    <3> HIDE DEF h
    <3> QED BY <3>1, <3>2, GetTurnDepends DEF Val
  <2> HIDE DEF From, h
  <2> QED BY <2>3
<1>4. 2 * PadLen \in S
  <2> HIDE DEF S
  <2>1. Nat \subseteq S
    BY <1>2, <1>3, EveryNumber
  <2> QED BY <2>1, PadLenFacts
<1>5. PICK g : From(g, 2 * PadLen)
  BY <1>4
<1> DEFINE h == [i \in Places |-> g[i]]
<1>6. ASSUME NEW i \in Places PROVE h[i] = Val(h, i)
  <2>1. i + 2 * PadLen >= 2 * PadLen
    BY PadLenFacts DEF Places
  <2>2. h[i] = Val(g, i)
    BY <1>5, <2>1
  <2>3. ValidLen(At(m, i + 1)) => g[i + Skip(m, i)] = h[i + Skip(m, i)]
    BY <1>1
  <2> HIDE DEF h
  <2> QED BY <2>2, <2>3, GetTurnDepends DEF Val
<1>7. h = [i \in Places |-> Val(h, i)]
  <2>1. h = [i \in Places |-> h[i]]
    OBVIOUS
  <2> HIDE DEF h
  <2> QED BY <1>6, <2>1
<1> HIDE DEF h
<1> QED BY <1>7 DEF GetLoop, Val

LEMMA GetFromLoop ==
    ASSUME NEW m, m[0] = Magic, NEW t, NEW bufLen \in Int, bufLen < MaxBuf
    PROVE  \E w : GetLoop(w, m, t, bufLen) /\ GetFrom(m, t, bufLen) = w[HeaderLen][HeaderLen]
<1> DEFINE w == CHOOSE w : w = [i \in Places |-> [used \in Places |->
                    IF At(m, i) = Zero \/ ~ValidLen(At(m, i + 1)) \/ used >= PadLen THEN NoData
                    ELSE IF At(m, i) = t
                    THEN IF At(m, i + 1) > bufLen THEN NoData
                         ELSE [k \in 1 .. At(m, i + 1) |-> At(m, i + TokenLen + k - 1)]
                    ELSE w[i + Skip(m, i)][used + Rounded(At(m, i + 1))]]]
<1>1. GetFrom(m, t, bufLen) = w[HeaderLen][HeaderLen]
  <2>1. ~(bufLen >= MaxBuf \/ m[0] # Magic)
    BY MaxBufFacts, PadLenFacts
  <2> QED BY <2>1 DEF GetFrom
<1>2. GetLoop(w, m, t, bufLen)
  <2>1. PICK v : GetLoop(v, m, t, bufLen)
    BY GetLoopExists
  <2>2. v = [i \in Places |-> [used \in Places |->
                    IF At(m, i) = Zero \/ ~ValidLen(At(m, i + 1)) \/ used >= PadLen THEN NoData
                    ELSE IF At(m, i) = t
                    THEN IF At(m, i + 1) > bufLen THEN NoData
                         ELSE [k \in 1 .. At(m, i + 1) |-> At(m, i + TokenLen + k - 1)]
                    ELSE v[i + Skip(m, i)][used + Rounded(At(m, i + 1))]]]
    BY <2>1, Zenon DEF GetLoop, GetTurn
  <2>3. w = [i \in Places |-> [used \in Places |->
                    IF At(m, i) = Zero \/ ~ValidLen(At(m, i + 1)) \/ used >= PadLen THEN NoData
                    ELSE IF At(m, i) = t
                    THEN IF At(m, i + 1) > bufLen THEN NoData
                         ELSE [k \in 1 .. At(m, i + 1) |-> At(m, i + TokenLen + k - 1)]
                    ELSE w[i + Skip(m, i)][used + Rounded(At(m, i + 1))]]]
    BY <2>2, Zenon
  <2> HIDE DEF w
  <2> QED BY <2>3, Zenon DEF GetLoop, GetTurn
<1> QED BY <1>1, <1>2

(* kerSysScratchPadGet finds what the loops of kerSysScratchPadSet find: at a token *)
(* its count of what is used is no larger than where the token is.                  *)
LEMMA GetFindsToken ==
    ASSUME NEW m, m[0] = Magic, NEW n, NEW ord, Layout(m, n, ord), NEW t
    PROVE  GetFrom(m, t, MaxBuf - 1) = DataOf(m, t)
<1>0. MaxBuf - 1 \in Int /\ MaxBuf - 1 < MaxBuf /\ MaxBuf \in Int
  BY MaxBufFacts, PadLenFacts
<1>1. PICK w : /\ GetLoop(w, m, t, MaxBuf - 1)
               /\ GetFrom(m, t, MaxBuf - 1) = w[HeaderLen][HeaderLen]
  BY <1>0, GetFromLoop
<1>2. n \in Nat
  BY DEF Layout
<1> DEFINE Has(i) == \E k \in i .. n : m[ord[k]] = t
           Good(i) == \A used \in 0 .. ord[i] :
                         w[ord[i]][used] = IF Has(i) THEN DataOf(m, t) ELSE NoData
           S == {j \in Nat : j <= n => Good(n + 1 - j)}
<1>3. ASSUME NEW i \in Places, NEW used \in Places
      PROVE  w[i][used] =
                IF At(m, i) = Zero \/ ~ValidLen(At(m, i + 1)) \/ used >= PadLen THEN NoData
                ELSE IF At(m, i) = t
                THEN IF At(m, i + 1) > MaxBuf - 1 THEN NoData
                     ELSE [k \in 1 .. At(m, i + 1) |-> At(m, i + TokenLen + k - 1)]
                ELSE w[i + Skip(m, i)][used + Rounded(At(m, i + 1))]
  <2>1. w[i] = GetTurn(w, m, t, MaxBuf - 1, i)
    BY <1>1 DEF GetLoop
  <2> QED BY <2>1 DEF GetTurn
<1>4. 0 \in S
  <2>1. ASSUME NEW used \in 0 .. ord[n + 1] PROVE w[ord[n + 1]][used] = NoData
    <3>1. ord[n + 1] \in Places /\ used \in Places /\ ~ ValidLen(At(m, ord[n + 1] + 1))
      BY EndOfLayout, PadLenFacts DEF Places
    <3> QED BY <1>3, <3>1
  <2>2. n + 1 - 0 = n + 1 /\ n + 1 .. n = {}
    BY <1>2
  <2> QED BY <2>1, <2>2
<1>5. ASSUME NEW j \in Nat, j \in S PROVE j + 1 \in S
  <2> SUFFICES ASSUME j + 1 <= n PROVE Good(n + 1 - (j + 1))
    OBVIOUS
  <2> DEFINE i == n - j
  <2>1. i \in 1 .. n /\ n + 1 - (j + 1) = i /\ n + 1 - j = i + 1 /\ j <= n
    BY <1>2
  <2>2. Good(i + 1)
    BY <1>5, <2>1
  <2> HIDE DEF i
  <2> SUFFICES ASSUME NEW used \in 0 .. ord[i]
               PROVE  w[ord[i]][used] = IF Has(i) THEN DataOf(m, t) ELSE NoData
    BY <2>1
  <2>3. /\ ord[i] \in 2 .. PadLen - 3 /\ ord[i] \in Places
        /\ m[ord[i] + 1] \in 1 .. PadLen - 5
        /\ At(m, ord[i]) = m[ord[i]] /\ At(m, ord[i] + 1) = m[ord[i] + 1]
        /\ ValidLen(At(m, ord[i] + 1))
        /\ Rounded(m[ord[i] + 1]) \in Nat /\ m[ord[i] + 1] <= Rounded(m[ord[i] + 1])
        /\ ord[i + 1] = ord[i] + Skip(m, ord[i])
        /\ ord[i + 1] = ord[i] + 2 + Rounded(m[ord[i] + 1]) /\ ord[i + 1] <= PadLen
    BY <2>1, TokenOfLayout
  <2>4. At(m, ord[i]) # Zero
    <3>1. m[ord[i]] \in Tokens
      BY <2>1 DEF Layout
    <3> QED BY <2>3, <3>1, UnitsApart
  <2>5. used \in Places /\ ~(used >= PadLen) /\ ~(m[ord[i] + 1] > MaxBuf - 1)
    BY <2>3, PadLenFacts, MaxBufFacts DEF Places
  <2>6. i .. n = {i} \cup (i + 1 .. n)
    BY <1>2, <2>1
  <2>7. CASE m[ord[i]] = t
    <3>1. w[ord[i]][used] = [k \in 1 .. m[ord[i] + 1] |-> At(m, ord[i] + TokenLen + k - 1)]
      BY <1>3, <2>3, <2>4, <2>5, <2>7
    <3>2. \A k \in 1 .. m[ord[i] + 1] : At(m, ord[i] + TokenLen + k - 1) = m[ord[i] + 2 + k - 1]
      <4> TAKE k \in 1 .. m[ord[i] + 1]
      <4>1. ord[i] + 2 + k - 1 \in Offsets
        BY <2>3, PadLenFacts DEF Offsets
      <4> QED BY <4>1 DEF At, TokenLen
    <3>3. w[ord[i]][used] = DataAt(m, ord[i])
      BY <3>1, <3>2 DEF DataAt
    <3>4. DataOf(m, t) = DataAt(m, ord[i])
      BY <2>1, <2>7, DataOfToken
    <3>5. Has(i)
      BY <2>6, <2>7
    <3> QED BY <3>3, <3>4, <3>5
  <2>8. CASE m[ord[i]] # t
    <3>1. w[ord[i]][used] = w[ord[i + 1]][used + Rounded(m[ord[i] + 1])]
      BY <1>3, <2>3, <2>4, <2>5, <2>8
    <3>2. used + Rounded(m[ord[i] + 1]) \in 0 .. ord[i + 1]
      BY <2>3
    <3>3. Has(i) <=> Has(i + 1)
      BY <2>6, <2>8
    <3> HIDE DEF Has
    <3> QED BY <2>2, <3>1, <3>2, <3>3
  <2> QED BY <2>7, <2>8
<1>6. n \in S
  <2> HIDE DEF S
  <2>1. Nat \subseteq S
    BY <1>4, <1>5, EveryNumber
  <2> QED BY <1>2, <2>1
<1>7. Good(1)
  <2>1. n + 1 - n = 1 /\ n <= n
    BY <1>2
  <2> HIDE DEF Good
  <2> QED BY <1>6, <2>1
<1>8. ord[1] = 2 /\ HeaderLen = 2 /\ 2 \in 0 .. 2
  BY DEF Layout, HeaderLen
<1>9. GetFrom(m, t, MaxBuf - 1) = IF Has(1) THEN DataOf(m, t) ELSE NoData
  BY <1>1, <1>7, <1>8
<1>10. ~Has(1) => DataOf(m, t) = NoData
  BY DataOfNothing
<1> QED BY <1>9, <1>10

-------------------------------------------------------------------------------------
(* The changes *)

IsPad(m) == m = [i \in Offsets |-> m[i]]
IsString(d) == Len(d) \in Nat /\ d = [k \in 1 .. Len(d) |-> d[k]]
PadOK(m) == IsPad(m) /\ m[0] = Magic /\ \E n, ord : Layout(m, n, ord)

(* In p token t has the data v, and the other tokens have the data they have in m. *)
Stores(p, m, t, v) == \A s \in Tokens : DataOf(p, s) = IF s = t THEN v ELSE DataOf(m, s)

(* p is m with a token t of length len stored at a place. *)
IsPut(p, m, at, t, len) ==
    /\ IsPad(p) /\ p[0] = m[0] /\ p[at] = t /\ p[at + 1] = len
    /\ \A i \in Offsets : i < at \/ i >= at + 2 + len => p[i] = m[i]

LEMMA PutFacts ==
    ASSUME NEW m, NEW at \in 2 .. PadLen, NEW t, NEW d, IsString(d),
           at + 2 + Len(d) <= PadLen
    PROVE  /\ IsPut(Put(m, at, t, d), m, at, t, Len(d))
           /\ DataAt(Put(m, at, t, d), at) = d
<1> DEFINE p == Put(m, at, t, d)
           len == Len(d)
<1>1. p = [i \in Offsets |->
             IF i = at THEN t ELSE IF i = at + 1 THEN len
             ELSE IF i - at - 1 \in 1 .. len THEN d[i - at - 1] ELSE m[i]]
  BY DEF Put
<1>2. len \in Nat /\ at + 2 + len <= PadLen /\ PadLen \in Nat /\ PadLen > 4
  BY PadLenFacts DEF IsString
<1>3. d = [k \in 1 .. len |-> d[k]]
  BY DEF IsString
<1> HIDE DEF p, len
<1>4. \A i \in Offsets : p[i] =
             IF i = at THEN t ELSE IF i = at + 1 THEN len
             ELSE IF i - at - 1 \in 1 .. len THEN d[i - at - 1] ELSE m[i]
  BY <1>1
<1>5. IsPad(p)
  BY <1>1 DEF IsPad
<1>6. 0 \in Offsets /\ at \in Offsets /\ at + 1 \in Offsets
  BY <1>2 DEF Offsets
<1>7. p[0] = m[0] /\ p[at] = t /\ p[at + 1] = len
  BY <1>2, <1>4, <1>6
<1>8. ASSUME NEW k \in 1 .. len PROVE p[at + 2 + k - 1] = d[k]
  <2>1. at + 2 + k - 1 \in Offsets /\ (at + 2 + k - 1) - at - 1 = k
        /\ at + 2 + k - 1 # at /\ at + 2 + k - 1 # at + 1
    BY <1>2 DEF Offsets
  <2> QED BY <1>4, <2>1
<1>9. ASSUME NEW i \in Offsets, i < at \/ i >= at + 2 + len PROVE p[i] = m[i]
  <2>1. i \in Int /\ i # at /\ i # at + 1 /\ i - at - 1 \notin 1 .. len
    BY <1>2, <1>9 DEF Offsets
  <2> QED BY <1>4, <2>1
<1>10. IsPut(p, m, at, t, len)
  BY <1>5, <1>7, <1>9 DEF IsPut
<1>11. DataAt(p, at) = d
  <2>1. DataAt(p, at) = [k \in 1 .. len |-> d[k]]
    BY <1>7, <1>8 DEF DataAt
  <2> QED BY <1>3, <2>1
<1> QED BY <1>10, <1>11 DEF p, len

(* A layout is what the token headers say. *)
LEMMA SameHeaders ==
    ASSUME NEW m, NEW p, NEW n, NEW ord, Layout(m, n, ord), CleanFrom(p, ord[n + 1]),
           \A k \in 1 .. n : p[ord[k]] = m[ord[k]] /\ p[ord[k] + 1] = m[ord[k] + 1]
    PROVE  Layout(p, n, ord)
<1>1. n \in Nat
  BY DEF Layout
<1>2. \A k \in 1 .. n : After(p, ord[k]) = After(m, ord[k])
  BY DEF After
<1>3. \A k \in 1 .. n : /\ p[ord[k]] \in Tokens
                        /\ p[ord[k] + 1] \in 1 .. MaxBuf - 1
                        /\ ord[k + 1] = After(p, ord[k])
  BY <1>2 DEF Layout
<1>4. \A j, k \in 1 .. n + 1 : j < k => After(p, ord[j]) <= ord[k]
  <2> SUFFICES ASSUME NEW j \in 1 .. n + 1, NEW k \in 1 .. n + 1, j < k
               PROVE  After(p, ord[j]) <= ord[k]
    OBVIOUS
  <2>1. j \in 1 .. n
    BY <1>1
  <2>2. After(m, ord[j]) <= ord[k]
    BY DEF Layout
  <2> QED BY <1>2, <2>1, <2>2
<1>5. \A j, k \in 1 .. n : p[ord[j]] = p[ord[k]] => j = k
  BY DEF Layout
<1> QED BY <1>3, <1>4, <1>5 DEF Layout

(* The data of a token are between its place and the next. *)
LEMMA SameData ==
    ASSUME NEW m, NEW p, NEW n, NEW ord, Layout(m, n, ord), NEW k \in 1 .. n,
           NEW at \in Int, p[at + 1] = m[ord[k] + 1],
           \A i \in 2 .. Skip(m, ord[k]) - 1 : p[at + i] = m[ord[k] + i]
    PROVE  DataAt(p, at) = DataAt(m, ord[k])
<1> DEFINE len == m[ord[k] + 1]
<1>1. len \in Int /\ len <= Rounded(len) /\ Rounded(len) \in Nat
      /\ Skip(m, ord[k]) = 2 + Rounded(len) /\ ord[k] \in Int
  BY TokenOfLayout
<1>2. \A j \in 1 .. len : p[at + 2 + j - 1] = m[ord[k] + 2 + j - 1]
  <2> TAKE j \in 1 .. len
  <2> HIDE DEF len
  <2>1. /\ j + 1 \in 2 .. Skip(m, ord[k]) - 1
        /\ at + 2 + j - 1 = at + (j + 1) /\ ord[k] + 2 + j - 1 = ord[k] + (j + 1)
    BY <1>1
  <2>2. p[at + (j + 1)] = m[ord[k] + (j + 1)]
    BY <2>1
  <2> QED BY <2>1, <2>2
<1> QED BY <1>2 DEF DataAt

(* Every token ends at or before the end, and before the tokens behind it. *)
LEMMA TokensApart ==
    ASSUME NEW m, NEW n, NEW ord, Layout(m, n, ord), NEW j \in 1 .. n, NEW k \in 1 .. n + 1
    PROVE  /\ j < k => ord[j] + Skip(m, ord[j]) <= ord[k]
           /\ k <= j => ord[k] <= ord[j]
<1>1. n \in Nat /\ j \in 1 .. n + 1
  BY DEF Layout
<1>2. ASSUME j < k PROVE ord[j] + Skip(m, ord[j]) <= ord[k]
  <2>1. After(m, ord[j]) <= ord[k]
    BY <1>1, <1>2 DEF Layout
  <2>2. After(m, ord[j]) = ord[j] + Skip(m, ord[j])
    BY TokenOfLayout DEF After
  <2> QED BY <2>1, <2>2
<1>3. ASSUME k <= j PROVE ord[k] <= ord[j]
  <2>1. k \in 1 .. n /\ ord[j] \in Int /\ ord[k] \in Int
    <3>1. k \in 1 .. n
      BY <1>1, <1>3
    <3> QED BY <3>1, TokenOfLayout
  <2>2. CASE k = j
    BY <2>1, <2>2
  <2>3. CASE k # j
    <3>1. k < j
      BY <1>1, <1>3, <2>3
    <3>2. After(m, ord[k]) <= ord[j]
      BY <1>1, <3>1 DEF Layout
    <3>3. After(m, ord[k]) = ord[k] + 2 + Rounded(m[ord[k] + 1]) /\ Rounded(m[ord[k] + 1]) \in Nat
      BY <2>1, TokenOfLayout DEF After
    <3> QED BY <2>1, <3>2, <3>3
  <2> QED BY <2>2, <2>3
<1> QED BY <1>2, <1>3

(* Pads with the same tokens except for t. *)
LEMMA OtherTokensKept ==
    ASSUME NEW m, NEW n, NEW ord, Layout(m, n, ord), m[0] = Magic,
           NEW p, NEW n2, NEW ord2, Layout(p, n2, ord2), p[0] = Magic,
           NEW t, NEW v, DataOf(p, t) = v,
           \A k \in 1 .. n : m[ord[k]] # t =>
               \E j \in 1 .. n2 : /\ p[ord2[j]] = m[ord[k]]
                                  /\ DataAt(p, ord2[j]) = DataAt(m, ord[k]),
           \A j \in 1 .. n2 : p[ord2[j]] # t => \E k \in 1 .. n : m[ord[k]] = p[ord2[j]]
    PROVE  Stores(p, m, t, v)
<1> SUFFICES ASSUME NEW s \in Tokens, s # t PROVE DataOf(p, s) = DataOf(m, s)
  BY DEF Stores
<1>1. CASE \E k \in 1 .. n : m[ord[k]] = s
  <2>1. PICK k \in 1 .. n : m[ord[k]] = s
    BY <1>1
  <2>2. PICK j \in 1 .. n2 : p[ord2[j]] = s /\ DataAt(p, ord2[j]) = DataAt(m, ord[k])
    BY <2>1
  <2>3. DataOf(m, s) = DataAt(m, ord[k])
    BY <2>1, DataOfToken
  <2>4. DataOf(p, s) = DataAt(p, ord2[j])
    BY <2>2, DataOfToken
  <2> QED BY <2>2, <2>3, <2>4
<1>2. CASE \A k \in 1 .. n : m[ord[k]] # s
  <2>1. \A j \in 1 .. n2 : p[ord2[j]] # s
    BY <1>2
  <2> QED BY <1>2, <2>1, DataOfNothing
<1> QED BY <1>1, <1>2

(* A token at the end of a pad that has no token of its name. *)
LEMMA PutAtEnd ==
    ASSUME NEW m, m[0] = Magic, NEW n, NEW ord, Layout(m, n, ord),
           NEW t \in Tokens, \A k \in 1 .. n : m[ord[k]] # t,
           NEW len \in 0 .. MaxBuf - 1, ord[n + 1] + 2 + len <= PadLen,
           NEW p, IsPut(p, m, ord[n + 1], t, len)
    PROVE  PadOK(p) /\ Stores(p, m, t, IF len = 0 THEN NoData ELSE DataAt(p, ord[n + 1]))
<1> DEFINE e == ord[n + 1]
<1>0. PadLen \in Nat /\ PadLen > 4
  BY PadLenFacts
<1>1. /\ n \in Nat /\ e \in 2 .. PadLen /\ Aligned(e) /\ len \in Nat /\ len < MaxBuf
      /\ MaxBuf = PadLen - 4 /\ e + 2 + len <= PadLen
  BY EndOfLayout, MaxBufFacts, PadLenFacts
<1>2. /\ IsPad(p) /\ p[0] = m[0] /\ p[e] = t /\ p[e + 1] = len
      /\ \A i \in Offsets : i < e \/ i >= e + 2 + len => p[i] = m[i]
  BY DEF IsPut
<1>3. CleanFrom(m, e)
  BY DEF Layout
<1>4. \A i \in Offsets : i >= e + 2 + len => p[i] \in {Zero, Erased}
  <2> TAKE i \in Offsets
  <2> HAVE i >= e + 2 + len
  <2>1. i \in e + 2 .. PadLen - 1
    BY <1>1, PadLenFacts DEF Offsets
  <2> QED BY <1>2, <1>3, <2>1 DEF CleanFrom
<1> HIDE DEF e
<1>5. ASSUME NEW k \in 1 .. n
      PROVE  /\ p[ord[k]] = m[ord[k]] /\ p[ord[k] + 1] = m[ord[k] + 1]
             /\ DataAt(p, ord[k]) = DataAt(m, ord[k])
  <2>1. /\ ord[k] \in 2 .. PadLen - 3 /\ Skip(m, ord[k]) = 2 + Rounded(m[ord[k] + 1])
        /\ Rounded(m[ord[k] + 1]) \in Nat
    BY TokenOfLayout
  <2>2. ord[k] + Skip(m, ord[k]) <= e
    <3>1. n + 1 \in 1 .. n + 1 /\ k < n + 1
      BY <1>1
    <3> QED BY <3>1, TokensApart DEF e
  <2>3. \A i \in 0 .. Skip(m, ord[k]) - 1 : p[ord[k] + i] = m[ord[k] + i]
    <3> TAKE i \in 0 .. Skip(m, ord[k]) - 1
    <3>1. i \in Int /\ i >= 0 /\ i < Skip(m, ord[k]) /\ Skip(m, ord[k]) \in Int
      BY <2>1
    <3>2. ord[k] + i \in Offsets /\ ord[k] + i < e
      <4> DEFINE o == ord[k]
                 s == Skip(m, ord[k])
      <4>1. o \in 2 .. PadLen - 3 /\ s \in Int /\ i < s /\ i \in Int /\ i >= 0 /\ o + s <= e
        BY <2>1, <2>2, <3>1
      <4>2. e \in Int /\ e <= PadLen
        BY <1>0, <1>1
      <4> HIDE DEF o, s
      <4>3. o + i \in 0 .. PadLen - 1 /\ o + i < e
        BY <1>0, <4>1, <4>2
      <4> QED BY <4>3 DEF o, Offsets
    <3> QED BY <1>2, <3>2
  <2>4. 0 \in 0 .. Skip(m, ord[k]) - 1 /\ 1 \in 0 .. Skip(m, ord[k]) - 1 /\ ord[k] + 0 = ord[k]
        /\ 2 .. Skip(m, ord[k]) - 1 \subseteq 0 .. Skip(m, ord[k]) - 1 /\ ord[k] \in Int
    BY <2>1
  <2>5. p[ord[k]] = m[ord[k]] /\ p[ord[k] + 1] = m[ord[k] + 1]
    BY <2>3, <2>4
  <2>6. \A i \in 2 .. Skip(m, ord[k]) - 1 : p[ord[k] + i] = m[ord[k] + i]
    BY <2>3, <2>4
  <2> QED BY <2>4, <2>5, <2>6, SameData
<1>6. CASE len = 0
  <2>1. CleanFrom(p, e)
    <3>1. e + 1 \in Offsets /\ \A i \in e + 2 .. PadLen - 1 : i \in Offsets /\ i >= e + 2 + len
      BY <1>1, <1>6, PadLenFacts DEF Offsets
    <3>2. At(p, e + 1) = 0
      BY <1>2, <1>6, <3>1 DEF At
    <3> QED BY <1>4, <3>1, <3>2 DEF CleanFrom, ValidLen
  <2>2. Layout(p, n, ord)
    BY <1>5, <2>1, SameHeaders DEF e
  <2>3. DataOf(p, t) = NoData
    BY <1>5, <2>2, DataOfNothing
  <2>4. Stores(p, m, t, NoData)
    BY <1>2, <1>5, <2>2, <2>3, OtherTokensKept
  <2> QED BY <1>2, <1>6, <2>2, <2>4 DEF PadOK, e
<1>7. CASE len # 0
  <2> DEFINE f == e + 2 + Rounded(len)
             ord2 == [k \in 1 .. n + 2 |-> IF k = n + 2 THEN f ELSE ord[k]]
  <2>1. /\ Rounded(len) \in Nat /\ len <= Rounded(len) /\ Aligned(Rounded(len))
        /\ \A x \in Nat : Aligned(x) /\ len <= x => Rounded(len) <= x
    BY <1>1, RoundedFacts
  <2>2. f \in 2 .. PadLen /\ Aligned(f)
    <3>1. e + 2 \in Nat /\ PadLen >= e + 2 /\ Aligned(e + 2 + 0) /\ e + 2 + 0 = e + 2
      <4>1. 0 \in Nat /\ Aligned(0) /\ e \in Nat
        <5>1. Aligned(0)
          BY AlignValues DEF Aligned
        <5> QED BY <1>1, <5>1
      <4>2. Aligned(e + 2 + 0)
        BY <1>1, <4>1, AlignedSum
      <4> QED BY <1>0, <1>1, <4>2
    <3>2. Aligned(PadLen - (e + 2)) /\ PadLen - (e + 2) \in Nat /\ len <= PadLen - (e + 2)
      BY <1>1, <3>1, AlignedDifference, PadLenFacts DEF Aligned
    <3>3. Rounded(len) <= PadLen - (e + 2)
      BY <2>1, <3>2
    <3>4. e \in Nat
      BY <1>0, <1>1
    <3>5. Aligned(e + 2 + Rounded(len))
      BY <1>1, <2>1, <3>4, AlignedSum
    <3> QED BY <1>0, <1>1, <2>1, <3>3, <3>5
  <2>3. /\ \A k \in 1 .. n + 1 : ord2[k] = ord[k]
        /\ ord2[n + 2] = f
    BY <1>1
  <2>4. After(p, e) = f
    BY <1>2 DEF After
  <2>5. CleanFrom(p, f)
    <3>1. \A i \in Offsets : i >= f => p[i] \in {Zero, Erased}
      BY <1>1, <1>4, <2>1, <2>2 DEF Offsets
    <3> HIDE DEF f
    <3>2. CASE f + 1 \in Offsets
      <4>1. At(p, f + 1) \in {Zero, Erased}
        BY <2>2, <3>1, <3>2 DEF At
      <4>2. ~ ValidLen(At(p, f + 1))
        BY <4>1, UnitsApart DEF ValidLen
      <4>3. \A i \in f + 2 .. PadLen - 1 : i \in Offsets /\ i >= f
        BY <2>2, PadLenFacts DEF Offsets
      <4> QED BY <3>1, <4>2, <4>3 DEF CleanFrom
    <3>3. CASE f + 1 \notin Offsets
      <4>1. ~ ValidLen(At(p, f + 1))
        BY <3>3, UnitsApart DEF ValidLen, At
      <4>2. \A i \in f + 2 .. PadLen - 1 : i \in Offsets /\ i >= f
        BY <2>2, PadLenFacts DEF Offsets
      <4> QED BY <3>1, <4>1, <4>2 DEF CleanFrom
    <3> QED BY <3>2, <3>3
  <2> HIDE DEF f
  <2>6. ord2 \in [1 .. n + 2 -> 2 .. PadLen]
    <3>1. ASSUME NEW k \in 1 .. n + 2 PROVE ord2[k] \in 2 .. PadLen
      <4>1. CASE k = n + 2
        BY <2>2, <2>3, <4>1
      <4>2. CASE k # n + 2
        <5>1. k \in 1 .. n + 1
          BY <1>1, <4>2
        <5>2. ord[k] \in 2 .. PadLen
          BY <5>1 DEF Layout
        <5> QED BY <2>3, <5>1, <5>2
      <4> QED BY <4>1, <4>2
    <3>2. ord2 = [k \in 1 .. n + 2 |-> ord2[k]]
      OBVIOUS
    <3> HIDE DEF ord2
    <3> QED BY <3>1, <3>2
  <2> HIDE DEF ord2
  <2>7. /\ (n + 1) + 1 = n + 2 /\ 1 .. n + 1 = (1 .. n) \cup {n + 1}
        /\ 1 .. n + 2 = (1 .. n + 1) \cup {n + 2} /\ 1 \in 1 .. n + 1 /\ n + 1 \in 1 .. n + 1
    BY <1>1
  <2>8. ord2[n + 1] = e /\ ord2[1] = 2
    <3>1. ord[1] = 2
      BY DEF Layout
    <3> QED BY <2>3, <2>7, <3>1 DEF e
  <2>9. \A k \in 1 .. n + 2 : Aligned(ord2[k])
    <3>1. \A k \in 1 .. n + 1 : Aligned(ord[k])
      BY DEF Layout
    <3> QED BY <2>2, <2>3, <2>7, <3>1
  <2>10. \A k \in 1 .. n : After(p, ord2[k]) = After(m, ord[k])
    BY <1>5, <2>3, <2>7 DEF After
  <2>11. \A k \in 1 .. n + 1 : /\ p[ord2[k]] \in Tokens
                               /\ p[ord2[k] + 1] \in 1 .. MaxBuf - 1
                               /\ ord2[k + 1] = After(p, ord2[k])
    <3> TAKE k \in 1 .. n + 1
    <3>1. CASE k \in 1 .. n
      <4>1. k + 1 \in 1 .. n + 1
        BY <1>1, <3>1
      <4>2. ord[k + 1] = After(m, ord[k])
            /\ m[ord[k]] \in Tokens /\ m[ord[k] + 1] \in 1 .. MaxBuf - 1
        BY <3>1 DEF Layout
      <4> QED BY <1>5, <2>3, <2>10, <3>1, <4>1, <4>2
    <3>2. CASE k = n + 1
      <4>1. p[e + 1] \in 1 .. MaxBuf - 1
        BY <1>0, <1>1, <1>2, <1>7
      <4> QED BY <1>2, <2>3, <2>4, <2>7, <2>8, <3>2, <4>1
    <3> QED BY <2>7, <3>1, <3>2
  <2>12. \A j, k \in 1 .. n + 2 : j < k => After(p, ord2[j]) <= ord2[k]
    <3> SUFFICES ASSUME NEW j \in 1 .. n + 2, NEW k \in 1 .. n + 2, j < k
                 PROVE  After(p, ord2[j]) <= ord2[k]
      OBVIOUS
    <3>1. CASE k \in 1 .. n + 1
      <4>1. j \in 1 .. n /\ j \in 1 .. n + 1
        BY <1>1, <3>1
      <4>2. After(m, ord[j]) <= ord[k]
        BY <3>1, <4>1 DEF Layout
      <4> QED BY <2>3, <2>10, <3>1, <4>1, <4>2
    <3>2. CASE k = n + 2 /\ j = n + 1
      BY <2>2, <2>3, <2>4, <2>8, <3>2
    <3>3. CASE k = n + 2 /\ j # n + 1
      <4>1. j \in 1 .. n /\ j < n + 1
        BY <1>1, <3>3
      <4>2. ord[j] + Skip(m, ord[j]) <= e
        BY <2>7, <4>1, TokensApart DEF e
      <4>3. After(m, ord[j]) = ord[j] + Skip(m, ord[j]) /\ After(m, ord[j]) \in Int
        BY <4>1, TokenOfLayout DEF After
      <4>4. e <= f
        BY <1>1, <2>1 DEF f
      <4> QED BY <1>1, <2>2, <2>3, <2>10, <3>3, <4>1, <4>2, <4>3, <4>4
    <3> QED BY <2>7, <3>1, <3>2, <3>3
  <2>13. \A j, k \in 1 .. n + 1 : p[ord2[j]] = p[ord2[k]] => j = k
    <3>1. \A j \in 1 .. n : p[ord2[j]] = m[ord[j]] /\ m[ord[j]] # t
      BY <1>5, <2>3, <2>7
    <3>2. p[ord2[n + 1]] = t
      BY <1>2, <2>8
    <3>3. \A j, k \in 1 .. n : m[ord[j]] = m[ord[k]] => j = k
      BY DEF Layout
    <3> QED BY <2>7, <3>1, <3>2, <3>3
  <2>14. Layout(p, n + 1, ord2)
    <3>1. n + 1 \in Nat
      BY <1>1
    <3> QED BY <2>3, <2>5, <2>6, <2>7, <2>8, <2>9, <2>11, <2>12, <2>13, <3>1 DEF Layout
  <2>15. DataOf(p, t) = DataAt(p, e)
    <3>1. DataOf(p, p[ord2[n + 1]]) = DataAt(p, ord2[n + 1])
      BY <1>2, <2>7, <2>14, DataOfToken
    <3> QED BY <1>2, <2>8, <3>1
  <2>16. \A k \in 1 .. n : p[ord2[k]] = m[ord[k]] /\ DataAt(p, ord2[k]) = DataAt(m, ord[k])
    BY <1>5, <2>3, <2>7
  <2>17. \A k \in 1 .. n : m[ord[k]] # t =>
               \E j \in 1 .. n + 1 : /\ p[ord2[j]] = m[ord[k]]
                                     /\ DataAt(p, ord2[j]) = DataAt(m, ord[k])
    BY <2>7, <2>16
  <2>18. \A j \in 1 .. n + 1 : p[ord2[j]] # t => \E k \in 1 .. n : m[ord[k]] = p[ord2[j]]
    BY <1>2, <2>7, <2>8, <2>16
  <2>19. Stores(p, m, t, DataAt(p, e))
    BY <1>2, <2>14, <2>15, <2>17, <2>18, OtherTokensKept
  <2> QED BY <1>2, <1>7, <2>14, <2>19 DEF PadOK, e
<1> QED BY <1>6, <1>7

(* Data of the same length take the place of the old ones. *)
LEMMA PutInPlace ==
    ASSUME NEW m, m[0] = Magic, NEW n, NEW ord, Layout(m, n, ord), NEW j \in 1 .. n,
           NEW p, IsPut(p, m, ord[j], m[ord[j]], m[ord[j] + 1])
    PROVE  PadOK(p) /\ Stores(p, m, m[ord[j]], DataAt(p, ord[j]))
<1> DEFINE at == ord[j]
           t == m[at]
           len == m[at + 1]
           s == Skip(m, at)
           e == ord[n + 1]
<1>0. PadLen \in Nat /\ PadLen > 4
  BY PadLenFacts
<1>1. /\ at \in 2 .. PadLen - 3 /\ len \in Nat /\ s = 2 + Rounded(len) /\ len <= Rounded(len)
      /\ Rounded(len) \in Nat /\ n \in Nat /\ e \in 2 .. PadLen
  <2>1. len \in 1 .. PadLen - 5
    BY TokenOfLayout
  <2> QED BY <1>0, <2>1, TokenOfLayout, EndOfLayout
<1>2. at + s <= e
  <2>1. j < n + 1 /\ n + 1 \in 1 .. n + 1
    BY <1>1
  <2> QED BY <2>1, TokensApart
<1>3. at \in 2 .. PadLen /\ at + 2 + len <= at + s /\ at + 2 + len <= PadLen /\ s \in Int
  <2> HIDE DEF at, s, len, e
  <2> QED BY <1>0, <1>1, <1>2
<1>4. /\ IsPad(p) /\ p[0] = m[0] /\ p[at] = t /\ p[at + 1] = len
      /\ \A i \in Offsets : i < at \/ i >= at + 2 + len => p[i] = m[i]
  BY DEF IsPut
<1>5. \A k \in 1 .. n : m[ord[k]] = t => k = j
  BY DEF Layout
<1>6. m[at + 1] = len
  OBVIOUS
<1> HIDE DEF at, t, len, s, e
<1>7. ASSUME NEW k \in 1 .. n, k # j
      PROVE  /\ p[ord[k]] = m[ord[k]] /\ p[ord[k] + 1] = m[ord[k] + 1]
             /\ DataAt(p, ord[k]) = DataAt(m, ord[k])
  <2> DEFINE o == ord[k]
             u == Skip(m, o)
  <2>1. /\ o \in 2 .. PadLen - 3 /\ u = 2 + Rounded(m[o + 1]) /\ Rounded(m[o + 1]) \in Nat
        /\ o + u <= PadLen
    BY TokenOfLayout
  <2>2. o + u <= at \/ at + s <= o
    <3>1. j \in 1 .. n + 1 /\ k \in 1 .. n + 1 /\ (k < j \/ j < k)
      BY <1>1, <1>7
    <3> QED BY <3>1, TokensApart DEF at, s
  <2> HIDE DEF o, u
  <2>3. u \in Int /\ u >= 2
    BY <2>1
  <2>4. \A i \in 0 .. u - 1 : p[o + i] = m[o + i]
    <3> TAKE i \in 0 .. u - 1
    <3>1. o + i \in Offsets /\ (o + i < at \/ o + i >= at + 2 + len)
      BY <1>0, <1>1, <1>3, <2>1, <2>2, <2>3 DEF Offsets
    <3> QED BY <1>4, <3>1
  <2>5. 0 \in 0 .. u - 1 /\ 1 \in 0 .. u - 1 /\ o + 0 = o /\ o \in Int
        /\ 2 .. u - 1 \subseteq 0 .. u - 1
    BY <2>1, <2>3
  <2>6. p[o] = m[o] /\ p[o + 1] = m[o + 1]
    BY <2>4, <2>5
  <2>7. \A i \in 2 .. u - 1 : p[o + i] = m[o + i]
    BY <2>4, <2>5
  <2> QED BY <2>5, <2>6, <2>7, SameData DEF o, u
<1>8. \A k \in 1 .. n : p[ord[k]] = m[ord[k]] /\ p[ord[k] + 1] = m[ord[k] + 1]
  BY <1>4, <1>6, <1>7 DEF at, t
<1>9. CleanFrom(p, e)
  <2>1. CleanFrom(m, e)
    BY DEF Layout, e
  <2>2. \A i \in Offsets : i >= e => p[i] = m[i]
    BY <1>0, <1>1, <1>2, <1>3, <1>4 DEF Offsets
  <2>3. At(p, e + 1) = At(m, e + 1)
    BY <1>1, <2>2 DEF At
  <2>4. \A i \in e + 2 .. PadLen - 1 : i \in Offsets /\ i >= e
    BY <1>0, <1>1 DEF Offsets
  <2> QED BY <2>1, <2>2, <2>3, <2>4 DEF CleanFrom
<1>10. Layout(p, n, ord)
  BY <1>8, <1>9, SameHeaders DEF e
<1>11. DataOf(p, t) = DataAt(p, at)
  <2>1. DataOf(p, p[ord[j]]) = DataAt(p, ord[j])
    BY <1>4, <1>10, DataOfToken
  <2> QED BY <1>4, <2>1 DEF at
<1>12. \A k \in 1 .. n : m[ord[k]] # t =>
          p[ord[k]] = m[ord[k]] /\ DataAt(p, ord[k]) = DataAt(m, ord[k])
  BY <1>7 DEF t, at
<1>13. Stores(p, m, t, DataAt(p, at))
  BY <1>4, <1>8, <1>10, <1>11, <1>12, OtherTokensKept
<1> QED BY <1>4, <1>10, <1>13 DEF PadOK, at, t

(* A token taken out: those behind it move to its place. *)
LEMMA RemoveToken ==
    ASSUME NEW m, IsPad(m), m[0] = Magic, NEW n, NEW ord, Layout(m, n, ord), NEW j \in 1 .. n
    PROVE  /\ IsPad(Removed(m, ord[j])) /\ Removed(m, ord[j])[0] = Magic
           /\ \E ord2 : /\ Layout(Removed(m, ord[j]), n - 1, ord2)
                        /\ ord2[n] = UsedLen(m) - Skip(m, ord[j])
                        /\ \A k \in 1 .. n - 1 : Removed(m, ord[j])[ord2[k]] # m[ord[j]]
           /\ Stores(Removed(m, ord[j]), m, m[ord[j]], NoData)
<1> DEFINE at == ord[j]
           t == m[at]
           r == Removed(m, at)
           s == Skip(m, at)
           e == ord[n + 1]
           ord2 == [k \in 1 .. n |-> IF k <= j THEN ord[k] ELSE ord[k + 1] - s]
<1>0. PadLen \in Nat /\ PadLen > 4
  BY PadLenFacts
<1>1. /\ at \in 2 .. PadLen - 3 /\ s \in Nat /\ s >= 2 /\ n \in Nat /\ e \in 2 .. PadLen
      /\ UsedLen(m) = e /\ ord[j + 1] = at + s
  BY <1>0, TokenOfLayout, EndOfLayout, LoopFindsEnd
<1>2. at + s <= e
  <2>1. j < n + 1 /\ n + 1 \in 1 .. n + 1
    BY <1>1
  <2> QED BY <2>1, TokensApart
<1>3. r = [i \in Offsets |-> IF i < at THEN m[i]
                             ELSE IF i < at + (e - (at + s)) THEN At(m, i + s) ELSE Zero]
  BY <1>1 DEF Removed
<1>4. /\ \A k \in 1 .. n : k <= j => ord2[k] = ord[k]
      /\ \A k \in 1 .. n : k >= j => ord2[k] = ord[k + 1] - s
  <2>1. ord[j] = ord[j + 1] - s
    <3> HIDE DEF s
    <3> QED BY <1>1
  <2>2. \A k \in 1 .. n : k >= j => k = j \/ ~(k <= j)
    BY <1>1
  <2> QED BY <2>1, <2>2
<1>5. ord2 = [k \in 1 .. n |-> ord2[k]]
  OBVIOUS
<1>6. \A k \in 1 .. n : m[ord[k]] = t => k = j
  BY DEF Layout
<1> HIDE DEF at, t, r, s, e, ord2
<1>7. /\ IsPad(r)
      /\ \A i \in Offsets : i < at => r[i] = m[i]
      /\ \A i \in Offsets : i >= at /\ i < e - s => r[i] = m[i + s]
      /\ \A i \in Offsets : i >= e - s => r[i] = Zero
  <2>1. IsPad(r)
    BY <1>3 DEF IsPad
  <2>2. \A i \in Offsets : r[i] = IF i < at THEN m[i]
                                  ELSE IF i < at + (e - (at + s)) THEN At(m, i + s) ELSE Zero
    BY <1>3
  <2>3. at + (e - (at + s)) = e - s
    BY <1>0, <1>1
  <2>4. ASSUME NEW i \in Offsets, i >= at, i < e - s PROVE r[i] = m[i + s]
    <3>1. i + s \in Offsets /\ ~(i < at)
      BY <1>0, <1>1, <2>4 DEF Offsets
    <3> QED BY <2>2, <2>3, <2>4, <3>1 DEF At
  <2>5. ASSUME NEW i \in Offsets, i >= e - s PROVE r[i] = Zero
    <3>1. ~(i < at) /\ ~(i < e - s)
      BY <1>0, <1>1, <1>2, <2>5 DEF Offsets
    <3> QED BY <2>2, <2>3, <3>1
  <2> QED BY <2>1, <2>2, <2>4, <2>5
<1>8. r[0] = Magic
  <2>1. 0 \in Offsets /\ 0 < at
    BY <1>0, <1>1 DEF Offsets
  <2> QED BY <1>7, <2>1
(* The token that is the k-th now was the w-th. *)
<1>9. ASSUME NEW k \in 1 .. n - 1, NEW w \in 1 .. n, w # j,
             IF k < j THEN w = k ELSE w = k + 1
      PROVE  /\ \A i \in 0 .. Skip(m, ord[w]) - 1 : r[ord2[k] + i] = m[ord[w] + i]
             /\ r[ord2[k]] = m[ord[w]] /\ r[ord2[k] + 1] = m[ord[w] + 1]
             /\ DataAt(r, ord2[k]) = DataAt(m, ord[w])
             /\ After(r, ord2[k]) = ord2[k + 1]
             /\ ord2[k] \in Int
  <2> DEFINE o == ord[w]
             u == Skip(m, o)
  <2>1. /\ o \in 2 .. PadLen - 3 /\ u = 2 + Rounded(m[o + 1]) /\ Rounded(m[o + 1]) \in Nat
        /\ o + u <= PadLen /\ o + u = ord[w + 1]
    BY TokenOfLayout
  <2>2. o + u <= e
    <3>1. w < n + 1 /\ n + 1 \in 1 .. n + 1
      BY <1>1
    <3> QED BY <3>1, TokensApart DEF e
  <2>3. u \in Int /\ u >= 2 /\ k \in 1 .. n /\ k + 1 \in 1 .. n
    BY <1>1, <2>1
  <2>4. CASE k < j
    <3>1. w = k /\ w < j /\ k <= j /\ k + 1 <= j
      BY <1>1, <1>9, <2>4
    <3>2. ord2[k] = o /\ ord2[k + 1] = o + u
      BY <1>4, <2>1, <2>3, <3>1
    <3>3. o + u <= at
      <4>1. j \in 1 .. n + 1
        BY <1>1
      <4> QED BY <3>1, <4>1, TokensApart DEF at
    <3> HIDE DEF o, u
    <3>4. \A i \in 0 .. u - 1 : r[o + i] = m[o + i]
      <4> TAKE i \in 0 .. u - 1
      <4>1. o + i \in Offsets /\ o + i < at
        BY <1>0, <1>1, <2>1, <2>3, <3>3 DEF Offsets
      <4> QED BY <1>7, <4>1
    <3>5. 0 \in 0 .. u - 1 /\ 1 \in 0 .. u - 1 /\ o + 0 = o /\ o \in Int
          /\ 2 .. u - 1 \subseteq 0 .. u - 1
      BY <2>1, <2>3
    <3>6. r[o] = m[o] /\ r[o + 1] = m[o + 1]
      BY <3>4, <3>5
    <3>7. \A i \in 2 .. u - 1 : r[o + i] = m[o + i]
      BY <3>4, <3>5
    <3>8. DataAt(r, o) = DataAt(m, o)
      BY <3>5, <3>6, <3>7, SameData DEF o, u
    <3>9. After(r, o) = o + u
      BY <2>1, <3>5, <3>6 DEF After
    <3> QED BY <3>2, <3>4, <3>5, <3>6, <3>8, <3>9 DEF o, u
  <2>5. CASE ~(k < j)
    <3>1. w = k + 1 /\ j < w /\ k >= j /\ k + 1 >= j /\ w \in 1 .. n + 1
      BY <1>1, <1>9, <2>5
    <3>2. ord2[k] = o - s /\ ord2[k + 1] = (o + u) - s
      BY <1>4, <2>1, <2>3, <3>1
    <3>3. at + s <= o
      BY <3>1, TokensApart DEF at, s
    <3> HIDE DEF o, u
    <3>4. \A i \in 0 .. u - 1 : r[(o - s) + i] = m[o + i]
      <4> TAKE i \in 0 .. u - 1
      <4>1. /\ (o - s) + i \in Offsets /\ (o - s) + i >= at /\ (o - s) + i < e - s
            /\ ((o - s) + i) + s = o + i
        BY <1>0, <1>1, <2>1, <2>2, <2>3, <3>3 DEF Offsets
      <4> QED BY <1>7, <4>1
    <3>5. 0 \in 0 .. u - 1 /\ 1 \in 0 .. u - 1 /\ o + 0 = o /\ o \in Int /\ o - s \in Int
          /\ (o - s) + 0 = o - s /\ 2 .. u - 1 \subseteq 0 .. u - 1
      BY <1>1, <2>1, <2>3
    <3>6. r[o - s] = m[o] /\ r[(o - s) + 1] = m[o + 1]
      BY <3>4, <3>5
    <3>7. \A i \in 2 .. u - 1 : r[(o - s) + i] = m[o + i]
      BY <3>4, <3>5
    <3>8. DataAt(r, o - s) = DataAt(m, o)
      BY <3>5, <3>6, <3>7, SameData DEF o, u
    <3>9. After(r, o - s) = (o + u) - s
      <4>1. After(r, o - s) = (o - s) + 2 + Rounded(m[o + 1])
        BY <3>6 DEF After
      <4> QED BY <1>1, <2>1, <3>5, <4>1
    <3> QED BY <3>2, <3>4, <3>5, <3>6, <3>8, <3>9 DEF o, u
  <2> QED BY <2>4, <2>5
<1>10. \A k \in 1 .. n - 1 : \E w \in 1 .. n : w # j /\ IF k < j THEN w = k ELSE w = k + 1
  <2> TAKE k \in 1 .. n - 1
  <2>1. CASE k < j
    BY <1>1, <2>1
  <2>2. CASE ~(k < j)
    <3>1. k + 1 \in 1 .. n /\ k + 1 # j
      BY <1>1, <2>2
    <3> QED BY <2>2, <3>1
  <2> QED BY <2>1, <2>2
<1>11. \A w \in 1 .. n : w # j =>
          \E k \in 1 .. n - 1 : IF k < j THEN w = k ELSE w = k + 1
  <2> TAKE w \in 1 .. n
  <2> HAVE w # j
  <2>1. CASE w < j
    <3>1. w \in 1 .. n - 1
      BY <1>1, <2>1
    <3> QED BY <2>1, <3>1
  <2>2. CASE ~(w < j)
    <3>1. w - 1 \in 1 .. n - 1 /\ ~(w - 1 < j) /\ w = (w - 1) + 1
      BY <1>1, <2>2
    <3> QED BY <3>1
  <2> QED BY <2>1, <2>2
<1>12. ASSUME NEW k \in 1 .. n PROVE ord2[k] \in 2 .. PadLen /\ Aligned(ord2[k])
  <2>1. ord[k] \in 2 .. PadLen /\ Aligned(ord[k]) /\ ord[k + 1] \in 2 .. PadLen
        /\ Aligned(ord[k + 1]) /\ Aligned(at) /\ Aligned(ord[j + 1])
    <3>1. k \in 1 .. n + 1 /\ k + 1 \in 1 .. n + 1 /\ j \in 1 .. n + 1 /\ j + 1 \in 1 .. n + 1
      BY <1>1
    <3> QED BY <3>1 DEF Layout, at
  <2>2. CASE k <= j
    BY <1>4, <2>1, <2>2
  <2>3. CASE ~(k <= j)
    <3>1. k >= j /\ j < k + 1 /\ k + 1 \in 1 .. n + 1
      BY <1>1, <2>3
    <3>2. ord2[k] = ord[k + 1] - s /\ at + s <= ord[k + 1]
      BY <1>4, <3>1, TokensApart DEF at, s
    <3>3. Aligned(s)
      <4>1. at \in Nat /\ at + s \in Nat /\ at + s >= at /\ (at + s) - at = s /\ Aligned(at + s)
        BY <1>0, <1>1, <2>1
      <4> QED BY <2>1, <4>1, AlignedDifference
    <3>4. ord[k + 1] \in Nat /\ ord[k + 1] >= s
      BY <1>0, <1>1, <2>1, <3>2
    <3>5. Aligned(ord[k + 1] - s)
      BY <1>1, <2>1, <3>3, <3>4, AlignedDifference
    <3>6. ord[k + 1] - s \in 2 .. PadLen
      BY <1>0, <1>1, <2>1, <3>2
    <3> QED BY <3>2, <3>5, <3>6
  <2> QED BY <2>2, <2>3
<1>13. ASSUME NEW x \in 1 .. n, NEW y \in 1 .. n, x <= y PROVE ord2[x] <= ord2[y]
  <2>1. ASSUME NEW a \in 1 .. n, NEW b \in 1 .. n, a <= b, b <= j PROVE ord2[a] <= ord2[b]
    <3>1. a <= j /\ a \in 1 .. n + 1
      BY <1>1, <2>1
    <3>2. ord[a] <= ord[b]
      BY <2>1, <3>1, TokensApart
    <3> QED BY <1>4, <2>1, <3>1, <3>2
  <2>2. ASSUME NEW a \in 1 .. n, NEW b \in 1 .. n, a <= b, j <= a PROVE ord2[a] <= ord2[b]
    <3>1. a >= j /\ b >= j
      BY <1>1, <2>2
    <3>2. ord2[a] = ord[a + 1] - s /\ ord2[b] = ord[b + 1] - s /\ ord2[a] \in 2 .. PadLen
      BY <1>4, <1>12, <3>1
    <3>3. CASE a = b
      BY <1>0, <3>2, <3>3
    <3>4. CASE a # b
      <4>1. a + 1 \in 1 .. n /\ b + 1 \in 1 .. n + 1 /\ a + 1 < b + 1
        BY <1>1, <2>2, <3>4
      <4>2. /\ ord[a + 1] + Skip(m, ord[a + 1]) <= ord[b + 1]
            /\ Skip(m, ord[a + 1]) = 2 + Rounded(m[ord[a + 1] + 1])
            /\ Rounded(m[ord[a + 1] + 1]) \in Nat /\ ord[a + 1] \in 2 .. PadLen - 3
        BY <4>1, TokensApart, TokenOfLayout
      <4>3. ord[b + 1] \in 2 .. PadLen
        BY <4>1 DEF Layout
      <4>4. ord[a + 1] <= ord[b + 1] /\ ord[a + 1] \in Int /\ ord[b + 1] \in Int
        BY <1>0, <4>2, <4>3
      <4> QED BY <1>1, <3>2, <4>4
    <3> QED BY <3>3, <3>4
  <2>3. CASE y <= j
    BY <1>13, <2>1, <2>3
  <2>4. CASE j <= x
    BY <1>13, <2>2, <2>4
  <2>5. CASE x < j /\ j < y
    <3>1. x <= j /\ j <= y /\ j <= j
      BY <1>1, <2>5
    <3>2. ord2[x] <= ord2[j] /\ ord2[j] <= ord2[y]
      BY <2>1, <2>2, <3>1
    <3>3. ord2[x] \in Int /\ ord2[j] \in Int /\ ord2[y] \in Int
      BY <1>0, <1>12
    <3> QED BY <3>2, <3>3
  <2>6. y <= j \/ j <= x \/ (x < j /\ j < y)
    BY <1>1
  <2> QED BY <2>3, <2>4, <2>5, <2>6
<1>14. ord2[n] = e - s
  <2>1. n \in 1 .. n /\ n >= j
    BY <1>1
  <2> QED BY <1>4, <2>1 DEF e
<1>15. CleanFrom(r, ord2[n])
  <2>1. e - s \in Nat
    BY <1>0, <1>1, <1>2
  <2>2. ~ ValidLen(At(r, (e - s) + 1))
    <3>1. At(r, (e - s) + 1) \in {Zero, Beyond}
      BY <1>7, <2>1 DEF At
    <3> QED BY <3>1, UnitsApart DEF ValidLen
  <2>3. \A i \in (e - s) + 2 .. PadLen - 1 : i \in Offsets /\ i >= e - s
    BY <1>0, <2>1 DEF Offsets
  <2> QED BY <1>7, <1>14, <2>2, <2>3 DEF CleanFrom
<1>16. Layout(r, n - 1, ord2)
  <2>1. n - 1 \in Nat /\ (n - 1) + 1 = n /\ 1 \in 1 .. n /\ 1 <= j
    BY <1>1
  <2>2. ord2 \in [1 .. n -> 2 .. PadLen]
    BY <1>5, <1>12
  <2>3. ord2[1] = 2
    <3>1. ord[1] = 2
      BY DEF Layout
    <3> QED BY <1>4, <2>1, <3>1
  <2>4. \A k \in 1 .. n - 1 : /\ r[ord2[k]] \in Tokens
                              /\ r[ord2[k] + 1] \in 1 .. MaxBuf - 1
                              /\ ord2[k + 1] = After(r, ord2[k])
    <3> TAKE k \in 1 .. n - 1
    <3>1. PICK w \in 1 .. n : w # j /\ IF k < j THEN w = k ELSE w = k + 1
      BY <1>10
    <3>2. m[ord[w]] \in Tokens /\ m[ord[w] + 1] \in 1 .. MaxBuf - 1
      BY DEF Layout
    <3> QED BY <1>9, <3>1, <3>2
  <2>5. \A a, b \in 1 .. n : a < b => After(r, ord2[a]) <= ord2[b]
    <3> SUFFICES ASSUME NEW a \in 1 .. n, NEW b \in 1 .. n, a < b
                 PROVE  After(r, ord2[a]) <= ord2[b]
      OBVIOUS
    <3>1. a \in 1 .. n - 1 /\ a + 1 \in 1 .. n /\ a + 1 <= b
      BY <1>1
    <3>2. After(r, ord2[a]) = ord2[a + 1]
      BY <2>4, <3>1
    <3> QED BY <1>13, <3>1, <3>2
  <2>6. \A a, b \in 1 .. n - 1 : r[ord2[a]] = r[ord2[b]] => a = b
    <3> SUFFICES ASSUME NEW a \in 1 .. n - 1, NEW b \in 1 .. n - 1, r[ord2[a]] = r[ord2[b]]
                 PROVE  a = b
      OBVIOUS
    <3>1. PICK w \in 1 .. n : w # j /\ IF a < j THEN w = a ELSE w = a + 1
      BY <1>10
    <3>2. PICK v \in 1 .. n : v # j /\ IF b < j THEN v = b ELSE v = b + 1
      BY <1>10
    <3>3. m[ord[w]] = m[ord[v]]
      BY <1>9, <3>1, <3>2
    <3>4. w = v
      BY <3>3 DEF Layout
    <3> QED BY <1>1, <3>1, <3>2, <3>4
  <2> QED BY <1>12, <1>15, <2>1, <2>2, <2>3, <2>4, <2>5, <2>6 DEF Layout
<1>17. \A k \in 1 .. n - 1 : r[ord2[k]] # t
  <2> TAKE k \in 1 .. n - 1
  <2>1. PICK w \in 1 .. n : w # j /\ IF k < j THEN w = k ELSE w = k + 1
    BY <1>10
  <2> QED BY <1>6, <1>9, <2>1
<1>18. Stores(r, m, t, NoData)
  <2>1. DataOf(r, t) = NoData
    BY <1>16, <1>17, DataOfNothing
  <2>2. \A w \in 1 .. n : m[ord[w]] # t =>
            \E k \in 1 .. n - 1 : /\ r[ord2[k]] = m[ord[w]]
                                  /\ DataAt(r, ord2[k]) = DataAt(m, ord[w])
    <3> TAKE w \in 1 .. n
    <3> HAVE m[ord[w]] # t
    <3>1. w # j
      BY DEF t, at
    <3>2. PICK k \in 1 .. n - 1 : IF k < j THEN w = k ELSE w = k + 1
      BY <1>11, <3>1
    <3> QED BY <1>9, <3>1, <3>2
  <2>3. \A k \in 1 .. n - 1 : r[ord2[k]] # t => \E w \in 1 .. n : m[ord[w]] = r[ord2[k]]
    <3> TAKE k \in 1 .. n - 1
    <3>1. PICK w \in 1 .. n : w # j /\ IF k < j THEN w = k ELSE w = k + 1
      BY <1>10
    <3> QED BY <1>9, <3>1
  <2> QED BY <1>8, <1>16, <2>1, <2>2, <2>3, OtherTokensKept
<1> QED BY <1>1, <1>7, <1>8, <1>14, <1>16, <1>17, <1>18 DEF r, at, t, s

-------------------------------------------------------------------------------------
(* The operations *)

(* Flash with no pad: erased, cleared, or both. *)
BlankPad(m) == m[0] # Magic /\ \A i \in Offsets : m[i] \in {Zero, Erased}

LEMMA StringFacts ==
    ASSUME NEW d \in Strings
    PROVE  IsString(d) /\ (d = <<>> <=> Len(d) = 0) /\ Len(d) \in Nat
<1>1. PICK n \in Lens : d \in [1 .. n -> DataUnits]
  BY DEF Strings
<1>2. n \in Nat
  BY PadAssumption
<1>3. d \in Seq(DataUnits)
  BY <1>1, <1>2
<1>4. Len(d) = n
  BY <1>1, <1>2
<1>5. d = [k \in 1 .. Len(d) |-> d[k]]
  BY <1>1, <1>4
<1>6. d = <<>> <=> Len(d) = 0
  BY <1>3
<1> QED BY <1>2, <1>4, <1>5, <1>6 DEF IsString

(* A header makes blank flash a pad without tokens. *)
LEMMA NewPad ==
    ASSUME NEW m, IsPad(m), BlankPad(m)
    PROVE  /\ Headed(m)[0] = Magic
           /\ Layout(Headed(m), 0, [k \in 1 .. 1 |-> 2])
           /\ \A s \in Tokens : DataOf(Headed(m), s) = NoData /\ DataOf(m, s) = NoData
<1> DEFINE h == Headed(m)
           ord == [k \in 1 .. 1 |-> 2]
<1>0. PadLen \in Nat /\ PadLen > 4
  BY PadLenFacts
<1>1. DOMAIN m = Offsets
  BY DEF IsPad
<1>2. 0 \in Offsets /\ 1 \in Offsets /\ 3 \in Offsets
  BY <1>0 DEF Offsets
<1>3. h[0] = Magic
  BY <1>1, <1>2 DEF Headed
<1>4. \A i \in Offsets : i # 0 /\ i # 1 => h[i] \in {Zero, Erased}
  BY <1>1 DEF Headed, BlankPad
<1> HIDE DEF h
<1>5. CleanFrom(h, 2)
  <2>1. At(h, 2 + 1) \in {Zero, Erased}
    BY <1>2, <1>4 DEF At
  <2>2. ~ ValidLen(At(h, 2 + 1))
    BY <2>1, UnitsApart DEF ValidLen
  <2>3. \A i \in 2 + 2 .. PadLen - 1 : i \in Offsets /\ i # 0 /\ i # 1
    BY <1>0 DEF Offsets
  <2> QED BY <1>4, <2>2, <2>3 DEF CleanFrom
<1>6. Aligned(2)
  BY AlignValues DEF Aligned
<1>7. Layout(h, 0, ord)
  <2>1. ord[1] = 2 /\ 1 .. 0 = {} /\ 0 + 1 = 1 /\ 1 .. 1 = {1}
    OBVIOUS
  <2>2. ord \in [1 .. 0 + 1 -> 2 .. PadLen]
    BY <1>0
  <2> HIDE DEF ord
  <2>3. \A j, k \in 1 .. 0 + 1 : ~(j < k)
    OBVIOUS
  <2> QED BY <1>5, <1>6, <2>1, <2>2, <2>3 DEF Layout
<1>8. \A s \in Tokens : DataOf(h, s) = NoData
  <2>1. \A k \in 1 .. 0 : FALSE
    OBVIOUS
  <2> QED BY <1>7, <2>1, DataOfNothing
<1>9. \A s \in Tokens : DataOf(m, s) = NoData
  BY DEF DataOf, BlankPad
<1> QED BY <1>3, <1>7, <1>8, <1>9 DEF h

(* The first token of a new pad. *)
LEMMA FirstToken ==
    ASSUME NEW m, IsPad(m), BlankPad(m), NEW t \in Tokens, NEW d, IsString(d),
           Len(d) < MaxBuf
    PROVE  LET p == Put(Headed(m), HeaderLen, t, d)
           IN  PadOK(p) /\ Stores(p, m, t, IF Len(d) = 0 THEN NoData ELSE d)
<1> DEFINE h == Headed(m)
           ord == [k \in 1 .. 1 |-> 2]
           p == Put(h, 2, t, d)
<1>0. PadLen \in Nat /\ PadLen > 4 /\ MaxBuf = PadLen - 4 /\ Len(d) \in Nat
  BY PadLenFacts, MaxBufFacts DEF IsString
<1>1. h[0] = Magic /\ Layout(h, 0, ord)
  BY NewPad
<1>2. \A s \in Tokens : DataOf(h, s) = NoData /\ DataOf(m, s) = NoData
  BY NewPad
<1>3. ord[0 + 1] = 2
  OBVIOUS
<1> HIDE DEF h, ord
<1>4. 2 \in 2 .. PadLen /\ 2 + 2 + Len(d) <= PadLen /\ Len(d) \in 0 .. MaxBuf - 1
  BY <1>0
<1>5. IsPut(p, h, 2, t, Len(d)) /\ DataAt(p, 2) = d
  BY <1>4, PutFacts
<1> HIDE DEF p
<1>6. \A k \in 1 .. 0 : h[ord[k]] # t
  OBVIOUS
<1>7. PadOK(p) /\ Stores(p, h, t, IF Len(d) = 0 THEN NoData ELSE DataAt(p, 2))
  BY <1>1, <1>3, <1>4, <1>5, <1>6, PutAtEnd
<1>8. Stores(p, m, t, IF Len(d) = 0 THEN NoData ELSE d)
  BY <1>2, <1>5, <1>7 DEF Stores
<1> QED BY <1>7, <1>8 DEF p, h, HeaderLen

(* kerSysScratchPadSet stores its data and keeps the other tokens. *)
LEMMA SetStores ==
    ASSUME NEW m, IsPad(m), BlankPad(m) \/ PadOK(m), NEW t \in Tokens, NEW d \in Strings,
           ~ Overflows(m, Len(d))
    PROVE  /\ PadOK(Stored(m, t, d))
           /\ Stores(Stored(m, t, d), m, t, IF d = <<>> THEN NoData ELSE d)
<1> DEFINE v == IF Len(d) = 0 THEN NoData ELSE d
           new == Stored(m, t, d)
<1>0. IsString(d) /\ (d = <<>> <=> Len(d) = 0) /\ Len(d) \in Nat
  BY StringFacts
<1>1. PadLen \in Nat /\ PadLen > 4 /\ MaxBuf = PadLen - 4
  BY PadLenFacts, MaxBufFacts
<1>2. Len(d) < MaxBuf
  BY <1>0, <1>1 DEF Overflows
<1> SUFFICES PadOK(new) /\ Stores(new, m, t, v)
  BY <1>0
<1>3. CASE BlankPad(m)
  <2>1. new = Put(Headed(m), HeaderLen, t, d)
    BY <1>3 DEF Stored, BlankPad
  <2> HIDE DEF new
  <2> QED BY <1>0, <1>2, <1>3, <2>1, FirstToken
<1>4. CASE PadOK(m)
  <2>1. m[0] = Magic
    BY <1>4 DEF PadOK
  <2>2. PICK n, ord : Layout(m, n, ord)
    BY <1>4 DEF PadOK
  <2>3. /\ UsedLen(m) = ord[n + 1] /\ n \in Nat /\ ord[n + 1] \in 2 .. PadLen
        /\ ord[n + 1] + 2 + Len(d) <= PadLen
    <3>1. UsedLen(m) = ord[n + 1] /\ n \in Nat /\ ord[n + 1] \in 2 .. PadLen
      BY <2>2, LoopFindsEnd, EndOfLayout
    <3>2. ~(UsedLen(m) + Len(d) + 2 > PadLen)
      BY <2>1 DEF Overflows, TokenLen
    <3> QED BY <1>0, <1>1, <3>1, <3>2
  <2>4. CASE \A k \in 1 .. n : m[ord[k]] # t
    <3>1. Find(m, t) = {}
      BY <2>2, <2>4, FindsNothing
    <3>2. new = Put(m, ord[n + 1], t, d)
      BY <2>1, <2>3, <3>1 DEF Stored
    <3>3. IsPut(new, m, ord[n + 1], t, Len(d)) /\ DataAt(new, ord[n + 1]) = d
      BY <1>0, <2>3, <3>2, PutFacts
    <3> HIDE DEF new
    <3>4. Len(d) \in 0 .. MaxBuf - 1
      BY <1>0, <1>1, <1>2
    <3>5. PadOK(new) /\ Stores(new, m, t, IF Len(d) = 0 THEN NoData ELSE DataAt(new, ord[n + 1]))
      BY <2>1, <2>2, <2>3, <2>4, <3>3, <3>4, PutAtEnd
    <3> QED BY <3>3, <3>5
  <2>5. ASSUME NEW j \in 1 .. n, m[ord[j]] = t PROVE PadOK(new) /\ Stores(new, m, t, v)
    <3>1. Find(m, t) # {} /\ Min(Find(m, t)) = ord[j]
      BY <2>2, <2>5, FindsToken
    <3>2. /\ ord[j] \in 2 .. PadLen - 3 /\ m[ord[j] + 1] \in 1 .. PadLen - 5
          /\ m[ord[j] + 1] <= Rounded(m[ord[j] + 1])
          /\ ord[j + 1] = ord[j] + 2 + Rounded(m[ord[j] + 1]) /\ ord[j + 1] \in 2 .. PadLen
          /\ Rounded(m[ord[j] + 1]) \in Nat
          /\ Skip(m, ord[j]) = 2 + Rounded(m[ord[j] + 1])
      BY <2>2, TokenOfLayout
    <3>3. CASE m[ord[j] + 1] = Len(d)
      <4>1. new = Put(m, ord[j], t, d)
        BY <2>1, <3>1, <3>3 DEF Stored
      <4>2. ord[j] \in 2 .. PadLen /\ ord[j] + 2 + Len(d) <= PadLen /\ Len(d) # 0
        <5> DEFINE at == ord[j]
                   len == m[at + 1]
                   round == Rounded(len)
                   next == ord[j + 1]
        <5>1. /\ at \in 2 .. PadLen - 3 /\ len \in 1 .. PadLen - 5 /\ len <= round
              /\ next = at + 2 + round /\ next \in 2 .. PadLen /\ round \in Nat
              /\ len = Len(d)
          BY <3>2, <3>3
        <5> HIDE DEF at, len, round, next
        <5>2. at \in 2 .. PadLen /\ at + 2 + len <= PadLen /\ len # 0
          BY <1>1, <5>1
        <5> QED BY <5>1, <5>2 DEF at
      <4>3. IsPut(new, m, ord[j], t, Len(d)) /\ DataAt(new, ord[j]) = d
        BY <1>0, <4>1, <4>2, PutFacts
      <4> HIDE DEF new
      <4>4. PadOK(new) /\ Stores(new, m, m[ord[j]], DataAt(new, ord[j]))
        BY <2>1, <2>2, <2>5, <3>3, <4>3, PutInPlace
      <4> QED BY <2>5, <4>2, <4>3, <4>4
    <3>4. CASE m[ord[j] + 1] # Len(d)
      <4> DEFINE r == Removed(m, ord[j])
      <4>1. new = Put(r, UsedLen(m) - Skip(m, ord[j]), t, d)
        BY <2>1, <3>1, <3>4 DEF Stored
      <4>2. /\ r[0] = Magic /\ Stores(r, m, m[ord[j]], NoData)
            /\ \E ord2 : /\ Layout(r, n - 1, ord2)
                         /\ ord2[n] = UsedLen(m) - Skip(m, ord[j])
                         /\ \A k \in 1 .. n - 1 : r[ord2[k]] # m[ord[j]]
        BY <2>1, <2>2, RemoveToken
      <4> HIDE DEF r
      <4>3. PICK ord2 : /\ Layout(r, n - 1, ord2)
                        /\ ord2[n] = UsedLen(m) - Skip(m, ord[j])
                        /\ \A k \in 1 .. n - 1 : r[ord2[k]] # m[ord[j]]
        BY <4>2
      <4>4. (n - 1) + 1 = n
        BY <2>3
      <4>5. ord2[n] \in 2 .. PadLen
        BY <4>3, <4>4, EndOfLayout
      <4>6. ord2[n] + 2 + Len(d) <= PadLen /\ Len(d) \in 0 .. MaxBuf - 1
        <5> DEFINE e == ord[n + 1]
                   round == Rounded(m[ord[j] + 1])
        <5>0. e \in Int /\ round \in Nat /\ ord2[n] = e - (2 + round)
          BY <2>3, <3>2, <4>3
        <5> HIDE DEF e, round
        <5>1. ord2[n] <= ord[n + 1]
          <6>1. e - (2 + round) <= e
            BY <5>0
          <6> QED BY <5>0, <6>1 DEF e
        <5> QED BY <1>0, <1>1, <1>2, <2>3, <4>5, <5>1, SMTT(30)
      <4>7. IsPut(new, r, ord2[n], t, Len(d)) /\ DataAt(new, ord2[n]) = d
        BY <1>0, <4>1, <4>3, <4>5, <4>6, PutFacts
      <4> HIDE DEF new
      <4>8. PadOK(new) /\ Stores(new, r, t, IF Len(d) = 0 THEN NoData ELSE DataAt(new, ord2[n]))
        BY <2>5, <4>2, <4>3, <4>4, <4>6, <4>7, PutAtEnd
      <4>9. Stores(new, m, t, v)
        BY <2>5, <4>2, <4>7, <4>8 DEF Stores
      <4> QED BY <4>8, <4>9
    <3> QED BY <3>3, <3>4
  <2> HIDE DEF new, v
  <2> QED BY <2>4, <2>5
<1> QED BY <1>3, <1>4

(* The same without a buffer removes the token. *)
LEMMA RemoveStores ==
    ASSUME NEW m, IsPad(m), BlankPad(m) \/ PadOK(m), NEW t \in Tokens
    PROVE  LET p == IF m[0] # Magic THEN Put(Headed(m), HeaderLen, t, <<>>)
                    ELSE IF Find(m, t) = {} THEN m
                    ELSE Removed(m, Min(Find(m, t)))
           IN  PadOK(p) /\ Stores(p, m, t, NoData)
<1> DEFINE p == IF m[0] # Magic THEN Put(Headed(m), HeaderLen, t, <<>>)
                ELSE IF Find(m, t) = {} THEN m
                ELSE Removed(m, Min(Find(m, t)))
<1> SUFFICES PadOK(p) /\ Stores(p, m, t, NoData)
  OBVIOUS
<1>1. CASE BlankPad(m)
  <2>1. p = Put(Headed(m), HeaderLen, t, <<>>)
    BY <1>1 DEF BlankPad
  <2>2. <<>> \in Strings /\ Len(<<>>) = 0
    BY PadAssumption
  <2>3. IsString(<<>>)
    BY <2>2, StringFacts
  <2>4. 0 < MaxBuf
    BY MaxBufFacts, PadLenFacts
  <2> HIDE DEF p
  <2> QED BY <1>1, <2>1, <2>2, <2>3, <2>4, FirstToken
<1>2. CASE PadOK(m)
  <2>1. m[0] = Magic
    BY <1>2 DEF PadOK
  <2>2. PICK n, ord : Layout(m, n, ord)
    BY <1>2 DEF PadOK
  <2>3. CASE \A k \in 1 .. n : m[ord[k]] # t
    <3>1. Find(m, t) = {} /\ DataOf(m, t) = NoData
      BY <2>2, <2>3, FindsNothing, DataOfNothing
    <3>2. p = m
      BY <2>1, <3>1
    <3> HIDE DEF p
    <3> QED BY <1>2, <3>1, <3>2 DEF Stores
  <2>4. ASSUME NEW j \in 1 .. n, m[ord[j]] = t PROVE PadOK(p) /\ Stores(p, m, t, NoData)
    <3>1. Find(m, t) # {} /\ Min(Find(m, t)) = ord[j]
      BY <2>2, <2>4, FindsToken
    <3>2. p = Removed(m, ord[j])
      BY <2>1, <3>1
    <3> HIDE DEF p
    <3>3. /\ IsPad(p) /\ p[0] = Magic /\ Stores(p, m, t, NoData)
          /\ \E ord2 : Layout(p, n - 1, ord2)
      BY <2>1, <2>2, <2>4, <3>2, RemoveToken
    <3> QED BY <3>3 DEF PadOK
  <2> HIDE DEF p
  <2> QED BY <2>3, <2>4
<1> QED BY <1>1, <1>2
-------------------------------------------------------------------------------------
(* The specification *)

(* The inductive invariant: there is no pad yet, or its tokens have a layout. *)
PadInv == IsPad(pad) /\ (BlankPad(pad) \/ PadOK(pad))

(* A step is one of the map's: what an operation does to the pad, and the request   *)
(* it records.                                                                      *)
PadStep ==
    \/ BlankPad(pad') /\ last' = NoRequest
    \/ \E t \in Tokens, d \in Strings :
          \/ /\ PadOK(pad') /\ Stores(pad', pad, t, IF d = <<>> THEN NoData ELSE d)
             /\ last' = Request(t, d, 0)
          \/ pad' = pad /\ last' = Request(t, d, -1)

LEMMA BlankFlash ==
    ASSUME NEW x \in {Zero, Erased}
    PROVE  IsPad([i \in Offsets |-> x]) /\ BlankPad([i \in Offsets |-> x])
<1>1. 0 \in Offsets
  BY PadLenFacts DEF Offsets
<1> QED BY <1>1, UnitsApart DEF IsPad, BlankPad

LEMMA NextIsPadStep ==
    ASSUME PadInv, PadNext
    PROVE  PadStep /\ IsPad(pad')
<1>0. IsPad(pad) /\ (BlankPad(pad) \/ PadOK(pad))
  BY DEF PadInv
<1>1. CASE PadClearAll
  <2>1. pad' = [i \in Offsets |-> Zero] /\ last' = NoRequest
    BY <1>1 DEF PadClearAll
  <2> QED BY <2>1, BlankFlash DEF PadStep
<1>2. ASSUME NEW t \in Tokens, PadRemove(t) PROVE PadStep /\ IsPad(pad')
  <2>1. <<>> \in Strings
    BY PadAssumption
  <2>2. CASE Overflows(pad, 0) /\ last' = Request(t, <<>>, -1) /\ pad' = pad
    BY <1>0, <2>1, <2>2 DEF PadStep
  <2>3. CASE /\ pad' = IF pad[0] # Magic THEN Put(Headed(pad), HeaderLen, t, <<>>)
                       ELSE IF Find(pad, t) = {} THEN pad
                       ELSE Removed(pad, Min(Find(pad, t)))
             /\ last' = Request(t, <<>>, 0)
    <3>1. PadOK(pad') /\ Stores(pad', pad, t, NoData)
      BY <1>0, <2>3, RemoveStores
    <3>2. IsPad(pad')
      BY <3>1 DEF PadOK
    <3> QED BY <2>1, <2>3, <3>1, <3>2 DEF PadStep
  <2> QED BY <1>2, <2>2, <2>3 DEF PadRemove
<1>3. ASSUME NEW t \in Tokens, NEW d \in Strings, PadSet(t, d) PROVE PadStep /\ IsPad(pad')
  <2>1. CASE Overflows(pad, Len(d)) /\ last' = Request(t, d, -1) /\ pad' = pad
    BY <1>0, <2>1 DEF PadStep
  <2>2. CASE ~ Overflows(pad, Len(d)) /\ pad' = Stored(pad, t, d) /\ last' = Request(t, d, 0)
    <3>1. PadOK(pad') /\ Stores(pad', pad, t, IF d = <<>> THEN NoData ELSE d)
      BY <1>0, <2>2, SetStores
    <3>2. IsPad(pad')
      BY <3>1 DEF PadOK
    <3> QED BY <2>2, <3>1, <3>2 DEF PadStep
  <2> QED BY <1>3, <2>1, <2>2 DEF PadSet
<1> QED BY <1>1, <1>2, <1>3 DEF PadNext

LEMMA InitPadInv ==
    ASSUME PadInit
    PROVE  PadInv
<1>1. PICK x \in {Erased, Zero} : pad = [i \in Offsets |-> x]
  BY DEF PadInit
<1> QED BY <1>1, BlankFlash DEF PadInv

LEMMA NextPadInv ==
    ASSUME PadInv, [PadNext]_padVars
    PROVE  PadInv'
<1>1. CASE UNCHANGED padVars
  BY <1>1 DEF PadInv, padVars
<1>2. CASE PadNext
  <2>1. PadStep /\ IsPad(pad')
    BY <1>2, NextIsPadStep
  <2>2. BlankPad(pad') \/ PadOK(pad') \/ pad' = pad
    BY <2>1 DEF PadStep
  <2> QED BY <2>1, <2>2 DEF PadInv
<1> QED BY <1>1, <1>2

(* Whatever is set, removed and cleared, the flash holds no pad, or a header and    *)
(* tokens that are aligned, do not overlap, have different names and lengths the    *)
(* two operations accept, and end inside the pad in front of unused memory          *)
(* (kerSysScratchPadSet, kerSysScratchPadClearAll).                                 *)
THEOREM PadInvariant == PadSpec => []PadInv
BY InitPadInv, NextPadInv, PTL DEF PadSpec

LEMMA PadInvWellFormed ==
    ASSUME PadInv
    PROVE  TokensWellFormed
<1> SUFFICES ASSUME pad[0] = Magic
             PROVE  /\ \A i, j \in TokensFrom(pad) : pad[i] = pad[j] => i = j
                    /\ UsedLen(pad) <= PadLen
                    /\ \A i \in UsedLen(pad) + 2 .. PadLen - 1 : pad[i] \in {Zero, Erased}
  BY DEF TokensWellFormed
<1>1. PICK n, ord : Layout(pad, n, ord)
  BY DEF PadInv, BlankPad, PadOK
<1>2. TokensFrom(pad) = {ord[k] : k \in 1 .. n} /\ UsedLen(pad) = ord[n + 1]
  BY <1>1, LoopFindsTokens, LoopFindsEnd
<1>3. \A j, k \in 1 .. n : pad[ord[j]] = pad[ord[k]] => j = k
  BY <1>1 DEF Layout
<1>4. ord[n + 1] \in 2 .. PadLen /\ CleanFrom(pad, ord[n + 1]) /\ PadLen \in Nat
  BY <1>1, EndOfLayout, PadLenFacts DEF Layout
<1>5. UsedLen(pad) <= PadLen
  BY <1>2, <1>4
<1> QED BY <1>2, <1>3, <1>4, <1>5 DEF CleanFrom

LEMMA PadInvSeen ==
    ASSUME PadInv
    PROVE  GetSeesEveryToken
<1> SUFFICES ASSUME NEW t \in Tokens
             PROVE  GetFrom(pad, t, MaxBuf - 1) = DataOf(pad, t)
  BY DEF GetSeesEveryToken
<1>1. CASE pad[0] = Magic
  <2>1. PICK n, ord : Layout(pad, n, ord)
    BY <1>1 DEF PadInv, BlankPad, PadOK
  <2> QED BY <1>1, <2>1, GetFindsToken
<1>2. CASE pad[0] # Magic
  <2>1. DataOf(pad, t) = NoData
    BY <1>2 DEF DataOf
  <2>2. GetFrom(pad, t, MaxBuf - 1) = NoData
    BY <1>2, Zenon DEF GetFrom
  <2> QED BY <2>1, <2>2
<1> QED BY <1>1, <1>2

(* No token is ever stored twice, the list of tokens ends inside the pad, and what  *)
(* follows it is clean, for every pad length and all data (kerSysScratchPadSet).    *)
THEOREM PadWellFormed == PadSpec => []TokensWellFormed
BY PadInvariant, PadInvWellFormed, PTL

(* kerSysScratchPadGet finds every token kerSysScratchPadSet stored, with its data: *)
(* that its loop counts the used length without the token headers, stops at other   *)
(* names and follows lengths on its own never makes a difference.                   *)
THEOREM PadGetSeesAll == PadSpec => []GetSeesEveryToken
BY PadInvariant, PadInvSeen, PTL

LEMMA InitIsMapInit ==
    ASSUME PadInit
    PROVE  Map!MapInit
<1>1. PICK x \in {Erased, Zero} : pad = [i \in Offsets |-> x]
  BY DEF PadInit
<1>2. BlankPad(pad)
  BY <1>1, BlankFlash
<1>3. \A t \in Tokens : DataOf(pad, t) = NoData
  BY <1>2 DEF BlankPad, DataOf
<1>4. last = [ret |-> 0]
  BY DEF PadInit, NoRequest
<1> QED BY <1>3, <1>4 DEF Map!MapInit, Map!NoRequest

LEMMA StepIsMapStep ==
    ASSUME PadInv, [PadNext]_padVars
    PROVE  [Map!MapNext]_(Map!mapVars)
<1>1. CASE UNCHANGED padVars
  <2>1. pad' = pad /\ last' = last
    BY <1>1 DEF padVars
  <2>2. \A t \in Tokens : DataOf(pad', t) = DataOf(pad, t)
    BY <2>1
  <2> QED BY <2>1, <2>2 DEF Map!mapVars
<1>2. CASE PadNext
  <2> DEFINE map == [t \in Tokens |-> DataOf(pad, t)]
  <2>1. PadStep
    BY <1>2, NextIsPadStep
  <2>2. CASE BlankPad(pad') /\ last' = NoRequest
    <3>1. \A t \in Tokens : DataOf(pad', t) = NoData
      BY <2>2 DEF BlankPad, DataOf
    <3>2. map' = [t \in Tokens |-> NoData]
      BY <3>1
    <3>3. Map!MapClear
      BY <2>2, <3>2 DEF Map!MapClear, Map!NoRequest, NoRequest
    <3> QED BY <3>3 DEF Map!MapNext
  <2>3. ASSUME NEW t \in Tokens, NEW d \in Strings, pad' = pad, last' = Request(t, d, -1)
        PROVE  Map!MapNext
    <3>1. map' = map
      BY <2>3
    <3>2. Map!MapRefuse(t, d)
      BY <2>3, <3>1 DEF Map!MapRefuse, Map!Request, Request
    <3> QED BY <3>2 DEF Map!MapNext
  <2>4. ASSUME NEW t \in Tokens, NEW d \in Strings, last' = Request(t, d, 0),
               Stores(pad', pad, t, IF d = <<>> THEN NoData ELSE d)
        PROVE  Map!MapNext
    <3>1. \A s \in Tokens : DataOf(pad', s) =
              IF s = t THEN IF d = <<>> THEN NoData ELSE d ELSE DataOf(pad, s)
      BY <2>4 DEF Stores
    <3>2. map' = [map EXCEPT ![t] = IF d = <<>> THEN NoData ELSE d]
      BY <3>1
    <3>3. Map!MapSet(t, d)
      BY <2>4, <3>2 DEF Map!MapSet, Map!Request, Request
    <3> QED BY <3>3 DEF Map!MapNext
  <2> QED BY <2>1, <2>2, <2>3, <2>4 DEF PadStep
<1> QED BY <1>1, <1>2

(* The scratch pad implements a map from names to data: a set that succeeds stores  *)
(* its data whole and keeps the data of all other tokens, in a new pad, in place,   *)
(* at the end or after the tokens behind the old one moved; a set that is refused   *)
(* changes nothing; clearing empties the map (kerSysScratchPadSet,                  *)
(* kerSysScratchPadClearAll).                                                       *)
THEOREM PadRefinesMap == PadSpec => ImplementsMap
BY PadInvariant, InitIsMapInit, StepIsMapStep, PTL DEF PadSpec, ImplementsMap, Map!MapSpec

====================================================================================
