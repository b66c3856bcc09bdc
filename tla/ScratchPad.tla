-------------------------------- MODULE ScratchPad ---------------------------------
(* The scratch pad of bcm63xx_flash.c: a header, then tokens (name, length, data    *)
(* padded to the alignment) up to the first that is not valid.  Memory is counted   *)
(* in units; a name, a length and the header's magic number take one unit each.     *)
EXTENDS Integers, Sequences, FiniteSetsExt

CONSTANTS
    Tokens,         \* token names, from 'A' to 'z' in their first letter
    DataUnits,      \* what a unit of data may be: also a name or a length
    Lens,           \* lengths of data
    PadLen,         \* flash_scratch_pad_length
    Align,          \* lengths are rounded up to it
    Magic, Version, Zero, Erased,
    Beyond,         \* memory after the pad: no name and no length
    NoData

HeaderLen == 2      \* sizeof(SP_HEADER)
TokenLen == 2       \* sizeof(SP_TOKEN)
Offsets == 0 .. PadLen - 1
Places == 0 .. 2 * PadLen   \* where a loop may look
Strings == UNION {[1 .. n -> DataUnits] : n \in Lens}

ASSUME PadAssumption ==
    /\ Align \in Nat \ {0} /\ PadLen \in Nat /\ PadLen > HeaderLen + TokenLen
    /\ HeaderLen % Align = 0 /\ TokenLen % Align = 0 /\ PadLen % Align = 0
    /\ Lens \subseteq Nat /\ <<>> \in Strings

(* Erased and zeroed flash and what follows the pad are neither names nor lengths a  *)
(* loop accepts, nor the start of a pad.                                             *)
ASSUME UnitsApart ==
    /\ {Zero, Erased, Beyond} \cap (Tokens \cup 1 .. PadLen - 1) = {}
    /\ Magic \notin {Zero, Erased}

VARIABLES
    pad,            \* the pad in the flash
    last            \* history: the last request and its result
padVars == <<pad, last>>

Rounded(n) == ((n + Align - 1) \div Align) * Align
At(m, i) == IF i \in Offsets THEN m[i] ELSE Beyond
ValidLen(x) == x \in 1 .. PadLen - 1
Skip(m, i) == TokenLen + Rounded(At(m, i + 1))

-------------------------------------------------------------------------------------
(* kerSysScratchPadSet *)

(* The token its first loop accepts at an offset. *)
TokenAt(m, i) == i < PadLen /\ At(m, i) \in Tokens /\ ValidLen(At(m, i + 1))

(* The offsets of the tokens, and the used length: where the loop stops. *)
TokensFrom(m) ==
    LET walk[i \in Places] ==
            IF TokenAt(m, i) THEN {i} \cup walk[i + Skip(m, i)] ELSE {}
    IN  walk[HeaderLen]
UsedLen(m) ==
    LET starts == TokensFrom(m)
    IN  IF starts = {} THEN HeaderLen
        ELSE Max(starts) + Skip(m, Max(starts))
Find(m, t) == {i \in TokensFrom(m) : m[i] = t}

Put(m, at, t, d) ==
    [i \in Offsets |->
        IF i = at THEN t ELSE IF i = at + 1 THEN Len(d)
        ELSE IF i - at - 1 \in 1 .. Len(d) THEN d[i - at - 1] ELSE m[i]]

(* The tokens behind one moved to its place, the rest of the pad zeroed. *)
Removed(m, at) ==
    LET copyLen == UsedLen(m) - (at + Skip(m, at))
    IN  [i \in Offsets |-> IF i < at THEN m[i]
                           ELSE IF i < at + copyLen THEN At(m, i + Skip(m, at)) ELSE Zero]

Headed(m) == [m EXCEPT ![0] = Magic, ![1] = Version]

(* Mutant: after the move the token goes where the old end was. *)
StoredAtOldEnd(m, t, d) ==
    IF m[0] # Magic THEN Put(Headed(m), HeaderLen, t, d)
    ELSE IF Find(m, t) = {} THEN Put(m, UsedLen(m), t, d)
    ELSE Put(Removed(m, Min(Find(m, t))), UsedLen(m), t, d)

(* The pad after d was stored under t: a new pad, in place, or at the end. *)
Stored(m, t, d) ==
    IF m[0] # Magic THEN Put(Headed(m), HeaderLen, t, d)
    ELSE IF Find(m, t) = {} THEN Put(m, UsedLen(m), t, d)
    ELSE LET at == Min(Find(m, t))
         IN  IF m[at + 1] = Len(d) THEN Put(m, at, t, d)
             ELSE LET r == Removed(m, at) IN Put(r, UsedLen(m) - Skip(m, at), t, d)

(* Lengths from here on are refused by both operations. *)
MaxBuf == PadLen - HeaderLen - TokenLen

Overflows(m, n) ==
    \/ n >= MaxBuf
    \/ m[0] = Magic /\ UsedLen(m) + n + TokenLen > PadLen

Request(t, d, ret) == [tok |-> t, data |-> d, ret |-> ret]
NoRequest == [ret |-> 0]

(* Mutant: the room is checked after the old data of the token were removed. *)
PadSetLate(t, d) ==
    \/ /\ ~Overflows(pad, Len(d))
       /\ pad' = Stored(pad, t, d)
       /\ last' = Request(t, d, 0)
    \/ /\ Overflows(pad, Len(d))
       /\ last' = Request(t, d, -1)
       /\ pad' = IF pad[0] # Magic \/ Find(pad, t) = {} THEN pad
                 ELSE Removed(pad, Min(Find(pad, t)))

PadSet(t, d) ==
    \/ /\ ~Overflows(pad, Len(d))
       /\ pad' = Stored(pad, t, d)
       /\ last' = Request(t, d, 0)
    \/ /\ Overflows(pad, Len(d))
       /\ last' = Request(t, d, -1)
       /\ UNCHANGED pad

(* The same without a buffer (tokBuf NULL, length 0): the token is removed; in a    *)
(* new pad its name is written all the same.                                        *)
PadRemove(t) ==
    \/ /\ ~Overflows(pad, 0)
       /\ pad' = IF pad[0] # Magic THEN Put(Headed(pad), HeaderLen, t, <<>>)
                 ELSE IF Find(pad, t) = {} THEN pad
                 ELSE Removed(pad, Min(Find(pad, t)))
       /\ last' = Request(t, <<>>, 0)
    \/ /\ Overflows(pad, 0)
       /\ last' = Request(t, <<>>, -1)
       /\ UNCHANGED pad

(* kerSysScratchPadClearAll *)
PadClearAll == pad' = [i \in Offsets |-> Zero] /\ last' = NoRequest

-------------------------------------------------------------------------------------
(* Mutant: the way to the next token is not rounded up. *)
GetFromUnaligned(m, t, bufLen) ==
    LET walk[i \in Places] == [used \in Places |->
            IF At(m, i) = Zero \/ ~ValidLen(At(m, i + 1)) \/ used >= PadLen THEN NoData
            ELSE IF At(m, i) = t
            THEN [k \in 1 .. At(m, i + 1) |-> At(m, i + TokenLen + k - 1)]
            ELSE walk[i + TokenLen + At(m, i + 1)][used + Rounded(At(m, i + 1))]]
    IN  IF bufLen >= MaxBuf \/ m[0] # Magic THEN NoData ELSE walk[HeaderLen][HeaderLen]

(* kerSysScratchPadGet: its loop stops at an empty name or a length that is not     *)
(* valid; what it counts as used leaves out the token headers.                      *)
GetFrom(m, t, bufLen) ==
    LET walk[i \in Places] == [used \in Places |->
            IF At(m, i) = Zero \/ ~ValidLen(At(m, i + 1)) \/ used >= PadLen THEN NoData
            ELSE IF At(m, i) = t
            THEN IF At(m, i + 1) > bufLen THEN NoData
                 ELSE [k \in 1 .. At(m, i + 1) |-> At(m, i + TokenLen + k - 1)]
            ELSE walk[i + Skip(m, i)][used + Rounded(At(m, i + 1))]]
    IN  IF bufLen >= MaxBuf \/ m[0] # Magic THEN NoData ELSE walk[HeaderLen][HeaderLen]

-------------------------------------------------------------------------------------
(* A pad in erased flash, or one that was cleared.  Other leftovers without the magic *)
(* number, which the first kerSysScratchPadSet would leave behind its token, do not   *)
(* occur: what is written to these sectors is a pad, zeros, or an erased sector.      *)
PadInit == /\ \E x \in {Erased, Zero} : pad = [i \in Offsets |-> x]
           /\ last = NoRequest
PadNext == PadClearAll \/ \E t \in Tokens : PadRemove(t) \/ \E d \in Strings : PadSet(t, d)
PadSpec == PadInit /\ [][PadNext]_padVars

(* The data of a token as the loops of kerSysScratchPadSet see them. *)
DataOf(m, t) ==
    IF m[0] # Magic \/ Find(m, t) = {} THEN NoData
    ELSE LET at == Min(Find(m, t)) IN [k \in 1 .. m[at + 1] |-> m[at + TokenLen + k - 1]]

Map == INSTANCE PadMap WITH map <- [t \in Tokens |-> DataOf(pad, t)]

(* The pad is a map: whatever the lengths, the order and the moves, a set that      *)
(* returns 0 stores its data whole and keeps the other tokens, and a set that is    *)
(* refused changes nothing (kerSysScratchPadSet).                                   *)
ImplementsMap == Map!MapSpec

(* kerSysScratchPadGet, with its own loop and its own count of the used length,     *)
(* finds exactly the tokens the loops of kerSysScratchPadSet find, with their data. *)
GetSeesEveryToken == \A t \in Tokens : GetFrom(pad, t, MaxBuf - 1) = DataOf(pad, t)

(* No token is stored twice, the tokens end inside the pad, and what follows them   *)
(* is never taken for a token: there is always a clean end of the list.             *)
TokensWellFormed ==
    pad[0] = Magic =>
        /\ \A i, j \in TokensFrom(pad) : pad[i] = pad[j] => i = j
        /\ UsedLen(pad) <= PadLen
        /\ \A i \in UsedLen(pad) + 2 .. PadLen - 1 : pad[i] \in {Zero, Erased}
====================================================================================
