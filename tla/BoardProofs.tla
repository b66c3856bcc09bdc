-------------------------------- MODULE BoardProofs ---------------------------------
(* The board driver.  Its MAC address allocator keeps ids unique, gives out fresh    *)
(* addresses first, and lets callers share an address only if it cannot tell them    *)
(* apart, for every number of callers and addresses.  Its list of dying gasp callbacks can  *)
(* be walked at every moment, for any number of handlers, and the button dies only   *)
(* by being released.                                                                *)
EXTENDS MacAlloc, BoardEvents, FiniteSetTheorems, SequenceTheorems, WellFoundedInduction,
        TLAPS

-------------------------------------------------------------------------------------
(* The MAC address allocator *)

(* The record of an entry. *)
Entry == [id : Nat, inUse : BOOLEAN]

(* The table after an address was given out. *)
LEMMA GivenEntry ==
    ASSUME mai \in [Entries -> Entry], NEW c \in Clients, NEW i \in Candidates(Id[c])
    PROVE  /\ i \in Entries /\ Given(i, Id[c]) \in [Entries -> Entry]
           /\ \A j \in Entries : j # i => Given(i, Id[c])[j] = mai[j]
           /\ Given(i, Id[c])[i].inUse = TRUE
           /\ Given(i, Id[c])[i].id = IF Matching(Id[c]) # {} THEN mai[i].id ELSE Id[c]
<1> DEFINE id == IF Matching(Id[c]) # {} THEN mai[i].id ELSE Id[c]
<1>1. i \in Entries
  BY DEF Candidates, Matching, NeverUsed, UsedBefore
<1>2. id \in Nat
  <2>1. CASE Id[c] = MacAddressAny
    <3>1. Matching(Id[c]) # {}
      BY <1>1, <2>1 DEF Matching
    <3> QED BY <1>1, <3>1 DEF Entry
  <2>2. CASE Id[c] # MacAddressAny
    BY <1>1, <2>2, MacAssumption DEF Entry
  <2> QED BY <2>1, <2>2
<1>3. Given(i, Id[c]) = [mai EXCEPT ![i] = [@ EXCEPT !.inUse = TRUE, !.id = id]]
  BY <1>1 DEF Given
<1> HIDE DEF id
<1>4. /\ Given(i, Id[c]) \in [Entries -> Entry]
      /\ \A j \in Entries : j # i => Given(i, Id[c])[j] = mai[j]
      /\ Given(i, Id[c])[i].inUse = TRUE
      /\ Given(i, Id[c])[i].id = id
  BY <1>1, <1>2, <1>3 DEF Entry
<1> QED BY <1>1, <1>4 DEF id

(* The table after an address was released. *)
LEMMA FreedEntry ==
    ASSUME mai \in [Entries -> Entry], NEW a
    PROVE  /\ Freed(a) \in [Entries -> Entry]
           /\ \A j \in Entries : Freed(a)[j].id = mai[j].id
           /\ \A j \in Entries : j \notin ReleasedEntry(a) => Freed(a)[j] = mai[j]
BY DEF Freed, Entry

(* A step gives out an address, fails to, releases one or forgets one. *)
LEMMA MacSteps ==
    ASSUME [MacNext]_macVars
    PROVE  \/ \E c \in Clients, i \in Entries :
                 /\ i \in Candidates(Id[c]) /\ mai' = Given(i, Id[c])
                 /\ held' = [held EXCEPT ![c] = AddrOf(i)] /\ default' = default
                 /\ robbed' = robbed \ {c}
           \/ \E c \in Clients :
                 /\ mai' = mai /\ held' = held /\ default' = default \cup ({c} \cap XtmDevices)
                 /\ robbed' = robbed
           \/ \E c \in Clients :
                 /\ held[c] # None /\ mai' = Freed(held[c])
                 /\ held' = [held EXCEPT ![c] = None] /\ default' = default
                 /\ robbed' = (robbed \cup LosersOf(held[c])) \ {c}
           \/ \E c \in default :
                 /\ mai' = Freed(DefaultAddr) /\ held' = held /\ default' = default \ {c}
                 /\ robbed' = robbed \cup LosersOf(DefaultAddr)
           \/ \E c \in Clients :
                 /\ mai' = mai /\ held' = [held EXCEPT ![c] = None] /\ default' = default \ {c}
                 /\ robbed' = robbed \ {c}
           \/ UNCHANGED macVars
<1>1. \A c \in Clients : Candidates(Id[c]) \subseteq Entries
  BY DEF Candidates, Matching, NeverUsed, UsedBefore
<1> QED BY <1>1 DEF MacNext, GetMacAddress, GetMacAddressFails, ReleaseMacAddress,
                    ReleaseDefault, RegisterFails

LEMMA TypeStep == MacTypeOK /\ [MacNext]_macVars => MacTypeOK'
<1> SUFFICES ASSUME MacTypeOK, [MacNext]_macVars PROVE MacTypeOK'
  OBVIOUS
<1> DEFINE A == {AddrOf(i) : i \in Entries} \cup {None}
<1>1. /\ mai \in [Entries -> Entry] /\ held \in [Clients -> A]
      /\ default \in SUBSET XtmDevices /\ robbed \in SUBSET Clients
  BY DEF MacTypeOK, Entry
<1>2. mai' \in [Entries -> Entry]
  <2>1. ASSUME NEW c \in Clients, NEW i \in Candidates(Id[c]), mai' = Given(i, Id[c])
        PROVE  mai' \in [Entries -> Entry]
    BY <1>1, <2>1, GivenEntry
  <2>2. ASSUME NEW a, mai' = Freed(a) PROVE mai' \in [Entries -> Entry]
    BY <1>1, <2>2, FreedEntry
  <2>3. CASE mai' = mai
    BY <1>1, <2>3
  <2> QED BY <2>1, <2>2, <2>3, MacSteps DEF macVars
<1>3. held' \in [Clients -> A] /\ default' \in SUBSET XtmDevices
  <2>1. \A i \in Entries : AddrOf(i) \in A
    OBVIOUS
  <2>2. None \in A
    OBVIOUS
  <2> HIDE DEF A
  <2> QED BY <1>1, <2>1, <2>2, MacSteps DEF macVars
<1>4. robbed' \in SUBSET Clients
  <2>1. \A a : LosersOf(a) \subseteq Clients
    BY DEF LosersOf
  <2> QED BY <1>1, <2>1, MacSteps DEF macVars
<1> QED BY <1>2, <1>3, <1>4 DEF MacTypeOK, Entry, AddrOf

LEMMA TypeInit == MacInit => MacTypeOK
BY DEF MacInit, MacTypeOK, NoId

(* Type correctness: the table only holds ids that callers pass, never              *)
(* MAC_ADDRESS_ANY, and callers only use addresses of the table.                   *)
THEOREM MacTypeCorrect == MacSpec => []MacTypeOK
BY TypeInit, TypeStep, PTL DEF MacSpec

(* A caller's id is at one address: kerSysGetMacAddress stores an id only after it *)
(* has not found it.                                                               *)
THEOREM IdsAlwaysUnique == MacSpec => []IdsUnique
<1>1. MacInit => IdsUnique
  BY DEF MacInit, IdsUnique
<1>2. MacTypeOK /\ IdsUnique /\ [MacNext]_macVars => IdsUnique'
  <2> SUFFICES ASSUME MacTypeOK, IdsUnique, [MacNext]_macVars PROVE IdsUnique'
    OBVIOUS
  <2>1. mai \in [Entries -> Entry]
    BY DEF MacTypeOK, Entry
  <2>2. ASSUME NEW c \in Clients, NEW i \in Candidates(Id[c]), mai' = Given(i, Id[c])
        PROVE  IdsUnique'
    <3>1. CASE Matching(Id[c]) # {}
      <4>1. \A j \in Entries : mai'[j].id = mai[j].id
        BY <2>1, <2>2, <3>1, GivenEntry, ZenonT(40)
      <4> QED BY <4>1 DEF IdsUnique
    <3>2. CASE Matching(Id[c]) = {}
      <4>1. \A j \in Entries : mai[j].id # Id[c]
        BY <3>2 DEF Matching
      <4>2. i \in Entries /\ mai'[i].id = Id[c]
            /\ \A j \in Entries : j # i => mai'[j] = mai[j]
        BY <2>1, <2>2, <3>2, GivenEntry, ZenonT(40)
      <4> QED BY <4>1, <4>2 DEF IdsUnique
    <3> QED BY <3>1, <3>2
  <2>3. ASSUME NEW a, mai' = Freed(a) PROVE IdsUnique'
    BY <2>1, <2>3, FreedEntry DEF IdsUnique
  <2>4. CASE mai' = mai
    BY <2>4 DEF IdsUnique
  <2> QED BY <2>2, <2>3, <2>4, MacSteps DEF macVars
<1> QED BY <1>1, <1>2, MacTypeCorrect, PTL DEF MacSpec

(* Addresses that have never been used go first. *)
THEOREM FreshAlwaysFirst == MacSpec => FreshFirst
<1> DEFINE Fresh == \A i \in Entries :
                       mai[i].id # NoId /\ mai'[i].id # mai[i].id => NeverUsed = {}
<1>1. MacTypeOK /\ [MacNext]_macVars => [Fresh]_macVars
  <2> SUFFICES ASSUME MacTypeOK, [MacNext]_macVars PROVE Fresh
    OBVIOUS
  <2>1. mai \in [Entries -> Entry]
    BY DEF MacTypeOK, Entry
  <2>2. ASSUME NEW c \in Clients, NEW i \in Candidates(Id[c]), mai' = Given(i, Id[c])
        PROVE  Fresh
    <3>3. \A j \in Entries : j # i => mai'[j] = mai[j]
      BY <2>1, <2>2, GivenEntry, ZenonT(40)
    <3>1. CASE Matching(Id[c]) # {}
      <4>1. mai'[i].id = mai[i].id
        BY <2>1, <2>2, <3>1, GivenEntry
      <4> QED BY <3>3, <4>1
    <3>2. CASE Matching(Id[c]) = {}
      <4>1. NeverUsed # {} => mai[i].id = NoId
        BY <2>2, <3>2 DEF Candidates, NeverUsed
      <4> QED BY <3>3, <4>1
    <3> QED BY <3>1, <3>2
  <2>3. ASSUME NEW a, mai' = Freed(a) PROVE Fresh
    BY <2>1, <2>3, FreedEntry
  <2>4. CASE mai' = mai
    BY <2>4
  <2> HIDE DEF Fresh
  <2> QED BY <2>2, <2>3, <2>4, MacSteps DEF macVars
<1> QED BY <1>1, MacTypeCorrect, PTL DEF MacSpec, FreshFirst

-------------------------------------------------------------------------------------
(* Who uses an address, and what becomes of it. *)

(* Three bytes are many more than the addresses of a board. *)
LEMMA ModulusLarge == AddrModulus \in Nat /\ AddrModulus > 2 * MaxCount
BY DEF AddrModulus, MaxCount

(* An address is its base plus its number, or wraps around and is below the base. *)
LEMMA AddrValue ==
    ASSUME NEW i \in Entries
    PROVE  /\ i \in Nat /\ i < NumMacAddrs /\ NumMacAddrs \in Nat /\ Base \in Nat
           /\ NumMacAddrs < AddrModulus
           /\ AddrOf(i) \in Addrs /\ AddrOf(i) # None
           /\ AddrOf(i) = Base + i \/ AddrOf(i) = Base + i - AddrModulus
<1>1. /\ Base \in 0 .. AddrModulus - 1 /\ NumMacAddrs \in 1 .. MaxCount
      /\ i \in 0 .. NumMacAddrs - 1 /\ MaxCount \in Nat
  BY MacAssumption DEF Addrs, Entries, MaxCount
<1>2. /\ Base \in Nat /\ i \in Nat /\ NumMacAddrs \in Nat /\ i < NumMacAddrs
      /\ NumMacAddrs < AddrModulus /\ Base + i < 2 * AddrModulus
  BY <1>1, ModulusLarge
<1>3. (Base + i) % AddrModulus \in 0 .. AddrModulus - 1
  BY <1>2, ModulusLarge
<1>4. CASE Base + i < AddrModulus
  <2>1. (Base + i) % AddrModulus = Base + i
    BY <1>2, <1>4, ModulusLarge
  <2> QED BY <1>2, <1>3, <2>1, MacAssumption DEF AddrOf, Addrs
<1>5. CASE Base + i >= AddrModulus
  <2>1. (Base + i) % AddrModulus = Base + i - AddrModulus
    BY <1>2, <1>5, ModulusLarge
  <2> QED BY <1>2, <1>3, <2>1, MacAssumption DEF AddrOf, Addrs
<1>6. Base + i < AddrModulus \/ Base + i >= AddrModulus
  BY <1>2, ModulusLarge
<1> QED BY <1>4, <1>5, <1>6

(* An address has one entry. *)
LEMMA AddrInjective ==
    ASSUME NEW i \in Entries, NEW j \in Entries, AddrOf(i) = AddrOf(j)
    PROVE  i = j
<1>1. /\ i \in Nat /\ j \in Nat /\ i < AddrModulus /\ j < AddrModulus /\ Base \in Nat
  BY AddrValue, ModulusLarge
<1>2. /\ AddrOf(i) = Base + i \/ AddrOf(i) = Base + i - AddrModulus
      /\ AddrOf(j) = Base + j \/ AddrOf(j) = Base + j - AddrModulus
  BY AddrValue
<1> QED BY <1>1, <1>2, ModulusLarge

(* The entry a release frees has the address that is released. *)
LEMMA ReleasedAddr ==
    ASSUME NEW a \in Addrs, NEW i \in ReleasedEntry(a)
    PROVE  i \in Entries /\ AddrOf(i) = a
<1>1. /\ Base \in Nat /\ NumMacAddrs \in Nat /\ a \in 0 .. AddrModulus - 1
      /\ a >= Base /\ a - Base < NumMacAddrs /\ i = a - Base
  BY MacAssumption, ModulusLarge DEF Addrs, MaxCount, ReleasedEntry
<1>2. i \in Entries /\ Base + i = a
  BY <1>1 DEF Entries
<1>3. a % AddrModulus = a
  BY <1>1, ModulusLarge
<1> QED BY <1>2, <1>3 DEF AddrOf

(* What an entry does for a caller that uses it. *)
Owns(c, i) ==
    /\ held[c] = AddrOf(i) /\ mai[i].inUse
    /\ mai[i].id = Id[c] \/ Id[c] = MacAddressAny

(* A release leaves those alone that do not lose their address. *)
LEMMA FreedOthers ==
    ASSUME mai \in [Entries -> Entry], NEW a \in Addrs, mai' = Freed(a),
           NEW d \in Clients, NEW j \in Entries, held[d] = AddrOf(j),
           d \notin LosersOf(a)
    PROVE  mai'[j] = mai[j]
<1>1. j \notin ReleasedEntry(a)
  BY ReleasedAddr DEF LosersOf
<1> QED BY <1>1, FreedEntry

LEMMA OwnerStep ==
    ASSUME MacTypeOK, HolderOwnsEntry, [MacNext]_macVars
    PROVE  HolderOwnsEntry'
<1>1. mai \in [Entries -> Entry] /\ DOMAIN held = Clients /\ robbed \subseteq Clients
  BY DEF MacTypeOK, Entry
<1>0. \A d \in Clients \ robbed : held[d] # None => \E j \in Entries : Owns(d, j)
  BY DEF HolderOwnsEntry, Owns
<1>9. ASSUME NEW d \in Clients \ robbed, NEW j \in Entries, Owns(d, j),
             held'[d] = held[d], mai'[j] = mai[j]
      PROVE  Owns(d, j)'
  BY <1>9 DEF Owns, AddrOf
<1>2. ASSUME NEW c \in Clients, NEW i \in Entries, i \in Candidates(Id[c]),
             mai' = Given(i, Id[c]), held' = [held EXCEPT ![c] = AddrOf(i)],
             robbed' = robbed \ {c}
      PROVE  HolderOwnsEntry'
  <2>1. /\ mai'[i].inUse = TRUE
        /\ mai'[i].id = IF Matching(Id[c]) # {} THEN mai[i].id ELSE Id[c]
        /\ \A j \in Entries : j # i => mai'[j] = mai[j]
    BY <1>1, <1>2, GivenEntry, ZenonT(40)
  <2>2. mai'[i].id = Id[c] \/ Id[c] = MacAddressAny
    BY <1>2, <2>1 DEF Candidates, Matching
  <2>3. ASSUME NEW d \in Clients, d \notin robbed', held'[d] # None
        PROVE  \E j \in Entries : Owns(d, j)'
    <3>1. CASE d = c
      <4>1. held'[d] = AddrOf(i)
        BY <1>1, <1>2, <3>1
      <4> QED BY <2>1, <2>2, <3>1, <4>1 DEF Owns, AddrOf
    <3>2. CASE d # c
      <4>1. held'[d] = held[d] /\ d \in Clients \ robbed
        BY <1>1, <1>2, <2>3, <3>2
      <4>2. PICK j \in Entries : Owns(d, j)
        BY <1>0, <2>3, <4>1
      <4>3. CASE j # i
        BY <1>9, <2>1, <4>1, <4>2, <4>3
      <4>4. CASE j = i
        <5>1. Matching(Id[c]) # {}
          BY <1>2, <4>2, <4>4 DEF Owns, Candidates, NeverUsed, UsedBefore
        <5>2. mai'[i].id = mai[i].id
          BY <2>1, <5>1
        <5> QED BY <2>1, <4>1, <4>2, <4>4, <5>2 DEF Owns, AddrOf
      <4> QED BY <4>3, <4>4
    <3> QED BY <3>1, <3>2
  <2> QED BY <2>3 DEF HolderOwnsEntry, Owns, AddrOf
<1>3. ASSUME NEW c \in Clients, held[c] # None, mai' = Freed(held[c]),
             held' = [held EXCEPT ![c] = None],
             robbed' = (robbed \cup LosersOf(held[c])) \ {c}
      PROVE  HolderOwnsEntry'
  <2>1. held[c] \in Addrs
    <3>1. PICK i \in Entries : held[c] = AddrOf(i)
      BY <1>3 DEF MacTypeOK
    <3> QED BY <3>1, AddrValue
  <2>3. ASSUME NEW d \in Clients, d \notin robbed', held'[d] # None
        PROVE  \E j \in Entries : Owns(d, j)'
    <3>1. /\ d # c /\ held'[d] = held[d] /\ d \in Clients \ robbed
          /\ d \notin LosersOf(held[c])
      BY <1>1, <1>3, <2>3
    <3>2. PICK j \in Entries : Owns(d, j)
      BY <1>0, <2>3, <3>1
    <3>3. mai'[j] = mai[j]
      BY <1>1, <1>3, <2>1, <3>1, <3>2, FreedOthers DEF Owns
    <3> QED BY <1>9, <3>1, <3>2, <3>3
  <2> QED BY <2>3 DEF HolderOwnsEntry, Owns, AddrOf
<1>4. ASSUME mai' = Freed(DefaultAddr), held' = held,
             robbed' = robbed \cup LosersOf(DefaultAddr)
      PROVE  HolderOwnsEntry'
  <2>1. DefaultAddr \in Addrs
    <3>1. /\ DefaultAddr \in Int /\ AddrModulus \in Int
          /\ 0 <= DefaultAddr /\ DefaultAddr <= AddrModulus - 1
      BY SMT DEF DefaultAddr, AddrModulus
    <3> QED BY <3>1, SMT DEF Addrs
  <2>3. ASSUME NEW d \in Clients, d \notin robbed', held'[d] # None
        PROVE  \E j \in Entries : Owns(d, j)'
    <3>1. held'[d] = held[d] /\ d \in Clients \ robbed /\ d \notin LosersOf(DefaultAddr)
      BY <1>4, <2>3
    <3>2. PICK j \in Entries : Owns(d, j)
      BY <1>0, <2>3, <3>1
    <3>3. mai'[j] = mai[j]
      BY <1>1, <1>4, <2>1, <3>1, <3>2, FreedOthers DEF Owns
    <3> QED BY <1>9, <3>1, <3>2, <3>3
  <2> QED BY <2>3 DEF HolderOwnsEntry, Owns, AddrOf
<1>5. ASSUME mai' = mai, NEW c \in Clients, held' = [held EXCEPT ![c] = None],
             robbed' = robbed \ {c}
      PROVE  HolderOwnsEntry'
  BY <1>1, <1>5 DEF HolderOwnsEntry, AddrOf
<1>6. ASSUME mai' = mai, held' = held, robbed' = robbed PROVE HolderOwnsEntry'
  BY <1>6 DEF HolderOwnsEntry, AddrOf
<1> QED BY <1>2, <1>3, <1>4, <1>5, <1>6, MacSteps DEF macVars

(* The address a caller uses, unless another has released it, has an entry that is *)
(* in use and answers to the caller's id.                                          *)
THEOREM HolderAlwaysOwns == MacSpec => []HolderOwnsEntry
<1>1. MacInit => HolderOwnsEntry
  BY DEF MacInit, HolderOwnsEntry
<1>2. MacTypeOK /\ HolderOwnsEntry /\ [MacNext]_macVars => HolderOwnsEntry'
  BY OwnerStep
<1> QED BY <1>1, <1>2, MacTypeCorrect, PTL DEF MacSpec

LEMMA OwnersAlike == HolderOwnsEntry => OneHolder
<1> SUFFICES ASSUME HolderOwnsEntry, NEW c \in Clients \ robbed, NEW d \in Clients \ robbed,
                    held[c] # None, held[c] = held[d]
             PROVE  SameId(c, d)
  BY DEF OneHolder
<1>1. PICK i \in Entries : Owns(c, i)
  BY DEF HolderOwnsEntry, Owns
<1>2. PICK j \in Entries : Owns(d, j)
  BY DEF HolderOwnsEntry, Owns
<1>3. i = j
  BY <1>1, <1>2, AddrInjective DEF Owns
<1> QED BY <1>1, <1>2, <1>3 DEF Owns, SameId

(* Callers that use the same address are ones the allocator cannot tell apart, or  *)
(* one of them has lost it by a release that was not its own.                      *)
THEOREM AlwaysOneHolder == MacSpec => []OneHolder
BY OwnersAlike, HolderAlwaysOwns, PTL

(* The address a caller uses can be released, unless another has done so or it     *)
(* wrapped around.                                                                 *)
THEOREM AlwaysReleasable == MacSpec => []HeldCanBeReleased
<1>1. HolderOwnsEntry => HeldCanBeReleased
  <2> SUFFICES ASSUME HolderOwnsEntry, NEW c \in Clients \ robbed, held[c] # None,
                      held[c] >= Base
               PROVE  \E i \in ReleasedEntry(held[c]) : mai[i].inUse
    BY DEF HeldCanBeReleased
  <2>1. PICK i \in Entries : held[c] = AddrOf(i) /\ mai[i].inUse
    BY DEF HolderOwnsEntry
  <2>2. AddrOf(i) = Base + i
    BY <2>1, AddrValue, ModulusLarge
  <2>3. ReleasedEntry(AddrOf(i)) = {i}
    BY <2>1, <2>2, AddrValue DEF ReleasedEntry
  <2> QED BY <2>1, <2>3
<1> QED BY <1>1, HolderAlwaysOwns, PTL

(* Who takes an address away from its user: a caller with the same id, one that    *)
(* lost it before, or a device that gives back the default address.                *)
THEOREM AlwaysRobbedByLikes == MacSpec => RobbedByLikes
<1> DEFINE Likes == \A d \in robbed' \ robbed :
                       \/ \E c \in Clients \ {d} :
                             /\ held[c] = held[d] /\ held'[c] = None
                             /\ c \in robbed \/ SameId(c, d)
                       \/ default # {} /\ held[d] = DefaultAddr
<1>1. MacTypeOK /\ HolderOwnsEntry /\ [MacNext]_macVars => [Likes]_macVars
  <2> SUFFICES ASSUME MacTypeOK, OneHolder, [MacNext]_macVars, NEW d \in robbed',
                      d \notin robbed
               PROVE  \/ \E c \in Clients \ {d} :
                            /\ held[c] = held[d] /\ held'[c] = None
                            /\ c \in robbed \/ SameId(c, d)
                      \/ default # {} /\ held[d] = DefaultAddr
    BY OwnersAlike
  <2>1. ASSUME NEW c \in Clients, held[c] # None, held' = [held EXCEPT ![c] = None],
               robbed' = (robbed \cup LosersOf(held[c])) \ {c}
        PROVE  \E e \in Clients \ {d} :
                  held[e] = held[d] /\ held'[e] = None /\ (e \in robbed \/ SameId(e, d))
    <3>1. d \in Clients /\ d # c /\ held[d] = held[c]
      BY <2>1 DEF LosersOf
    <3>2. c \in robbed \/ SameId(c, d)
      BY <2>1, <3>1 DEF OneHolder
    <3>3. held'[c] = None
      BY <2>1 DEF MacTypeOK
    <3> QED BY <3>1, <3>2, <3>3
  <2>2. ASSUME NEW c \in default, robbed' = robbed \cup LosersOf(DefaultAddr)
        PROVE  default # {} /\ held[d] = DefaultAddr
    BY <2>2 DEF LosersOf
  <2>3. \/ robbed' \subseteq robbed
        \/ \E c \in Clients :
              /\ held[c] # None /\ held' = [held EXCEPT ![c] = None]
              /\ robbed' = (robbed \cup LosersOf(held[c])) \ {c}
        \/ \E c \in default : robbed' = robbed \cup LosersOf(DefaultAddr)
    BY MacSteps DEF macVars
  <2> QED BY <2>1, <2>2, <2>3
<1> QED BY <1>1, MacTypeCorrect, HolderAlwaysOwns, PTL DEF MacSpec, RobbedByLikes

-------------------------------------------------------------------------------------
(* Dying gasp, button and monitor *)

(* The links lead from the head through ord[1] .. ord[n] and back to it. *)
Follows(nx, n, ord) ==
    /\ n \in Nat /\ ord \in [0 .. n + 1 -> ListEntries]
    /\ ord[0] = ListHead /\ ord[n + 1] = ListHead
    /\ \A k \in 1 .. n : ord[k] \in Handlers
    /\ \A j, k \in 1 .. n : ord[j] = ord[k] => j = k
    /\ \A k \in 0 .. n : nx[ord[k]] = ord[k + 1]
Members(n, ord) == {ord[k] : k \in 1 .. n}

(* A walk ends, and comes by R at least. *)
Walkable(nx, R) == \E n, ord : Follows(nx, n, ord) /\ R \subseteq Members(n, ord)

(* A list of R in both directions, and of nothing else. *)
ListOf(nx, pv, R) ==
    \E n, ord :
        /\ Follows(nx, n, ord) /\ Members(n, ord) = R
        /\ \A k \in 0 .. n : pv[ord[k + 1]] = ord[k]
        /\ \A h \in Handlers \ R : nx[h] = NULL

(* The links after a store. *)
NextAfter(nx, s) == IF s.link = "next" THEN [nx EXCEPT ![s.entry] = s.value] ELSE nx
PrevAfter(pv, s) == IF s.link = "prev" THEN [pv EXCEPT ![s.entry] = s.value] ELSE pv

(* The end of a request: the entry h is in the list if it has links. *)
Settled(nx, pv, R, h) == ListOf(nx, pv, R \cup IF nx[h] # NULL THEN {h} ELSE {})

(* Every store of a request leaves something that can be walked, the last one a list. *)
Pending(nx, pv, st, R, h) ==
    LET n1 == NextAfter(nx, st[1])
        p1 == PrevAfter(pv, st[1])
        n2 == NextAfter(n1, st[2])
        p2 == PrevAfter(p1, st[2])
        n3 == NextAfter(n2, st[3])
        p3 == PrevAfter(p2, st[3])
    IN  /\ Walkable(nx, R)
        /\ \/ Len(st) = 0 /\ ListOf(nx, pv, R)
           \/ Len(st) = 1 /\ Settled(n1, p1, R, h)
           \/ Len(st) = 2 /\ Walkable(n1, R) /\ Settled(n2, p2, R, h)
           \/ Len(st) = 3 /\ Walkable(n1, R) /\ Walkable(n2, R) /\ Settled(n3, p3, R, h)
           \/ Len(st) = 4 /\ Walkable(n1, R) /\ Walkable(n2, R) /\ Walkable(n3, R)
              /\ Settled(NextAfter(n3, st[4]), PrevAfter(p3, st[4]), R, h)

(* The inductive invariant. *)
GaspInv ==
    /\ GaspTypeOK
    /\ change.stores = <<>> => change = Quiet
    /\ Pending(next, prev, change.stores, registered, change.h)
    /\ GaspReachesAll

-------------------------------------------------------------------------------------
(* Lists *)

(* No entry comes twice, the head included. *)
LEMMA Distinct ==
    ASSUME NEW nx, NEW n, NEW ord, Follows(nx, n, ord),
           NEW j \in 0 .. n, NEW k \in 0 .. n, ord[j] = ord[k]
    PROVE  j = k
<1>1. ListHead \notin Handlers /\ n \in Nat
  BY GaspAssumption DEF Follows
<1>2. CASE j \in 1 .. n /\ k \in 1 .. n
  BY <1>2 DEF Follows
<1>3. CASE j = 0 \/ k = 0
  BY <1>1, <1>3 DEF Follows
<1> QED BY <1>1, <1>2, <1>3

LEMMA ListWalkable ==
    ASSUME NEW nx, NEW pv, NEW R, NEW S, ListOf(nx, pv, S), R \subseteq S
    PROVE  Walkable(nx, R)
BY DEF ListOf, Walkable

(* A store outside the walk does not disturb it. *)
LEMMA WalkKept ==
    ASSUME NEW nx, NEW n, NEW ord, Follows(nx, n, ord), DOMAIN nx = ListEntries,
           NEW h \in Handlers, h \notin Members(n, ord), NEW v
    PROVE  Follows([nx EXCEPT ![h] = v], n, ord)
<1> DEFINE mx == [nx EXCEPT ![h] = v]
<1>1. ASSUME NEW k \in 0 .. n PROVE mx[ord[k]] = ord[k + 1]
  <2>1. ord[k] # h /\ ord[k] \in ListEntries
    <3>1. CASE k = 0
      BY <3>1, GaspAssumption DEF Follows, ListEntries
    <3>2. CASE k \in 1 .. n
      BY <3>2 DEF Follows, Members, ListEntries
    <3> QED BY <3>1, <3>2 DEF Follows
  <2> QED BY <2>1 DEF Follows
<1> HIDE DEF mx
<1>2. Follows(mx, n, ord)
  BY <1>1 DEF Follows
<1> QED BY <1>2 DEF mx

(* list_add: an entry with its links set goes in after the head. *)
LEMMA InsertFirst ==
    ASSUME NEW nx \in Links, NEW pv \in Links, NEW R \in SUBSET Handlers,
           NEW h \in Handlers \ R, ListOf(nx, pv, R)
    PROVE  LET f  == nx[ListHead]
               mx == [[nx EXCEPT ![h] = f] EXCEPT ![ListHead] = h]
               mv == [[pv EXCEPT ![f] = h] EXCEPT ![h] = ListHead]
           IN  ListOf(mx, mv, R \cup {h}) /\ f \in ListEntries /\ f # h
<1> DEFINE f  == nx[ListHead]
           mx == [[nx EXCEPT ![h] = f] EXCEPT ![ListHead] = h]
           mv == [[pv EXCEPT ![f] = h] EXCEPT ![h] = ListHead]
<1>1. PICK n, ord :
        /\ Follows(nx, n, ord) /\ Members(n, ord) = R
        /\ \A k \in 0 .. n : pv[ord[k + 1]] = ord[k]
        /\ \A e \in Handlers \ R : nx[e] = NULL
  BY DEF ListOf
<1>2. /\ n \in Nat /\ ord[0] = ListHead /\ ord[n + 1] = ListHead
      /\ \A k \in 1 .. n : ord[k] \in Handlers /\ ord[k] # h
      /\ \A k \in 0 .. n + 1 : ord[k] \in ListEntries
      /\ \A k \in 0 .. n : nx[ord[k]] = ord[k + 1]
      /\ ListHead # h /\ ListHead \notin Handlers /\ ListHead \in ListEntries /\ h \in ListEntries
  BY <1>1, GaspAssumption DEF Follows, Members, ListEntries
<1>3. f = ord[1] /\ f \in ListEntries /\ f # h /\ (n >= 1 => f # ListHead)
  <2>1. 0 \in 0 .. n /\ 0 + 1 = 1 /\ 1 \in 0 .. n + 1
    BY <1>2
  <2>2. f = ord[1] /\ f \in ListEntries
    BY <1>2, <2>1
  <2>3. CASE n = 0
    BY <1>2, <2>2, <2>3
  <2>4. CASE n >= 1
    <3>1. 1 \in 1 .. n
      BY <1>2, <2>4
    <3> QED BY <1>2, <2>2, <3>1
  <2> QED BY <1>2, <2>2, <2>3, <2>4
<1> DEFINE new == [k \in 0 .. n + 2 |-> IF k = 0 THEN ListHead
                                        ELSE IF k = 1 THEN h ELSE ord[k - 1]]
<1>4. /\ new[0] = ListHead /\ new[1] = h
      /\ \A k \in 2 .. n + 2 : new[k] = ord[k - 1]
      /\ new \in [0 .. n + 2 -> ListEntries]
  BY <1>2
<1>5. /\ mx[h] = f /\ mx[ListHead] = h
      /\ \A e \in Handlers \ {h} : mx[e] = nx[e]
  BY <1>2 DEF Links, ListEntries
<1>6. /\ mv[h] = ListHead /\ mv[f] = h
      /\ \A e \in ListEntries \ {h, f} : mv[e] = pv[e]
  BY <1>2, <1>3 DEF Links
<1> HIDE DEF f, mx, mv, new
<1>7. ASSUME NEW k \in 0 .. n + 1
      PROVE  mx[new[k]] = new[k + 1] /\ mv[new[k + 1]] = new[k]
  <2>1. CASE k = 0
    BY <1>2, <1>4, <1>5, <1>6, <2>1
  <2>2. CASE k = 1
    <3>1. new[k] = h /\ new[k + 1] = f
      BY <1>2, <1>3, <1>4, <2>2
    <3> QED BY <1>5, <1>6, <3>1
  <2>3. CASE k >= 2
    <3>0. k - 1 \in 1 .. n /\ k \in 2 .. n + 2 /\ k + 1 \in 2 .. n + 2 /\ (k + 1) - 1 = k
          /\ (k - 1) + 1 = k /\ k - 1 \in 0 .. n /\ k \in 0 .. n + 1 /\ n >= 1
      BY <1>2, <2>3
    <3>1. new[k] = ord[k - 1] /\ new[k + 1] = ord[k]
      BY <1>4, <3>0
    <3>2. nx[ord[k - 1]] = ord[k] /\ pv[ord[k]] = ord[k - 1]
      BY <1>1, <1>2, <3>0
    <3>3. ord[k - 1] \in Handlers \ {h}
      BY <1>2, <3>0
    <3>4. ord[k] \in ListEntries \ {h, f}
      <4>1. ord[k] \in ListEntries /\ ord[k] # h
        <5>1. CASE k = n + 1
          BY <1>2, <5>1
        <5>2. CASE k \in 1 .. n
          BY <1>2, <3>0, <5>2
        <5> QED BY <1>2, <3>0, <5>1, <5>2
      <4>2. ord[k] # f
        <5>1. CASE k = n + 1
          BY <1>2, <1>3, <3>0, <5>1
        <5>2. CASE k \in 1 .. n
          <6>1. 1 \in 1 .. n /\ k # 1
            BY <1>2, <2>3, <3>0
          <6> QED BY <1>1, <1>3, <5>2, <6>1 DEF Follows
        <5> QED BY <1>2, <3>0, <5>1, <5>2
      <4> QED BY <4>1, <4>2
    <3> QED BY <1>5, <1>6, <3>1, <3>2, <3>3, <3>4
  <2> QED BY <1>2, <2>1, <2>2, <2>3
<1>8. \A k \in 1 .. n + 1 : new[k] = IF k = 1 THEN h ELSE ord[k - 1]
  BY <1>2, <1>4
<1>9. Follows(mx, n + 1, new)
  <2>1. n + 1 \in Nat /\ (n + 1) + 1 = n + 2 /\ new[n + 2] = ListHead
    <3>1. n + 2 \in 2 .. n + 2 /\ (n + 2) - 1 = n + 1
      BY <1>2
    <3> QED BY <1>2, <1>4, <3>1
  <2>2. ASSUME NEW k \in 1 .. n + 1 PROVE new[k] \in Handlers
    <3>1. k = 1 \/ k - 1 \in 1 .. n
      BY <1>2
    <3> QED BY <1>2, <1>8, <3>1
  <2>3. ASSUME NEW j \in 1 .. n + 1, NEW k \in 1 .. n + 1, new[j] = new[k]
        PROVE  j = k
    <3>1. (j = 1 \/ j - 1 \in 1 .. n) /\ (k = 1 \/ k - 1 \in 1 .. n)
      BY <1>2
    <3>2. CASE j = 1 \/ k = 1
      BY <1>2, <1>8, <2>3, <3>1, <3>2
    <3>3. CASE j # 1 /\ k # 1
      <4>1. ord[j - 1] = ord[k - 1]
        BY <1>8, <2>3, <3>3
      <4>2. j - 1 = k - 1
        BY <1>1, <3>1, <3>3, <4>1 DEF Follows
      <4> QED BY <4>2, <1>2
    <3> QED BY <3>2, <3>3
  <2> QED BY <1>4, <1>7, <2>1, <2>2, <2>3 DEF Follows
<1>10. Members(n + 1, new) = R \cup {h}
  <2>1. ASSUME NEW e \in R PROVE e \in Members(n + 1, new)
    <3>1. PICK k \in 1 .. n : e = ord[k]
      BY <1>1 DEF Members
    <3>2. k + 1 \in 1 .. n + 1 /\ k + 1 # 1 /\ (k + 1) - 1 = k
      BY <1>2
    <3>3. new[k + 1] = e
      BY <1>8, <3>1, <3>2
    <3> QED BY <3>2, <3>3 DEF Members
  <2>2. h \in Members(n + 1, new)
    <3>1. 1 \in 1 .. n + 1
      BY <1>2
    <3> QED BY <1>4, <3>1 DEF Members
  <2>3. ASSUME NEW e \in Members(n + 1, new) PROVE e \in R \cup {h}
    <3>1. PICK k \in 1 .. n + 1 : e = new[k]
      BY DEF Members
    <3>2. k = 1 \/ k - 1 \in 1 .. n
      BY <1>2
    <3> QED BY <1>1, <1>8, <3>1, <3>2 DEF Members
  <2> QED BY <2>1, <2>2, <2>3
<1>11. \A e \in Handlers \ (R \cup {h}) : mx[e] = NULL
  BY <1>1, <1>5
<1>12. ListOf(mx, mv, R \cup {h})
  <2>1. \A k \in 0 .. n + 1 : mv[new[k + 1]] = new[k]
    BY <1>7
  <2> QED BY <1>9, <1>10, <1>11, <2>1 DEF ListOf
<1> QED BY <1>3, <1>12 DEF f, mx, mv

(* list_del: the entries on both sides of one are linked to each other; from the     *)
(* first of the two stores to next on, a walk passes it by.                          *)
LEMMA RemoveEntry ==
    ASSUME NEW nx \in Links, NEW pv \in Links, NEW R \in SUBSET Handlers,
           NEW h \in R, ListOf(nx, pv, R)
    PROVE  LET mx == [nx EXCEPT ![pv[h]] = nx[h]]
               mv == [pv EXCEPT ![nx[h]] = pv[h]]
           IN  /\ nx[h] \in ListEntries /\ pv[h] \in ListEntries
               /\ Walkable(mx, R \ {h})
               /\ ListOf([mx EXCEPT ![h] = NULL], [mv EXCEPT ![h] = NULL], R \ {h})
<1> DEFINE a  == pv[h]
           b  == nx[h]
           mx == [nx EXCEPT ![a] = b]
           mv == [pv EXCEPT ![b] = a]
           kx == [mx EXCEPT ![h] = NULL]
           kv == [mv EXCEPT ![h] = NULL]
<1>1. PICK n, ord :
        /\ Follows(nx, n, ord) /\ Members(n, ord) = R
        /\ \A k \in 0 .. n : pv[ord[k + 1]] = ord[k]
        /\ \A e \in Handlers \ R : nx[e] = NULL
  BY DEF ListOf
<1>2. /\ n \in Nat /\ ord[0] = ListHead /\ ord[n + 1] = ListHead
      /\ \A k \in 1 .. n : ord[k] \in Handlers
      /\ \A k \in 0 .. n + 1 : ord[k] \in ListEntries
      /\ \A k \in 0 .. n : nx[ord[k]] = ord[k + 1]
      /\ ListHead \notin Handlers /\ h \in Handlers /\ h \in ListEntries
  BY <1>1, GaspAssumption DEF Follows, ListEntries
<1>3. PICK m \in 1 .. n : ord[m] = h
  BY <1>1 DEF Members
<1>4. /\ m \in 0 .. n /\ m - 1 \in 0 .. n /\ (m - 1) + 1 = m /\ m + 1 \in 1 .. n + 1
      /\ m - 1 \in 0 .. n + 1 /\ m + 1 \in 0 .. n + 1
  BY <1>2
<1>5. a = ord[m - 1] /\ b = ord[m + 1] /\ a \in ListEntries /\ b \in ListEntries
  BY <1>1, <1>2, <1>3, <1>4
<1>6. /\ mx \in Links /\ DOMAIN mx = ListEntries /\ mx[a] = b
      /\ \A e \in ListEntries \ {a} : mx[e] = nx[e]
  BY <1>5 DEF Links
<1>7. /\ mv[b] = a /\ mv \in Links
      /\ \A e \in ListEntries \ {b} : mv[e] = pv[e]
  BY <1>5 DEF Links
<1> DEFINE new == [k \in 0 .. n |-> IF k < m THEN ord[k] ELSE ord[k + 1]]
<1>8. /\ new \in [0 .. n -> ListEntries]
      /\ \A k \in 0 .. n : new[k] = IF k < m THEN ord[k] ELSE ord[k + 1]
  BY <1>2
<1> HIDE DEF a, b, mx, mv, new
<1>9. ASSUME NEW k \in 0 .. n - 1
      PROVE  mx[new[k]] = new[k + 1] /\ mv[new[k + 1]] = new[k] /\ new[k + 1] # h
  <2>0. k \in 0 .. n /\ k + 1 \in 0 .. n /\ k \in 0 .. n + 1 /\ k + 1 \in 0 .. n + 1
        /\ (k + 1) + 1 \in 0 .. n + 1
    BY <1>2
  <2>1. CASE k < m - 1
    <3>1. new[k] = ord[k] /\ new[k + 1] = ord[k + 1]
      <4>1. k < m /\ k + 1 < m
        BY <1>2, <2>0, <2>1
      <4> QED BY <1>8, <2>0, <4>1
    <3>2. ord[k] # a
      BY <1>1, <1>4, <1>5, <2>0, <2>1, Distinct
    <3>3. ord[k + 1] # b
      <4>1. ord[k + 1] \in Handlers
        <5>1. k + 1 \in 1 .. n
          BY <1>2, <2>0
        <5> QED BY <1>2, <5>1
      <4>2. CASE m = n
        BY <1>2, <1>5, <4>1, <4>2
      <4>3. CASE m < n
        <5>1. m + 1 \in 0 .. n /\ k + 1 # m + 1
          BY <1>2, <2>0, <2>1, <4>3
        <5> QED BY <1>1, <1>5, <2>0, <5>1, Distinct
      <4> QED BY <1>2, <4>2, <4>3
    <3>4. ord[k + 1] # h
      BY <1>1, <1>2, <1>3, <1>4, <2>0, <2>1, Distinct
    <3> QED BY <1>1, <1>2, <1>6, <1>7, <2>0, <3>1, <3>2, <3>3, <3>4
  <2>2. CASE k = m - 1
    <3>1. new[k] = a /\ new[k + 1] = b
      <4>1. k < m /\ ~(k + 1 < m) /\ (k + 1) + 1 = m + 1
        BY <1>2, <2>0, <2>2
      <4> QED BY <1>5, <1>8, <2>0, <2>2, <4>1
    <3>2. b # h
      <4>1. CASE m = n
        BY <1>2, <1>5, <4>1
      <4>2. CASE m < n
        <5>1. m + 1 \in 0 .. n /\ m # m + 1
          BY <1>2, <4>2
        <5> QED BY <1>1, <1>3, <1>4, <1>5, <5>1, Distinct
      <4> QED BY <1>2, <4>1, <4>2
    <3> QED BY <1>6, <1>7, <3>1, <3>2
  <2>3. CASE k >= m
    <3>1. new[k] = ord[k + 1] /\ new[k + 1] = ord[(k + 1) + 1]
      <4>1. ~(k < m) /\ ~(k + 1 < m)
        BY <1>2, <2>0, <2>3
      <4> QED BY <1>8, <2>0, <4>1
    <3>2. ord[k + 1] # a
      <4>1. k + 1 # m - 1
        BY <1>2, <2>3
      <4> QED BY <1>1, <1>4, <1>5, <2>0, <4>1, Distinct
    <3>3. ord[(k + 1) + 1] # b /\ ord[(k + 1) + 1] # h
      <4>0. m + 1 \in 1 .. n /\ (k + 1) + 1 # m + 1 /\ (k + 1) + 1 # m
            /\ ((k + 1) + 1 = n + 1 \/ (k + 1) + 1 \in 1 .. n)
        BY <1>2, <2>0, <2>3
      <4>1. CASE (k + 1) + 1 = n + 1
        BY <1>2, <1>5, <4>0, <4>1
      <4>2. CASE (k + 1) + 1 \in 1 .. n
        BY <1>1, <1>3, <1>5, <4>0, <4>2 DEF Follows
      <4> QED BY <4>0, <4>1, <4>2
    <3> QED BY <1>1, <1>2, <1>6, <1>7, <2>0, <3>1, <3>2, <3>3
  <2> QED BY <1>2, <2>1, <2>2, <2>3
<1>10. ASSUME NEW k \in 1 .. n - 1
       PROVE  new[k] \in Handlers \ {h} /\ new[k] \in Members(n, ord)
  <2>1. CASE k < m
    <3>0. k \in 1 .. n /\ k \in 0 .. n /\ k # m
      BY <1>2, <2>1
    <3>1. new[k] = ord[k] /\ k \in 1 .. n /\ k # m
      BY <1>8, <2>1, <3>0
    <3> QED BY <1>1, <1>2, <1>3, <3>1 DEF Follows, Members
  <2>2. CASE ~(k < m)
    <3>1. new[k] = ord[k + 1] /\ k + 1 \in 1 .. n /\ k + 1 # m
      BY <1>2, <1>8, <2>2
    <3> QED BY <1>1, <1>2, <1>3, <3>1 DEF Follows, Members
  <2> QED BY <2>1, <2>2
<1>11. Follows(mx, n - 1, new)
  <2>1. n - 1 \in Nat /\ (n - 1) + 1 = n /\ new[0] = ListHead /\ new[n] = ListHead
    <3>1. n - 1 \in Nat /\ 0 < m /\ ~(n < m) /\ 0 \in 0 .. n /\ n \in 0 .. n
      BY <1>2, <1>4
    <3> QED BY <1>2, <1>8, <3>1
  <2>2. ASSUME NEW j \in 1 .. n - 1, NEW k \in 1 .. n - 1, new[j] = new[k]
        PROVE  j = k
    <3> DEFINE up(i) == IF i < m THEN i ELSE i + 1
    <3>1. up(j) \in 1 .. n /\ up(k) \in 1 .. n
      BY <1>2
    <3>2. new[j] = ord[up(j)] /\ new[k] = ord[up(k)]
      BY <1>2, <1>8
    <3>3. up(j) = up(k)
      BY <1>1, <2>2, <3>1, <3>2 DEF Follows
    <3> QED BY <1>2, <3>3
  <2> QED BY <1>8, <1>9, <1>10, <2>1, <2>2 DEF Follows
<1>12. Members(n - 1, new) = R \ {h}
  <2>1. ASSUME NEW e \in R \ {h} PROVE e \in Members(n - 1, new)
    <3>1. PICK k \in 1 .. n : e = ord[k]
      BY <1>1 DEF Members
    <3>2. k # m
      BY <1>3, <3>1
    <3>3. CASE k < m
      <4>1. k \in 1 .. n - 1 /\ new[k] = e
        BY <1>2, <1>8, <3>1, <3>3
      <4> QED BY <4>1 DEF Members
    <3>4. CASE k > m
      <4>1. k - 1 \in 1 .. n - 1 /\ k - 1 \in 0 .. n /\ ~(k - 1 < m) /\ (k - 1) + 1 = k
        BY <1>2, <3>4
      <4>2. new[k - 1] = e
        BY <1>8, <3>1, <4>1
      <4> QED BY <4>1, <4>2 DEF Members
    <3> QED BY <1>2, <3>2, <3>3, <3>4
  <2>2. ASSUME NEW e \in Members(n - 1, new) PROVE e \in R \ {h}
    <3>1. PICK k \in 1 .. n - 1 : e = new[k]
      BY DEF Members
    <3> QED BY <1>1, <1>10, <3>1
  <2> QED BY <2>1, <2>2
<1>13. Walkable(mx, R \ {h})
  BY <1>11, <1>12 DEF Walkable
<1>14. ListOf(kx, kv, R \ {h})
  <2>1. Follows(kx, n - 1, new)
    BY <1>2, <1>6, <1>11, <1>12, WalkKept
  <2>2. \A k \in 0 .. n - 1 : kv[new[k + 1]] = new[k]
    <3> TAKE k \in 0 .. n - 1
    <3>1. mv[new[k + 1]] = new[k] /\ new[k + 1] # h
      BY <1>9
    <3>2. new[k + 1] \in ListEntries
      <4>1. k + 1 \in 0 .. n
        BY <1>2
      <4> QED BY <1>8, <4>1
    <3> QED BY <1>2, <1>7, <3>1, <3>2 DEF Links
  <2>3. \A e \in Handlers \ (R \ {h}) : kx[e] = NULL
    <3> TAKE e \in Handlers \ (R \ {h})
    <3>1. CASE e = h
      BY <1>2, <1>6, <3>1
    <3>2. CASE e # h
      <4>1. nx[e] = NULL /\ e \in ListEntries /\ kx[e] = mx[e]
        BY <1>1, <1>6, <3>2 DEF ListEntries
      <4>2. e # a
        <5>1. nx[a] # NULL
          <6>1. nx[a] \in ListEntries
            BY <1>2, <1>4, <1>5
          <6> QED BY <6>1, GaspAssumption DEF ListEntries
        <5> QED BY <4>1, <5>1
      <4> QED BY <1>6, <4>1, <4>2
    <3> QED BY <3>1, <3>2
  <2> QED BY <1>12, <2>1, <2>2, <2>3 DEF ListOf
<1> QED BY <1>5, <1>13, <1>14 DEF a, b, mx, mv

-------------------------------------------------------------------------------------
(* The walk *)

(* A set of numbers has a least one. *)
LEMMA LeastNumber ==
    ASSUME NEW T \in SUBSET Nat, T # {}
    PROVE  \E x \in T : \A y \in T : x <= y
<1>1. IsWellFoundedOn(OpToRel(<, Nat), Nat)
  BY NatLessThanWellFounded, Zenon
<1>2. PICK R : R = OpToRel(<, Nat)
  BY Zenon
<1>3. \A y, x \in Nat : y < x => <<y, x>> \in R
  BY <1>2, Zenon DEF OpToRel
<1>4. IsWellFoundedOn(R, Nat)
  BY <1>1, <1>2, Zenon
<1>5. \E x \in T : \A y \in T : <<y, x>> \notin R
  BY <1>4, WFMin
<1>6. PICK x \in T : \A y \in T : <<y, x>> \notin R
  BY <1>5
<1>7. ASSUME NEW y \in T PROVE x <= y
  <2>1. x \in Nat /\ y \in Nat /\ ~(y < x)
    BY <1>3, <1>6
  <2> QED BY <2>1
<1> QED BY <1>7

(* The list is no longer than there are handlers. *)
LEMMA ListBound ==
    ASSUME NEW nx, NEW n, NEW ord, Follows(nx, n, ord)
    PROVE  n <= Cardinality(Handlers) /\ Cardinality(Handlers) \in Nat
<1>1. n \in Nat /\ IsFiniteSet(Handlers)
  BY GaspAssumption DEF Follows
<1> DEFINE f == [k \in 1 .. n |-> ord[k]]
<1>2. f \in Injection(1 .. n, Handlers)
  BY DEF Follows, Injection, IsInjective
<1>3. Cardinality(1 .. n) <= Cardinality(Handlers)
  BY <1>1, <1>2, FS_Injection
<1>4. Cardinality(1 .. n) = n
  BY <1>1, FS_Interval
<1> QED BY <1>1, <1>3, <1>4, FS_CardinalityType

(* list_for_each comes to the entries in their order, then it stays at the head. *)
LEMMA WalkFollows ==
    ASSUME NEW n, NEW ord, Follows(next, n, ord), NEW i \in Turns
    PROVE  EntryAt[i] = IF i < n THEN ord[i + 1] ELSE ListHead
<1> DEFINE N == Cardinality(Handlers)
           at(j) == IF j < n THEN ord[j + 1] ELSE ListHead
           g == [j \in Turns |-> at(j)]
<1>1. /\ n \in Nat /\ n <= N /\ N \in Nat /\ ListHead \notin Handlers
      /\ ord[0] = ListHead /\ ord[n + 1] = ListHead
      /\ \A k \in 1 .. n : ord[k] \in Handlers
      /\ \A k \in 0 .. n : next[ord[k]] = ord[k + 1]
      /\ Turns = 0 .. N
  <2>1. n <= N /\ N \in Nat
    BY ListBound
  <2> QED BY <2>1, GaspAssumption DEF Follows, Turns
<1> HIDE DEF N
<1>2. at(0) = next[ListHead]
  <2>1. 0 \in 0 .. n
    BY <1>1
  <2>2. next[ListHead] = ord[0 + 1]
    BY <1>1, <2>1
  <2> QED BY <1>1, <2>2
<1>3. ASSUME NEW j \in Turns, j # 0
      PROVE  /\ j - 1 \in Turns
             /\ at(j) = IF at(j - 1) \in Handlers THEN next[at(j - 1)] ELSE at(j - 1)
  <2>0. j \in Nat /\ j - 1 \in Nat /\ j - 1 \in Turns /\ (j - 1) + 1 = j
    BY <1>1, <1>3
  <2>1. CASE j - 1 < n
    <3>1. at(j - 1) = ord[j] /\ j \in 1 .. n /\ j \in 0 .. n
      BY <1>1, <2>0, <2>1
    <3>2. at(j - 1) \in Handlers /\ next[at(j - 1)] = ord[j + 1]
      BY <1>1, <3>1
    <3>3. at(j) = ord[j + 1]
      BY <1>1, <2>0, <3>1
    <3> QED BY <2>0, <3>2, <3>3
  <2>2. CASE ~(j - 1 < n)
    BY <1>1, <2>0, <2>2
  <2> QED BY <2>1, <2>2
<1>4. g = [j \in Turns |-> IF j = 0 THEN next[ListHead]
                           ELSE LET e == g[j - 1]
                                IN  IF e \in Handlers THEN next[e] ELSE e]
  <2>1. \A j \in Turns : g[j] = at(j)
    OBVIOUS
  <2>2. ASSUME NEW j \in Turns
        PROVE  at(j) = IF j = 0 THEN next[ListHead]
                       ELSE LET e == g[j - 1] IN  IF e \in Handlers THEN next[e] ELSE e
    <3> HIDE DEF at, g
    <3>1. CASE j = 0
      BY <1>2, <3>1
    <3>2. CASE j # 0
      <4>1. g[j - 1] = at(j - 1)
        BY <1>3, <2>1, <3>2
      <4> QED BY <1>3, <3>2, <4>1
    <3> QED BY <3>1, <3>2
  <2> HIDE DEF at
  <2> QED BY <2>2
<1> HIDE DEF g
<1>5. EntryAt = [j \in Turns |-> IF j = 0 THEN next[ListHead]
                                 ELSE LET e == EntryAt[j - 1]
                                      IN  IF e \in Handlers THEN next[e] ELSE e]
  BY <1>4 DEF EntryAt
<1>6. /\ 0 \in Turns => EntryAt[0] = next[ListHead]
      /\ \A j \in Turns : j # 0 => EntryAt[j] = LET e == EntryAt[j - 1]
                                                IN  IF e \in Handlers THEN next[e] ELSE e
  BY <1>5
<1> HIDE DEF at
<1> DEFINE T == {j \in Turns : EntryAt[j] # at(j)}
<1>7. T = {}
  <2> SUFFICES ASSUME T # {} PROVE FALSE
    OBVIOUS
  <2>1. T \in SUBSET Nat
    BY <1>1
  <2>2. PICK x \in T : \A y \in T : x <= y
    BY <2>1, LeastNumber
  <2>3. x \in Turns /\ EntryAt[x] # at(x)
    OBVIOUS
  <2>4. x # 0
    BY <1>2, <1>6, <2>3
  <2>5. x - 1 \in Turns /\ x - 1 \notin T
    <3>1. x \in Nat /\ x - 1 \in Turns
      BY <1>1, <1>3, <2>3, <2>4
    <3>2. ~(x <= x - 1)
      BY <3>1
    <3> HIDE DEF T
    <3> QED BY <2>2, <3>1, <3>2
  <2>6. EntryAt[x - 1] = at(x - 1)
    BY <2>5
  <2> QED BY <1>3, <1>6, <2>3, <2>4, <2>6
<1> QED BY <1>7 DEF at

-------------------------------------------------------------------------------------
(* The requests and the interrupt *)

(* What is walked comes by the registered handlers, once each. *)
LEMMA InvPowerLoss ==
    ASSUME GaspInv, PowerLoss
    PROVE  GaspInv'
<1> DEFINE N == Cardinality(Handlers)
<1>1. /\ UNCHANGED <<next, prev, change, registered>> /\ GaspTypeOK /\ registered \subseteq Handlers
      /\ Walkable(next, registered)
  BY DEF PowerLoss, GaspInv, GaspTypeOK, Pending
<1>2. PICK n, ord : Follows(next, n, ord) /\ registered \subseteq Members(n, ord)
  BY <1>1 DEF Walkable
<1>3. /\ n \in Nat /\ n <= N /\ N \in Nat
      /\ \A k \in 1 .. n : ord[k] \in Handlers
      /\ \A j, k \in 1 .. n : ord[j] = ord[k] => j = k
  <2>1. n <= N /\ N \in Nat
    BY <1>2, ListBound
  <2> QED BY <1>2, <2>1 DEF Follows
<1>4. \A i \in Turns : EntryAt[i] = IF i < n THEN ord[i + 1] ELSE ListHead
  BY <1>2, WalkFollows
<1>5. Turns = 0 .. N /\ ListHead \notin Handlers /\ Dsl \in Handlers
  BY GaspAssumption DEF Turns
<1>6. called' = [h \in Handlers |->
                    IF h # Dsl THEN {i \in Turns : EntryAt[i] = h}
                    ELSE {N + 1 : i \in {j \in Turns : EntryAt[j] = Dsl}}]
  BY DEF PowerLoss
<1>7. gasp' = IF EntryAt[N] = ListHead THEN "done" ELSE "fault"
  BY DEF PowerLoss
<1> HIDE DEF N
<1>8. gasp' = "done"
  <2>1. N \in Turns /\ ~(N < n)
    BY <1>3, <1>5
  <2> QED BY <1>4, <1>7, <2>1
<1>9. ASSUME NEW h \in registered
      PROVE  \E i \in Turns : EntryAt[i] = h
  <2>1. PICK k \in 1 .. n : ord[k] = h
    BY <1>2 DEF Members
  <2>2. k - 1 \in 0 .. N /\ k - 1 < n /\ (k - 1) + 1 = k
    BY <1>3
  <2> QED BY <1>4, <1>5, <2>1, <2>2
<1>10. ASSUME NEW h \in Handlers, NEW i \in Turns, NEW j \in Turns,
              EntryAt[i] = h, EntryAt[j] = h
       PROVE  i = j
  <2>1. i \in Nat /\ j \in Nat /\ i < n /\ j < n
    BY <1>3, <1>4, <1>5, <1>10
  <2>2. i + 1 \in 1 .. n /\ j + 1 \in 1 .. n /\ ord[i + 1] = ord[j + 1]
    BY <1>3, <1>4, <1>10, <2>1
  <2>3. i + 1 = j + 1
    BY <1>3, <2>2
  <2> QED BY <2>1, <2>3
<1>11. /\ \A h \in Handlers \ {Dsl} : called'[h] = {i \in Turns : EntryAt[i] = h}
       /\ called'[Dsl] = {N + 1 : i \in {j \in Turns : EntryAt[j] = Dsl}}
  BY <1>5, <1>6
<1>12. called' \in [Handlers -> SUBSET Nat]
  <2>1. \A h \in Handlers : (IF h # Dsl THEN {i \in Turns : EntryAt[i] = h}
                             ELSE {N + 1 : i \in {j \in Turns : EntryAt[j] = Dsl}})
                            \in SUBSET Nat
    BY <1>3, <1>5
  <2> QED BY <1>6, <2>1
<1>13. GaspReachesAll'
  <2>1. \A h \in registered : called'[h] # {}
    <3> TAKE h \in registered
    <3>1. PICK i \in Turns : EntryAt[i] = h
      BY <1>9
    <3>2. CASE h = Dsl
      BY <1>11, <3>1, <3>2
    <3>3. CASE h # Dsl
      BY <1>1, <1>11, <3>1, <3>3
    <3> QED BY <3>2, <3>3
  <2>2. \A h \in Handlers : \A i, j \in called'[h] : i = j
    <3> TAKE h \in Handlers
    <3>1. CASE h = Dsl
      BY <1>11, <3>1
    <3>2. CASE h # Dsl
      BY <1>10, <1>11, <3>2
    <3> QED BY <3>1, <3>2
  <2>3. \A h \in Handlers \ {Dsl} : \A i \in called'[h], j \in called'[Dsl] : i < j
    <3> TAKE h \in Handlers \ {Dsl}
    <3> TAKE i \in called'[h], j \in called'[Dsl]
    <3>1. i \in Turns /\ j = N + 1
      BY <1>11
    <3> QED BY <1>3, <1>5, <3>1
  <2> QED BY <1>1, <1>8, <2>1, <2>2, <2>3 DEF GaspReachesAll
<1>14. GaspTypeOK'
  BY <1>1, <1>8, <1>12 DEF GaspTypeOK
<1> QED BY <1>1, <1>13, <1>14 DEF GaspInv

LEMMA StoreType ==
    ASSUME NEW l \in {"next", "prev"}, NEW e \in ListEntries, NEW v \in ListEntries \cup {NULL}
    PROVE  /\ Store(l, e, v) \in Stores
           /\ Store(l, e, v).link = l /\ Store(l, e, v).entry = e /\ Store(l, e, v).value = v
BY DEF Store, Stores

LEMMA StoresLeft ==
    ASSUME NEW st \in Seq(Stores)
    PROVE  /\ Len(st) \in Nat /\ (Len(st) # 0 <=> st # <<>>)
           /\ st # <<>> => /\ Tail(st) \in Seq(Stores) /\ Len(Tail(st)) = Len(st) - 1
                           /\ \A i \in 1 .. Len(st) - 1 : Tail(st)[i] = st[i + 1]
<1>1. Len(st) \in Nat /\ (Len(st) # 0 <=> st # <<>>)
  BY EmptySeq, LenProperties
<1>2. st # <<>> => /\ Tail(st) \in Seq(Stores) /\ Len(Tail(st)) = Len(st) - 1
                   /\ \A i \in 1 .. Len(Tail(st)) : Tail(st)[i] = st[i + 1]
  BY HeadTailProperties
<1> QED BY <1>1, <1>2

(* kerSysRegisterDyingGaspHandler *)
LEMMA InvRegister ==
    ASSUME GaspInv, NEW h \in Handlers, Register(h)
    PROVE  GaspInv'
<1> DEFINE R == registered
           f == next[ListHead]
           st == AddStores(h)
<1>1. /\ change = Quiet /\ next[h] = NULL /\ next \in Links /\ prev \in Links
      /\ R \in SUBSET Handlers /\ gasp = "no"
      /\ called \in [Handlers -> SUBSET Nat]
  BY DEF Register, GaspInv, GaspTypeOK
<1>2. ListOf(next, prev, R)
  <2>1. Len(change.stores) = 0
    BY <1>1 DEF Quiet
  <2> QED BY <2>1 DEF GaspInv, Pending
<1>3. PICK n, ord :
        /\ Follows(next, n, ord) /\ Members(n, ord) = R
        /\ \A k \in 0 .. n : prev[ord[k + 1]] = ord[k]
        /\ \A e \in Handlers \ R : next[e] = NULL
  BY <1>2 DEF ListOf
<1>4. h \notin R
  <2> SUFFICES ASSUME h \in R PROVE FALSE
    OBVIOUS
  <2>1. PICK k \in 1 .. n : ord[k] = h
    BY <1>3 DEF Members
  <2>2. n \in Nat /\ k \in 0 .. n /\ k + 1 \in 0 .. n + 1
    BY <1>3 DEF Follows
  <2>3. next[h] \in ListEntries
    BY <1>3, <2>1, <2>2 DEF Follows
  <2> QED BY <1>1, <2>3, GaspAssumption DEF ListEntries
<1>5. /\ f \in ListEntries /\ f # h
      /\ ListOf([[next EXCEPT ![h] = f] EXCEPT ![ListHead] = h],
                [[prev EXCEPT ![f] = h] EXCEPT ![h] = ListHead], R \cup {h})
  BY <1>1, <1>2, <1>4, InsertFirst
<1>6. h \in ListEntries /\ ListHead \in ListEntries /\ h # ListHead
  BY GaspAssumption DEF ListEntries
<1>7. /\ st \in Seq(Stores) /\ Len(st) = 4
      /\ st[1].link = "prev" /\ st[1].entry = f /\ st[1].value = h
      /\ st[2].link = "next" /\ st[2].entry = h /\ st[2].value = f
      /\ st[3].link = "prev" /\ st[3].entry = h /\ st[3].value = ListHead
      /\ st[4].link = "next" /\ st[4].entry = ListHead /\ st[4].value = h
  <2>1. /\ Store("prev", f, h) \in Stores /\ Store("next", h, f) \in Stores
        /\ Store("prev", h, ListHead) \in Stores /\ Store("next", ListHead, h) \in Stores
    BY <1>5, <1>6, StoreType
  <2>2. st \in Seq(Stores) /\ Len(st) = 4
    BY <2>1 DEF AddStores
  <2>3. /\ st[1] = Store("prev", f, h) /\ st[2] = Store("next", h, f)
        /\ st[3] = Store("prev", h, ListHead) /\ st[4] = Store("next", ListHead, h)
    BY DEF AddStores
  <2> QED BY <2>2, <2>3 DEF Store
<1> HIDE DEF st, f
<1> DEFINE n0 == [next EXCEPT ![h] = h]
           p0 == [prev EXCEPT ![h] = h]
           n2 == [next EXCEPT ![h] = f]
           p1 == [p0 EXCEPT ![f] = h]
           n4 == [n2 EXCEPT ![ListHead] = h]
           p3 == [p1 EXCEPT ![h] = ListHead]
<1>8. Walkable(n0, R) /\ Walkable(n2, R)
  <2>1. DOMAIN next = ListEntries
    BY <1>1 DEF Links
  <2>2. Follows(n0, n, ord) /\ Follows(n2, n, ord)
    BY <1>3, <1>4, <2>1, WalkKept
  <2> HIDE DEF n0, n2
  <2> QED BY <1>3, <2>2 DEF Walkable
<1>9. /\ n2 = [n0 EXCEPT ![h] = f]
      /\ n4 = [[next EXCEPT ![h] = f] EXCEPT ![ListHead] = h]
      /\ p3 = [[prev EXCEPT ![f] = h] EXCEPT ![h] = ListHead]
  BY <1>1, <1>5, <1>6 DEF Links
<1>10. n4[h] = f /\ f # NULL /\ n0 \in Links /\ p0 \in Links
  BY <1>1, <1>5, <1>6, GaspAssumption DEF Links, ListEntries
<1>11. Settled(n4, p3, R, h)
  <2>1. ListOf(n4, p3, R \cup {h})
    BY <1>5, <1>9
  <2> HIDE DEF n4, p3
  <2> QED BY <1>10, <2>1 DEF Settled
<1>12. Pending(n0, p0, st, R, h)
  <2>1. /\ NextAfter(n0, st[1]) = n0 /\ PrevAfter(p0, st[1]) = p1
        /\ NextAfter(n0, st[2]) = n2 /\ PrevAfter(p1, st[2]) = p1
        /\ NextAfter(n2, st[3]) = n2 /\ PrevAfter(p1, st[3]) = p3
        /\ NextAfter(n2, st[4]) = n4 /\ PrevAfter(p3, st[4]) = p3
    <3> HIDE DEF n0, p0
    <3> QED BY <1>7, <1>9 DEF NextAfter, PrevAfter
  <2> HIDE DEF n0, p0, n2, p1, n4, p3
  <2> QED BY <1>7, <1>8, <1>11, <2>1 DEF Pending
<1>13. /\ next' = n0 /\ prev' = p0 /\ change' = [stores |-> st, h |-> h]
       /\ UNCHANGED <<registered, called, gasp>>
  BY DEF Register, st
<1> HIDE DEF n0, p0
<1>14. change'.stores = st /\ change'.h = h /\ st # <<>>
  <2>1. st # <<>>
    BY <1>7
  <2>2. change'.stores = st /\ change'.h = h
    BY <1>13
  <2> QED BY <2>1, <2>2
<1>15. GaspTypeOK'
  <2>1. change' \in [stores : Seq(Stores), h : Handlers]
    BY <1>7, <1>13
  <2>2. Len(change'.stores) <= 4
    <3>1. Len(st) <= 4
      BY <1>7
    <3> QED BY <1>14, <3>1, Zenon
  <2>3. /\ next' \in Links /\ prev' \in Links /\ registered' \subseteq Handlers
        /\ called' \in [Handlers -> SUBSET Nat] /\ gasp' \in {"no", "done", "fault"}
    BY <1>1, <1>10, <1>13
  <2> QED BY <2>1, <2>2, <2>3 DEF GaspTypeOK
<1>16. GaspReachesAll'
  BY <1>1, <1>13 DEF GaspReachesAll
<1> QED BY <1>12, <1>13, <1>14, <1>15, <1>16 DEF GaspInv

(* kerSysDeregisterDyingGaspHandler *)
LEMMA InvDeregister ==
    ASSUME GaspInv, NEW h \in Handlers, Deregister(h)
    PROVE  GaspInv'
<1> DEFINE R == registered
           a == prev[h]
           b == next[h]
           st == DelStores(h)
<1>1. /\ change = Quiet /\ h \in R /\ next \in Links /\ prev \in Links
      /\ R \in SUBSET Handlers /\ gasp = "no"
      /\ called \in [Handlers -> SUBSET Nat]
  BY DEF Deregister, GaspInv, GaspTypeOK
<1>2. ListOf(next, prev, R)
  <2>1. Len(change.stores) = 0
    BY <1>1 DEF Quiet
  <2> QED BY <2>1 DEF GaspInv, Pending
<1> DEFINE n2 == [next EXCEPT ![a] = b]
           p1 == [prev EXCEPT ![b] = a]
           n3 == [n2 EXCEPT ![h] = NULL]
           p4 == [p1 EXCEPT ![h] = NULL]
<1>3. /\ a \in ListEntries /\ b \in ListEntries
      /\ Walkable(n2, R \ {h}) /\ ListOf(n3, p4, R \ {h})
  BY <1>1, <1>2, RemoveEntry
<1>4. h \in ListEntries
  BY DEF ListEntries
<1>5. /\ st \in Seq(Stores) /\ Len(st) = 4
      /\ st[1].link = "prev" /\ st[1].entry = b /\ st[1].value = a
      /\ st[2].link = "next" /\ st[2].entry = a /\ st[2].value = b
      /\ st[3].link = "next" /\ st[3].entry = h /\ st[3].value = NULL
      /\ st[4].link = "prev" /\ st[4].entry = h /\ st[4].value = NULL
  <2>1. /\ Store("prev", b, a) \in Stores /\ Store("next", a, b) \in Stores
        /\ Store("next", h, NULL) \in Stores /\ Store("prev", h, NULL) \in Stores
    BY <1>3, <1>4, StoreType
  <2>2. st \in Seq(Stores) /\ Len(st) = 4
    BY <2>1 DEF DelStores
  <2>3. /\ st[1] = Store("prev", b, a) /\ st[2] = Store("next", a, b)
        /\ st[3] = Store("next", h, NULL) /\ st[4] = Store("prev", h, NULL)
    BY DEF DelStores
  <2> QED BY <2>2, <2>3 DEF Store
<1> HIDE DEF st
<1>6. Walkable(next, R \ {h}) /\ Walkable(n3, R \ {h})
  BY <1>2, <1>3, ListWalkable
<1>7. Settled(n3, p4, R \ {h}, h)
  <2>1. n3[h] = NULL
    BY <1>1, <1>3, <1>4 DEF Links
  <2> HIDE DEF n3, p4
  <2> QED BY <1>3, <2>1 DEF Settled
<1>8. Pending(next, prev, st, R \ {h}, h)
  <2>1. /\ NextAfter(next, st[1]) = next /\ PrevAfter(prev, st[1]) = p1
        /\ NextAfter(next, st[2]) = n2 /\ PrevAfter(p1, st[2]) = p1
        /\ NextAfter(n2, st[3]) = n3 /\ PrevAfter(p1, st[3]) = p1
        /\ NextAfter(n3, st[4]) = n3 /\ PrevAfter(p1, st[4]) = p4
    <3> HIDE DEF a, b
    <3> QED BY <1>5 DEF NextAfter, PrevAfter
  <2> HIDE DEF n2, p1, n3, p4
  <2> QED BY <1>3, <1>5, <1>6, <1>7, <2>1 DEF Pending
<1>9. /\ change' = [stores |-> st, h |-> h] /\ registered' = R \ {h}
      /\ UNCHANGED <<next, prev, called, gasp>>
  BY DEF Deregister, st
<1>10. change'.stores = st /\ change'.h = h /\ st # <<>>
  <2>1. st # <<>>
    <3>1. Len(st) # 0
      BY <1>5
    <3> QED BY <1>5, <3>1, StoresLeft
  <2>2. change'.stores = st /\ change'.h = h
    BY <1>9
  <2> QED BY <2>1, <2>2
<1>11. GaspTypeOK'
  <2>1. change' \in [stores : Seq(Stores), h : Handlers]
    BY <1>5, <1>9
  <2>2. Len(change'.stores) <= 4
    <3>1. Len(st) <= 4
      BY <1>5
    <3> QED BY <1>10, <3>1, Zenon
  <2>3. /\ next' \in Links /\ prev' \in Links /\ registered' \subseteq Handlers
        /\ called' \in [Handlers -> SUBSET Nat] /\ gasp' \in {"no", "done", "fault"}
    BY <1>1, <1>9
  <2> QED BY <2>1, <2>2, <2>3 DEF GaspTypeOK
<1>12. GaspReachesAll'
  BY <1>1, <1>9 DEF GaspReachesAll
<1> QED BY <1>8, <1>9, <1>10, <1>11, <1>12 DEF GaspInv

(* A store takes a request one step on. *)
LEMMA PendingStep ==
    ASSUME NEW nx, NEW pv, NEW R, NEW h, NEW st \in Seq(Stores), st # <<>>, Len(st) <= 4,
           Pending(nx, pv, st, R, h)
    PROVE  LET n1 == NextAfter(nx, st[1])
               p1 == PrevAfter(pv, st[1])
           IN  /\ Len(st) = 1 => Settled(n1, p1, R, h)
               /\ Len(st) # 1 => Pending(n1, p1, Tail(st), R, h)
<1> DEFINE n1 == NextAfter(nx, st[1])
           p1 == PrevAfter(pv, st[1])
<1>0. /\ Len(st) \in Nat /\ Len(st) # 0
      /\ \A i \in 1 .. Len(st) - 1 : Tail(st)[i] = st[i + 1]
      /\ Len(Tail(st)) = Len(st) - 1
  BY StoresLeft
<1>1. Len(st) \in 1 .. 4
  BY <1>0
<1>2. CASE Len(st) = 1
  BY <1>2 DEF Pending
<1>3. CASE Len(st) = 2
  <2>1. Len(Tail(st)) = 1 /\ Tail(st)[1] = st[2]
    <3>1. 1 \in 1 .. Len(st) - 1 /\ 1 + 1 = 2 /\ Len(st) - 1 = 1
      BY <1>3
    <3> QED BY <1>0, <3>1
  <2> HIDE DEF n1, p1
  <2>2. Walkable(n1, R) /\ Settled(NextAfter(n1, st[2]), PrevAfter(p1, st[2]), R, h)
    BY <1>3 DEF Pending, n1, p1
  <2>3. Pending(n1, p1, Tail(st), R, h)
    BY <2>1, <2>2 DEF Pending
  <2> QED BY <1>3, <2>3 DEF n1, p1
<1>4. CASE Len(st) = 3
  <2>1. Len(Tail(st)) = 2 /\ Tail(st)[1] = st[2] /\ Tail(st)[2] = st[3]
    BY <1>0, <1>4
  <2> HIDE DEF n1, p1
  <2>2. /\ Walkable(n1, R) /\ Walkable(NextAfter(n1, st[2]), R)
        /\ Settled(NextAfter(NextAfter(n1, st[2]), st[3]),
                   PrevAfter(PrevAfter(p1, st[2]), st[3]), R, h)
    BY <1>4 DEF Pending, n1, p1
  <2>3. Pending(n1, p1, Tail(st), R, h)
    BY <2>1, <2>2 DEF Pending
  <2> QED BY <1>4, <2>3 DEF n1, p1
<1>5. CASE Len(st) = 4
  <2>1. Len(Tail(st)) = 3 /\ Tail(st)[1] = st[2] /\ Tail(st)[2] = st[3] /\ Tail(st)[3] = st[4]
    BY <1>0, <1>5
  <2> HIDE DEF n1, p1
  <2>2. /\ Walkable(n1, R) /\ Walkable(NextAfter(n1, st[2]), R)
        /\ Walkable(NextAfter(NextAfter(n1, st[2]), st[3]), R)
        /\ Settled(NextAfter(NextAfter(NextAfter(n1, st[2]), st[3]), st[4]),
                   PrevAfter(PrevAfter(PrevAfter(p1, st[2]), st[3]), st[4]), R, h)
    BY <1>5 DEF Pending, n1, p1
  <2>3. Pending(n1, p1, Tail(st), R, h)
    BY <2>1, <2>2 DEF Pending
  <2> QED BY <1>5, <2>3 DEF n1, p1
<1> QED BY <1>1, <1>2, <1>3, <1>4, <1>5

LEMMA InvDoStore ==
    ASSUME GaspInv, DoStore
    PROVE  GaspInv'
<1> DEFINE st == change.stores
           n1 == NextAfter(next, st[1])
           p1 == PrevAfter(prev, st[1])
<1>1. /\ gasp = "no" /\ st # <<>> /\ st \in Seq(Stores) /\ Len(st) <= 4
      /\ change \in [stores : Seq(Stores), h : Handlers]
      /\ next \in Links /\ prev \in Links /\ registered \in SUBSET Handlers
      /\ called \in [Handlers -> SUBSET Nat] /\ UNCHANGED <<called, gasp>>
      /\ change.h \in Handlers
      /\ Pending(next, prev, st, registered, change.h)
  BY DEF DoStore, GaspInv, GaspTypeOK
<1>2. next' = n1 /\ prev' = p1
  BY DEF DoStore, NextAfter, PrevAfter
<1>3. /\ change' = IF Len(st) = 1 THEN Quiet ELSE [change EXCEPT !.stores = Tail(@)]
      /\ registered' = IF Len(st) = 1 /\ next'[change.h] # NULL
                       THEN registered \cup {change.h} ELSE registered
  BY DEF DoStore
<1>4. /\ Len(st) = 1 => Settled(n1, p1, registered, change.h)
      /\ Len(st) # 1 => Pending(n1, p1, Tail(st), registered, change.h)
  BY <1>1, PendingStep
<1>5. n1 \in Links /\ p1 \in Links
  <2>1. st[1] \in Stores
    BY <1>1
  <2>2. st[1].entry \in ListEntries /\ st[1].value \in ListEntries \cup {NULL}
    BY <2>1 DEF Stores
  <2> HIDE DEF st
  <2> QED BY <1>1, <2>2 DEF NextAfter, PrevAfter, Links
<1>6. GaspReachesAll'
  BY <1>1 DEF GaspReachesAll
<1>7. /\ next' \in Links /\ prev' \in Links /\ registered' \subseteq Handlers
      /\ called' \in [Handlers -> SUBSET Nat] /\ gasp' \in {"no", "done", "fault"}
  BY <1>1, <1>2, <1>3, <1>5
<1> HIDE DEF st, n1, p1
<1>8. CASE Len(st) = 1
  <2>1. change' = Quiet /\ change'.stores = <<>> /\ Dsl \in Handlers
    BY <1>3, <1>8, GaspAssumption DEF Quiet
  <2>2. registered' = registered \cup IF n1[change.h] # NULL THEN {change.h} ELSE {}
    BY <1>2, <1>3, <1>8
  <2>3. ListOf(next', prev', registered')
    BY <1>2, <1>4, <1>8, <2>2 DEF Settled
  <2>4. Walkable(next', registered')
    BY <2>3, ListWalkable
  <2>5. Len(change'.stores) = 0
    BY <2>1
  <2>6. Pending(next, prev, change.stores, registered, change.h)'
    BY <2>3, <2>4, <2>5 DEF Pending
  <2>7. GaspTypeOK'
    <3>1. change' \in [stores : Seq(Stores), h : Handlers]
      BY <2>1 DEF Quiet
    <3>2. Len(change'.stores) <= 4
      BY <2>5
    <3> QED BY <1>7, <3>1, <3>2 DEF GaspTypeOK
  <2> QED BY <1>6, <2>1, <2>6, <2>7 DEF GaspInv
<1>9. CASE Len(st) # 1
  <2>1. /\ change' = [change EXCEPT !.stores = Tail(st)] /\ registered' = registered
    BY <1>3, <1>9 DEF st
  <2>2. change'.stores = Tail(st) /\ change'.h = change.h
    BY <1>1, <2>1
  <2>3. Tail(st) \in Seq(Stores) /\ Tail(st) # <<>> /\ Len(Tail(st)) <= 4
    <3>1. Tail(st) \in Seq(Stores) /\ Len(Tail(st)) = Len(st) - 1 /\ Len(st) \in Nat \ {0}
      BY <1>1, StoresLeft
    <3>2. Len(Tail(st)) # 0 /\ Len(Tail(st)) <= 4
      BY <1>1, <1>9, <3>1
    <3> QED BY <3>1, <3>2, StoresLeft
  <2>4. Pending(next, prev, change.stores, registered, change.h)'
    BY <1>2, <1>4, <1>9, <2>1, <2>2
  <2>5. GaspTypeOK'
    <3>1. change' \in [stores : Seq(Stores), h : Handlers]
      BY <1>1, <2>1, <2>3
    <3>2. Len(change'.stores) <= 4
      BY <2>2, <2>3, Zenon
    <3> QED BY <1>7, <3>1, <3>2 DEF GaspTypeOK
  <2> QED BY <1>6, <2>2, <2>3, <2>4, <2>5 DEF GaspInv
<1> QED BY <1>8, <1>9

LEMMA InvGaspInit ==
    ASSUME GaspInit
    PROVE  GaspInv
<1>1. /\ next = [e \in ListEntries |-> IF e = ListHead THEN ListHead ELSE NULL] /\ prev = next
      /\ change = Quiet /\ registered = {} /\ called = [h \in Handlers |-> {}] /\ gasp = "no"
      /\ ListHead \in ListEntries /\ ListHead \notin Handlers
  BY GaspAssumption DEF GaspInit, ListEntries
<1>2. change.stores = <<>> /\ Len(change.stores) = 0 /\ change.h \in Handlers
  BY <1>1, GaspAssumption DEF Quiet
<1>3. GaspTypeOK
  <2>1. next \in Links /\ prev \in Links
    BY <1>1 DEF Links
  <2>2. change \in [stores : Seq(Stores), h : Handlers]
    BY <1>1, GaspAssumption DEF Quiet
  <2>3. called \in [Handlers -> SUBSET Nat] /\ Len(change.stores) <= 4
    BY <1>1, <1>2
  <2> QED BY <1>1, <2>1, <2>2, <2>3 DEF GaspTypeOK
<1>4. ListOf(next, prev, {})
  <2> DEFINE ord == [k \in 0 .. 1 |-> ListHead]
  <2>0. 0 + 1 = 1 /\ 1 .. 0 = {} /\ 0 .. 0 = {0}
    OBVIOUS
  <2>1. next[ListHead] = ListHead /\ prev[ListHead] = ListHead
    BY <1>1
  <2>2. ord \in [0 .. 0 + 1 -> ListEntries] /\ ord[0] = ListHead /\ ord[1] = ListHead
    BY <1>1
  <2> HIDE DEF ord
  <2>3. Follows(next, 0, ord)
    BY <2>0, <2>1, <2>2 DEF Follows
  <2>4. Members(0, ord) = {}
    BY <2>0 DEF Members
  <2>5. \A k \in 0 .. 0 : prev[ord[k + 1]] = ord[k]
    BY <2>0, <2>1, <2>2
  <2>6. \A h \in Handlers \ {} : next[h] = NULL
    BY <1>1 DEF ListEntries
  <2> QED BY <2>3, <2>4, <2>5, <2>6 DEF ListOf
<1>5. Walkable(next, {})
  BY <1>4, ListWalkable
<1>6. Pending(next, prev, change.stores, registered, change.h)
  BY <1>1, <1>2, <1>4, <1>5 DEF Pending
<1> QED BY <1>1, <1>3, <1>6 DEF GaspInv, GaspReachesAll

LEMMA InvEvents ==
    ASSUME GaspInv, [EventNext]_eventVars
    PROVE  GaspInv'
<1>1. CASE UNCHANGED gaspVars
  BY <1>1 DEF gaspVars, GaspInv, GaspTypeOK, GaspReachesAll
<1>2. CASE GaspNext
  BY <1>2, InvRegister, InvDeregister, InvDoStore, InvPowerLoss DEF GaspNext
<1> QED BY <1>1, <1>2 DEF EventNext, eventVars

-------------------------------------------------------------------------------------
(* Every reachable state satisfies the invariant. *)
LEMMA GaspInvariant == EventSpec => []GaspInv
<1>1. EventInit => GaspInv
  BY InvGaspInit DEF EventInit
<1>2. GaspInv /\ [EventNext]_eventVars => GaspInv'
  BY InvEvents
<1> QED BY <1>1, <1>2, PTL DEF EventSpec

(* Every variable has its type, whatever the drivers, the monitor and the button do. *)
THEOREM EventTypeCorrect == EventSpec => []EventTypeOK
<1>1. EventInit => WakeTypeOK
  BY DEF EventInit, WakeInit, WakeTypeOK
<1>2. WakeTypeOK /\ [EventNext]_eventVars => WakeTypeOK'
  <2> SUFFICES ASSUME WakeTypeOK, [EventNext]_eventVars PROVE WakeTypeOK'
    OBVIOUS
  <2>1. CASE UNCHANGED wakeVars
    BY <2>1 DEF WakeTypeOK, wakeVars
  <2>2. CASE WakeNext
    <3>1. CASE SetMonitorFd
      BY <3>1 DEF WakeTypeOK, SetMonitorFd, sesVars
    <3>2. CASE WakeupMonitorTask
      BY <3>2 DEF WakeTypeOK, WakeupMonitorTask, sesVars
    <3>3. CASE MonSelect
      BY <3>3 DEF WakeTypeOK, MonSelect, sesVars
    <3>4. CASE MonPoll
      BY <3>4 DEF WakeTypeOK, MonPoll, sesVars, Reports
    <3>5. CASE MonReset
      BY <3>5 DEF WakeTypeOK, MonReset, sesVars
    <3>6. CASE MonTold
      BY <3>6 DEF WakeTypeOK, MonTold, sesVars
    <3>7. CASE MonOther
      BY <3>7 DEF WakeTypeOK, MonOther, sesVars
    <3>8. CASE OtherPoll
      BY <3>8 DEF WakeTypeOK, OtherPoll, sesVars
    <3>9. CASE Press
      BY <3>9 DEF WakeTypeOK, Press, monVars
    <3>10. CASE SesDispatch
      BY <3>10 DEF WakeTypeOK, SesDispatch, monVars
    <3>11. CASE SesIsr
      BY <3>11, ZenonT(40) DEF WakeTypeOK, SesIsr, monVars
    <3>12. CASE SetTrigger
      BY <3>12 DEF WakeTypeOK, SetTrigger, monVars
    <3>13. CASE SetTriggerOther
      BY <3>13 DEF WakeTypeOK, SetTriggerOther, monVars
    <3>14. CASE UnsetTrigger
      BY <3>14, ZenonT(40) DEF WakeTypeOK, UnsetTrigger, monVars
    <3>15. CASE RdSelect
      BY <3>15, ZenonT(40) DEF WakeTypeOK, RdSelect, monVars
    <3>16. CASE RdPoll
      BY <3>16 DEF WakeTypeOK, RdPoll, monVars
    <3>17. CASE SesBtnRead
      BY <3>17 DEF WakeTypeOK, SesBtnRead, monVars
    <3>18. CASE RdOther
      BY <3>18 DEF WakeTypeOK, RdOther, monVars
    <3> QED BY <2>2, <3>1, <3>2, <3>3, <3>4, <3>5, <3>6, <3>7, <3>8, <3>9,
               <3>10, <3>11, <3>12, <3>13, <3>14, <3>15, <3>16, <3>17, <3>18
            DEF WakeNext, MonitorStep, ReaderStep
  <2> QED BY <2>1, <2>2 DEF EventNext, eventVars
<1>3. GaspInv => GaspTypeOK
  BY DEF GaspInv
<1> QED BY <1>1, <1>2, <1>3, GaspInvariant, PTL DEF EventSpec, EventTypeOK

(* kerSysRegisterDyingGaspHandler, kerSysDeregisterDyingGaspHandler: between requests *)
(* the list holds the registered handlers, linked in both directions.                *)
THEOREM ListAlwaysRegistered == EventSpec => []ListIsRegistered
<1>1. ASSUME GaspInv, change = Quiet
      PROVE  LET linked == registered \cup {ListHead}
             IN  /\ linked = {e \in ListEntries : next[e] # NULL}
                 /\ \A e \in linked : next[e] \in linked /\ prev[next[e]] = e
  <2>1. Len(change.stores) = 0
    BY <1>1 DEF Quiet
  <2>2. ListOf(next, prev, registered)
    BY <1>1, <2>1 DEF GaspInv, Pending
  <2>3. PICK n, ord :
          /\ Follows(next, n, ord) /\ Members(n, ord) = registered
          /\ \A k \in 0 .. n : prev[ord[k + 1]] = ord[k]
          /\ \A h \in Handlers \ registered : next[h] = NULL
    BY <2>2 DEF ListOf
  <2> DEFINE linked == registered \cup {ListHead}
  <2>4. /\ n \in Nat /\ ord[0] = ListHead /\ ord[n + 1] = ListHead
        /\ \A k \in 0 .. n : next[ord[k]] = ord[k + 1]
        /\ registered \subseteq Handlers /\ NULL \notin Handlers \cup {ListHead}
    BY <1>1, <2>3, GaspAssumption DEF Follows, GaspInv, GaspTypeOK
  <2>5. \A k \in 1 .. n : ord[k] \in registered
    BY <2>3 DEF Members
  <2>6. \A k \in 1 .. n + 1 : ord[k] \in linked
    <3> TAKE k \in 1 .. n + 1
    <3>1. k \in 1 .. n \/ k = n + 1
      BY <2>4
    <3> QED BY <2>4, <2>5, <3>1
  <2>7. ASSUME NEW e \in linked PROVE next[e] \in linked /\ prev[next[e]] = e
    <3>1. \E k \in 0 .. n : e = ord[k]
      <4>1. CASE e = ListHead
        <5>1. 0 \in 0 .. n
          BY <2>4
        <5> QED BY <2>4, <4>1, <5>1
      <4>2. CASE e \in registered
        <5>1. PICK k \in 1 .. n : e = ord[k]
          BY <2>3, <4>2 DEF Members
        <5>2. k \in 0 .. n
          BY <2>4
        <5> QED BY <5>1, <5>2
      <4> QED BY <4>1, <4>2
    <3>2. PICK k \in 0 .. n : e = ord[k]
      BY <3>1
    <3>3. k + 1 \in 1 .. n + 1
      BY <2>4
    <3> QED BY <2>3, <2>4, <2>6, <3>2, <3>3
  <2>8. \A e \in linked : e \in ListEntries /\ next[e] # NULL
    BY <2>4, <2>7 DEF ListEntries
  <2>9. \A e \in ListEntries : next[e] # NULL => e \in linked
    BY <2>3 DEF ListEntries
  <2> QED BY <2>7, <2>8, <2>9
<1>2. GaspInv => ListIsRegistered
  BY <1>1 DEF ListIsRegistered
<1> QED BY <1>2, GaspInvariant, PTL

(* kerSysDyingGaspIsr: the walk ends and comes by every registered handler once,     *)
(* between any two stores of list_add and list_del.                                  *)
THEOREM GaspAlwaysReachesAll == EventSpec => []GaspReachesAll
<1>1. GaspInv => GaspReachesAll
  BY DEF GaspInv
<1> QED BY <1>1, GaspInvariant, PTL

(* sesBtn_isr, board_poll: the button dies only in a step that finds it released. *)
THEOREM DeadAlwaysByRelease == EventSpec => DeadOnlyByRelease
<1>1. ASSUME [EventNext]_eventVars, ButtonDead', ~ButtonDead
      PROVE  ~pressed
  <2>1. CASE UNCHANGED wakeVars
    BY <1>1, <2>1 DEF wakeVars, ButtonDead
  <2>2. CASE WakeNext
    <3>1. CASE SetMonitorFd \/ WakeupMonitorTask \/ MonitorStep \/ MonOther \/ OtherPoll
      BY <1>1, <3>1 DEF ButtonDead, SetMonitorFd, WakeupMonitorTask, MonitorStep, MonSelect,
                  MonPoll, MonReset, MonTold, MonOther, OtherPoll, sesVars
    <3>2. CASE Press \/ SesDispatch \/ SetTrigger \/ SetTriggerOther
               \/ UnsetTrigger \/ RdSelect \/ SesBtnRead
      BY <1>1, <3>2 DEF ButtonDead, Press, SesDispatch, SetTrigger, SetTriggerOther,
                  UnsetTrigger, RdSelect, SesBtnRead
    <3>3. CASE RdOther
      BY <1>1, <3>3 DEF ButtonDead, RdOther
    <3>4. CASE SesIsr
      BY <1>1, <3>4 DEF ButtonDead, SesIsr
    <3>5. CASE RdPoll
      BY <1>1, <3>5 DEF ButtonDead, RdPoll
    <3> QED BY <2>2, <3>1, <3>2, <3>3, <3>4, <3>5 DEF WakeNext, ReaderStep
  <2> QED BY <1>1, <2>1, <2>2 DEF EventNext, eventVars
<1>2. [EventNext]_eventVars => [ButtonDead' /\ ~ButtonDead => ~pressed]_wakeVars
  BY <1>1
<1> QED BY <1>2, PTL DEF EventSpec, DeadOnlyByRelease
====================================================================================
