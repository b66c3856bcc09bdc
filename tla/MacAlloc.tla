---------------------------------- MODULE MacAlloc ----------------------------------
(* The MAC address allocator of the board driver char/board/bcm963xx/impl1/board.c *)
(* and its callers: the XTM driver and user processes, each with an identifier.    *)
(*                                                                                 *)
(* Both operations run to the end in process context without sleeping, and there   *)
(* is no preemption: each is one step.  An address is its last three bytes, the    *)
(* only ones that vary.                                                            *)
EXTENDS Integers, FiniteSets

CONSTANTS
    Clients,        \* callers
    XtmDevices,     \* the callers that are devices of the XTM driver
    Id,             \* caller -> ulId it passes
    NumMacAddrs,    \* g_pMacInfo->ulNumMacAddrs
    Base,           \* last 3 bytes of ucaBaseMacAddr
    None            \* no address

MacAddressAny == -1         \* MAC_ADDRESS_ANY
NoId == 0                   \* ulId of an address that was never used
AddrModulus == 256 * 256 * 256      \* three bytes
MaxCount == 32              \* NVRAM_MAC_COUNT_MAX
DefaultAddr == 2 * 256 * 256 + 1    \* last three bytes of 02:10:18:02:00:01

Addrs == 0 .. AddrModulus - 1
Entries == 0 .. NumMacAddrs - 1

(* bcmxtmrt.c asks for dev->ifindex | 0x10000000 before register_netdev has given   *)
(* the device an index: the id of every XTM device is the same.                    *)
XtmId == 268435456

ASSUME MacAssumption ==
    /\ XtmDevices \subseteq Clients
    /\ Id \in [Clients -> Nat \cup {MacAddressAny}]
    /\ \A x \in XtmDevices : Id[x] = XtmId
    /\ NumMacAddrs \in 1 .. MaxCount
    /\ Base \in Addrs
    /\ None \notin Addrs

VARIABLES
    mai,        \* g_pMacInfo->MacAddrs
    held,       \* caller -> address it uses, None if it has none
    default,    \* XTM devices that use the default address
    robbed      \* history: callers whose address someone else has released

macVars == <<mai, held, default, robbed>>

(* The address of an entry: the 24 bits wrap around. *)
AddrOf(i) == (Base + i) % AddrModulus

(* set_mac_info, when the NVRAM has a valid number of addresses and there is       *)
(* memory.  Otherwise g_pMacInfo stays NULL, and no operation may be called.       *)
MacInit ==
    /\ mai = [i \in Entries |-> [id |-> NoId, inUse |-> FALSE]]
    /\ held = [c \in Clients |-> None]
    /\ default = {}
    /\ robbed = {}

(* ------------------------------------------------------------------------------- *)
(* kerSysGetMacAddress looks for an address with the caller's id, then for a free  *)
(* one that was never used, then for a free one.                                   *)
(* Mutant: only addresses that are not in use match. *)
MatchingFree(id) == {i \in Entries : ~mai[i].inUse /\ (mai[i].id = id \/ id = MacAddressAny)}

Matching(id) == {i \in Entries : mai[i].id = id \/ id = MacAddressAny}

NeverUsed == {i \in Entries : ~mai[i].inUse /\ mai[i].id = NoId}

(* Mutant: an address in use is taken for a free one. *)
UsedBeforeInUse == {i \in Entries : mai[i].id # NoId}

UsedBefore == {i \in Entries : ~mai[i].inUse /\ mai[i].id # NoId}

(* Mutant: free addresses are taken whether they were used before or not. *)
CandidatesAnyFree(id) ==
    IF Matching(id) # {} THEN Matching(id) ELSE NeverUsed \cup UsedBefore

Candidates(id) ==
    IF Matching(id) # {} THEN Matching(id)
    ELSE IF NeverUsed # {} THEN NeverUsed ELSE UsedBefore

(* Mutant: an entry that matched is not marked. *)
GivenUnmarked(i, id) ==
    [mai EXCEPT ![i] = IF Matching(id) # {} THEN @ ELSE [id |-> id, inUse |-> TRUE]]

(* The entry is in use; one that matched keeps its id. *)
Given(i, id) ==
    [mai EXCEPT ![i].inUse = TRUE,
                ![i].id = IF Matching(id) # {} THEN @ ELSE id]

GetMacAddress(c) ==
    /\ c \in XtmDevices => held[c] = None /\ c \notin default
    /\ \E i \in Candidates(Id[c]) :
          /\ \A j \in Candidates(Id[c]) : i <= j
          /\ mai' = Given(i, Id[c])
          /\ held' = [held EXCEPT ![c] = AddrOf(i)]
    /\ robbed' = robbed \ {c}
    /\ UNCHANGED default

(* -EADDRNOTAVAIL: a device of the XTM driver gets the default address.            *)
GetMacAddressFails(c) ==
    /\ c \in XtmDevices => held[c] = None /\ c \notin default
    /\ Candidates(Id[c]) = {}
    /\ default' = default \cup ({c} \cap XtmDevices)
    /\ UNCHANGED <<mai, held, robbed>>

(* kerSysReleaseMacAddress: the entry of an address is the unsigned difference to  *)
(* the base, which is no entry when the address is below the base.                 *)
ReleasedEntry(a) ==
    IF a >= Base /\ a - Base < NumMacAddrs THEN {a - Base} ELSE {}

Freed(a) ==
    [i \in Entries |->
        IF i \in ReleasedEntry(a) THEN [mai[i] EXCEPT !.inUse = FALSE] ELSE mai[i]]

(* Those who use an address and lose it when it is released. *)
LosersOf(a) == {d \in Clients : held[d] = a /\ ReleasedEntry(a) # {}}

ReleaseMacAddress(c) ==
    /\ held[c] # None
    /\ mai' = Freed(held[c])
    /\ held' = [held EXCEPT ![c] = None]
    /\ robbed' = (robbed \cup LosersOf(held[c])) \ {c}
    /\ UNCHANGED default

(* DoDeleteDeviceReq releases whatever address the device has. *)
ReleaseDefault(c) ==
    /\ c \in default
    /\ mai' = Freed(DefaultAddr)
    /\ default' = default \ {c}
    /\ robbed' = robbed \cup LosersOf(DefaultAddr)
    /\ UNCHANGED held

(* DoCreateDeviceReq: register_netdev fails, the device is freed, its address is   *)
(* not released.                                                                   *)
RegisterFails(c) ==
    /\ c \in XtmDevices
    /\ held[c] # None \/ c \in default
    /\ held' = [held EXCEPT ![c] = None]
    /\ default' = default \ {c}
    /\ robbed' = robbed \ {c}
    /\ UNCHANGED mai

MacNext ==
    \E c \in Clients :
        \/ GetMacAddress(c) \/ GetMacAddressFails(c)
        \/ ReleaseMacAddress(c) \/ ReleaseDefault(c) \/ RegisterFails(c)

MacSpec == MacInit /\ [][MacNext]_macVars

(* ------------------------------------------------------------------------------- *)
(* Properties. *)

MacTypeOK ==
    /\ mai \in [Entries -> [id : Nat, inUse : BOOLEAN]]
    /\ held \in [Clients -> {AddrOf(i) : i \in Entries} \cup {None}]
    /\ default \in SUBSET XtmDevices
    /\ robbed \in SUBSET Clients

(* Two callers the allocator does not tell apart. *)
SameId(c, d) == Id[c] = Id[d] \/ MacAddressAny \in {Id[c], Id[d]}

(* An address is used by two callers only when kerSysGetMacAddress cannot tell     *)
(* them apart, as two XTM devices, or when one of them has lost it by a release    *)
(* that was not its own: whatever the order of requests, also of callers that ask  *)
(* again, and of devices that fail to register.                                    *)
OneHolder ==
    \A c, d \in Clients \ robbed :
        c # d /\ held[c] # None /\ held[c] = held[d] => SameId(c, d)

(* kerSysReleaseMacAddress takes the last 3 bytes "as a 24 bit integer": an        *)
(* address in use that nobody else has released can be released by its user,       *)
(* unless it wrapped around and is less than the base.                             *)
HeldCanBeReleased ==
    \A c \in Clients \ robbed :
        held[c] # None /\ held[c] >= Base =>
            \E i \in ReleasedEntry(held[c]) : mai[i].inUse

(* A caller finds its id at one address only, so it gets the address it had.       *)
IdsUnique ==
    \A i, j \in Entries : i # j /\ mai[i].id # NoId => mai[i].id # mai[j].id

(* "Use addresses that have never been used first": an address is taken from its   *)
(* last owner only when every other one has been used or is in use.                *)
FreshFirst ==
    [][\A i \in Entries :
          mai[i].id # NoId /\ mai'[i].id # mai[i].id => NeverUsed = {}]_macVars

(* A caller loses its address to another only if the two have the same id, or one  *)
(* asks for any address, if the other has itself lost it before, or to a device    *)
(* that gives back the default address.                                            *)
RobbedByLikes ==
    [][\A d \in robbed' \ robbed :
          \/ \E c \in Clients \ {d} :
                /\ held[c] = held[d] /\ held'[c] = None
                /\ c \in robbed \/ SameId(c, d)
          \/ default # {} /\ held[d] = DefaultAddr]_macVars

(* The inductive strengthening of OneHolder and HeldCanBeReleased: the address a   *)
(* caller uses belongs to an entry that is in use and answers to the caller's id.  *)
HolderOwnsEntry ==
    \A c \in Clients \ robbed :
        held[c] # None =>
            \E i \in Entries :
                /\ held[c] = AddrOf(i) /\ mai[i].inUse
                /\ mai[i].id = Id[c] \/ Id[c] = MacAddressAny

MacInv == MacTypeOK /\ HolderOwnsEntry
=====================================================================================
