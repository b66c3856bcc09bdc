--------------------------------- MODULE DyingGasp ---------------------------------
(* The list of dying gasp callbacks of board.c.  Drivers enter and leave it in      *)
(* process context, store by store (list_add, list_del); the power loss interrupt   *)
(* walks it between any two stores and does not return.  No other process runs      *)
(* inside a request: there is no preemption and the allocation comes first.  The    *)
(* stores happen in the order of the source, as they may alias for the compiler.    *)
EXTENDS Integers, Sequences, FiniteSets

CONSTANTS
    Handlers,       \* callbacks, each with a name and an entry of its own
    Dsl,            \* the one whose name starts with "dsl"
    ListHead,       \* g_cb_dgasp_list_head
    NULL            \* no entry: memory not allocated, freed, or LIST_POISON

ASSUME GaspAssumption ==
    /\ IsFiniteSet(Handlers) /\ Dsl \in Handlers
    /\ ListHead \notin Handlers /\ NULL \notin Handlers \cup {ListHead}

VARIABLES
    next, prev,     \* the links, by entry
    change,         \* the request in progress: its stores still to do, its entry
    registered,     \* handlers whose registration has returned
    called,         \* the callbacks made: for each handler, at which turns
    gasp            \* "no", "done", or "fault": the walk did not come back to the head

gaspVars == <<next, prev, change, registered, called, gasp>>

ListEntries == Handlers \cup {ListHead}
Links == [ListEntries -> ListEntries \cup {NULL}]
Quiet == [stores |-> <<>>, h |-> Dsl]

GaspInit ==
    /\ next = [e \in ListEntries |-> IF e = ListHead THEN ListHead ELSE NULL]
    /\ prev = next
    /\ change = Quiet
    /\ registered = {} /\ called = [h \in Handlers |-> {}] /\ gasp = "no"

Store(link, entry, value) == [link |-> link, entry |-> entry, value |-> value]

(* Mutant: the entry is linked in before its own links are set. *)
AddStoresEarly(h) ==
    <<Store("prev", next[ListHead], h), Store("next", ListHead, h),
      Store("next", h, next[ListHead]), Store("prev", h, ListHead)>>

(* Mutant: an entry leaves the list in one direction only. *)
DelStoresOneWay(h) ==
    <<Store("next", prev[h], next[h]), Store("next", h, NULL), Store("prev", h, NULL)>>

(* __list_add after the head, and __list_del with the poisoning and the kfree. *)
AddStores(h) ==
    <<Store("prev", next[ListHead], h), Store("next", h, next[ListHead]),
      Store("prev", h, ListHead), Store("next", ListHead, h)>>

DelStores(h) ==
    <<Store("prev", next[h], prev[h]), Store("next", prev[h], next[h]),
      Store("next", h, NULL), Store("prev", h, NULL)>>

(* kerSysRegisterDyingGaspHandler, for a driver that is not registered. *)
Register(h) ==
    /\ gasp = "no" /\ change = Quiet /\ next[h] = NULL
    /\ next' = [next EXCEPT ![h] = h]
    /\ prev' = [prev EXCEPT ![h] = h]
    /\ change' = [stores |-> AddStores(h), h |-> h]
    /\ UNCHANGED <<registered, called, gasp>>

(* kerSysDeregisterDyingGaspHandler finds the entry by its name. *)
Deregister(h) ==
    /\ gasp = "no" /\ change = Quiet /\ h \in registered
    /\ registered' = registered \ {h}
    /\ change' = [stores |-> DelStores(h), h |-> h]
    /\ UNCHANGED <<next, prev, called, gasp>>

DoStore ==
    /\ gasp = "no" /\ change.stores # <<>>
    /\ LET s == change.stores[1]
       IN  /\ next' = IF s.link = "next" THEN [next EXCEPT ![s.entry] = s.value] ELSE next
           /\ prev' = IF s.link = "prev" THEN [prev EXCEPT ![s.entry] = s.value] ELSE prev
    /\ change' = IF Len(change.stores) = 1 THEN Quiet
                 ELSE [change EXCEPT !.stores = Tail(@)]
    /\ registered' = IF Len(change.stores) = 1 /\ next'[change.h] # NULL
                     THEN registered \cup {change.h} ELSE registered
    /\ UNCHANGED <<called, gasp>>

(* list_for_each: the entry of each turn, up to the head or a dead end. *)
Turns == 0 .. Cardinality(Handlers)
EntryAt[i \in Turns] ==
    IF i = 0 THEN next[ListHead]
    ELSE LET e == EntryAt[i - 1] IN IF e \in Handlers THEN next[e] ELSE e

(* kerSysDyingGaspIsr when power is lost for good (after a glitch it only enables   *)
(* its interrupt again): everything but dsl, then dsl, then it loops.               *)
PowerLoss ==
    /\ gasp = "no"
    /\ called' = [h \in Handlers |->
                    IF h # Dsl THEN {i \in Turns : EntryAt[i] = h}
                    ELSE {Cardinality(Handlers) + 1 : i \in {j \in Turns : EntryAt[j] = Dsl}}]
    /\ gasp' = IF EntryAt[Cardinality(Handlers)] = ListHead THEN "done" ELSE "fault"
    /\ UNCHANGED <<next, prev, change, registered>>

GaspNext ==
    \/ \E h \in Handlers : Register(h) \/ Deregister(h)
    \/ DoStore \/ PowerLoss

-------------------------------------------------------------------------------------
Stores == [link : {"next", "prev"}, entry : ListEntries, value : ListEntries \cup {NULL}]

(* Types of all variables. *)
GaspTypeOK ==
    /\ next \in Links /\ prev \in Links
    /\ change \in [stores : Seq(Stores), h : Handlers] /\ Len(change.stores) <= 4
    /\ registered \subseteq Handlers
    /\ called \in [Handlers -> SUBSET Nat]
    /\ gasp \in {"no", "done", "fault"}

(* Between requests the list holds the registered handlers and nothing else, and    *)
(* can be followed in both directions: no request leaves a link to an entry that    *)
(* was freed.                                                                       *)
ListIsRegistered ==
    change = Quiet =>
        LET linked == registered \cup {ListHead}
        IN  /\ linked = {e \in ListEntries : next[e] # NULL}
            /\ \A e \in linked : next[e] \in linked /\ prev[next[e]] = e

(* Whenever power is lost, also between two stores of a request, the interrupt      *)
(* finds the end of the list and calls every registered handler exactly once, dsl   *)
(* last, as its message must go out on a quiet board ("first to turn off everything *)
(* other than dsl", "now send dgasp").                                              *)
GaspReachesAll ==
    gasp # "no" =>
        /\ gasp = "done"
        /\ \A h \in registered : called[h] # {}
        /\ \A h \in Handlers : \A i, j \in called[h] : i = j
        /\ \A h \in Handlers \ {Dsl} : \A i \in called[h], j \in called[Dsl] : i < j
====================================================================================
