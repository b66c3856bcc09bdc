---------------------------------- MODULE PadMap -----------------------------------
(* What the scratch pad promises: a map from token names to data.  A set stores the *)
(* data of one token and leaves the others alone, or fails and changes nothing.     *)
EXTENDS Integers

CONSTANTS Tokens, Strings, NoData

VARIABLES map, last     \* last: the last request and its result

mapVars == <<map, last>>
Request(t, d, ret) == [tok |-> t, data |-> d, ret |-> ret]
NoRequest == [ret |-> 0]

MapInit == map = [t \in Tokens |-> NoData] /\ last = NoRequest

(* Storing nothing removes the token. *)
MapSet(t, d) ==
    /\ map' = [map EXCEPT ![t] = IF d = <<>> THEN NoData ELSE d]
    /\ last' = Request(t, d, 0)
MapRefuse(t, d) == last' = Request(t, d, -1) /\ UNCHANGED map
MapClear == map' = [t \in Tokens |-> NoData] /\ last' = NoRequest

MapNext == MapClear \/ \E t \in Tokens, d \in Strings : MapSet(t, d) \/ MapRefuse(t, d)
MapSpec == MapInit /\ [][MapNext]_mapVars
====================================================================================
