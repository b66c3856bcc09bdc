---------------------------------- MODULE MCXtmTx ----------------------------------
(* Small instances of XtmTx for TLC. *)
EXTENDS XtmTx, TLC

CONSTANTS d1, d2, s1, s2, s3

Q(port, prio, size) == [port |-> port, prio |-> prio, size |-> size]

(* One ring of one or two descriptors. *)
SmallRing == {<<Q(0, 1, 1)>>}
OneRing == {<<Q(0, 1, 2)>>}

(* Two rings of different priority; a list with a queue on a port, and one with a *)
(* queue of a sub-priority, that does not exist.                                  *)
MixedRings == {<<Q(0, 1, 1), Q(0, 2, 2)>>, <<Q(0, 0, 2), Q(9, 2, 1)>>,
               <<Q(0, 9, 1), Q(0, 1, 2)>>}

Symmetry == Permutations(Skbs)
====================================================================================
