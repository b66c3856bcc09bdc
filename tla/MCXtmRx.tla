---------------------------------- MODULE MCXtmRx ----------------------------------
(* Small instances of XtmRx for TLC. *)
EXTENDS XtmRx, TLC

CONSTANTS d1, d2, m1

(* Two receive queues, with two descriptors and with one. *)
SmallRings == (0 :> 2) @@ (1 :> 1)
(* The match id is one device's, the other device only sends. *)
OneReceiver == (d1 :> {{m1}}) @@ (d2 :> {{}})
====================================================================================
