--------------------------------- MODULE MCMacAlloc ---------------------------------
(* Small instances of MacAlloc for TLC. *)
EXTENDS MacAlloc, TLC

CONSTANTS u1, u2, u3, x1, x2

(* Two users with ids of their own, one that asks for any address, two XTM devices. *)
UserAndXtmIds ==
    (u1 :> 1) @@ (u2 :> 2) @@ (u3 :> MacAddressAny) @@ (x1 :> XtmId) @@ (x2 :> XtmId)

(* The third address wraps around. *)
LastBase == AddrModulus - 2
=====================================================================================
