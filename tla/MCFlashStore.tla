------------------------------- MODULE MCFlashStore --------------------------------
(* Small instances of FlashStore for TLC. *)
EXTENDS FlashStore

CONSTANTS d0, d1

Of(kind, sec, off, len, data) ==
    [kind |-> kind, sec |-> sec, off |-> off, len |-> len, data |-> data]

(* Writers and readers of all sections. *)
AllCalls == {Of("set", "nvram", 0, 1, 3), Of("set", "nvram", 0, 1, Erased),
             Of("set", "psi", 0, 2, d1),
             Of("set", "dare", 0, 3, d1), Of("set", "sp", 0, 1, d1),
             Of("get", "psi", 0, 2, Zero), Of("clear", "sp", 0, 1, Zero)}

(* A process wipes out the scratch pad. *)
Clearing == {Of("clear", "sp", 0, 1, Zero)}
====================================================================================
