----------------------------------- MODULE MCLed -----------------------------------
(* Small instances of Led for TLC. *)
EXTENDS Led, TLC

CONSTANTS ppp, wan, adsl, p1, p2

Pair(n, norm, fail) == [name |-> n, norm |-> norm, fail |-> fail]

(* A name adds a pin to the LED of another, or has nothing to add; an LED with both *)
(* colours on pins, and two that have one on a pin and one on a hardware handler.   *)
Maps == {<<Pair(wan, p1, p2), Pair(ppp, p1, None)>>,
         <<Pair(ppp, p1, None), Pair(wan, p1, p2)>>,
         <<Pair(adsl, None, p2), Pair(wan, p1, p2)>>,
         <<Pair(ppp, p1, None), Pair(adsl, None, p2)>>,
         <<Pair(wan, p1, p2)>>}
Handlers == [c \in Colours |-> IF c = "norm" THEN {adsl} ELSE {ppp}]
====================================================================================
