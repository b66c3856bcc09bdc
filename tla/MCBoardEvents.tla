------------------------------- MODULE MCBoardEvents -------------------------------
(* A small instance of BoardEvents for TLC. *)
EXTENDS BoardEvents

CONSTANTS eth, usb, dsl
====================================================================================
