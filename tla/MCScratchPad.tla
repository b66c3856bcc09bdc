------------------------------- MODULE MCScratchPad --------------------------------
(* A small instance of ScratchPad for TLC: data that look like names and lengths. *)
EXTENDS ScratchPad

CONSTANTS a, b, c
MCDataUnits == {a, 1}

(* The last request does not influence the next one. *)
PadView == pad
====================================================================================
