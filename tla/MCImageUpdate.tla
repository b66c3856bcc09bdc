------------------------------- MODULE MCImageUpdate -------------------------------
(* A small instance of ImageUpdate for TLC. *)
EXTENDS ImageUpdate
====================================================================================
