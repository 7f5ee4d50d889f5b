---------------------------------- MODULE MCUtp ----------------------------------
(* A small instance of Utp for TLC. *)
EXTENDS Utp
==================================================================================
