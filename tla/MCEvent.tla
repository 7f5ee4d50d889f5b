-------------------------------- MODULE MCEvent --------------------------------
(* A small instance of Event for TLC. *)
EXTENDS Event
================================================================================
