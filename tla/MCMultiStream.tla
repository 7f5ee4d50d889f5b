----------------------------- MODULE MCMultiStream -----------------------------
(* A small instance of MultiStream for TLC: data flows from a to b. *)
EXTENDS MultiStream, TLC
CONSTANTS w, r
MCEndOf == (w :> "a") @@ (r :> "b")
================================================================================
