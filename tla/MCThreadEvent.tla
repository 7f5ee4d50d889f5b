----------------------------- MODULE MCThreadEvent -----------------------------
(* Two plain threads and a thread with an event loop and two coroutines. *)
EXTENDS ThreadEvent, TLC

CONSTANTS p1, p2, c1, c2, t1, t2, loop

Placement == (p1 :> t1) @@ (p2 :> t2) @@ (c1 :> loop) @@ (c2 :> loop)
================================================================================
