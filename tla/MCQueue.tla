-------------------------------- MODULE MCQueue --------------------------------
(* Small instances of Queue for TLC: elements of size 1, 2 and 0. *)
EXTENDS Queue, TLC

CONSTANTS one, two, zero

SizeOf == [e \in Element |-> CASE e = one -> 1 [] e = two -> 2 [] e = zero -> 0]
Symmetry == Permutations(Coroutine)
================================================================================
