------------------------------ MODULE MCCoroutine ------------------------------
(* A small instance of Coroutine for TLC. *)
EXTENDS Coroutine, TLC

Symmetry == Permutations(Coroutine) \cup Permutations(KillIds)
================================================================================
