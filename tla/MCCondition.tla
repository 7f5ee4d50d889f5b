------------------------------ MODULE MCCondition ------------------------------
(* A small instance of Condition for TLC. *)
EXTENDS Condition
================================================================================
