------------------------------- MODULE MCCapacity -------------------------------
(* Instances of Capacity for TLC. *)
EXTENDS Capacity, TLC

Symmetric == Permutations(Call)
================================================================================
