---- MODULE MCMutation ----
(* Model-checking instance of Mutation. *)
EXTENDS Mutation, TLC

Symmetry == Permutations(Calls)
====
