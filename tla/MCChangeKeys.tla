---- MODULE MCChangeKeys ----
(* Model-checking instance of ChangeKeys: a mutation, the same mutation on *)
(* a later version, and an action under the same key.                      *)
EXTENDS ChangeKeys, TLC

MCChanges == {[call |-> "edit", version |-> 1, kind |-> "mutation"],
              [call |-> "edit", version |-> 2, kind |-> "mutation"],
              [call |-> "send", version |-> 1, kind |-> "action"]}

Symmetry == Permutations(Tries)
====
