---------------------------- MODULE MCSupervisor ----------------------------
(* A small instance of Supervisor: see the .cfg files of this name. *)
EXTENDS Supervisor, TLC

(* Requests are alike, and so are versions: for the runs without liveness. *)
Symmetry == Permutations(Ops) \cup Permutations(Versions)
=============================================================================
