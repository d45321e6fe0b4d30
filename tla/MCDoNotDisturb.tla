---------------------------- MODULE MCDoNotDisturb ----------------------------
(* Instances of DoNotDisturb for TLC. *)
EXTENDS DoNotDisturb, TLC

Symmetry == Permutations(Messages) \cup Permutations(Requests)
===============================================================================
