--------------------------- MODULE MCPublishActivity ---------------------------
(* Instances of PublishActivity for TLC. *)
EXTENDS PublishActivity, TLC

Symmetry == Permutations(Requests \ {Creator}) \cup Permutations(Users)
===============================================================================
