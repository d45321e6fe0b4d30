------------------------------- MODULE MCTiles ---------------------------------
(* An instance of Tiles for TLC. *)
EXTENDS Tiles, TLC

UserSymmetry == Permutations(Users)
===============================================================================
