----------------------------- MODULE MCClientLists -----------------------------
(* An instance of ClientLists for TLC: two pairs of items of one date, and two months. *)
EXTENDS ClientLists

NewsSymmetry == Permutations(NewsItems)

MCDateOf == <<1, 2, 2, 3, 3>>
MCMonthOf == <<1, 1, 1, 2, 2>>
===============================================================================
