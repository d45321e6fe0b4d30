--------------------------- MODULE MCActivityStream ----------------------------
(* An instance of ActivityStream for TLC. *)
EXTENDS ActivityStream

MCDateOf == <<1, 2, 3>>
===============================================================================
