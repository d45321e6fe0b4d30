------------------------------ MODULE Connection -------------------------------
(***************************************************************************)
(* What the web socket of the client promises to the rest of the page: one *)
(* connection, which is opened again whenever it is lost.                  *)
(***************************************************************************)

VARIABLE link   \* "opening", "open" or "waiting"

Init == link = "opening"

(* An attempt to connect ends, with a connection or without one. *)
Settle == link = "opening" /\ link' \in {"open", "waiting"}

Lose == link = "open" /\ link' = "waiting"

TryAgain == link = "waiting" /\ link' = "opening"

Next == Settle \/ Lose \/ TryAgain

SafeSpec == Init /\ [][Next]_link

(* A lost connection is tried again, and a try has an outcome. *)
Spec == SafeSpec /\ WF_link(TryAgain) /\ WF_link(Settle)
===============================================================================
