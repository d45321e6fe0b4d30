------------------------------ MODULE StreamItems ------------------------------
(***************************************************************************)
(* The items of a stream of the web client (activities, or the             *)
(* notifications among them: the code is there twice) and their order.     *)
(***************************************************************************)
EXTENDS Integers

CONSTANTS
  Items,     \* activities of one user; the number stands for the id
  DateOf     \* the date of each

ASSUME ItemsAssumption == Items \subseteq Nat /\ DateOf \in [Items -> Nat]

(* sortItems: by date, then by id, both descending. *)
Newer(x, y) == DateOf[x] > DateOf[y] \/ (DateOf[x] = DateOf[y] /\ x > y)
===============================================================================
