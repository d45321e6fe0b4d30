---------------------------- MODULE MessageDelivery ----------------------------
(***************************************************************************)
(* What the message queue promises, without its workers: a message waits,  *)
(* is claimed once, is handed to an output at most once and only while it  *)
(* is claimed, and gets one verdict, which tells the truth: success and    *)
(* failure only for a message that was handed over, skipped only for one   *)
(* that was not.  Nothing gives a claimed message back.                    *)
(***************************************************************************)
EXTENDS Naturals

CONSTANT Messages

VARIABLES
  row,       \* "new", "A" waiting, "T" claimed, the verdicts "S" "F" "O", "gone"
  attempts   \* how often a message was handed to an output

vars == <<row, attempts>>

Init ==
  /\ row = [m \in Messages |-> "new"]
  /\ attempts = [m \in Messages |-> 0]

Accept(accepted) ==
  /\ \A m \in accepted : row[m] = "new"
  /\ row' = [m \in Messages |-> IF m \in accepted THEN "A" ELSE row[m]]
  /\ UNCHANGED attempts

Claim(m) ==
  /\ row[m] = "A"
  /\ row' = [row EXCEPT ![m] = "T"]
  /\ UNCHANGED attempts

(* The row may have been withdrawn since it was claimed; the message still goes out. *)
HandOver(m) ==
  /\ row[m] \in {"T", "gone"}
  /\ attempts[m] = 0
  /\ attempts' = [attempts EXCEPT ![m] = 1]
  /\ UNCHANGED row

Verdicts(m) == IF attempts[m] = 1 THEN {"S", "F"} ELSE {"O"}

Settle(m) ==
  /\ row[m] = "T"
  /\ \E verdict \in Verdicts(m) : row' = [row EXCEPT ![m] = verdict]
  /\ UNCHANGED attempts

Withdraw(withdrawn) ==
  /\ \A m \in withdrawn : row[m] # "new"
  /\ row' = [m \in Messages |-> IF m \in withdrawn THEN "gone" ELSE row[m]]
  /\ UNCHANGED attempts

Next ==
  \/ \E some \in SUBSET Messages : Accept(some) \/ Withdraw(some)
  \/ \E m \in Messages : Claim(m) \/ HandOver(m) \/ Settle(m)

Spec == Init /\ [][Next]_vars
===============================================================================
