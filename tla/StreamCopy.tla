------------------------------ MODULE StreamCopy -------------------------------
(***************************************************************************)
(* What the page promises of its copy of a stream, however the items reach *)
(* it: the copy holds items of the server only, a page never forgets one,  *)
(* and a new page starts with nothing and may get back what an earlier     *)
(* page has stored.                                                        *)
(***************************************************************************)
CONSTANT Items

VARIABLES
  visible,   \* the items that the server would show
  copy,      \* the items that the page has
  stored     \* the items in the browser's storage

vars == <<visible, copy, stored>>

Init == visible = {} /\ copy = {} /\ stored = {}

Appear(x) ==
  /\ x \in Items
  /\ visible' = visible \cup {x}
  /\ UNCHANGED <<copy, stored>>

Learn(items) ==
  /\ items \subseteq visible
  /\ copy' = copy \cup items
  /\ UNCHANGED <<visible, stored>>

Restore ==
  /\ copy' = copy \cup stored
  /\ UNCHANGED <<visible, stored>>

NewPage ==
  /\ copy' = {}
  /\ stored' \in {stored, copy}
  /\ UNCHANGED visible

Next ==
  \/ \E x \in Items : Appear(x)
  \/ \E items \in SUBSET Items : Learn(items)
  \/ Restore \/ NewPage

Spec == Init /\ [][Next]_vars
===============================================================================
