---------------------------- MODULE MCMessageQueue ----------------------------
(* Instances of MessageQueue for TLC. *)
EXTENDS MessageQueue, TLC

CONSTANTS a1, u1, u2, w1, w2

(* Two outputs for one recipient and a second recipient. *)
Message(a, u, o) == [activity |-> a, user |-> u, output |-> o]
MCMessages == {Message(a1, u1, "Mobile"), Message(a1, u1, "Email"), Message(a1, u2, "Mobile")}
MCFewMessages == {Message(a1, u1, "Mobile"), Message(a1, u1, "SMS")}

WorkerSymmetry == Permutations(Workers)
===============================================================================
