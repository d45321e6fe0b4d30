---------------------- MODULE RestartableWebSocketProofs -----------------------
(***************************************************************************)
(* Proofs about the web socket for all delays and any number of closes.    *)
(* TypeOK alone is inductive; OneConnection is inductive with it, because  *)
(* clearTimeout clears the newest reset timer only, and it is the count of *)
(* sockets that shows there is no other.                                   *)
(***************************************************************************)
EXTENDS RestartableWebSocket, TLAPS

SocketInv == TypeOK /\ OneConnection

LEMMA RetryKeepsDelay ==
  ASSUME TypeOK, Retry
  PROVE  /\ retryTimers' = retryTimers + 1
         /\ resetTimers' \in Nat
         /\ resetTimers > 0 => resetTimers' = resetTimers - 1
         /\ resetTimers = 0 => resetTimers' = 0
         /\ delay' \in MinDelay..MaxDelay
  BY DelayAssumption DEF TypeOK, Retry, DelayAssumption

LEMMA SocketInvInit == Init => SocketInv
<1> SUFFICES ASSUME Init
             PROVE  SocketInv
  OBVIOUS
<1>1. connected \in BOOLEAN /\ ~connected
  BY Zenon DEF Init
<1>2. /\ connecting = 1 /\ opened = 0 /\ retryTimers = 0 /\ resetTimers = 0
      /\ delay = MinDelay /\ closes = 0
  BY DEF Init
<1> QED
  BY <1>1, <1>2, DelayAssumption, ClosesAssumption
  DEF SocketInv, TypeOK, OneConnection, DelayAssumption, ClosesAssumption

LEMMA SocketInvStep == SocketInv /\ [Next]_vars => SocketInv'
<1> SUFFICES ASSUME SocketInv, [Next]_vars
             PROVE  SocketInv'
  OBVIOUS
<1> USE DelayAssumption, ClosesAssumption
<1> USE DEF SocketInv, TypeOK, OneConnection, DelayAssumption, ClosesAssumption
<1>1. CASE Opens
  <2>1. connecting = 1 /\ opened = 0 /\ retryTimers = 0 /\ resetTimers = 0
    BY <1>1 DEF Opens
  <2>2. connecting' = 0 /\ opened' = 1 /\ retryTimers' = 0 /\ resetTimers' = 1
    BY <1>1, <2>1 DEF Opens
  <2>3. connected' = TRUE
    BY <1>1, Zenon DEF Opens
  <2>4. delay' = delay /\ closes' = closes
    BY <1>1 DEF Opens
  <2> QED
    BY <2>2, <2>3, <2>4
<1>2. CASE Closes
  <2>1. retryTimers = 0 /\ connecting + opened = 1
    BY <1>2 DEF Closes
  <2>2. connecting' = 0 /\ opened' = 0
    BY <1>2, <2>1 DEF Closes
  <2>3. connected' \in BOOLEAN /\ ~connected'
    BY <1>2, Zenon DEF Closes
  <2>4. closes' \in 0..MaxCloses
    BY <1>2 DEF Closes
  <2>5. Retry
    BY <1>2, Zenon DEF Closes
  <2>6. retryTimers' = 1 /\ resetTimers' = 0 /\ delay' \in MinDelay..MaxDelay
    BY <2>1, <2>5, RetryKeepsDelay
  <2> QED
    BY <2>2, <2>3, <2>4, <2>6
<1>3. CASE RetryTimerFires
  <2>1. connecting = 0 /\ opened = 0 /\ retryTimers = 1 /\ connected = FALSE
    BY <1>3 DEF RetryTimerFires
  <2>2. retryTimers' = 0 /\ connecting' = 1 /\ opened' = 0
    BY <1>3, <2>1 DEF RetryTimerFires
  <2>3. connected' = connected
    BY <1>3, Zenon DEF RetryTimerFires
  <2>4. resetTimers' = resetTimers /\ delay' = delay /\ closes' = closes
    BY <1>3 DEF RetryTimerFires
  <2> QED
    BY <2>1, <2>2, <2>3, <2>4
<1>4. CASE ResetTimerFires
  <2>1. connecting' = connecting /\ opened' = opened /\ retryTimers' = retryTimers
        /\ resetTimers' = resetTimers - 1 /\ delay' = MinDelay /\ closes' = closes
    BY <1>4 DEF ResetTimerFires
  <2>2. connected' = connected
    BY <1>4, Zenon DEF ResetTimerFires
  <2>3. resetTimers > 0
    BY <1>4 DEF ResetTimerFires
  <2> QED
    BY <2>1, <2>2, <2>3
<1>5. CASE UNCHANGED vars
  BY <1>5 DEF vars
<1> QED
  BY <1>1, <1>2, <1>3, <1>4, <1>5 DEF Next

LEMMA SocketInvariant == Spec => []SocketInv
  BY SocketInvInit, SocketInvStep, PTL DEF Spec

(* The counters are counters and the delay stays within its limits. *)
THEOREM TypeCorrect == Spec => []TypeOK
<1>1. SocketInv => TypeOK
  BY DEF SocketInv
<1> QED
  BY <1>1, SocketInvariant, PTL

(* There is never more nor less than one socket or one timer to make one. *)
THEOREM OneConnectionSafety == Spec => []OneConnection
<1>1. SocketInv => OneConnection
  BY DEF SocketInv
<1> QED
  BY <1>1, SocketInvariant, PTL

(* Every step of the socket is a step of the connection it promises, or none. *)
THEOREM ConnectionRefinement == Spec => Promised!SafeSpec
<1>1. Init => Promised!Init
  BY DEF Init, Promised!Init, Link
<1>2. ASSUME SocketInv, [Next]_vars
      PROVE  [Promised!Next]_Link
  <2> USE DEF SocketInv, TypeOK, OneConnection, Link
  <2>1. CASE Opens
    BY <1>2, <2>1 DEF Opens, Promised!Next, Promised!Settle
  <2>2. CASE Closes
    <3>1. Link \in {"opening", "open"}
      BY <1>2, <2>2 DEF Closes
    <3>2. Link' = "waiting"
      BY <1>2, <2>2 DEF Closes
    <3> QED
      BY <3>1, <3>2 DEF Promised!Next, Promised!Settle, Promised!Lose
  <2>3. CASE RetryTimerFires
    BY <1>2, <2>3 DEF RetryTimerFires, Promised!Next, Promised!TryAgain
  <2>4. CASE ResetTimerFires
    BY <2>4 DEF ResetTimerFires
  <2>5. CASE UNCHANGED vars
    BY <2>5 DEF vars
  <2> QED
    BY <1>2, <2>1, <2>2, <2>3, <2>4, <2>5 DEF Next
<1>3. SocketInv /\ [Next]_vars => [Promised!Next]_Link
  BY <1>2
<1> QED
  BY <1>1, <1>3, SocketInvariant, PTL DEF Spec, Promised!SafeSpec
===============================================================================
