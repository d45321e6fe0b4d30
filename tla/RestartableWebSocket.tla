------------------------- MODULE RestartableWebSocket --------------------------
(***************************************************************************)
(* The web socket of the client, datapipe/restartable-websocket.js: it     *)
(* opens again when it closes, after a delay that doubles from try to try  *)
(* and falls back once a connection has lasted.  Sockets and timers are    *)
(* counted, because nothing but the order of the callbacks keeps them from *)
(* multiplying.  Sending is left out: nothing in the client sends.         *)
(***************************************************************************)
EXTENDS Naturals

CONSTANTS
  MinDelay, MaxDelay,   \* of the back-off: 500 ms and 30 s
  MaxCloses             \* bound on how often a connection ends in one behaviour

ASSUME DelayAssumption == MinDelay \in Nat \ {0} /\ MaxDelay \in Nat /\ MinDelay <= MaxDelay

ASSUME ClosesAssumption == MaxCloses \in Nat

VARIABLES
  connecting,   \* sockets that are neither open nor closed yet
  opened,       \* sockets after onopen and before onclose
  connected,    \* this.connected
  retryTimers,  \* timers that will call ensureConnection
  resetTimers,  \* timers that will set the delay back
  delay,        \* backoff.current
  closes        \* connections ended so far

vars == <<connecting, opened, connected, retryTimers, resetTimers, delay, closes>>

(* The constructor calls ensureConnection. *)
Init ==
  /\ connecting = 1
  /\ opened = 0
  /\ connected = FALSE
  /\ retryTimers = 0
  /\ resetTimers = 0
  /\ delay = MinDelay
  /\ closes = 0

(* ws.onopen, and backoff.success, which sets a timer and clears none. *)
Opens ==
  /\ connecting > 0
  /\ connecting' = connecting - 1
  /\ opened' = opened + 1
  /\ connected' = TRUE
  /\ resetTimers' = resetTimers + 1
  /\ UNCHANGED <<retryTimers, delay, closes>>

(* Mutation: clearTimeout left out of retry. *)
RetryKeepsReset ==
  /\ UNCHANGED resetTimers
  /\ retryTimers' = retryTimers + 1
  /\ delay' = IF 2 * delay < MaxDelay THEN 2 * delay ELSE MaxDelay

(* Mutation: the delay is not limited. *)
RetryUnlimited ==
  /\ resetTimers' = IF resetTimers > 0 THEN resetTimers - 1 ELSE 0
  /\ retryTimers' = retryTimers + 1
  /\ delay' = 2 * delay

(* backoff.retry: clear the reset timer, set the timer, double the delay. *)
Retry ==
  /\ resetTimers' = IF resetTimers > 0 THEN resetTimers - 1 ELSE 0
  /\ retryTimers' = retryTimers + 1
  /\ delay' = IF 2 * delay < MaxDelay THEN 2 * delay ELSE MaxDelay

(* Mutation: a socket that closes is still taken for connected. *)
StillConnected ==
  /\ closes < MaxCloses
  /\ closes' = closes + 1
  /\ \/ connecting > 0 /\ connecting' = connecting - 1 /\ UNCHANGED opened
     \/ opened > 0 /\ opened' = opened - 1 /\ UNCHANGED connecting
  /\ UNCHANGED connected
  /\ Retry

(* ws.onclose: of a socket that was open, or of one that never opened. *)
Closes ==
  /\ closes < MaxCloses
  /\ closes' = closes + 1
  /\ \/ connecting > 0 /\ connecting' = connecting - 1 /\ UNCHANGED opened
     \/ opened > 0 /\ opened' = opened - 1 /\ UNCHANGED connecting
  /\ connected' = FALSE
  /\ Retry

(* The timer of backoff.retry: ensureConnection makes a socket unless connected. *)
RetryTimerFires ==
  /\ retryTimers > 0
  /\ retryTimers' = retryTimers - 1
  /\ connecting' = IF connected THEN connecting ELSE connecting + 1
  /\ UNCHANGED <<opened, connected, resetTimers, delay, closes>>

(* The timer of backoff.success. *)
ResetTimerFires ==
  /\ resetTimers > 0
  /\ resetTimers' = resetTimers - 1
  /\ delay' = MinDelay
  /\ UNCHANGED <<connecting, opened, connected, retryTimers, closes>>

Next == Opens \/ Closes \/ RetryTimerFires \/ ResetTimerFires

Spec == Init /\ [][Next]_vars

(* Timers fire, and the browser reports how an attempt to connect has ended. *)
FairSpec ==
  /\ Spec
  /\ WF_vars(RetryTimerFires)
  /\ WF_vars(ResetTimerFires)
  /\ WF_vars(Opens)

(* The state is of its type; the delay stays within its limits. *)
TypeOK ==
  /\ connecting \in Nat
  /\ opened \in Nat
  /\ connected \in BOOLEAN
  /\ retryTimers \in Nat
  /\ resetTimers \in Nat
  /\ delay \in MinDelay..MaxDelay
  /\ closes \in 0..MaxCloses

(***************************************************************************)
(* Of sockets that are opening, sockets that are open and timers that will *)
(* make one there is exactly one at any time: the client neither receives  *)
(* each push twice nor stops connecting.  The flag tells an open socket,   *)
(* and a timer that sets the delay back belongs to a connection that is    *)
(* still there, so that a server closing every connection is not asked     *)
(* again and again at the shortest delay.                                  *)
(***************************************************************************)
OneConnection ==
  /\ connecting + opened + retryTimers = 1
  /\ connected <=> opened = 1
  /\ resetTimers <= opened

Link == IF opened > 0 THEN "open" ELSE IF connecting > 0 THEN "opening" ELSE "waiting"

Promised == INSTANCE Connection WITH link <- Link

(* The web socket is the connection it promises: its only steps are to gain *)
(* and to lose one connection, and a lost one is tried again for ever.      *)
ImplementsConnection == Promised!Spec

(* Once connections stop ending the client stays connected, and its delay  *)
(* is the shortest one again.                                              *)
Recovers == <>[](opened = 1 /\ connecting = 0 /\ delay = MinDelay)
===============================================================================
