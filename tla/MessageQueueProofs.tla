-------------------------- MODULE MessageQueueProofs --------------------------
(***************************************************************************)
(* Theorems about MessageQueue, for every set of messages, users and       *)
(* workers.  All of them follow from the inductive invariant IInv.         *)
(***************************************************************************)
EXTENDS MessageQueue, FiniteSetTheorems, TLAPS

(* The parts of IInv about who holds a message and what has become of it. *)
HoldersOK == HolderOfTaken /\ OneHolder /\ OnePlace /\ AttemptsByPlace /\ BatchNotHeld
PlacesOK == \A w \in Workers : TokenPlace(w)

(***************************************************************************)
(* Marking recipients keeps the types: only finitely many are counted.     *)
(***************************************************************************)
LEMMA MarkProcessedType ==
  ASSUME TypeOK, NEW a \in Activities, NEW users, IsFiniteSet(users), MarkProcessed(a, users)
  PROVE  /\ recipient' \in [Activities -> [Users -> {"none", "pending", "sent"}]]
         /\ sentCount' \in [Activities -> Nat]
<1>1. Cardinality(Unprocessed(a, users)) \in Nat
  BY FS_Subset, FS_CardinalityType DEF Unprocessed
<1> QED BY <1>1 DEF MarkProcessed, TypeOK

(* A worker past lockRecord has a message. *)
LEMMA CurrentIsMessage ==
  ASSUME IInv, NEW w \in Workers, pc[w] \in {"find", "mark", "user"}
  PROVE  /\ current[w] \in Messages
         /\ current[w].activity \in Activities
         /\ current[w].user \in Users
BY MessagesAssumption, NoMessageAssumption DEF IInv, TypeOK, CurrentWhileProcessing

(* A worker inside receive holds its only WorkAvailable itself. *)
LEMMA ReceiveHasToken ==
  ASSUME IInv, NEW w \in Workers, pc[w] \in {"lock", "find", "mark", "user"}
  PROVE  Nowhere(w)
BY DEF IInv, TokenPlace

LEMMA InitIInv == Init => IInv
BY NoMessageAssumption, BoundsAssumption
   DEF Init, IInv, TypeOK, RowStates, Settled, CurrentWhileProcessing, HolderOfTaken,
       OneHolder, OnePlace, AttemptsByPlace, BatchNotHeld, TokenPlace, Holds

(***************************************************************************)
(* IInv is inductive: one step for each action.                            *)
(***************************************************************************)
LEMMA StepIInv == IInv /\ [Next]_vars => IInv'
<1> SUFFICES ASSUME IInv, [Next]_vars PROVE IInv'
  OBVIOUS
<1> USE NoMessageAssumption, BoundsAssumption
    DEF TypeOK, RowStates, Settled, CurrentWhileProcessing, database, volatile,
        HoldersOK, HolderOfTaken, OneHolder, OnePlace, AttemptsByPlace, BatchNotHeld, Holds
<1> DEFINE TypesOK == TypeOK /\ CurrentWhileProcessing
<1>types. TypesOK
  BY DEF IInv
<1>holders. HoldersOK
  BY DEF IInv
<1>places. PlacesOK
  BY DEF IInv, PlacesOK
<1>1. ASSUME NEW a \in Activities, Send(a) PROVE IInv'
  <2>1. PICK muted, quiet \in SUBSET Users :
          MarkProcessed(a, muted) /\ InsertRows(a, Users \ muted, quiet)
    BY <1>1 DEF Send
  <2>2. IsFiniteSet(muted)
    BY <2>1, UsersAssumption, FS_Subset
  <2>3. row' \in [Messages -> RowStates] /\ held' \subseteq Messages
    BY <1>types, <1>places, <2>1 DEF InsertRows
  <2>4. TypesOK'
    BY <1>types, <1>1, <2>1, <2>2, <2>3, MarkProcessedType DEF Send
  <2>5. HoldersOK'
    BY <1>types, <1>holders, <1>1, <2>1 DEF Send, InsertRows
  <2>6. PlacesOK'
    BY <1>types, <1>places, <1>1 DEF Send, PlacesOK, TokenPlace, Nowhere
  <2> QED BY <2>4, <2>5, <2>6 DEF IInv, PlacesOK
<1>2. ASSUME NEW a \in Activities, DeleteActivity(a) PROVE IInv'
  <2>1. TypesOK'
    BY <1>types, <1>2 DEF DeleteActivity
  <2>2. HoldersOK'
    BY <1>types, <1>holders, <1>2 DEF DeleteActivity
  <2>3. PlacesOK'
    BY <1>types, <1>places, <1>2 DEF DeleteActivity, PlacesOK, TokenPlace, Nowhere
  <2> QED BY <2>1, <2>2, <2>3 DEF IInv, PlacesOK
<1>3. ASSUME NEW u \in Users, NEW later \in BOOLEAN, UpdateSendAt(u, later) PROVE IInv'
  <2>1. TypesOK'
    BY <1>types, <1>3 DEF UpdateSendAt, Reschedulable
  <2>2. HoldersOK'
    BY <1>types, <1>holders, <1>3 DEF UpdateSendAt, Reschedulable
  <2>3. PlacesOK'
    BY <1>types, <1>places, <1>3 DEF UpdateSendAt, Reschedulable, PlacesOK, TokenPlace, Nowhere
  <2> QED BY <2>1, <2>2, <2>3 DEF IInv, PlacesOK
<1>4. ASSUME NEW m \in Messages, SendAtPasses(m) PROVE IInv'
  <2>1. TypesOK'
    BY <1>types, <1>4 DEF SendAtPasses
  <2>2. HoldersOK'
    BY <1>types, <1>holders, <1>4 DEF SendAtPasses
  <2>3. PlacesOK'
    BY <1>types, <1>places, <1>4 DEF SendAtPasses, PlacesOK, TokenPlace, Nowhere
  <2> QED BY <2>1, <2>2, <2>3 DEF IInv, PlacesOK
<1>5. ASSUME CleanUp PROVE IInv'
  <2>1. TypesOK'
    BY <1>types, <1>5 DEF CleanUp
  <2>2. HoldersOK'
    BY <1>types, <1>holders, <1>5 DEF CleanUp
  <2>3. PlacesOK'
    BY <1>types, <1>places, <1>5 DEF CleanUp, PlacesOK, TokenPlace, Nowhere
  <2> QED BY <2>1, <2>2, <2>3 DEF IInv, PlacesOK
<1>6. ASSUME NEW w \in Workers, SelectBatch(w) PROVE IInv'
  <2>1. TypesOK'
    BY <1>types, <1>6 DEF SelectBatch, Due
  <2>2. HoldersOK'
    BY <1>types, <1>holders, <1>6 DEF SelectBatch, Due
  <2>3. PlacesOK'
    BY <1>types, <1>places, <1>6 DEF SelectBatch, PlacesOK, TokenPlace, Nowhere
  <2> QED BY <2>1, <2>2, <2>3 DEF IInv, PlacesOK
<1>7. ASSUME NEW w \in Workers, LockRecord(w) PROVE IInv'
  <2>1. TypesOK'
    BY <1>types, <1>7 DEF LockRecord, Lockable
  <2>2. HoldersOK'
    BY <1>types, <1>holders, <1>7 DEF LockRecord, Lockable
  <2>3. PlacesOK'
    BY <1>types, <1>places, <1>7 DEF LockRecord, PlacesOK, TokenPlace, Nowhere
  <2> QED BY <2>1, <2>2, <2>3 DEF IInv, PlacesOK
<1>8. ASSUME NEW w \in Workers, NoWork(w) PROVE IInv'
  <2>1. TypesOK'
    BY <1>types, <1>8 DEF NoWork
  <2>2. HoldersOK'
    BY <1>types, <1>holders, <1>8 DEF NoWork
  <2>3. PlacesOK'
    BY <1>types, <1>places, <1>8 DEF NoWork, PlacesOK, TokenPlace, Nowhere
  <2> QED BY <2>1, <2>2, <2>3 DEF IInv, PlacesOK
<1>9. ASSUME NEW w \in Workers, FindActivity(w) PROVE IInv'
  <2>1. current[w] \in Messages /\ Nowhere(w)
    BY <1>9, CurrentIsMessage, ReceiveHasToken DEF FindActivity
  <2>2. CASE current[w].activity \in activity
    <3>1. TypesOK'
      BY <1>types, <1>9, <2>2 DEF FindActivity
    <3>2. HoldersOK'
      BY <1>types, <1>holders, <1>9, <2>2 DEF FindActivity
    <3>3. PlacesOK'
      BY <1>types, <1>places, <1>9, <2>2 DEF FindActivity, PlacesOK, TokenPlace, Nowhere
    <3> QED BY <3>1, <3>2, <3>3 DEF IInv, PlacesOK
  <2>3. CASE current[w].activity \notin activity
    <3>1. LeaveReceive(w) /\ RunCallbacks(w, current[w], "O") /\ pc[w] = "find"
      BY <1>9, <2>3 DEF FindActivity
    <3>2. TypesOK'
      BY <1>types, <1>9, <2>1, <3>1 DEF FindActivity, LeaveReceive, RunCallbacks
    <3>3. HoldersOK'
      BY <1>types, <1>holders, <1>9, <2>1, <3>1 DEF FindActivity, LeaveReceive, RunCallbacks
    <3>4. PlacesOK'
      BY <1>types, <1>places, <1>9, <2>1, <3>1 DEF FindActivity, LeaveReceive, RunCallbacks, PlacesOK, TokenPlace, Nowhere
    <3> QED BY <3>2, <3>3, <3>4 DEF IInv, PlacesOK
  <2> QED BY <2>2, <2>3
<1>10. ASSUME NEW w \in Workers, MarkRecipient(w) PROVE IInv'
  <2>1. IsFiniteSet({current[w].user}) /\ current[w].activity \in Activities
    BY <1>10, CurrentIsMessage, FS_Singleton DEF MarkRecipient
  <2>2. TypesOK'
    BY <1>types, <1>10, <2>1, MarkProcessedType DEF MarkRecipient
  <2>3. HoldersOK'
    BY <1>types, <1>holders, <1>10 DEF MarkRecipient
  <2>4. PlacesOK'
    BY <1>types, <1>places, <1>10 DEF MarkRecipient, PlacesOK, TokenPlace, Nowhere
  <2> QED BY <2>2, <2>3, <2>4 DEF IInv, PlacesOK
<1>11. ASSUME NEW w \in Workers, StartSending(w) PROVE IInv'
  <2>1. current[w] \in Messages /\ Nowhere(w)
    BY <1>11, CurrentIsMessage, ReceiveHasToken DEF StartSending
  <2>2. TypesOK'
    BY <1>types, <1>11, <2>1 DEF StartSending, LeaveReceive
  <2>3. PICK m \in Messages : m = current[w]
    BY <2>1
  <2>4. /\ current' = [current EXCEPT ![w] = NoMessage]
        /\ sending' = [sending EXCEPT ![w] = @ \cup {m}]
        /\ attempts' = [attempts EXCEPT ![m] = @ + 1]
        /\ UNCHANGED <<row, held, batch, recording, result>>
    BY <1>11, <2>3 DEF StartSending, LeaveReceive
  <2>5. HoldersOK'
    <3>1. Holds(w, m) /\ attempts[m] = 0 /\ attempts'[m] = 1
      BY <1>types, <1>holders, <2>3, <2>4
    <3>2. \A v \in Workers, n \in Messages : Holds(v, n)' <=> Holds(v, n)
      BY <1>types, <1>holders, <2>3, <2>4, NoMessageAssumption
    <3>3. HolderOfTaken' /\ OneHolder' /\ BatchNotHeld'
      BY <1>types, <1>holders, <2>4, <3>2
    <3>4. OnePlace'
      BY <1>types, <1>holders, <2>3, <2>4, <3>1
    <3>5. /\ row[m] \in {"T", "gone"}
          /\ \A v \in Workers : m \notin recording[v] /\ current'[v] # m
      BY <1>types, <1>holders, <2>3, <2>4, <3>1
    <3>6. ASSUME NEW n \in Messages, n # m
          PROVE  /\ attempts'[n] = attempts[n] /\ row'[n] = row[n]
                 /\ \A v \in Workers :
                      /\ current'[v] = n => current[v] = n
                      /\ n \in sending'[v] => n \in sending[v]
                      /\ n \in recording'[v] => n \in recording[v] /\ result'[n] = result[n]
      BY <1>types, <2>4, <3>6, NoMessageAssumption
    <3>7. AttemptsByPlace'
      BY <1>holders, <2>4, <3>1, <3>5, <3>6
    <3> QED BY <3>3, <3>4, <3>7
  <2>6. PlacesOK'
    <3>1. /\ pc'[w] = "idle" /\ mailbox'[w] = 0 /\ timer'[w] = 0
          /\ sending'[w] = {m} /\ nudging'[w] = {}
      BY <1>types, <1>places, <1>11, <2>1, <2>3 DEF StartSending, LeaveReceive, Nowhere
    <3>2. TokenPlace(w)'
      BY <3>1 DEF TokenPlace
    <3>3. ASSUME NEW v \in Workers, v # w PROVE TokenPlace(v)'
      BY <1>types, <1>places, <1>11, <3>3 DEF StartSending, LeaveReceive, PlacesOK, TokenPlace, Nowhere
    <3> QED BY <3>2, <3>3 DEF PlacesOK
  <2> QED BY <2>2, <2>5, <2>6 DEF IInv, PlacesOK
<1>12. ASSUME NEW w \in Workers, UserMissing(w) PROVE IInv'
  <2>1. current[w] \in Messages /\ Nowhere(w)
    BY <1>12, CurrentIsMessage, ReceiveHasToken DEF UserMissing
  <2>2. TypesOK'
    BY <1>types, <1>12, <2>1 DEF UserMissing, LeaveReceive, RunCallbacks
  <2>3. HoldersOK'
    BY <1>types, <1>holders, <1>12, <2>1 DEF UserMissing, LeaveReceive, RunCallbacks
  <2>4. PlacesOK'
    BY <1>types, <1>places, <1>12, <2>1 DEF UserMissing, LeaveReceive, RunCallbacks, PlacesOK, TokenPlace, Nowhere
  <2> QED BY <2>2, <2>3, <2>4 DEF IInv, PlacesOK
<1>13. ASSUME NEW w \in Workers, TimerFires(w) PROVE IInv'
  <2>1. TypesOK'
    BY <1>types, <1>13 DEF TimerFires
  <2>2. HoldersOK'
    BY <1>types, <1>holders, <1>13 DEF TimerFires
  <2>3. PlacesOK'
    BY <1>types, <1>places, <1>13 DEF TimerFires, PlacesOK, TokenPlace, Nowhere
  <2> QED BY <2>1, <2>2, <2>3 DEF IInv, PlacesOK
<1>14. ASSUME NEW w \in Workers, NEW m \in Messages, FinishSending(w, m) PROVE IInv'
  <2>1. PICK state \in {"S", "F"} : RunCallbacks(w, m, state)
    BY <1>14 DEF FinishSending
  <2>2. TypesOK'
    BY <1>types, <1>14, <2>1 DEF FinishSending, RunCallbacks
  <2>3. HoldersOK'
    BY <1>types, <1>holders, <1>14, <2>1 DEF FinishSending, RunCallbacks
  <2>4. PlacesOK'
    <3>1. /\ pc[w] = "idle" /\ mailbox[w] = 0 /\ timer[w] = 0
          /\ sending[w] = {m} /\ nudging[w] = {}
      BY <1>types, <1>places, <1>14 DEF FinishSending, PlacesOK, TokenPlace, Nowhere
    <3>2. sending'[w] = {} /\ nudging'[w] = {m}
      BY <1>types, <1>places, <1>14, <2>1, <3>1 DEF FinishSending, RunCallbacks
    <3>3. TokenPlace(w)'
      BY <1>14, <3>1, <3>2 DEF FinishSending, TokenPlace
    <3>4. ASSUME NEW v \in Workers, v # w PROVE TokenPlace(v)'
      BY <1>types, <1>places, <1>14, <2>1, <3>4 DEF FinishSending, RunCallbacks, PlacesOK, TokenPlace, Nowhere
    <3> QED BY <3>3, <3>4 DEF PlacesOK
  <2> QED BY <2>2, <2>3, <2>4 DEF IInv, PlacesOK
<1>15. ASSUME NEW w \in Workers, NEW m \in Messages, RecordOutcome(w, m) PROVE IInv'
  <2>1. result[m] \in Settled
    BY <1>holders, <1>15 DEF RecordOutcome
  <2>2. TypesOK'
    BY <1>types, <1>15, <2>1 DEF RecordOutcome, Complete
  <2>3. HoldersOK'
    BY <1>types, <1>holders, <1>15, <2>1 DEF RecordOutcome, Complete
  <2>4. PlacesOK'
    BY <1>types, <1>places, <1>15 DEF RecordOutcome, PlacesOK, TokenPlace, Nowhere
  <2> QED BY <2>2, <2>3, <2>4 DEF IInv, PlacesOK
<1>16. ASSUME NEW w \in Workers, NEW m \in Messages, Nudge(w, m) PROVE IInv'
  <2>1. TypesOK' /\ HoldersOK'
    BY <1>types, <1>holders, <1>16 DEF Nudge
  <2>2. PlacesOK'
    BY <1>types, <1>places, <1>16 DEF Nudge, PlacesOK, TokenPlace, Nowhere
  <2> QED BY <2>1, <2>2 DEF IInv, PlacesOK
<1>17. ASSUME NEW w \in Workers, ReceiveThrows(w) PROVE IInv'
  <2>1. TypesOK' /\ HoldersOK'
    BY <1>types, <1>holders, <1>17 DEF ReceiveThrows, Fault, LeaveReceive
  <2>2. PlacesOK'
    BY <1>types, <1>places, <1>17 DEF ReceiveThrows, LeaveReceive, PlacesOK, TokenPlace, Nowhere
  <2> QED BY <2>1, <2>2 DEF IInv, PlacesOK
<1>18. ASSUME NEW w \in Workers, NEW m \in Messages, RecordThrows(w, m) PROVE IInv'
  <2>1. TypesOK' /\ HoldersOK'
    BY <1>types, <1>holders, <1>18 DEF RecordThrows, Fault
  <2>2. PlacesOK'
    BY <1>types, <1>places, <1>18 DEF RecordThrows, PlacesOK, TokenPlace, Nowhere
  <2> QED BY <2>1, <2>2 DEF IInv, PlacesOK
<1>19. ASSUME NEW w \in Workers, Crash(w) PROVE IInv'
  <2>1. TypesOK' /\ HoldersOK'
    BY <1>types, <1>holders, <1>19 DEF Crash, Fault
  <2>2. PlacesOK'
    BY <1>types, <1>places, <1>19 DEF Crash, PlacesOK, TokenPlace, Nowhere
  <2> QED BY <2>1, <2>2 DEF IInv, PlacesOK
<1>20. ASSUME NEW w \in Workers, Restart(w) PROVE IInv'
  <2>1. TypesOK' /\ HoldersOK'
    BY <1>types, <1>holders, <1>20 DEF Restart
  <2>2. PlacesOK'
    BY <1>types, <1>places, <1>20 DEF Restart, PlacesOK, TokenPlace, Nowhere
  <2> QED BY <2>1, <2>2 DEF IInv, PlacesOK
<1>21. CASE UNCHANGED vars
  <2>1. TypesOK'
    BY <1>types, <1>21 DEF vars
  <2>2. HoldersOK'
    BY <1>types, <1>holders, <1>21 DEF vars
  <2>3. PlacesOK'
    BY <1>types, <1>places, <1>21 DEF vars, PlacesOK, TokenPlace, Nowhere
  <2> QED BY <2>1, <2>2, <2>3 DEF IInv, PlacesOK
<1> QED
  BY <1>1, <1>2, <1>3, <1>4, <1>5, <1>6, <1>7, <1>8, <1>9, <1>10, <1>11, <1>12, <1>13, <1>14,
     <1>15, <1>16, <1>17, <1>18, <1>19, <1>20, <1>21
     DEF Next, Environment, Worker, Receive

THEOREM Invariance == Spec => []IInv
<1> QED BY InitIInv, StepIInv, PTL DEF Spec

-------------------------------------------------------------------------------
(***************************************************************************)
(* Every variable keeps its type: in particular lockRecord, processNow and *)
(* the callbacks only ever work on message ids of MESSAGE_SEND rows.       *)
(***************************************************************************)
THEOREM TypeCorrect == Spec => []TypeOK
<1>1. IInv => TypeOK
  BY DEF IInv
<1> QED BY <1>1, Invariance, PTL

(***************************************************************************)
(* No MESSAGE_SEND row is handed to an output service twice, with any      *)
(* number of workers, batches that overlap, and crashes anywhere.          *)
(***************************************************************************)
THEOREM DeliveredAtMostOnce == Spec => []AtMostOnce
<1>1. IInv => AtMostOnce
  BY DEF IInv, AttemptsByPlace, AtMostOnce
<1> QED BY <1>1, Invariance, PTL

(* A message never has two workers. *)
THEOREM WorkersExclude == Spec => []OneHolder
<1>1. IInv => OneHolder
  BY DEF IInv
<1> QED BY <1>1, Invariance, PTL

(***************************************************************************)
(* A live worker has exactly one WorkAvailable to come, a dead one none,   *)
(* whatever order the two callbacks of a Future run in and whatever throws.*)
(***************************************************************************)
THEOREM WorkerTokens == Spec => []OneToken
<1>1. IInv => OneToken
  <2> SUFFICES ASSUME IInv, NEW w \in Workers
               PROVE  Token(w) = IF pc[w] = "down" THEN 0 ELSE 1
    BY DEF OneToken
  <2>1. Cardinality({}) = 0 /\ \A m \in Messages : Cardinality({m}) = 1
    BY FS_EmptySet, FS_Singleton
  <2>2. TokenPlace(w)
    BY DEF IInv
  <2> QED BY <2>1, <2>2 DEF TokenPlace, Nowhere, Token
<1> QED BY <1>1, Invariance, PTL

(***************************************************************************)
(* A message is not taken before its SEND_AT: a row in a worker's batch is *)
(* never held again, because updateMessageSendAtForUser only moves the     *)
(* SEND_AT of rows where it is still in the future.                        *)
(***************************************************************************)
THEOREM RespectsSendAt == Spec => HeldNotTaken
<1> DEFINE Respects == \A m \in Messages : row[m] = "A" /\ row'[m] = "T" => m \notin held
<1>1. IInv /\ [Next]_vars => [Respects]_<<row, held>>
  <2> SUFFICES ASSUME IInv, [Next]_vars, NEW m \in Messages, row[m] = "A", row'[m] = "T"
               PROVE  m \notin held
    OBVIOUS
  <2> USE DEF IInv, TypeOK
  <2>1. ASSUME NEW w \in Workers, LockRecord(w) PROVE m \in batch[w]
    BY <2>1 DEF LockRecord
  <2>2. ASSUME NEW w \in Workers, NEW n \in Messages, RecordOutcome(w, n) PROVE FALSE
    <3>1. Holds(w, n) /\ result[n] \in {"S", "F", "O"}
      BY <2>2 DEF RecordOutcome, Holds, AttemptsByPlace
    <3> QED BY <2>2, <3>1 DEF RecordOutcome, Complete, HolderOfTaken
  <2>3. ASSUME NEW a \in Activities, Send(a) PROVE FALSE
    BY <2>3 DEF Send, InsertRows
  <2>4. PICK w \in Workers : LockRecord(w)
    BY <2>2, <2>3
       DEF Next, Environment, Worker, Receive, vars, database, DeleteActivity, UpdateSendAt,
           SendAtPasses, CleanUp, SelectBatch, NoWork, FindActivity, MarkRecipient,
           StartSending, UserMissing, TimerFires, FinishSending, Nudge, ReceiveThrows,
           RecordThrows, Crash, Restart
  <2> QED BY <2>1, <2>4 DEF BatchNotHeld
<1> QED BY <1>1, Invariance, PTL DEF Spec, HeldNotTaken

-------------------------------------------------------------------------------
(***************************************************************************)
(* The queue implements MessageDelivery: each step is one of its steps on  *)
(* MESSAGE_SEND and the attempts, or leaves both alone.                    *)
(***************************************************************************)
LEMMA InitDelivery == Init => Delivery!Init
BY DEF Init, Delivery!Init

LEMMA StepDelivery == IInv /\ [Next]_vars => [Delivery!Next]_(Delivery!vars)
<1> SUFFICES ASSUME IInv, [Next]_vars PROVE Delivery!Next \/ UNCHANGED <<row, attempts>>
  BY DEF Delivery!vars
<1> USE DEF IInv, TypeOK
<1>1. ASSUME NEW a \in Activities, Send(a) PROVE Delivery!Next
  <2>0. PICK muted, quiet \in SUBSET Users : InsertRows(a, Users \ muted, quiet)
    BY <1>1 DEF Send
  <2>1. PICK chosen \in SUBSET {m \in Messages : row[m] = "new" /\ m.activity = a
                                                /\ m.user \in Users \ muted} :
          row' = [m \in Messages |-> IF m \in chosen THEN "A" ELSE row[m]]
    BY <2>0 DEF InsertRows
  <2>2. Delivery!Accept(chosen)
    BY <1>1, <2>1 DEF Send, Delivery!Accept
  <2> QED BY <2>2 DEF Delivery!Next
<1>2. ASSUME NEW a \in Activities, DeleteActivity(a) PROVE Delivery!Next
  <2> DEFINE withdrawn == {m \in Messages : m.activity = a /\ row[m] # "new"}
  <2>1. row' = [m \in Messages |-> IF m \in withdrawn THEN "gone" ELSE row[m]]
    BY <1>2 DEF DeleteActivity
  <2>2. Delivery!Withdraw(withdrawn)
    BY <1>2, <2>1 DEF DeleteActivity, Delivery!Withdraw
  <2> QED BY <2>2 DEF Delivery!Next
<1>3. ASSUME CleanUp PROVE Delivery!Next
  <2>1. PICK old \in SUBSET {m \in Messages : row[m] = "S"} :
          row' = [m \in Messages |-> IF m \in old THEN "gone" ELSE row[m]]
    BY <1>3 DEF CleanUp
  <2>2. Delivery!Withdraw(old)
    BY <1>3, <2>1 DEF CleanUp, Delivery!Withdraw
  <2> QED BY <2>2 DEF Delivery!Next
<1>4. ASSUME NEW w \in Workers, LockRecord(w) PROVE Delivery!Next
  <2>1. PICK m \in Messages : row[m] = "A" /\ row' = [row EXCEPT ![m] = "T"]
    BY <1>4 DEF LockRecord, Lockable
  <2>2. Delivery!Claim(m)
    BY <1>4, <2>1 DEF LockRecord, Delivery!Claim
  <2> QED BY <2>2 DEF Delivery!Next
<1>5. ASSUME NEW w \in Workers, StartSending(w) PROVE Delivery!Next
  <2>1. PICK m \in Messages : m = current[w]
    BY <1>5, CurrentIsMessage DEF StartSending
  <2>2. row[m] \in {"T", "gone"} /\ attempts[m] = 0
    BY <2>1 DEF HolderOfTaken, AttemptsByPlace, Holds
  <2>3. attempts' = [attempts EXCEPT ![m] = 1] /\ UNCHANGED row
    BY <1>5, <2>1, <2>2 DEF StartSending, database
  <2>4. Delivery!HandOver(m)
    BY <2>2, <2>3 DEF Delivery!HandOver
  <2> QED BY <2>4 DEF Delivery!Next
<1>6. ASSUME NEW w \in Workers, NEW m \in Messages, RecordOutcome(w, m)
      PROVE  Delivery!Next \/ UNCHANGED <<row, attempts>>
  <2>1. row[m] \in {"T", "gone"} /\ result[m] \in Delivery!Verdicts(m)
    BY <1>6 DEF RecordOutcome, HolderOfTaken, AttemptsByPlace, Holds, Delivery!Verdicts
  <2>2. CASE row[m] = "gone"
    BY <1>6, <2>2 DEF RecordOutcome, Complete
  <2>3. CASE row[m] = "T"
    <3>1. row' = [row EXCEPT ![m] = result[m]] /\ UNCHANGED attempts
      BY <1>6, <2>3 DEF RecordOutcome, Complete
    <3>2. Delivery!Settle(m)
      BY <2>1, <2>3, <3>1 DEF Delivery!Settle
    <3> QED BY <3>2 DEF Delivery!Next
  <2> QED BY <2>1, <2>2, <2>3
<1> QED
  BY <1>1, <1>2, <1>3, <1>4, <1>5, <1>6
     DEF Next, Environment, Worker, Receive, vars, database, UpdateSendAt, SendAtPasses,
         SelectBatch, NoWork, FindActivity, MarkRecipient, UserMissing, TimerFires,
         FinishSending, Nudge, ReceiveThrows, RecordThrows, Crash, Restart

THEOREM Implementation == Spec => ImplementsDelivery
<1> QED
  BY InitDelivery, StepDelivery, Invariance, PTL DEF Spec, ImplementsDelivery, Delivery!Spec

-------------------------------------------------------------------------------
(***************************************************************************)
(* Marking recipients keeps SENT_COUNT equal to the recipients marked: the *)
(* count grows by the rows the UPDATE changed, not by those it was asked   *)
(* to change.                                                              *)
(***************************************************************************)
SentTo(a) == {u \in Users : recipient[a][u] = "sent"}

LEMMA MarkProcessedCounts ==
  ASSUME TypeOK, SentCountExact, NEW a \in Activities, NEW users \in SUBSET Users,
         MarkProcessed(a, users), NEW b \in activity
  PROVE  sentCount'[b] = Cardinality(SentTo(b)')
<1>1. CASE b # a
  <2>1. SentTo(b)' = SentTo(b) /\ sentCount'[b] = sentCount[b]
    BY <1>1 DEF MarkProcessed, SentTo, TypeOK
  <2> QED BY <2>1 DEF SentCountExact, SentTo
<1>2. CASE b = a
  <2> DEFINE marked == Unprocessed(a, users)
  <2>1. marked \subseteq Users /\ SentTo(a) \cap marked = {}
    BY DEF Unprocessed, SentTo
  <2>2. IsFiniteSet(marked) /\ IsFiniteSet(SentTo(a))
    BY <2>1, UsersAssumption, FS_Subset DEF SentTo
  <2>3. SentTo(a)' = SentTo(a) \cup marked
    BY <2>1 DEF MarkProcessed, SentTo, TypeOK
  <2>4. sentCount'[a] = sentCount[a] + Cardinality(marked)
    BY DEF MarkProcessed, TypeOK
  <2>5. Cardinality(SentTo(a) \cup marked) = Cardinality(SentTo(a)) + Cardinality(marked)
    <3>1. Cardinality({}) = 0 /\ Cardinality(SentTo(a)) \in Nat /\ Cardinality(marked) \in Nat
      BY <2>2, FS_EmptySet, FS_CardinalityType
    <3>2. Cardinality(SentTo(a) \cup marked)
            = Cardinality(SentTo(a)) + Cardinality(marked) - Cardinality(SentTo(a) \cap marked)
      BY <2>2, FS_Union
    <3>3. Cardinality(SentTo(a) \cap marked) = 0
      BY <2>1, <3>1
    <3> HIDE DEF marked
    <3> QED BY <3>1, <3>2, <3>3
  <2> QED BY <1>2, <2>3, <2>4, <2>5 DEF SentCountExact, SentTo
<1> QED BY <1>1, <1>2

(***************************************************************************)
(* SENT_COUNT is exact: no interleaving of markProcessed by the workers of *)
(* a recipient's messages, and no activity deletion, counts anyone twice   *)
(* or misses anyone.                                                       *)
(***************************************************************************)
THEOREM SentCounts == Spec => []SentCountExact
<1>1. Init => SentCountExact
  <2>1. ASSUME Init, NEW a \in activity
        PROVE  sentCount[a] = 0 /\ {u \in Users : recipient[a][u] = "sent"} = {}
    BY <2>1 DEF Init
  <2> QED BY <2>1, FS_EmptySet DEF SentCountExact
<1>2. IInv /\ SentCountExact /\ [Next]_vars => SentCountExact'
  <2> SUFFICES ASSUME IInv, SentCountExact, [Next]_vars PROVE SentCountExact'
    OBVIOUS
  <2>0. TypeOK
    BY DEF IInv
  <2>1. ASSUME NEW a \in Activities, Send(a) PROVE SentCountExact'
    <3>1. PICK muted \in SUBSET Users : MarkProcessed(a, muted)
      BY <2>1 DEF Send
    <3>2. activity' = activity
      BY <2>1 DEF Send
    <3> QED BY <2>0, <3>1, <3>2, MarkProcessedCounts DEF SentCountExact, SentTo
  <2>2. ASSUME NEW w \in Workers, MarkRecipient(w) PROVE SentCountExact'
    <3>1. current[w].activity \in Activities /\ {current[w].user} \in SUBSET Users
      BY <2>2, CurrentIsMessage DEF MarkRecipient
    <3>2. MarkProcessed(current[w].activity, {current[w].user}) /\ activity' = activity
      BY <2>2 DEF MarkRecipient
    <3> QED BY <2>0, <3>1, <3>2, MarkProcessedCounts DEF SentCountExact, SentTo
  <2>3. ASSUME NEW a \in Activities, DeleteActivity(a) PROVE SentCountExact'
    <3>1. \A b \in activity' : b \in activity /\ recipient'[b] = recipient[b] /\ sentCount'[b] = sentCount[b]
      BY <2>0, <2>3 DEF DeleteActivity, TypeOK
    <3> QED BY <3>1 DEF SentCountExact
  <2>4. ASSUME UNCHANGED <<activity, recipient, sentCount>> PROVE SentCountExact'
    BY <2>4 DEF SentCountExact
  <2> QED
    BY <2>1, <2>2, <2>3, <2>4
       DEF Next, Environment, Worker, Receive, vars, database, UpdateSendAt, SendAtPasses,
           CleanUp, SelectBatch, LockRecord, NoWork, FindActivity, StartSending, UserMissing,
           TimerFires, FinishSending, RecordOutcome, Nudge, ReceiveThrows, RecordThrows,
           Crash, Restart
<1> QED BY <1>1, <1>2, Invariance, PTL DEF Spec

===============================================================================
