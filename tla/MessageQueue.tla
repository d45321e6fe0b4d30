----------------------------- MODULE MessageQueue -----------------------------
(***************************************************************************)
(* The outgoing-message job table of My Warwick and the workers that drain *)
(* it: MESSAGE_SEND, one WorkerActor per worker node, the output services, *)
(* the clean-up job, and the columns of ACTIVITY_RECIPIENT and ACTIVITY    *)
(* that processing a message updates.                                      *)
(*                                                                         *)
(* Every SQL transaction is one step; everything a worker does between two *)
(* transactions interleaves with every other node.  A worker node may die  *)
(* at any step, and any call made inside WorkerActor.receive may throw.    *)
(***************************************************************************)
EXTENDS Naturals, FiniteSets

CONSTANTS
  Activities,   \* ids of the activities
  Users,        \* usercodes
  Messages,     \* the ids MESSAGE_SEND rows can have (UUIDs: never used twice)
  Workers,      \* the worker nodes
  NoMessage,    \* no message
  LockBatch,    \* ROWNUM <= 4 in MessagingDao.lockRecord
  MaxFaults     \* bound on crashes and exceptions in one behaviour

(***************************************************************************)
(* A message id stands for its row's immutable columns.                    *)
(***************************************************************************)
Outputs == {"Email", "SMS", "Mobile"}

ASSUME MessagesAssumption ==
  \A m \in Messages :
    m.activity \in Activities /\ m.user \in Users /\ m.output \in Outputs

ASSUME NoMessageAssumption == NoMessage \notin Messages

ASSUME UsersAssumption == IsFiniteSet(Users)

ASSUME BoundsAssumption == LockBatch \in Nat \ {0} /\ MaxFaults \in Nat

VARIABLES
  row,        \* MESSAGE_SEND.STATE of each id; "new" before, "gone" after the row
  held,       \* the rows whose SEND_AT is in the future
  activity,   \* the activities that have a row in ACTIVITY
  recipient,  \* ACTIVITY_RECIPIENT: no row, SENT_AT null, SENT_AT set
  sentCount   \* ACTIVITY.SENT_COUNT

database == <<row, held, activity, recipient, sentCount>>

VARIABLES
  mailbox,    \* WorkAvailable messages in the worker's mailbox
  timer,      \* scheduleOnce calls that have not fired yet
  pc,         \* where the worker is inside receive, "idle" outside it
  batch,      \* the rows its SELECT ... FOR UPDATE returned
  current,    \* the message it locked and is processing inside receive
  sending,    \* messages whose Future from the output service is running
  recording,  \* messages whose completion callback has not run yet
  nudging,    \* messages whose self ! WorkAvailable callback has not run yet
  result      \* the MessageState the ProcessingResult of a message maps to

volatile == <<mailbox, timer, pc, batch, current, sending, recording, nudging, result>>

VARIABLES
  attempts,   \* how often each message was given to an output service (history)
  faults      \* crashes and exceptions so far

vars == <<database, volatile, attempts, faults>>

RowStates == {"new", "A", "T", "S", "F", "O", "gone"}
Settled == {"S", "F", "O"}

-------------------------------------------------------------------------------
(* Row operations of the DAOs, one SQL transaction each. *)

Due == {m \in Messages : row[m] = "A" /\ m \notin held}

(***************************************************************************)
(* MessagingService.send for the recipients that are not muted: a Mobile   *)
(* row for each of them, Email and SMS rows as their preferences say, all  *)
(* with the SEND_AT that do-not-disturb gives their user.                  *)
(***************************************************************************)
InsertRows(a, unmuted, quiet) ==
  \E chosen \in SUBSET {m \in Messages : row[m] = "new" /\ m.activity = a /\ m.user \in unmuted} :
    /\ \A m, n \in chosen : m.user = n.user /\ m.output = n.output => m = n
    /\ \A u \in unmuted : \E m \in chosen : m.user = u /\ m.output = "Mobile"
    /\ row' = [m \in Messages |-> IF m \in chosen THEN "A" ELSE row[m]]
    /\ held' = held \cup {m \in chosen : m.user \in quiet}

(***************************************************************************)
(* ActivityRecipientDao.markProcessed for a set of recipients: SENT_AT is  *)
(* set where it was null, and SENT_COUNT counts the rows that changed.     *)
(***************************************************************************)
(* Mutation: SENT_AT IS NULL left out of the update. *)
UnprocessedUnchecked(a, users) == {u \in users : recipient[a][u] # "none"}

Unprocessed(a, users) == {u \in users : recipient[a][u] = "pending"}

MarkProcessed(a, users) ==
  LET marked == Unprocessed(a, users)
  IN /\ recipient' = [recipient EXCEPT ![a] =
                        [u \in Users |-> IF u \in marked THEN "sent" ELSE @[u]]]
     /\ sentCount' = [sentCount EXCEPT ![a] = @ + Cardinality(marked)]

(* Mutations: a failed message made available again; a skipped one not completed. *)
CompleteOrRetry(m, state) ==
  row' = [row EXCEPT ![m] = IF @ \in {"new", "gone"} THEN @ ELSE IF state = "F" THEN "A" ELSE state]

CompleteUnlessSkipped(m, state) ==
  row' = [row EXCEPT ![m] = IF @ \in {"new", "gone"} \/ state = "O" THEN @ ELSE state]

(* MessagingDao.complete: by id only, whatever the row's state; no row, no effect. *)
Complete(m, state) ==
  row' = [row EXCEPT ![m] = IF @ \in {"new", "gone"} THEN @ ELSE state]

(* Mutation: SEND_AT > SYSDATE left out of the update. *)
ReschedulableAny(u) == {m \in Messages : row[m] = "A" /\ m.user = u}

(* The rows MessagingDao.updateMessageSendAtForUser changes: STATE='A' AND SEND_AT > SYSDATE. *)
Reschedulable(u) == {m \in held : row[m] = "A" /\ m.user = u}

-------------------------------------------------------------------------------
Init ==
  /\ row = [m \in Messages |-> "new"]
  /\ held = {}
  /\ activity = Activities
  /\ recipient = [a \in Activities |-> [u \in Users |-> "pending"]]
  /\ sentCount = [a \in Activities |-> 0]
  /\ mailbox = [w \in Workers |-> 1]
  /\ timer = [w \in Workers |-> 0]
  /\ pc = [w \in Workers |-> "idle"]
  /\ batch = [w \in Workers |-> {}]
  /\ current = [w \in Workers |-> NoMessage]
  /\ sending = [w \in Workers |-> {}]
  /\ recording = [w \in Workers |-> {}]
  /\ nudging = [w \in Workers |-> {}]
  /\ result = [m \in Messages |-> "none"]
  /\ attempts = [m \in Messages |-> 0]
  /\ faults = 0

-------------------------------------------------------------------------------
(* What the rest of the system does to the table. *)

(***************************************************************************)
(* MessagingService.send(recipients, activity), once for each activity.    *)
(* Muted recipients are marked processed and get no row.  Their marks are  *)
(* transactions of their own, committed before the inserts; they touch no  *)
(* recipient that gets a row, so one step stands for them all.             *)
(***************************************************************************)
Send(a) ==
  /\ a \in activity
  /\ \A m \in Messages : m.activity = a => row[m] = "new"
  /\ \E muted, quiet \in SUBSET Users :
       /\ MarkProcessed(a, muted)
       /\ InsertRows(a, Users \ muted, quiet)
  /\ UNCHANGED <<activity, volatile, attempts, faults>>

(* ActivityDao.delete: the activity, its recipients and all its messages, taken ones too. *)
DeleteActivity(a) ==
  /\ a \in activity
  /\ activity' = activity \ {a}
  /\ row' = [m \in Messages |-> IF m.activity = a /\ row[m] # "new" THEN "gone" ELSE row[m]]
  /\ held' = {m \in held : m.activity # a}
  /\ recipient' = [recipient EXCEPT ![a] = [u \in Users |-> "none"]]
  /\ UNCHANGED <<sentCount, volatile, attempts, faults>>

(* DoNotDisturbService.set and disable move the SEND_AT of the user's held messages:
   to a later time (they stay held) or to null. *)
UpdateSendAt(u, later) ==
  /\ held' = IF later THEN held \cup Reschedulable(u) ELSE held \ Reschedulable(u)
  /\ UNCHANGED <<row, activity, recipient, sentCount, volatile, attempts, faults>>

(* SYSDATE reaches the SEND_AT of a held message. *)
SendAtPasses(m) ==
  /\ m \in held
  /\ held' = held \ {m}
  /\ UNCHANGED <<row, activity, recipient, sentCount, volatile, attempts, faults>>

(* MessageSendCleanupJob: the successful rows that are more than a week old. *)
CleanUp ==
  \E old \in SUBSET {m \in Messages : row[m] = "S"} :
    /\ old # {}
    /\ row' = [m \in Messages |-> IF m \in old THEN "gone" ELSE row[m]]
    /\ UNCHANGED <<held, activity, recipient, sentCount, volatile, attempts, faults>>

-------------------------------------------------------------------------------
(* WorkerActor.receive.  "idle" -> "lock" -> "find" -> "mark" -> "user" -> "idle" *)

(* WorkAvailable is received; lockRecord's SELECT returns up to LockBatch due rows. *)
SelectBatch(w) ==
  /\ pc[w] = "idle" /\ mailbox[w] > 0
  /\ \E rows \in SUBSET Due :
       /\ Cardinality(rows) <= LockBatch
       /\ rows = Due \/ Cardinality(rows) = LockBatch
       /\ batch' = [batch EXCEPT ![w] = rows]
  /\ mailbox' = [mailbox EXCEPT ![w] = @ - 1]
  /\ pc' = [pc EXCEPT ![w] = "lock"]
  /\ UNCHANGED <<database, timer, current, sending, recording, nudging, result, attempts, faults>>

(* Mutation: AND STATE='A' left out of the update. *)
LockableById(m) == row[m] # "gone"

(* A row of the batch that UPDATE ... WHERE ID={id} AND STATE='A' still finds untaken. *)
Lockable(m) == row[m] = "A"

LockRecord(w) ==
  /\ pc[w] = "lock"
  /\ \E m \in batch[w] :
       /\ Lockable(m)
       /\ row' = [row EXCEPT ![m] = "T"]
       /\ current' = [current EXCEPT ![w] = m]
  /\ batch' = [batch EXCEPT ![w] = {}]
  /\ pc' = [pc EXCEPT ![w] = "find"]
  /\ UNCHANGED <<held, activity, recipient, sentCount, mailbox, timer,
                 sending, recording, nudging, result, attempts, faults>>

(* Mutation: an empty-handed worker does not schedule another WorkAvailable. *)
NoWorkNoTimer(w) ==
  /\ pc[w] = "lock"
  /\ \A m \in batch[w] : ~Lockable(m)
  /\ batch' = [batch EXCEPT ![w] = {}]
  /\ pc' = [pc EXCEPT ![w] = "idle"]
  /\ UNCHANGED <<database, mailbox, timer, current, sending, recording, nudging, result, attempts, faults>>

(* None: no due row, or every row of the batch went to another worker meanwhile. *)
NoWork(w) ==
  /\ pc[w] = "lock"
  /\ \A m \in batch[w] : ~Lockable(m)
  /\ timer' = [timer EXCEPT ![w] = @ + 1]
  /\ batch' = [batch EXCEPT ![w] = {}]
  /\ pc' = [pc EXCEPT ![w] = "idle"]
  /\ UNCHANGED <<database, mailbox, current, sending, recording, nudging, result, attempts, faults>>

(***************************************************************************)
(* receive returns: it has registered two callbacks on the Future, one to  *)
(* record the outcome and one to ask for more work.  They run on the       *)
(* dispatcher in either order, so the next message may be locked before    *)
(* the outcome of this one is recorded.                                    *)
(***************************************************************************)
LeaveReceive(w) ==
  /\ pc' = [pc EXCEPT ![w] = "idle"]
  /\ current' = [current EXCEPT ![w] = NoMessage]

(* Mutation: more work is asked for only after a success. *)
RunCallbacksOnSuccess(w, m, state) ==
  /\ result' = [result EXCEPT ![m] = state]
  /\ recording' = [recording EXCEPT ![w] = @ \cup {m}]
  /\ nudging' = [nudging EXCEPT ![w] = IF state = "S" THEN @ \cup {m} ELSE @]

RunCallbacks(w, m, state) ==
  /\ result' = [result EXCEPT ![m] = state]
  /\ recording' = [recording EXCEPT ![w] = @ \cup {m}]
  /\ nudging' = [nudging EXCEPT ![w] = @ \cup {m}]

(* processNow: getActivityById; with no activity the result is ActivityNotFound, skippable. *)
FindActivity(w) ==
  /\ pc[w] = "find"
  /\ IF current[w].activity \in activity
       THEN /\ pc' = [pc EXCEPT ![w] = "mark"]
            /\ UNCHANGED <<current, recording, nudging, result>>
       ELSE /\ LeaveReceive(w)
            /\ RunCallbacks(w, current[w], "O")
  /\ UNCHANGED <<database, mailbox, timer, batch, sending, attempts, faults>>

(* processNow: markProcessed, committed before anything is sent. *)
MarkRecipient(w) ==
  /\ pc[w] = "mark"
  /\ MarkProcessed(current[w].activity, {current[w].user})
  /\ pc' = [pc EXCEPT ![w] = "user"]
  /\ UNCHANGED <<row, held, activity, mailbox, timer, batch, current,
                 sending, recording, nudging, result, attempts, faults>>

(* processNow: the user is looked up; found, the message goes to its output service. *)
StartSending(w) ==
  /\ pc[w] = "user"
  /\ LeaveReceive(w)
  /\ sending' = [sending EXCEPT ![w] = @ \cup {current[w]}]
  /\ attempts' = [attempts EXCEPT ![current[w]] = @ + 1]
  /\ UNCHANGED <<database, mailbox, timer, batch, recording, nudging, result, faults>>

(* processNow: no such user, UserNotFound, skippable. *)
UserMissing(w) ==
  /\ pc[w] = "user"
  /\ LeaveReceive(w)
  /\ RunCallbacks(w, current[w], "O")
  /\ UNCHANGED <<database, mailbox, timer, batch, sending, attempts, faults>>

(* The output service's Future completes: success, or a failed result or an exception.
   Email and SMS report failures; push fails only by an exception. *)
FinishSending(w, m) ==
  /\ m \in sending[w]
  /\ sending' = [sending EXCEPT ![w] = @ \ {m}]
  /\ \E state \in {"S", "F"} : RunCallbacks(w, m, state)
  /\ UNCHANGED <<database, mailbox, timer, pc, batch, current, attempts, faults>>

(* First callback: success(), failure() or skipped(). *)
RecordOutcome(w, m) ==
  /\ m \in recording[w]
  /\ recording' = [recording EXCEPT ![w] = @ \ {m}]
  /\ Complete(m, result[m])
  /\ UNCHANGED <<held, activity, recipient, sentCount, mailbox, timer, pc, batch, current,
                 sending, nudging, result, attempts, faults>>

(* Second callback: self ! WorkAvailable. *)
Nudge(w, m) ==
  /\ m \in nudging[w]
  /\ nudging' = [nudging EXCEPT ![w] = @ \ {m}]
  /\ mailbox' = [mailbox EXCEPT ![w] = @ + 1]
  /\ UNCHANGED <<database, timer, pc, batch, current, sending, recording, result, attempts, faults>>

(* Mutation: a timer that can fire twice. *)
TimerFiresAgain(w) ==
  /\ timer' = [timer EXCEPT ![w] = @ - 1]
  /\ mailbox' = [mailbox EXCEPT ![w] = @ + 1]
  /\ UNCHANGED <<database, pc, batch, current, sending, recording, nudging, result, attempts, faults>>

(* The scheduled WorkAvailable of an empty-handed worker arrives after 5 seconds. *)
TimerFires(w) ==
  /\ timer[w] > 0
  /\ timer' = [timer EXCEPT ![w] = @ - 1]
  /\ mailbox' = [mailbox EXCEPT ![w] = @ + 1]
  /\ UNCHANGED <<database, pc, batch, current, sending, recording, nudging, result, attempts, faults>>

-------------------------------------------------------------------------------
(* Failures. *)

Fault == faults < MaxFaults /\ faults' = faults + 1

(***************************************************************************)
(* A call inside receive throws (the database, users.getUsers(...).get):   *)
(* the supervisor restarts the actor, whose constructor asks for work.     *)
(* Nothing puts a row that was taken back.                                 *)
(***************************************************************************)
ReceiveThrows(w) ==
  /\ Fault
  /\ pc[w] \in {"lock", "find", "mark", "user"}
  /\ LeaveReceive(w)
  /\ batch' = [batch EXCEPT ![w] = {}]
  /\ mailbox' = [mailbox EXCEPT ![w] = @ + 1]
  /\ UNCHANGED <<database, timer, sending, recording, nudging, result, attempts>>

(* The completion callback throws: the outcome is lost. *)
RecordThrows(w, m) ==
  /\ Fault
  /\ m \in recording[w]
  /\ recording' = [recording EXCEPT ![w] = @ \ {m}]
  /\ UNCHANGED <<database, mailbox, timer, pc, batch, current, sending, nudging, result, attempts>>

(* The node dies at any point, with its mailbox, timers, Futures and callbacks. *)
Crash(w) ==
  /\ Fault
  /\ pc[w] # "down"
  /\ pc' = [pc EXCEPT ![w] = "down"]
  /\ current' = [current EXCEPT ![w] = NoMessage]
  /\ mailbox' = [mailbox EXCEPT ![w] = 0]
  /\ timer' = [timer EXCEPT ![w] = 0]
  /\ batch' = [batch EXCEPT ![w] = {}]
  /\ sending' = [sending EXCEPT ![w] = {}]
  /\ recording' = [recording EXCEPT ![w] = {}]
  /\ nudging' = [nudging EXCEPT ![w] = {}]
  /\ UNCHANGED <<database, result, attempts>>

(* Mutation: a starting node puts taken rows back. *)
RestartRequeues(w) ==
  /\ pc[w] = "down"
  /\ pc' = [pc EXCEPT ![w] = "idle"]
  /\ mailbox' = [mailbox EXCEPT ![w] = 1]
  /\ row' = [m \in Messages |-> IF row[m] = "T" THEN "A" ELSE row[m]]
  /\ UNCHANGED <<held, activity, recipient, sentCount, timer, batch, current, sending, recording,
                 nudging, result, attempts, faults>>

(* The node starts again: a new WorkerActor, and nothing looks at the taken rows. *)
Restart(w) ==
  /\ pc[w] = "down"
  /\ pc' = [pc EXCEPT ![w] = "idle"]
  /\ mailbox' = [mailbox EXCEPT ![w] = 1]
  /\ UNCHANGED <<database, timer, batch, current, sending, recording, nudging, result, attempts, faults>>

-------------------------------------------------------------------------------
Receive(w) ==
  \/ SelectBatch(w)
  \/ LockRecord(w)
  \/ NoWork(w)
  \/ FindActivity(w)
  \/ MarkRecipient(w)
  \/ StartSending(w)
  \/ UserMissing(w)

Environment ==
  \/ \E a \in Activities : Send(a) \/ DeleteActivity(a)
  \/ \E u \in Users, later \in BOOLEAN : UpdateSendAt(u, later)
  \/ \E m \in Messages : SendAtPasses(m)
  \/ CleanUp

Worker(w) ==
  \/ Receive(w)
  \/ TimerFires(w)
  \/ \E m \in Messages : FinishSending(w, m) \/ RecordOutcome(w, m) \/ Nudge(w, m)
  \/ ReceiveThrows(w)
  \/ \E m \in Messages : RecordThrows(w, m)
  \/ Crash(w)
  \/ Restart(w)

Next == Environment \/ \E w \in Workers : Worker(w)

Spec == Init /\ [][Next]_vars

(***************************************************************************)
(* The actor system runs mailboxes, timers and callbacks; output services  *)
(* complete their Futures (web service calls time out); a dead node is     *)
(* started again; time passes.  Nobody has to send, delete or clean up.    *)
(***************************************************************************)
Fairness ==
  /\ \A w \in Workers :
       /\ WF_vars(Receive(w))
       /\ WF_vars(TimerFires(w))
       /\ WF_vars(Restart(w))
       /\ \A m \in Messages :
            /\ WF_vars(FinishSending(w, m))
            /\ WF_vars(RecordOutcome(w, m))
            /\ WF_vars(Nudge(w, m))
  /\ \A m \in Messages : WF_vars(SendAtPasses(m))

FairSpec == Spec /\ Fairness

-------------------------------------------------------------------------------
(* Properties. *)

TypeOK ==
  /\ row \in [Messages -> RowStates]
  /\ held \subseteq Messages
  /\ activity \subseteq Activities
  /\ recipient \in [Activities -> [Users -> {"none", "pending", "sent"}]]
  /\ sentCount \in [Activities -> Nat]
  /\ mailbox \in [Workers -> Nat]
  /\ timer \in [Workers -> Nat]
  /\ pc \in [Workers -> {"idle", "lock", "find", "mark", "user", "down"}]
  /\ batch \in [Workers -> SUBSET Messages]
  /\ current \in [Workers -> Messages \cup {NoMessage}]
  /\ sending \in [Workers -> SUBSET Messages]
  /\ recording \in [Workers -> SUBSET Messages]
  /\ nudging \in [Workers -> SUBSET Messages]
  /\ result \in [Messages -> {"none"} \cup Settled]
  /\ attempts \in [Messages -> Nat]
  /\ faults \in 0..MaxFaults

(***************************************************************************)
(* No message is given to its output service twice, whatever is           *)
(* interleaved with lockRecord and wherever nodes die: nobody gets the    *)
(* same email, text or push twice from one MESSAGE_SEND row.              *)
(***************************************************************************)
AtMostOnce == \A m \in Messages : attempts[m] <= 1

(***************************************************************************)
(* What a worker is responsible for.  A message never has two workers: the *)
(* A -> T update of lockRecord decides, also between batches that overlap. *)
(***************************************************************************)
Holds(w, m) == current[w] = m \/ m \in sending[w] \/ m \in recording[w]

OneHolder == \A m \in Messages, v, w \in Workers : Holds(v, m) /\ Holds(w, m) => v = w

(***************************************************************************)
(* A live WorkerActor always has exactly one WorkAvailable to come: in the *)
(* mailbox, on the timer, being received, or owed by a Future.  None would *)
(* stop the node for good; two would make it work on two messages at once. *)
(* The restart of an actor that threw must leave neither.                  *)
(***************************************************************************)
Token(w) ==
  mailbox[w] + timer[w] + (IF pc[w] \in {"idle", "down"} THEN 0 ELSE 1)
    + Cardinality(sending[w]) + Cardinality(nudging[w])

OneToken == \A w \in Workers : Token(w) = IF pc[w] = "down" THEN 0 ELSE 1

(***************************************************************************)
(* The same without counting: where the one WorkAvailable of a worker is.  *)
(***************************************************************************)
Nowhere(w) == mailbox[w] = 0 /\ timer[w] = 0 /\ sending[w] = {} /\ nudging[w] = {}

TokenPlace(w) ==
  \/ pc[w] = "down" /\ Nowhere(w)
  \/ pc[w] \in {"lock", "find", "mark", "user"} /\ Nowhere(w)
  \/ pc[w] = "idle" /\ mailbox[w] = 1 /\ timer[w] = 0 /\ sending[w] = {} /\ nudging[w] = {}
  \/ pc[w] = "idle" /\ mailbox[w] = 0 /\ timer[w] = 1 /\ sending[w] = {} /\ nudging[w] = {}
  \/ \E m \in Messages :
       /\ pc[w] = "idle" /\ mailbox[w] = 0 /\ timer[w] = 0
       /\ \/ sending[w] = {m} /\ nudging[w] = {}
          \/ sending[w] = {} /\ nudging[w] = {m}

(***************************************************************************)
(* The invariant the proofs use.  A message being processed is taken or    *)
(* withdrawn, is in one place, and has been handed over exactly if its     *)
(* Future was started; what its callback will record agrees with that; a   *)
(* row that no worker has taken was never handed over.                     *)
(***************************************************************************)
CurrentWhileProcessing ==
  \A w \in Workers : current[w] # NoMessage <=> pc[w] \in {"find", "mark", "user"}

HolderOfTaken == \A w \in Workers, m \in Messages : Holds(w, m) => row[m] \in {"T", "gone"}

OnePlace ==
  \A w \in Workers, m \in Messages :
    /\ current[w] = m => m \notin sending[w] /\ m \notin recording[w]
    /\ m \notin sending[w] \cap recording[w]

AttemptsByPlace ==
  \A m \in Messages :
    /\ attempts[m] \in {0, 1}
    /\ row[m] \in {"new", "A"} => attempts[m] = 0
    /\ \A w \in Workers :
         /\ current[w] = m => attempts[m] = 0
         /\ m \in sending[w] => attempts[m] = 1
         /\ m \in recording[w] => result[m] \in IF attempts[m] = 1 THEN {"S", "F"} ELSE {"O"}

BatchNotHeld ==
  \A w \in Workers, m \in Messages :
    m \in batch[w] => row[m] # "new" /\ (row[m] = "A" => m \notin held)

IInv ==
  /\ TypeOK
  /\ CurrentWhileProcessing
  /\ HolderOfTaken
  /\ OneHolder
  /\ OnePlace
  /\ AttemptsByPlace
  /\ BatchNotHeld
  /\ \A w \in Workers : TokenPlace(w)

(***************************************************************************)
(* SENT_COUNT of an activity, which the publisher sees climb towards the   *)
(* audience size, is the number of recipients with a SENT_AT, though a     *)
(* recipient has up to three messages that different workers process.      *)
(***************************************************************************)
SentCountExact ==
  \A a \in activity : sentCount[a] = Cardinality({u \in Users : recipient[a][u] = "sent"})

(***************************************************************************)
(* A message held back by do-not-disturb is not taken before its SEND_AT,  *)
(* even if the user's period changes between a worker's SELECT and UPDATE. *)
(***************************************************************************)
HeldNotTaken == [][\A m \in Messages : row[m] = "A" /\ row'[m] = "T" => m \notin held]_<<row, held>>

(***************************************************************************)
(* Every message that is due is taken by some worker or withdrawn: the     *)
(* workers' loops cannot all stop, not even after crashes and exceptions.  *)
(***************************************************************************)
EventuallyTaken == \A m \in Messages : (row[m] = "A") ~> (row[m] # "A")

(***************************************************************************)
(* MessagingService.scala:26-28: workers send the job to processNow();     *)
(* "success(), failure(), or skipped() is then called to mark the job as   *)
(* done".  A taken message does not stay taken.                            *)
(***************************************************************************)
EventuallyDone == \A m \in Messages : (row[m] = "T") ~> (row[m] # "T")

(* Without a crash or an exception it holds: every Future completes and is recorded. *)
EventuallyDoneIfNoFault == \A m \in Messages : (row[m] = "T") ~> (row[m] # "T" \/ faults > 0)

(* The queue is an at-most-once delivery service. *)
Delivery == INSTANCE MessageDelivery WITH Messages <- Messages, row <- row, attempts <- attempts
ImplementsDelivery == Delivery!Spec
===============================================================================
