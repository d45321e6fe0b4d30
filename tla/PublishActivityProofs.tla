------------------------- MODULE PublishActivityProofs -------------------------
(***************************************************************************)
(* Proofs about PublishActivity, for every set of users and requests and   *)
(* every bound: type correctness, the bound on the executions of a failing *)
(* job, and what comes of a publication - one message each, the recipients *)
(* of the audience last saved, and a SENT_COUNT that makes the alert a     *)
(* past one.                                                               *)
(***************************************************************************)
EXTENDS PublishActivity, FiniteSetTheorems, TLAPS

(* Sets of users are finite: what the code counts is a number. *)
LEMMA UsersCounted ==
  ASSUME NEW S \in SUBSET Users
  PROVE  Cardinality(S) \in Nat
BY FiniteUsersAssumption, FS_Subset, FS_CardinalityType

(* Marking recipients keeps the types. *)
LEMMA MarkProcessedType ==
  ASSUME TypeOK, NEW S \in SUBSET Users, MarkProcessed(S)
  PROVE  recipient' \in [Users -> {"none", "pending", "sent"}] /\ sentCount' \in Nat
<1>1. Cardinality({u \in S : recipient[u] = "pending"}) \in Nat
  BY UsersCounted
<1> QED BY <1>1 DEF TypeOK, MarkProcessed

LEMMA FiredLater == Fired \in Nat /\ Times \subseteq 0..Fired /\ \A t \in Times : t # Fired
BY BoundsAssumption DEF Fired, Times

(* A job whose execution ends is forgotten, or is one that was scheduled meanwhile. *)
LEMMA EndExecutionType ==
  ASSUME TypeOK, EndExecution
  PROVE  /\ job' # None => job' = job /\ job # None /\ job.at # Fired
         /\ exec' = None
BY DEF TypeOK, EndExecution, JobDone

(* The data of a job is that of its last execution after a failure. *)
LEMMA MaybeRetryJobType ==
  ASSUME TypeOK, exec # None, NEW b \in BOOLEAN, MaybeRetryJob(b)
  PROVE  /\ exec' = None
         /\ job' # None =>
              /\ job # None
              /\ job' = [audience |-> exec.audience,
                         attempts |-> IncrementJobAttempts(exec.attempts), at |-> job'.at]
              /\ job'.at \in Times
              /\ IncrementJobAttempts(exec.attempts) \in Nat
              /\ job.at = Fired => IncrementJobAttempts(exec.attempts) < RetryTimes
         /\ harm' \subseteq {"early", "raced", "lost", "repeated"}
<1> DEFINE attempts == IncrementJobAttempts(exec.attempts)
<1>1. exec.attempts \in Nat \cup {NoAttempts} /\ exec.audience \in Audiences /\ now \in Times
  BY DEF TypeOK, Executions, Attempts
<1>2. attempts \in Nat
  BY <1>1 DEF IncrementJobAttempts
<1>3. job # None => job.at \in 0..Fired
  BY DEF TypeOK, Jobs
<1>4. job # None /\ job.at # Fired => job.at \in Times
  BY <1>3, BoundsAssumption DEF Fired, Times
<1> QED
  BY <1>1, <1>2, <1>4, NoneAssumption DEF MaybeRetryJob, Retried, TypeOK

LEMMA InitTypeOK == Init => TypeOK
BY BoundsAssumption DEF Init, TypeOK, Times, Places, Audiences

(***************************************************************************)
(* One step for each action: what it assigns has its type.                 *)
(***************************************************************************)
LEMMA StepTypeOK == TypeOK /\ [Next]_vars => TypeOK'
<1> SUFFICES ASSUME TypeOK, [Next]_vars PROVE TypeOK'
  OBVIOUS
<1> USE RequestsAssumption, BoundsAssumption, FiredLater
    DEF saved, messages, requests, Audiences, Places, Steps, Attempts, Jobs, Executions, Goto, Happened
<1>1. CASE Tick
  BY <1>1 DEF TypeOK, Tick, Times
<1>2. ASSUME NEW r \in Requests, Save(r) PROVE TypeOK'
  BY <1>2 DEF TypeOK, Save, Asks, Times
<1>3. ASSUME NEW r \in Requests, Check(r) PROVE TypeOK'
  BY <1>3 DEF TypeOK, Check
<1>4. ASSUME NEW r \in Requests, Update(r) PROVE TypeOK'
  BY <1>4 DEF TypeOK, Update, Asks, Times
<1>5. ASSUME NEW r \in Requests, Unschedule(r) PROVE TypeOK'
  BY <1>5 DEF TypeOK, Unschedule
<1>6. ASSUME NEW r \in Requests, Schedule(r) PROVE TypeOK'
  <2>1. want[r].date \in 0..Fired
    BY DEF TypeOK
  <2> QED BY <1>6, <2>1 DEF TypeOK, Schedule
<1>7. ASSUME NEW r \in Requests, Commit(r) PROVE TypeOK'
  <2>1. want[r].users \in SUBSET Users /\ want[r].date \in Times
    BY DEF TypeOK
  <2>2. Cardinality(want[r].users) \in Nat
    BY <2>1, UsersCounted
  <2>3. /\ audienceSize' \in Nat
        /\ faults' \in 0..MaxFaults
        /\ exists' \in {"no", "yes", "deleted"}
        /\ publishedAt' \in Times
        /\ audienceId' \in Audiences \cup {None}
        /\ harm' \subseteq {"early", "raced", "lost", "repeated"}
    <3>1. CASE exists = "deleted"
      BY <1>7, <3>1 DEF TypeOK, Commit
    <3>2. CASE exists # "deleted"
      <4>1. Counted(want[r].users)
        BY <1>7, <3>2 DEF Commit
      <4>2. audienceSize' \in Nat /\ faults' \in 0..MaxFaults
        BY <2>2, <4>1 DEF TypeOK, Counted, Fault
      <4>3. exists' = "yes" /\ publishedAt' = want[r].date /\ audienceId' = r
        BY <1>7, <3>2 DEF Commit
      <4>4. harm' \subseteq {"early", "raced", "lost", "repeated"}
        BY <1>7, <3>2 DEF TypeOK, Commit
      <4> QED BY <2>1, <4>2, <4>3, <4>4
    <3> QED BY <3>1, <3>2
  <2>4. audience' \in [Audiences -> SUBSET Users]
    BY <1>7, <2>1 DEF TypeOK, Commit
  <2>5. lock' \in Requests \cup {None} /\ pc' \in [Requests -> Places]
    BY <1>7 DEF TypeOK, Commit
  <2> QED BY <1>7, <2>3, <2>4, <2>5 DEF TypeOK, Commit
<1>8. ASSUME NEW r \in Requests, Delete(r) PROVE TypeOK'
  BY <1>8 DEF TypeOK, Delete
<1>9. ASSUME NEW r \in Requests, UnscheduleDeleted(r) PROVE TypeOK'
  BY <1>9 DEF TypeOK, UnscheduleDeleted
<1>10. ASSUME NEW r \in Requests, Abort(r) PROVE TypeOK'
  BY <1>10 DEF TypeOK, Abort, Fault
<1>11. CASE Start
  BY <1>11 DEF TypeOK, Start
<1>12. CASE LoadAudience
  BY <1>12 DEF TypeOK, LoadAudience
<1>13. CASE Unresolved
  BY <1>13, EndExecutionType DEF TypeOK, Unresolved, Fault
<1>14. CASE FindActivity
  BY <1>14, EndExecutionType DEF TypeOK, FindActivity
<1>15. CASE SetRecipients
  BY <1>15 DEF TypeOK, SetRecipients
<1>16. CASE MarkMuted
  <2>1. PICK muted \in SUBSET exec.users :
          /\ MarkProcessed(muted)
          /\ exec' = [exec EXCEPT !.pc = "send", !.unmuted = exec.users \ muted]
    BY <1>16 DEF MarkMuted
  <2>2. exec.users \in SUBSET Users
    BY <1>16 DEF TypeOK, MarkMuted
  <2>3. recipient' \in [Users -> {"none", "pending", "sent"}] /\ sentCount' \in Nat
    BY <2>1, <2>2, MarkProcessedType
  <2> QED BY <1>16, <2>1, <2>2, <2>3 DEF TypeOK, MarkMuted
<1>17. CASE InsertMessages
  <2>1. queued' \in [Users -> Nat]
    BY <1>17 DEF TypeOK, InsertMessages
  <2>2. exec' = [exec EXCEPT !.pc = "count"]
    BY <1>17 DEF InsertMessages
  <2> QED BY <1>17, <2>1, <2>2 DEF TypeOK, InsertMessages
<1>18. CASE CountAudience
  <2>1. Cardinality(exec.users) \in Nat
    BY <1>18, UsersCounted DEF TypeOK, CountAudience
  <2> QED BY <1>18, <2>1, EndExecutionType DEF TypeOK, CountAudience
<1>19. CASE NodeDies
  BY <1>19, EndExecutionType DEF TypeOK, NodeDies, Fault
<1>20. CASE ExecutionThrows
  BY <1>20, MaybeRetryJobType DEF TypeOK, ExecutionThrows, Fault
<1>21. CASE RecipientsRefused
  <2>1. exec # None /\ MaybeRetryJob(TRUE)
    BY <1>21 DEF RecipientsRefused
  <2>2. PICK rescheduled \in BOOLEAN : MaybeRetryJob(rescheduled)
    BY <2>1
  <2> QED BY <1>21, <2>1, <2>2, MaybeRetryJobType DEF TypeOK, RecipientsRefused
<1>22. ASSUME NEW u \in Users, Deliver(u) PROVE TypeOK'
  <2>1. recipient' \in [Users -> {"none", "pending", "sent"}] /\ sentCount' \in Nat
    <3>1. CASE exists = "yes"
      <4>1. {u} \in SUBSET Users
        OBVIOUS
      <4> QED BY <1>22, <3>1, <4>1, MarkProcessedType DEF Deliver
    <3> QED BY <1>22, <3>1 DEF TypeOK, Deliver
  <2>2. queued' \in [Users -> Nat] /\ handed' \in [Users -> Nat]
    BY <1>22 DEF TypeOK, Deliver
  <2> QED BY <1>22, <2>1, <2>2 DEF TypeOK, Deliver
<1>23. CASE UNCHANGED vars
  BY <1>23 DEF TypeOK, vars
<1> QED
  BY <1>1, <1>2, <1>3, <1>4, <1>5, <1>6, <1>7, <1>8, <1>9, <1>10, <1>11, <1>12, <1>13, <1>14,
     <1>15, <1>16, <1>17, <1>18, <1>19, <1>20, <1>21, <1>22, <1>23
     DEF Next, Request, Execute

(***************************************************************************)
(* The activity and its job, the recipients and messages of every user,    *)
(* and the requests always have the types that the model declares: no step *)
(* takes a message that is not there, or counts below zero.                *)
(***************************************************************************)
THEOREM TypeCorrect == Spec => []TypeOK
BY InitTypeOK, StepTypeOK, PTL DEF Spec

-------------------------------------------------------------------------------
(***************************************************************************)
(* The executions of a job that keeps failing.  The count of executions is *)
(* tied to FAILED_ATTEMPTS, which is in the job's data while it waits and  *)
(* in the execution while it runs.                                         *)
(***************************************************************************)

LEMMA InitRetryInv == Init => RetryInv
BY InitTypeOK, BoundsAssumption DEF Init, RetryInv, RetriesBounded

(* What the invariant needs of an execution that ends without a retry. *)
LEMMA EndExecutionRetryInv ==
  ASSUME RetryInv, EndExecution, UNCHANGED tries, TypeOK'
  PROVE  RetryInv'
<1>1. /\ job' # None => job' = job /\ job # None /\ job.at # Fired
      /\ exec' = None
  BY EndExecutionType DEF RetryInv
<1> QED BY <1>1 DEF RetryInv, RetriesBounded

(* And of one that fails: its attempts are counted in what is stored. *)
LEMMA MaybeRetryJobRetryInv ==
  ASSUME RetryInv, exec # None, NEW b \in BOOLEAN, MaybeRetryJob(b), UNCHANGED tries, TypeOK'
  PROVE  RetryInv'
<1> DEFINE attempts == IncrementJobAttempts(exec.attempts)
<1>1. exec.attempts \in Nat \cup {NoAttempts} /\ tries \in Nat
  BY DEF RetryInv, TypeOK, Executions, Attempts
<1>2. attempts \in Nat /\ attempts = exec.attempts + 1
  BY <1>1 DEF IncrementJobAttempts, NoAttempts
<1>3. exec' = None
  BY MaybeRetryJobType DEF RetryInv
<1>4. RetriesBounded'
  BY DEF RetryInv, RetriesBounded
<1>5. CASE job' = None
  BY <1>3, <1>4, <1>5 DEF RetryInv
<1>6. CASE job' # None
  <2>1. /\ job # None
        /\ job'.attempts = attempts
        /\ job'.at \in Times
        /\ job.at = Fired => attempts < RetryTimes
    BY <1>6, MaybeRetryJobType DEF RetryInv
  <2>2. job'.at # Fired
    BY <2>1, FiredLater
  <2>3. CASE job.at = Fired
    <3>1. tries <= exec.attempts + 2
      BY <2>1, <2>3 DEF RetryInv
    <3>2. tries <= attempts + 1
      BY <3>1, <1>1, <1>2 DEF NoAttempts
    <3> QED BY <1>3, <1>4, <2>1, <2>2, <2>3, <3>2 DEF RetryInv
  <2>4. CASE job.at # Fired
    <3>1. tries = 0
      BY <2>1, <2>4 DEF RetryInv
    <3> QED BY <1>2, <1>3, <1>4, <2>1, <2>2, <3>1 DEF RetryInv
  <2> QED BY <2>3, <2>4
<1> QED BY <1>5, <1>6

(* A step that leaves the job, the count and the execution's attempts alone keeps it. *)
LEMMA SameJobRetryInv ==
  ASSUME RetryInv, UNCHANGED <<job, tries>>, TypeOK',
         exec = None => exec' = None,
         exec # None => exec' # None /\ exec'.attempts = exec.attempts
  PROVE  RetryInv'
BY DEF RetryInv, RetriesBounded

(***************************************************************************)
(* One step for each action that changes the job or its execution.         *)
(***************************************************************************)
LEMMA StepRetryInv == RetryInv /\ [Next]_vars => RetryInv'
<1> SUFFICES ASSUME RetryInv, [Next]_vars PROVE RetryInv'
  OBVIOUS
<1>1. TypeOK /\ TypeOK'
  BY StepTypeOK DEF RetryInv
<1>2. ASSUME UNCHANGED <<job, tries, exec>> PROVE RetryInv'
  BY <1>1, <1>2, SameJobRetryInv
<1>3. CASE Tick
  BY <1>2, <1>3 DEF Tick
<1>4. ASSUME NEW r \in Requests,
             Save(r) \/ Check(r) \/ Update(r) \/ Commit(r) \/ Delete(r) \/ Abort(r)
      PROVE  RetryInv'
  BY <1>2, <1>4 DEF Save, Check, Update, Commit, Delete, Abort
<1>5. ASSUME NEW r \in Requests, Unschedule(r) \/ UnscheduleDeleted(r) PROVE RetryInv'
  <2>1. job' = None /\ UNCHANGED <<tries, exec>>
    BY <1>5 DEF Unschedule, UnscheduleDeleted
  <2> QED BY <1>1, <2>1 DEF RetryInv, RetriesBounded
<1>6. ASSUME NEW r \in Requests, Schedule(r) PROVE RetryInv'
  <2>1. /\ job' = [audience |-> r, attempts |-> NoAttempts, at |-> want[r].date]
        /\ tries' = 0
    BY <1>6 DEF Schedule
  <2>2. want[r].date \in Times
    BY <1>1 DEF TypeOK
  <2>3. job'.at # Fired
    BY <2>1, <2>2, FiredLater
  <2>4. RetriesBounded'
    BY <2>1, BoundsAssumption DEF RetriesBounded
  <2> QED BY <1>1, <2>1, <2>3, <2>4 DEF RetryInv, NoAttempts
<1>7. CASE Start
  <2>1. /\ job # None /\ exec = None /\ job.at <= now
        /\ exec' # None /\ exec'.attempts = job.attempts
        /\ job' # None /\ job'.at = Fired
        /\ tries' = tries + 1
    <3>1. job \in Jobs /\ job # None /\ exec = None /\ job.at <= now /\ tries' = tries + 1
      BY <1>1, <1>7 DEF Start, TypeOK
    <3>2. exec' \in Executions /\ exec'.attempts = job.attempts
      BY <1>7, <3>1 DEF Start, Jobs, Executions, Steps
    <3>3. job' \in Jobs /\ job'.at = Fired
      BY <1>7, <3>1, FiredLater DEF Start, Jobs
    <3> QED BY <3>1, <3>2, <3>3, NoneAssumption
  <2>2. now \in Times /\ job.at \in 0..Fired /\ job.attempts \in Nat \cup {NoAttempts} /\ tries \in Nat
    BY <1>1, <2>1 DEF TypeOK, Jobs, Attempts
  <2>3. job.at # Fired
    BY <2>1, <2>2, BoundsAssumption DEF Fired, Times
  <2>4. tries <= job.attempts + 1 /\ (tries = 0 \/ job.attempts < RetryTimes)
    BY <2>1, <2>3 DEF RetryInv
  <2>5. tries' <= exec'.attempts + 2
    BY <2>1, <2>2, <2>4 DEF NoAttempts
  <2>6. RetriesBounded'
    BY <2>1, <2>2, <2>4, BoundsAssumption DEF RetriesBounded, NoAttempts
  <2> QED BY <1>1, <2>1, <2>5, <2>6 DEF RetryInv
<1>8. CASE LoadAudience \/ SetRecipients \/ MarkMuted \/ InsertMessages
  <2>1. UNCHANGED <<job, tries>> /\ exec # None
    BY <1>8 DEF LoadAudience, SetRecipients, MarkMuted, InsertMessages
  <2>2. exec' # None /\ exec'.attempts = exec.attempts
    <3>1. exec \in Executions
      BY <1>1, <2>1 DEF TypeOK
    <3>2. CASE LoadAudience
      <4>1. audience[exec.audience] \in SUBSET Users
        BY <1>1, <3>1 DEF TypeOK, Executions
      <4> QED BY <3>1, <3>2, <4>1, NoneAssumption DEF LoadAudience, Executions, Steps
    <3>3. CASE SetRecipients \/ InsertMessages
      BY <3>1, <3>3, NoneAssumption DEF SetRecipients, InsertMessages, Executions, Steps
    <3>4. CASE MarkMuted
      BY <3>1, <3>4, NoneAssumption DEF MarkMuted, Executions, Steps
    <3> QED BY <1>8, <3>2, <3>3, <3>4
  <2> QED BY <1>1, <2>1, <2>2, SameJobRetryInv
<1>9. CASE FindActivity
  <2>1. CASE exists = "yes"
    <3>1. UNCHANGED <<job, tries>> /\ exec # None /\ exec' = [exec EXCEPT !.pc = "recipients"]
      BY <1>9, <2>1 DEF FindActivity
    <3>2. exec' # None /\ exec'.attempts = exec.attempts
      <4>1. exec \in Executions
        BY <1>1, <3>1 DEF TypeOK
      <4> QED BY <3>1, <4>1, NoneAssumption DEF Executions, Steps
    <3> QED BY <1>1, <3>1, <3>2, SameJobRetryInv
  <2>2. CASE exists # "yes"
    BY <1>1, <1>9, <2>2, EndExecutionRetryInv DEF FindActivity
  <2> QED BY <2>1, <2>2
<1>10. CASE Unresolved \/ CountAudience \/ NodeDies
  BY <1>1, <1>10, EndExecutionRetryInv DEF Unresolved, CountAudience, NodeDies
<1>11. CASE ExecutionThrows \/ RecipientsRefused
  <2>1. PICK b \in BOOLEAN : exec # None /\ MaybeRetryJob(b) /\ UNCHANGED tries
    BY <1>11 DEF ExecutionThrows, RecipientsRefused
  <2> QED BY <1>1, <2>1, MaybeRetryJobRetryInv
<1>12. ASSUME NEW u \in Users, Deliver(u) PROVE RetryInv'
  BY <1>2, <1>12 DEF Deliver
<1>13. CASE UNCHANGED vars
  BY <1>2, <1>13 DEF vars
<1> QED
  BY <1>3, <1>4, <1>5, <1>6, <1>7, <1>8, <1>9, <1>10, <1>11, <1>12, <1>13
     DEF Next, Request, Execute

(***************************************************************************)
(* A job's executions and the FAILED_ATTEMPTS in its data stay in step,    *)
(* also when requests delete and schedule the job while it runs.           *)
(***************************************************************************)
THEOREM AttemptsCounted == Spec => []RetryInv
BY InitRetryInv, StepRetryInv, PTL DEF Spec

(***************************************************************************)
(* PublishingJob retries a publication that keeps failing, and gives up:   *)
(* no job is executed more than RetryTimes + 1 times.                      *)
(***************************************************************************)
THEOREM RetriesEnd == Spec => []RetriesBounded
BY AttemptsCounted, PTL DEF RetryInv

-------------------------------------------------------------------------------
(***************************************************************************)
(* What the steps of an execution do, field by field.                      *)
(***************************************************************************)

LEMMA StartsExecution ==
  ASSUME TypeOK, Start
  PROVE  /\ exec' # None /\ exec'.pc = "audience" /\ exec'.audience = job.audience
         /\ job' # None /\ job'.at = Fired /\ job'.audience = job.audience
<1>1. job \in Jobs
  BY DEF Start, TypeOK
<1>2. exec' \in Executions
  BY <1>1 DEF Start, Jobs, Executions, Steps
<1>3. job' \in Jobs /\ job'.at = Fired /\ job'.audience = job.audience
  BY <1>1, FiredLater DEF Start, Jobs
<1> QED BY <1>2, <1>3, NoneAssumption DEF Start

LEMMA LoadsAudience ==
  ASSUME TypeOK, LoadAudience
  PROVE  /\ exec' # None /\ exec'.pc = "find" /\ exec'.audience = exec.audience
         /\ exec'.users = audience[exec.audience]
<1>1. exec \in Executions /\ audience[exec.audience] \in SUBSET Users
  BY DEF LoadAudience, TypeOK, Executions
<1>2. exec' \in Executions
  BY <1>1 DEF LoadAudience, Executions, Steps
<1> QED BY <1>1, <1>2, NoneAssumption DEF LoadAudience, Executions

LEMMA FindsActivity ==
  ASSUME TypeOK, FindActivity, exists = "yes"
  PROVE  /\ exec' # None /\ exec'.pc = "recipients" /\ exec'.audience = exec.audience
         /\ exec'.users = exec.users /\ job' = job
<1>1. exec \in Executions
  BY DEF FindActivity, TypeOK
<1>2. exec' \in Executions
  BY <1>1 DEF FindActivity, Executions, Steps
<1> QED BY <1>1, <1>2, NoneAssumption DEF FindActivity, Executions

LEMMA SetsRecipients ==
  ASSUME TypeOK, SetRecipients
  PROVE  /\ exec' # None /\ exec'.pc = "mute" /\ exec'.audience = exec.audience
         /\ exec'.users = exec.users
<1>1. exec \in Executions
  BY DEF SetRecipients, TypeOK
<1>2. exec' \in Executions
  BY <1>1 DEF SetRecipients, Executions, Steps
<1> QED BY <1>1, <1>2, NoneAssumption DEF SetRecipients, Executions

LEMMA MarksMuted ==
  ASSUME TypeOK, MarkMuted
  PROVE  /\ exec' # None /\ exec'.pc = "send" /\ exec'.audience = exec.audience
         /\ exec'.users = exec.users
         /\ exec.users \in SUBSET Users
         /\ exec'.unmuted \subseteq exec.users
         /\ MarkProcessed(exec.users \ exec'.unmuted)
<1>1. exec \in Executions
  BY DEF MarkMuted, TypeOK
<1>2. PICK muted \in SUBSET exec.users :
        MarkProcessed(muted) /\ exec' = [exec EXCEPT !.pc = "send", !.unmuted = exec.users \ muted]
  BY DEF MarkMuted
<1>3. exec' \in Executions /\ exec'.unmuted = exec.users \ muted
  BY <1>1, <1>2 DEF Executions, Steps
<1>4. exec.users \ exec'.unmuted = muted
  BY <1>3
<1> QED BY <1>1, <1>2, <1>3, <1>4, NoneAssumption DEF Executions

LEMMA InsertsMessages ==
  ASSUME TypeOK, InsertMessages
  PROVE  /\ exec' # None /\ exec'.pc = "count" /\ exec'.audience = exec.audience
         /\ exec'.users = exec.users
<1>1. exec \in Executions
  BY DEF InsertMessages, TypeOK
<1>2. exec' \in Executions
  BY <1>1 DEF InsertMessages, Executions, Steps
<1> QED BY <1>1, <1>2, NoneAssumption DEF InsertMessages, Executions

(* What maybeRetryJob records: a retry of an execution that had begun to send is "repeated"; if
   nothing is "lost", a job whose trigger has fired is retried, and one deleted stays so. *)
LEMMA MaybeRetryJobHarm ==
  ASSUME TypeOK, exec # None, NEW b \in BOOLEAN, MaybeRetryJob(b)
  PROVE  /\ harm \subseteq harm'
         /\ job' # None /\ exec.pc \in {"send", "count"} => "repeated" \in harm'
         /\ \/ "lost" \in harm'
            \/ job = None /\ job' = None
            \/ job # None /\ job.at = Fired /\ job' # None
<1>1. \A attempts \in Nat, at \in 0..Fired : Retried(attempts, at) \in Jobs
  BY DEF Retried, Jobs, TypeOK, Executions, Attempts
<1>2. exec.attempts \in Nat \cup {NoAttempts} /\ now \in 0..Fired
  BY FiredLater DEF TypeOK, Executions, Attempts
<1>3. IncrementJobAttempts(exec.attempts) \in Nat
  BY <1>2 DEF IncrementJobAttempts
<1>4. job # None => job.at \in 0..Fired
  BY DEF TypeOK, Jobs
<1>5. /\ Retried(IncrementJobAttempts(exec.attempts), now) # None
      /\ job # None => Retried(IncrementJobAttempts(exec.attempts), job.at) # None
  BY <1>1, <1>2, <1>3, <1>4, NoneAssumption
<1> QED BY <1>5 DEF MaybeRetryJob

(* What has gone wrong stays on record. *)
LEMMA HarmStays == TypeOK /\ [Next]_vars => harm \subseteq harm'
<1> SUFFICES ASSUME TypeOK, [Next]_vars PROVE harm \subseteq harm'
  OBVIOUS
<1>1. CASE Tick \/ UNCHANGED vars
  BY <1>1 DEF Tick, vars
<1>2. ASSUME NEW r \in Requests, Save(r) \/ Check(r) \/ Request(r) \/ Abort(r)
      PROVE  harm \subseteq harm'
  BY <1>2 DEF Save, Check, Request, Update, Unschedule, Schedule, Commit, Delete,
              UnscheduleDeleted, Abort, Happened
<1>3. CASE ExecutionThrows \/ RecipientsRefused
  <2>1. PICK b \in BOOLEAN : exec # None /\ MaybeRetryJob(b)
    BY <1>3 DEF ExecutionThrows, RecipientsRefused
  <2> QED BY <2>1, MaybeRetryJobHarm
<1>4. CASE Start \/ LoadAudience \/ FindActivity \/ SetRecipients \/ MarkMuted \/ InsertMessages
           \/ CountAudience \/ Unresolved \/ NodeDies
  BY <1>4 DEF Start, LoadAudience, FindActivity, SetRecipients, MarkMuted, InsertMessages,
              CountAudience, Unresolved, NodeDies, Happened
<1>5. CASE \E u \in Users : Deliver(u)
  BY <1>5 DEF Deliver
<1> QED BY <1>1, <1>2, <1>3, <1>4, <1>5 DEF Next, Execute

-------------------------------------------------------------------------------
(***************************************************************************)
(* The requests.  Until save commits nobody else has an activity to work   *)
(* on, and an audience is empty until its request has committed.  After    *)
(* that the lock of the ACTIVITY row lets one update at a time go on.      *)
(***************************************************************************)
InTransaction == {"written", "unscheduled", "scheduled"}

RequestsInv ==
  /\ exists = "no" =>
       /\ \A r \in Requests : pc[r] = "idle" \/ (r = Creator /\ pc[r] \in {"unscheduled", "scheduled", "done"})
       /\ \A a \in Audiences : audience[a] = {}
  /\ exists # "no" => pc[Creator] = "done"
  /\ exists = "yes" => audienceId # None /\ \A r \in Requests : pc[r] \in InTransaction => lock = r
  /\ \A r \in Requests :
       /\ pc[r] # "done" => audience[r] = {}
       /\ pc[r] = "deleted" => exists = "deleted"
       /\ r # Creator /\ pc[r] \in InTransaction => op[r] = "update"

LEMMA InitRequestsInv == Init => RequestsInv
BY RequestsAssumption DEF Init, RequestsInv, Audiences, InTransaction

LEMMA StepRequestsInv == TypeOK /\ RequestsInv /\ [Next]_vars => RequestsInv'
<1> SUFFICES ASSUME TypeOK, RequestsInv, [Next]_vars PROVE RequestsInv'
  OBVIOUS
<1> USE RequestsAssumption DEF InTransaction, Audiences, Goto, saved, requests
<1>0. ASSUME UNCHANGED <<exists, audienceId, audience, pc, op, lock>> PROVE RequestsInv'
  BY <1>0 DEF RequestsInv
<1>1. ASSUME NEW r \in Requests, Save(r) PROVE RequestsInv'
  BY <1>1 DEF Save, RequestsInv, TypeOK
<1>2. ASSUME NEW r \in Requests, Check(r) PROVE RequestsInv'
  BY <1>2 DEF Check, RequestsInv, TypeOK
<1>3. ASSUME NEW r \in Requests, Update(r) PROVE RequestsInv'
  BY <1>3 DEF Update, RequestsInv, TypeOK
<1>4. ASSUME NEW r \in Requests, Unschedule(r) PROVE RequestsInv'
  BY <1>4 DEF Unschedule, RequestsInv, TypeOK
<1>5. ASSUME NEW r \in Requests, Schedule(r) PROVE RequestsInv'
  BY <1>5 DEF Schedule, RequestsInv, TypeOK
<1>6. ASSUME NEW r \in Requests, Commit(r) PROVE RequestsInv'
  <2>1. /\ pc[r] = "scheduled" /\ pc' = [pc EXCEPT ![r] = "done"] /\ op' = op
        /\ \A a \in Requests \ {r} : audience'[a] = audience[a] \/ audience'[a] = {}
    BY <1>6 DEF Commit
  <2>2. CASE exists = "deleted"
    BY <1>6, <2>1, <2>2 DEF Commit, RequestsInv, TypeOK
  <2>3. CASE exists # "deleted"
    <3>1. exists' = "yes" /\ audienceId' = r /\ lock' = IF lock = r THEN None ELSE lock
      BY <1>6, <2>3 DEF Commit
    <3>2. exists = "no" => r = Creator
      BY <2>1 DEF RequestsInv
    <3>3. \A s \in Requests \ {r} : pc[s] \in {"written", "unscheduled", "scheduled"} => FALSE
      BY <2>1, <2>3, <3>2 DEF RequestsInv, TypeOK
    <3> QED BY <2>1, <2>3, <3>1, <3>2, <3>3 DEF RequestsInv, TypeOK
  <2> QED BY <2>2, <2>3
<1>7. ASSUME NEW r \in Requests, Delete(r) PROVE RequestsInv'
  BY <1>7 DEF Delete, RequestsInv, TypeOK
<1>8. ASSUME NEW r \in Requests, UnscheduleDeleted(r) PROVE RequestsInv'
  BY <1>8 DEF UnscheduleDeleted, RequestsInv, TypeOK
<1>9. ASSUME NEW r \in Requests, Abort(r) PROVE RequestsInv'
  BY <1>9 DEF Abort, RequestsInv, TypeOK
<1>10. CASE Tick \/ Start \/ Execute \/ Unresolved \/ NodeDies \/ ExecutionThrows
            \/ (\E u \in Users : Deliver(u)) \/ UNCHANGED vars
  BY <1>0, <1>10 DEF Tick, Start, Execute, LoadAudience, FindActivity, SetRecipients, RecipientsRefused,
       MarkMuted, InsertMessages, CountAudience, Unresolved, NodeDies, ExecutionThrows, Deliver, vars
<1> QED
  BY <1>1, <1>2, <1>3, <1>4, <1>5, <1>6, <1>7, <1>8, <1>9, <1>10 DEF Next, Request

-------------------------------------------------------------------------------
(***************************************************************************)
(* One message each.  Messages go out once because whatever can still send *)
(* any (an execution that has not, or a waiting job, of an audience that   *)
(* is not empty) finds that none have been: a request that brings in such  *)
(* a job when there are some is "raced", a retry after them "repeated".    *)
(***************************************************************************)
NothingSent == \A u \in Users : queued[u] + handed[u] = 0

(* Until save has committed, its job runs for an audience that has nobody in it. *)
BeforeCommit ==
  exists = "no" =>
    /\ NothingSent
    /\ exec # None => exec.users = {} /\ (job # None => job.at = Fired)
    /\ pc[Creator] \in {"idle", "unscheduled"} => job = None /\ exec = None

(* An execution that has not sent yet is the first to; one that runs is the last to. *)
SendsOnce ==
  /\ exec # None /\ exec.pc # "count" /\ (exec.users # {} \/ audience[exec.audience] # {})
       => NothingSent
  /\ exec # None /\ job # None /\ job.at # Fired => audience[job.audience] = {}
  /\ exec = None /\ job # None /\ audience[job.audience] # {} => NothingSent

(* Of a deleted activity nothing was sent, and nothing will be. *)
SendsNothing == NothingSent /\ (exec # None => exec.pc \in {"audience", "find"})

MessagesInv ==
  /\ BeforeCommit
  /\ exec # None /\ exec.pc = "send" => exec.unmuted \subseteq exec.users
  /\ harm \cap {"raced", "repeated"} = {} =>
       /\ exists = "yes" => SendsOnce
       /\ exists = "deleted" => SendsNothing
       /\ OneMessageEach

LEMMA InitMessagesInv == Init => MessagesInv
BY DEF Init, MessagesInv, BeforeCommit, NothingSent, OneMessageEach

(* An execution ends: its own job is gone, and nobody else's has an audience yet. *)
LEMMA EndExecutionMessages ==
  ASSUME TypeOK, MessagesInv, exec # None, EndExecution, harm \subseteq harm',
         UNCHANGED <<exists, audience, queued, handed, pc>>
  PROVE  MessagesInv'
<1>1. /\ job' # None => job' = job /\ job # None /\ job.at # Fired
      /\ exec' = None
  BY EndExecutionType
<1>2. BeforeCommit'
  BY <1>1 DEF MessagesInv, BeforeCommit, NothingSent
<1>3. ASSUME harm' \cap {"raced", "repeated"} = {}
      PROVE  OneMessageEach' /\ (exists = "yes" => SendsOnce') /\ (exists = "deleted" => SendsNothing')
  BY <1>1, <1>3 DEF MessagesInv, SendsOnce, SendsNothing, OneMessageEach, NothingSent
<1> QED BY <1>1, <1>2, <1>3 DEF MessagesInv

(* An execution fails: its job is stored again only if it has not begun to send. *)
LEMMA MaybeRetryJobMessages ==
  ASSUME TypeOK, MessagesInv, exec # None, NEW b \in BOOLEAN, MaybeRetryJob(b),
         UNCHANGED <<exists, audience, queued, handed, pc>>
  PROVE  MessagesInv'
<1>1. /\ exec' = None /\ harm \subseteq harm'
      /\ job' # None => job'.audience = exec.audience
      /\ job' # None /\ exec.pc \in {"send", "count"} => "repeated" \in harm'
  BY MaybeRetryJobType, MaybeRetryJobHarm
<1>2. BeforeCommit'
  BY <1>1 DEF MessagesInv, BeforeCommit, NothingSent
<1>3. ASSUME harm' \cap {"raced", "repeated"} = {}
      PROVE  OneMessageEach' /\ (exists = "yes" => SendsOnce') /\ (exists = "deleted" => SendsNothing')
  BY <1>1, <1>3 DEF MessagesInv, SendsOnce, SendsNothing, OneMessageEach, NothingSent
<1> QED BY <1>1, <1>2, <1>3 DEF MessagesInv

LEMMA StepMessagesInv == RetryInv /\ RequestsInv /\ MessagesInv /\ [Next]_vars => MessagesInv'
<1> SUFFICES ASSUME RetryInv, RequestsInv, MessagesInv, [Next]_vars PROVE MessagesInv'
  OBVIOUS
<1>t. TypeOK /\ harm \subseteq harm'
  BY HarmStays DEF RetryInv
<1>n. /\ \A u \in Users : queued[u] \in Nat /\ handed[u] \in Nat
      /\ exec # None => exec \in Executions
      /\ job # None => job \in Jobs
  BY <1>t DEF TypeOK
<1> DEFINE Clean == harm' \cap {"raced", "repeated"} = {}
<1>c. Clean => OneMessageEach /\ (exists = "yes" => SendsOnce) /\ (exists = "deleted" => SendsNothing)
  BY <1>t DEF MessagesInv
(* Where no message is sent or handed over, each part is about the job and the execution. *)
<1>parts. ASSUME UNCHANGED <<exists, audience, queued, handed>>,
                 (NothingSent' <=> NothingSent) /\ BeforeCommit => BeforeCommit',
                 exec' # None /\ exec'.pc = "send" => exec'.unmuted \subseteq exec'.users,
                 (NothingSent' <=> NothingSent) /\ exists = "yes" /\ SendsOnce => SendsOnce',
                 (NothingSent' <=> NothingSent) /\ exists = "deleted" /\ SendsNothing => SendsNothing'
          PROVE  MessagesInv'
  <2>1. NothingSent' <=> NothingSent
    BY <1>parts DEF NothingSent
  <2>2. OneMessageEach /\ Clean => OneMessageEach'
    BY <1>parts, <1>t DEF OneMessageEach
  <2> QED BY <1>c, <1>parts, <2>1, <2>2 DEF MessagesInv
<1>same. ASSUME UNCHANGED <<exists, audience, queued, handed, job, exec>>,
                pc'[Creator] \in {"idle", "unscheduled"} => pc[Creator] \in {"idle", "unscheduled"}
         PROVE  MessagesInv'
  <2>1. exec' # None /\ exec'.pc = "send" => exec'.unmuted \subseteq exec'.users
    BY <1>same DEF MessagesInv
  <2>2. (NothingSent' <=> NothingSent) /\ BeforeCommit => BeforeCommit'
    BY <1>same DEF BeforeCommit
  <2> QED BY <1>same, <1>parts, <2>1, <2>2 DEF SendsOnce, SendsNothing
<1>1. CASE Tick
  BY <1>1, <1>same DEF Tick, saved, messages, requests
<1>2. ASSUME NEW r \in Requests, Save(r) \/ Check(r) \/ Update(r) \/ Abort(r) PROVE MessagesInv'
  <2>1. UNCHANGED <<exists, audience, queued, handed, job, exec>>
    BY <1>2 DEF Save, Check, Update, Abort, saved, messages
  <2>2. \E place \in {"unscheduled", "checked", "written", "done"} :
          /\ pc' = [pc EXCEPT ![r] = place]
          /\ place = "unscheduled" => pc[r] = "idle"
    BY <1>2 DEF Save, Check, Update, Abort, Goto
  <2> QED BY <1>same, <1>t, <2>1, <2>2, RequestsAssumption DEF TypeOK
<1>3. ASSUME NEW r \in Requests, Unschedule(r) \/ UnscheduleDeleted(r) PROVE MessagesInv'
  <2>1. /\ job' = None /\ UNCHANGED <<exists, audience, queued, handed, exec>>
        /\ exists # "no"
    BY <1>3 DEF Unschedule, UnscheduleDeleted, saved, messages, RequestsInv
  <2>u. exec' # None /\ exec'.pc = "send" => exec'.unmuted \subseteq exec'.users
    BY <2>1 DEF MessagesInv
  <2> QED BY <1>parts, <2>1, <2>u DEF BeforeCommit, SendsOnce, SendsNothing
<1>4. ASSUME NEW r \in Requests, Schedule(r) PROVE MessagesInv'
  <2>1. /\ job = None /\ job'.audience = r /\ audience[r] = {}
        /\ UNCHANGED <<exists, audience, queued, handed, exec>>
        /\ pc[r] = "unscheduled" /\ pc' = [pc EXCEPT ![r] = "scheduled"]
    BY <1>4 DEF Schedule, Goto, saved, messages, RequestsInv
  <2>2. exists = "no" => r = Creator /\ exec = None /\ pc'[Creator] = "scheduled"
    BY <1>t, <2>1 DEF RequestsInv, MessagesInv, BeforeCommit, TypeOK
  <2>u. exec' # None /\ exec'.pc = "send" => exec'.unmuted \subseteq exec'.users
    BY <2>1 DEF MessagesInv
  <2> QED BY <1>parts, <2>1, <2>2, <2>u DEF BeforeCommit, SendsOnce, SendsNothing
<1>5. ASSUME NEW r \in Requests, Commit(r) PROVE MessagesInv'
  <2>1. pc[r] = "scheduled" /\ UNCHANGED <<queued, handed, job, exec>>
    BY <1>5 DEF Commit, messages
  <2>2. CASE exists = "deleted"
    <3>1. exists' = "deleted"
      BY <1>5, <2>2 DEF Commit
    <3> QED
      BY <1>c, <2>1, <2>2, <3>1
         DEF MessagesInv, BeforeCommit, SendsNothing, OneMessageEach, NothingSent
  <2>3. CASE exists = "no"
    <3>1. exists' = "yes"
      BY <1>5, <2>3 DEF Commit
    <3>2. NothingSent /\ (exec # None => exec.users = {} /\ (job # None => job.at = Fired))
      BY <2>3 DEF MessagesInv, BeforeCommit
    <3> QED
      BY <1>c, <2>1, <3>1, <3>2
         DEF MessagesInv, BeforeCommit, SendsOnce, OneMessageEach, NothingSent
  <2>4. CASE exists = "yes"
    <3>1. exists' = "yes" /\ op[r] = "update" /\ Happened("raced", op[r] = "update" /\ Publishing)
      BY <1>5, <2>1, <2>4 DEF Commit, RequestsInv, InTransaction
    <3>2. Clean => ~Publishing
      BY <3>1 DEF Happened
    <3>3. Clean => exec = None /\ NothingSent
      BY <1>n, <3>2 DEF Publishing, NothingSent
    <3> QED
      BY <1>c, <2>1, <2>4, <3>1, <3>3
         DEF MessagesInv, BeforeCommit, SendsOnce, OneMessageEach, NothingSent
  <2> QED BY <1>t, <2>2, <2>3, <2>4 DEF TypeOK
<1>6. ASSUME NEW r \in Requests, Delete(r) PROVE MessagesInv'
  <2>1. /\ exists' = "deleted" /\ queued' = [u \in Users |-> 0] /\ UNCHANGED <<handed, exec>>
        /\ Happened("raced", Publishing)
    BY <1>6 DEF Delete
  <2>2. Clean => exec = None /\ NothingSent
    BY <1>n, <2>1 DEF Happened, Publishing, NothingSent
  <2>3. Clean => NothingSent'
    BY <1>n, <2>1, <2>2 DEF NothingSent
  <2>4. exec' # None /\ exec'.pc = "send" => exec'.unmuted \subseteq exec'.users
    BY <2>1 DEF MessagesInv
  <2>5. Clean => OneMessageEach'
    BY <2>3 DEF NothingSent, OneMessageEach
  <2> QED BY <2>1, <2>2, <2>3, <2>4, <2>5 DEF MessagesInv, BeforeCommit, SendsNothing
<1>7. CASE Start
  <2>1. /\ exec' # None /\ exec'.pc = "audience" /\ exec'.audience = job.audience
        /\ job' # None /\ job'.at = Fired
        /\ exec'.users = {} /\ exec = None /\ job # None
        /\ UNCHANGED <<exists, audience, queued, handed, pc>>
    BY <1>7, <1>t, StartsExecution DEF Start, saved, messages, requests
  <2> QED BY <1>parts, <2>1 DEF BeforeCommit, SendsOnce, SendsNothing
<1>8. CASE LoadAudience
  <2>1. /\ exec' # None /\ exec'.pc = "find" /\ exec'.audience = exec.audience
        /\ exec'.users = audience[exec.audience]
        /\ exec # None /\ exec.pc = "audience" /\ exec.audience \in Audiences
        /\ UNCHANGED <<exists, audience, queued, handed, job, pc>>
    BY <1>8, <1>n, <1>t, LoadsAudience DEF LoadAudience, saved, messages, requests, Executions
  <2>2. exists = "no" => exec'.users = {}
    BY <2>1 DEF RequestsInv
  <2>u. exec' # None /\ exec'.pc = "send" => exec'.unmuted \subseteq exec'.users
    BY <2>1 DEF MessagesInv
  <2> QED BY <1>parts, <2>1, <2>2, <2>u DEF BeforeCommit, SendsOnce, SendsNothing
<1>9. CASE FindActivity
  <2>0. UNCHANGED <<exists, audience, queued, handed, pc>> /\ exec # None /\ exec.pc = "find"
    BY <1>9 DEF FindActivity, saved, messages, requests
  <2>1. CASE exists = "yes"
    <3>1. /\ exec' # None /\ exec'.pc = "recipients" /\ exec'.audience = exec.audience
          /\ exec'.users = exec.users /\ job' = job
      BY <1>9, <1>t, <2>1, FindsActivity
    <3> QED BY <1>parts, <2>0, <2>1, <3>1 DEF BeforeCommit, SendsOnce, SendsNothing
  <2>2. CASE exists # "yes"
    BY <1>9, <1>t, <2>0, <2>2, EndExecutionMessages DEF FindActivity
  <2> QED BY <2>1, <2>2
<1>10. CASE SetRecipients
  <2>1. /\ exec' # None /\ exec'.pc = "mute" /\ exec'.audience = exec.audience
        /\ exec'.users = exec.users
        /\ exec # None /\ exec.pc = "recipients"
        /\ UNCHANGED <<exists, audience, queued, handed, job, pc>>
    BY <1>10, <1>t, SetsRecipients DEF SetRecipients, saved, messages, requests
  <2> QED BY <1>parts, <2>1 DEF BeforeCommit, SendsOnce, SendsNothing
<1>11. CASE MarkMuted
  <2>1. /\ exec' # None /\ exec'.pc = "send" /\ exec'.audience = exec.audience
        /\ exec'.users = exec.users /\ exec'.unmuted \subseteq exec.users
        /\ exec # None /\ exec.pc = "mute"
        /\ UNCHANGED <<exists, audience, queued, handed, job, pc>>
    BY <1>11, <1>t, MarksMuted DEF MarkMuted, saved, messages, requests
  <2> QED BY <1>parts, <2>1 DEF BeforeCommit, SendsOnce, SendsNothing
<1>12. CASE InsertMessages
  <2>1. /\ exec' # None /\ exec'.pc = "count" /\ exec'.audience = exec.audience
        /\ exec'.users = exec.users
        /\ exec # None /\ exec.pc = "send" /\ exec.unmuted \subseteq exec.users
        /\ \A u \in Users : queued'[u] = queued[u] + IF u \in exec.unmuted THEN 1 ELSE 0
        /\ UNCHANGED <<exists, audience, handed, job, pc>>
    BY <1>12, <1>t, InsertsMessages DEF InsertMessages, saved, requests, MessagesInv
  <2>2. exec.users = {} => \A u \in Users : queued'[u] = queued[u]
    BY <1>n, <2>1
  <2>3. BeforeCommit'
    BY <2>1, <2>2 DEF MessagesInv, BeforeCommit, NothingSent
  <2>4. Clean => exists # "deleted"
    BY <1>c, <2>1 DEF SendsNothing
  <2>5. Clean /\ exists = "yes" => SendsOnce'
    BY <1>c, <2>1 DEF SendsOnce
  <2>6. Clean => OneMessageEach'
    <3> SUFFICES ASSUME Clean, NEW u \in Users PROVE queued'[u] + handed[u] <= 1
      BY <2>1 DEF OneMessageEach
    <3>1. CASE exec.users = {}
      BY <1>c, <1>t, <2>2, <3>1 DEF OneMessageEach
    <3>2. CASE exec.users # {}
      <4>1. exists = "yes"
        BY <1>t, <2>1, <2>4, <3>2 DEF TypeOK, MessagesInv, BeforeCommit
      <4>2. queued[u] + handed[u] = 0
        BY <1>c, <2>1, <3>2, <4>1 DEF SendsOnce, NothingSent
      <4> QED BY <1>n, <2>1, <4>2
    <3> QED BY <3>1, <3>2
  <2> QED BY <2>1, <2>3, <2>4, <2>5, <2>6 DEF MessagesInv
<1>13. CASE CountAudience \/ Unresolved \/ NodeDies
  BY <1>13, <1>t, EndExecutionMessages
     DEF CountAudience, Unresolved, NodeDies, saved, messages, requests
<1>14. CASE ExecutionThrows \/ RecipientsRefused
  <2>1. PICK b \in BOOLEAN : exec # None /\ MaybeRetryJob(b)
    BY <1>14 DEF ExecutionThrows, RecipientsRefused
  <2> QED
    BY <1>14, <1>t, <2>1, MaybeRetryJobMessages
       DEF ExecutionThrows, RecipientsRefused, saved, messages, requests
<1>15. ASSUME NEW u \in Users, Deliver(u) PROVE MessagesInv'
  <2>1. /\ queued[u] > 0 /\ queued' = [queued EXCEPT ![u] = @ - 1]
        /\ handed' = handed \/ handed' = [handed EXCEPT ![u] = @ + 1]
        /\ UNCHANGED <<exists, audience, job, exec, pc>>
    BY <1>15 DEF Deliver, requests, saved
  <2>2. ~NothingSent
    BY <1>n, <2>1 DEF NothingSent
  <2>3. \A v \in Users : queued'[v] + handed'[v] <= queued[v] + handed[v]
    BY <1>n, <1>t, <2>1 DEF TypeOK
  <2>4. Clean => OneMessageEach'
    <3> SUFFICES ASSUME Clean, NEW v \in Users PROVE queued'[v] + handed'[v] <= 1
      BY DEF OneMessageEach
    <3>1. queued[v] + handed[v] <= 1
      BY <1>c, <1>t DEF OneMessageEach
    <3>2. queued'[v] \in Int /\ handed'[v] \in Int
      BY <1>n, <1>t, <2>1 DEF TypeOK
    <3> QED BY <1>n, <2>3, <3>1, <3>2
  <2>5. exists # "no"
    BY <2>2 DEF MessagesInv, BeforeCommit
  <2> QED BY <1>c, <2>1, <2>2, <2>4, <2>5 DEF MessagesInv, BeforeCommit, SendsOnce, SendsNothing
<1>16. CASE UNCHANGED vars
  BY <1>16, <1>same DEF vars, saved, messages, requests
<1> QED
  BY <1>1, <1>2, <1>3, <1>4, <1>5, <1>6, <1>7, <1>8, <1>9, <1>10, <1>11, <1>12, <1>13, <1>14,
     <1>15, <1>16 DEF Next, Request, Execute

(***************************************************************************)
(* No user gets two messages of an activity, however requests, executions, *)
(* retries and deaths of nodes overlap, unless a request changed it while  *)
(* or after it was published, or a retry began after the messages.         *)
(***************************************************************************)
THEOREM SentOnce == Spec => []OneMessageEach
<1>1. RetryInv /\ MessagesInv => OneMessageEach
  BY DEF MessagesInv, OneMessageEach
<1>2. Init => RetryInv /\ RequestsInv /\ MessagesInv
  BY InitRetryInv, InitRequestsInv, InitMessagesInv
<1>3. RetryInv /\ RequestsInv /\ MessagesInv /\ [Next]_vars
        => RetryInv' /\ RequestsInv' /\ MessagesInv'
  BY StepRetryInv, StepRequestsInv, StepMessagesInv DEF RetryInv
<1> QED BY <1>1, <1>2, <1>3, PTL DEF Spec

-------------------------------------------------------------------------------
(***************************************************************************)
(* Published as saved.  Between requests the last saved audience has a     *)
(* waiting job, or an execution that works on it, or its recipients.       *)
(* While a request is past unschedulePublishJob it has only the promise    *)
(* that the request commits: with the job it scheduled still waiting.      *)
(***************************************************************************)
Changing == \E r \in Requests : pc[r] \in {"unscheduled", "scheduled"}

Waiting == job # None /\ job.at # Fired

Committed == audience[audienceId]

ToPublish == Waiting /\ job.audience = audienceId

BeingPublished ==
  /\ exec # None /\ exec.audience = audienceId
  /\ job # None /\ job.at = Fired
  /\ exec.pc # "audience" => exec.users = Committed

Published == job = None /\ exec = None /\ Recipients = Committed

(* What an execution has set stays until the next one, or delete. *)
RecipientsSet ==
  exec # None /\ exec.pc \in {"mute", "send", "count"} /\ exists # "deleted"
    => Recipients = exec.users

SavedInv ==
  /\ RecipientsSet
  /\ harm \cap {"early", "lost"} = {} =>
       /\ exists = "no" => exec = None /\ pc[Creator] # "done"
       /\ exists # "deleted" =>
            \A r \in Requests :
              /\ pc[r] = "unscheduled" => job = None
              /\ pc[r] = "scheduled" => Waiting /\ job.audience = r
       /\ exists = "yes" /\ ~Changing => ToPublish \/ BeingPublished \/ Published

LEMMA InitSavedInv == Init => SavedInv
BY RequestsAssumption DEF Init, SavedInv, RecipientsSet

(* While the activity is there, only one request is past dao.update. *)
LEMMA OneInTransaction ==
  ASSUME TypeOK, RequestsInv, exists # "deleted",
         NEW r \in Requests, NEW s \in Requests,
         pc[r] \in InTransaction, pc[s] \in InTransaction
  PROVE  r = s
BY DEF TypeOK, RequestsInv, InTransaction

(* Marking recipients makes or removes none. *)
LEMMA MarkProcessedRecipients ==
  ASSUME TypeOK, NEW S \in SUBSET Users, MarkProcessed(S)
  PROVE  Recipients' = Recipients
BY DEF TypeOK, MarkProcessed, Recipients

LEMMA DeliverRecipients ==
  ASSUME TypeOK, NEW u \in Users, Deliver(u)
  PROVE  Recipients' = Recipients
<1>1. CASE exists = "yes"
  <2>1. {u} \in SUBSET Users /\ MarkProcessed({u})
    BY <1>1 DEF Deliver
  <2> QED BY <2>1, MarkProcessedRecipients
<1>2. CASE exists # "yes"
  BY <1>2 DEF Deliver, Recipients
<1> QED BY <1>1, <1>2

(* An execution that does not begin early begins when its request has committed. *)
LEMMA StartsCommitted ==
  ASSUME TypeOK, RequestsInv, BeforeCommit, SavedInv, Start, exists # "deleted",
         harm' \cap {"early", "lost"} = {}
  PROVE  exists = "yes" /\ ~Changing /\ ToPublish
<1>1. harm \cap {"early", "lost"} = {} /\ job # None /\ exec = None
  BY DEF Start, Happened
<1>2. pc[job.audience] # "scheduled"
  BY DEF Start, Happened
<1>3. \A r \in Requests : pc[r] \notin {"unscheduled", "scheduled"}
  BY <1>1, <1>2 DEF SavedInv
<1>4. exists # "no"
  BY <1>1, <1>3, RequestsAssumption DEF SavedInv, RequestsInv, BeforeCommit
<1>5. exists = "yes" /\ ~Changing
  BY <1>3, <1>4 DEF TypeOK, Changing
<1> QED BY <1>1, <1>5 DEF SavedInv, BeingPublished, Published

LEMMA StepSavedInv ==
  RetryInv /\ RequestsInv /\ MessagesInv /\ SavedInv /\ [Next]_vars => SavedInv'
<1> SUFFICES ASSUME RetryInv, RequestsInv, MessagesInv, SavedInv, [Next]_vars PROVE SavedInv'
  OBVIOUS
<1>t. TypeOK /\ harm \subseteq harm' /\ BeforeCommit
  BY HarmStays DEF RetryInv, MessagesInv
<1> DEFINE Clean == harm' \cap {"early", "lost"} = {}
           Before == exists = "no" => exec = None /\ pc[Creator] # "done"
           Scheduled == exists # "deleted" =>
                          \A r \in Requests :
                            /\ pc[r] = "unscheduled" => job = None
                            /\ pc[r] = "scheduled" => Waiting /\ job.audience = r
           After == exists = "yes" /\ ~Changing => ToPublish \/ BeingPublished \/ Published
<1>c. Clean => Before /\ Scheduled /\ After
  BY <1>t DEF SavedInv
<1>parts. ASSUME RecipientsSet', Clean => Before' /\ Scheduled' /\ After' PROVE SavedInv'
  BY <1>parts DEF SavedInv
(* A step that leaves the activity and the publication alone, of a request that does not pass
   unschedulePublishJob or commit. *)
<1>same. ASSUME UNCHANGED <<exists, audience, audienceId, job, exec>>, Recipients' = Recipients,
                \A r \in Requests : pc'[r] \in {"unscheduled", "scheduled"}
                                      <=> pc[r] \in {"unscheduled", "scheduled"},
                \A r \in Requests : pc'[r] \in {"unscheduled", "scheduled"} => pc'[r] = pc[r],
                pc'[Creator] = "done" => pc[Creator] = "done" \/ exists # "no"
         PROVE  SavedInv'
  <2>1. RecipientsSet'
    BY <1>same DEF SavedInv, RecipientsSet
  <2>2. Clean => Before'
    BY <1>c, <1>same
  <2>3. Clean => Scheduled'
    BY <1>c, <1>same DEF Waiting
  <2>4. Changing' <=> Changing
    BY <1>same DEF Changing
  <2>5. Clean => After'
    BY <1>c, <1>same, <2>4 DEF ToPublish, Waiting, BeingPublished, Published, Committed
  <2> QED BY <1>parts, <2>1, <2>2, <2>3, <2>5
<1>1. CASE Tick \/ UNCHANGED vars
  BY <1>1, <1>same DEF Tick, vars, saved, messages, requests, Recipients
<1>2. ASSUME NEW r \in Requests, Save(r) PROVE SavedInv'
  <2>1. /\ pc[r] = "idle" /\ r = Creator /\ pc' = [pc EXCEPT ![r] = "unscheduled"]
        /\ UNCHANGED <<exists, audience, audienceId, recipient, job, exec>>
    BY <1>2 DEF Save, Goto, saved, messages
  <2>2. exists = "no" /\ job = None /\ exec = None
    BY <1>t, <2>1 DEF RequestsInv, BeforeCommit, TypeOK
  <2>3. Clean => Scheduled'
    BY <1>c, <1>t, <2>1, <2>2 DEF RequestsInv, Waiting, TypeOK
  <2>4. Before' /\ After' /\ RecipientsSet'
    BY <1>t, <2>1, <2>2 DEF RecipientsSet, TypeOK
  <2> QED BY <1>parts, <2>3, <2>4
<1>3. ASSUME NEW r \in Requests, Check(r) \/ Update(r) PROVE SavedInv'
  <2>1. /\ UNCHANGED <<exists, audience, audienceId, recipient, job, exec>>
        /\ pc[r] \in {"idle", "checked"}
        /\ \E place \in {"checked", "written"} : pc' = [pc EXCEPT ![r] = place]
    BY <1>3 DEF Check, Update, Goto, saved, messages
  <2> QED BY <1>same, <1>t, <2>1, RequestsAssumption DEF Recipients, TypeOK
<1>4. ASSUME NEW r \in Requests, Unschedule(r) PROVE SavedInv'
  <2>1. /\ pc[r] = "written" /\ pc' = [pc EXCEPT ![r] = "unscheduled"] /\ job' = None
        /\ UNCHANGED <<exists, audience, audienceId, recipient, exec>>
    BY <1>4 DEF Unschedule, Goto, saved, messages
  <2>2. exists # "no"
    BY <2>1 DEF RequestsInv
  <2>3. \A s \in Requests : exists # "deleted" /\ pc'[s] = "scheduled" => FALSE
    BY <1>t, <2>1, OneInTransaction DEF InTransaction, TypeOK
  <2>4. Scheduled'
    BY <2>1, <2>3
  <2>5. Changing'
    BY <1>t, <2>1 DEF Changing, TypeOK
  <2>6. RecipientsSet'
    BY <2>1 DEF SavedInv, RecipientsSet, Recipients
  <2> QED BY <1>parts, <2>1, <2>2, <2>4, <2>5, <2>6
<1>5. ASSUME NEW r \in Requests, Schedule(r) PROVE SavedInv'
  <2>1. /\ pc[r] = "unscheduled" /\ pc' = [pc EXCEPT ![r] = "scheduled"]
        /\ job' = [audience |-> r, attempts |-> NoAttempts, at |-> want[r].date]
        /\ UNCHANGED <<exists, audience, audienceId, recipient, exec>>
    BY <1>5 DEF Schedule, Goto, saved, messages
  <2>2. job' \in Jobs /\ want[r].date # Fired
    BY <1>t, <2>1, FiredLater DEF TypeOK, Jobs, Audiences, Attempts
  <2>3. Waiting' /\ job'.audience = r
    BY <2>1, <2>2, NoneAssumption DEF Waiting
  <2>4. \A s \in Requests : exists # "deleted" /\ pc[s] \in {"unscheduled", "scheduled"} => s = r
    BY <1>t, <2>1, OneInTransaction DEF InTransaction
  <2>5. Scheduled'
    BY <1>t, <2>1, <2>3, <2>4 DEF TypeOK
  <2>6. Changing'
    BY <1>t, <2>1 DEF Changing, TypeOK
  <2>7. Clean => Before'
    BY <1>c, <1>t, <2>1, RequestsAssumption DEF TypeOK
  <2>8. RecipientsSet'
    BY <2>1 DEF SavedInv, RecipientsSet, Recipients
  <2> QED BY <1>parts, <2>5, <2>6, <2>7, <2>8
<1>6. ASSUME NEW r \in Requests, Commit(r) PROVE SavedInv'
  <2>1. /\ pc[r] = "scheduled" /\ pc' = [pc EXCEPT ![r] = "done"]
        /\ UNCHANGED <<recipient, job, exec>>
    BY <1>6 DEF Commit, Goto, messages
  <2>2. CASE exists = "deleted"
    <3>1. exists' = "deleted"
      BY <1>6, <2>2 DEF Commit
    <3> QED BY <1>parts, <3>1 DEF RecipientsSet
  <2>3. CASE exists # "deleted"
    <3>1. exists' = "yes" /\ audienceId' = r
      BY <1>6, <2>3 DEF Commit
    <3>2. \A s \in Requests : pc[s] \in {"unscheduled", "scheduled"} => s = r
      BY <1>t, <2>1, <2>3, OneInTransaction DEF InTransaction
    <3>3. \A s \in Requests : pc'[s] \notin {"unscheduled", "scheduled"}
      BY <1>t, <2>1, <3>2 DEF TypeOK
    <3>4. Clean => ToPublish'
      BY <1>c, <2>1, <2>3, <3>1 DEF ToPublish, Waiting
    <3>5. RecipientsSet'
      BY <2>1, <2>3, <3>1 DEF SavedInv, RecipientsSet, Recipients
    <3> QED BY <1>parts, <3>1, <3>3, <3>4, <3>5
  <2> QED BY <2>2, <2>3
<1>7. ASSUME NEW r \in Requests, Delete(r) PROVE SavedInv'
  BY <1>7, <1>parts DEF Delete, RecipientsSet
<1>8. ASSUME NEW r \in Requests, UnscheduleDeleted(r) PROVE SavedInv'
  <2>1. exists' = "deleted"
    BY <1>8 DEF UnscheduleDeleted, RequestsInv, saved
  <2> QED BY <1>parts, <2>1 DEF RecipientsSet
(* What a request that fails takes with it is "lost", unless it has not touched the job yet. *)
<1>9. ASSUME NEW r \in Requests, Abort(r) PROVE SavedInv'
  <2>1. /\ pc[r] \in {"written", "unscheduled", "scheduled", "deleted"}
        /\ pc' = [pc EXCEPT ![r] = "done"]
        /\ UNCHANGED <<exists, audience, audienceId, recipient, job, exec>>
        /\ pc[r] \in {"unscheduled", "scheduled"} => "lost" \in harm'
    BY <1>9 DEF Abort, Goto, Happened, saved, messages
  <2>2. CASE pc[r] \in {"unscheduled", "scheduled"}
    <3>1. RecipientsSet'
      BY <2>1 DEF SavedInv, RecipientsSet, Recipients
    <3> QED BY <1>parts, <2>1, <2>2, <3>1
  <2>3. CASE pc[r] \in {"written", "deleted"}
    <3>1. pc'[Creator] = "done" => pc[Creator] = "done" \/ exists # "no"
      BY <1>t, <2>1, <2>3, RequestsAssumption DEF RequestsInv, TypeOK
    <3> QED BY <1>same, <1>t, <2>1, <2>3, <3>1 DEF Recipients, TypeOK
  <2> QED BY <2>1, <2>2, <2>3
<1>10. CASE Start
  <2>1. /\ exec' # None /\ exec'.pc = "audience" /\ exec'.audience = job.audience
        /\ job' # None /\ job'.at = Fired
        /\ UNCHANGED <<exists, audience, audienceId, pc>>
    BY <1>10, <1>t, StartsExecution DEF Start, saved, requests
  <2>2. RecipientsSet'
    BY <2>1 DEF RecipientsSet
  <2>3. ASSUME Clean, exists # "deleted" PROVE Before' /\ Scheduled' /\ After'
    <3>1. exists = "yes" /\ ~Changing /\ ToPublish
      BY <1>10, <1>t, <2>3, StartsCommitted
    <3>2. BeingPublished'
      BY <2>1, <3>1 DEF ToPublish, BeingPublished
    <3> QED BY <2>1, <3>1, <3>2 DEF Changing
  <2> QED BY <1>parts, <2>1, <2>2, <2>3
(* While an execution goes on, the job stays as it is. *)
<1>goes. ASSUME exec # None, exec' # None, RecipientsSet',
                exec'.audience = exec.audience,
                UNCHANGED <<exists, audience, audienceId, job, pc>>,
                exec.audience = audienceId =>
                  exec'.users = Committed \/ (exec.pc # "audience" /\ exec'.users = exec.users)
         PROVE  SavedInv'
  <2>1. Clean => Before' /\ Scheduled'
    BY <1>c, <1>goes DEF Waiting
  <2>2. Clean => After'
    BY <1>c, <1>goes DEF ToPublish, Waiting, BeingPublished, Published, Committed, Changing
  <2> QED BY <1>goes, <1>parts, <2>1, <2>2
<1>11. CASE LoadAudience
  <2>1. /\ exec' # None /\ exec'.pc = "find" /\ exec'.audience = exec.audience
        /\ exec'.users = audience[exec.audience] /\ exec # None
        /\ UNCHANGED <<exists, audience, audienceId, job, pc>>
    BY <1>11, <1>t, LoadsAudience DEF LoadAudience, saved, requests
  <2> QED BY <1>goes, <2>1 DEF RecipientsSet, Committed
<1>12. CASE FindActivity
  <2>1. exec # None /\ exec.pc = "find" /\ UNCHANGED <<exists, audience, audienceId, pc>>
    BY <1>12 DEF FindActivity, saved, requests
  <2>2. CASE exists = "yes"
    <3>1. /\ exec' # None /\ exec'.pc = "recipients" /\ exec'.audience = exec.audience
          /\ exec'.users = exec.users /\ job' = job
      BY <1>12, <1>t, <2>2, FindsActivity
    <3> QED BY <1>goes, <2>1, <3>1 DEF RecipientsSet
  <2>3. CASE exists # "yes"
    <3>1. exec' = None
      BY <1>12, <2>3 DEF FindActivity, EndExecution
    <3>2. Clean => exists = "deleted"
      BY <1>c, <1>t, <2>1, <2>3 DEF TypeOK
    <3> QED BY <1>parts, <2>1, <3>1, <3>2 DEF RecipientsSet
  <2> QED BY <2>2, <2>3
<1>13. CASE SetRecipients
  <2>1. /\ exec' # None /\ exec'.audience = exec.audience /\ exec'.users = exec.users
        /\ exec # None /\ exec.pc = "recipients"
        /\ UNCHANGED <<exists, audience, audienceId, job, pc>>
        /\ recipient' = [u \in Users |-> IF u \in exec.users THEN "pending" ELSE "none"]
    BY <1>13, <1>t, SetsRecipients DEF SetRecipients, saved, requests
  <2>2. exec.users \in SUBSET Users
    BY <1>t, <2>1 DEF TypeOK, Executions
  <2>3. Recipients' = exec.users
    BY <2>1, <2>2 DEF Recipients
  <2> QED BY <1>goes, <2>1, <2>3 DEF RecipientsSet
<1>14. CASE MarkMuted
  <2>1. /\ exec' # None /\ exec'.pc = "send" /\ exec'.audience = exec.audience
        /\ exec'.users = exec.users
        /\ exec # None /\ exec.pc = "mute"
        /\ UNCHANGED <<exists, audience, audienceId, job, pc>>
    BY <1>14, <1>t, MarksMuted DEF MarkMuted, saved, requests
  <2>2. Recipients' = Recipients
    <3>1. exec.users \in SUBSET Users /\ MarkProcessed(exec.users \ exec'.unmuted)
      BY <1>14, <1>t, MarksMuted
    <3>2. exec.users \ exec'.unmuted \in SUBSET Users
      BY <3>1
    <3> QED BY <1>t, <3>1, <3>2, MarkProcessedRecipients
  <2>3. RecipientsSet'
    BY <2>1, <2>2 DEF SavedInv, RecipientsSet
  <2> QED BY <1>goes, <2>1, <2>3
<1>15. CASE InsertMessages
  <2>1. /\ exec' # None /\ exec'.pc = "count" /\ exec'.audience = exec.audience
        /\ exec'.users = exec.users
        /\ exec # None /\ exec.pc = "send"
        /\ UNCHANGED <<exists, audience, audienceId, recipient, job, pc>>
    BY <1>15, <1>t, InsertsMessages DEF InsertMessages, saved, requests
  <2>2. RecipientsSet'
    BY <2>1 DEF SavedInv, RecipientsSet, Recipients
  <2> QED BY <1>goes, <2>1, <2>2
<1>16. CASE CountAudience
  <2>1. /\ exec # None /\ exec.pc = "count" /\ exec' = None /\ EndExecution
        /\ UNCHANGED <<exists, audience, audienceId, recipient, pc>>
    BY <1>16 DEF CountAudience, EndExecution, saved, messages, requests
  <2>2. job' = IF job # None /\ job.at = Fired THEN None ELSE job
    BY <2>1 DEF EndExecution, JobDone
  <2>3. Clean => Before'
    BY <2>1, <1>c
  <2>4. Clean => Scheduled'
    BY <1>c, <2>1, <2>2 DEF Waiting
  <2>5. Clean => After'
    BY <1>c, <2>1, <2>2
       DEF SavedInv, RecipientsSet, ToPublish, Waiting, BeingPublished, Published, Committed,
           Changing, Recipients
  <2> QED BY <1>parts, <2>1, <2>3, <2>4, <2>5 DEF RecipientsSet
<1>17. CASE Unresolved \/ NodeDies
  <2>1. exec' = None /\ "lost" \in harm'
    BY <1>17 DEF Unresolved, NodeDies, EndExecution, Happened
  <2> QED BY <1>parts, <2>1 DEF RecipientsSet
(* A failed execution that is not lost is to be published again, or a request has deleted its job. *)
<1>18. CASE ExecutionThrows \/ RecipientsRefused
  <2>1. PICK b \in BOOLEAN : exec # None /\ MaybeRetryJob(b)
    BY <1>18 DEF ExecutionThrows, RecipientsRefused
  <2>2. /\ exec' = None
        /\ job' # None => job'.audience = exec.audience /\ Waiting'
        /\ \/ "lost" \in harm'
           \/ job = None /\ job' = None
           \/ job # None /\ job.at = Fired /\ job' # None
    BY <1>t, <2>1, MaybeRetryJobType, MaybeRetryJobHarm, FiredLater DEF Waiting
  <2>3. UNCHANGED <<exists, audience, audienceId, pc>>
    BY <1>18 DEF ExecutionThrows, RecipientsRefused, saved, requests
  <2>4. Clean => Before'
    BY <2>2, <2>3, <1>c
  <2>5. Clean => Scheduled'
    BY <1>c, <2>2, <2>3 DEF Waiting
  <2>6. Clean => After'
    BY <1>c, <2>1, <2>2, <2>3 DEF ToPublish, Waiting, BeingPublished, Published, Changing
  <2> QED BY <1>parts, <2>2, <2>4, <2>5, <2>6 DEF RecipientsSet
<1>19. ASSUME NEW u \in Users, Deliver(u) PROVE SavedInv'
  <2>1. Recipients' = Recipients
    BY <1>19, <1>t, DeliverRecipients
  <2>2. UNCHANGED <<exists, audience, audienceId, job, exec, pc>>
    BY <1>19 DEF Deliver, saved, requests
  <2> QED BY <1>same, <2>1, <2>2
<1> QED
  BY <1>1, <1>2, <1>3, <1>4, <1>5, <1>6, <1>7, <1>8, <1>9, <1>10, <1>11, <1>12, <1>13, <1>14,
     <1>15, <1>16, <1>17, <1>18, <1>19 DEF Next, Request, Execute

(***************************************************************************)
(* When all is done, an activity whose date has come has the recipients of *)
(* the audience last saved, for any number of updates that overlap with    *)
(* executions and retries, unless an execution began before its request    *)
(* had committed, or the job was lost in one of the ways that              *)
(* PublishedAsSaved names.                                                 *)
(***************************************************************************)
THEOREM PublishedLastSaved == Spec => []PublishedAsSaved
<1>1. SavedInv => PublishedAsSaved
  BY DEF SavedInv, PublishedAsSaved, Quiet, Due, Changing, ToPublish, Waiting, BeingPublished,
         Published, Committed
<1>2. Init => RetryInv /\ RequestsInv /\ MessagesInv /\ SavedInv
  BY InitRetryInv, InitRequestsInv, InitMessagesInv, InitSavedInv
<1>3. RetryInv /\ RequestsInv /\ MessagesInv /\ SavedInv /\ [Next]_vars
        => RetryInv' /\ RequestsInv' /\ MessagesInv' /\ SavedInv'
  BY StepRetryInv, StepRequestsInv, StepMessagesInv, StepSavedInv DEF RetryInv
<1> QED BY <1>1, <1>2, <1>3, PTL DEF Spec

-------------------------------------------------------------------------------
(***************************************************************************)
(* Past when sent.  SENT_COUNT counts the recipients that are marked as    *)
(* sent; who is not marked yet has a message, or will get one, or the      *)
(* execution has still to come to it.  Nobody is marked before.            *)
(***************************************************************************)
SentTo == {u \in Users : recipient[u] = "sent"}

Pending == {u \in Users : recipient[u] = "pending"}

WithMessage == {u \in Users : queued[u] > 0}

Fresh == NothingSent /\ SentTo = {}

(* How far the execution is says who is marked, and who has a message. *)
ProcessedSoFar ==
  exec # None =>
    /\ exec.pc \in {"audience", "find", "recipients", "mute"} => Fresh
    /\ exec.pc = "send" => Pending \subseteq exec.unmuted
    /\ exec.pc = "count" => Pending \subseteq WithMessage

(* Between requests: a job that waits is the first to publish; without one, all is sent and counted. *)
CountedAtRest ==
  ~Changing =>
    /\ Waiting => exec = None /\ Fresh
    /\ job = None /\ exec = None =>
         Pending \subseteq WithMessage /\ audienceSize = Cardinality(Committed)

PastInv ==
  harm = {} =>
    /\ exists = "no" => Recipients = {} /\ sentCount = 0
    /\ exists = "yes" => sentCount = Cardinality(SentTo) /\ ProcessedSoFar /\ CountedAtRest

LEMMA InitPastInv == Init => PastInv
BY DEF Init, PastInv, Recipients

LEMMA NobodySent == Cardinality({}) = 0
BY FS_EmptySet

(* markProcessed adds to SENT_COUNT as many as it marks. *)
LEMMA MarkProcessedCounts ==
  ASSUME TypeOK, NEW S \in SUBSET Users, MarkProcessed(S), sentCount = Cardinality(SentTo)
  PROVE  /\ sentCount' = Cardinality(SentTo')
         /\ Pending' = Pending \ S
<1> DEFINE marked == {u \in S : recipient[u] = "pending"}
<1>1. /\ recipient' = [u \in Users |-> IF u \in marked THEN "sent" ELSE recipient[u]]
      /\ sentCount' = sentCount + Cardinality(marked)
  BY DEF MarkProcessed
<1>2. SentTo' = SentTo \cup marked /\ Pending' = Pending \ S /\ SentTo \cap marked = {}
  BY <1>1 DEF SentTo, Pending
<1>3. IsFiniteSet(SentTo) /\ IsFiniteSet(marked)
  <2>1. SentTo \in SUBSET Users /\ marked \in SUBSET Users
    BY DEF SentTo
  <2> QED BY <2>1, FiniteUsersAssumption, FS_Subset
<1>4. Cardinality(SentTo \cup marked) = Cardinality(SentTo) + Cardinality(marked)
  <2> HIDE DEF marked
  <2>1. Cardinality(SentTo) \in Nat /\ Cardinality(marked) \in Nat
    BY <1>3, FS_CardinalityType
  <2>2. Cardinality(SentTo \cup marked)
          = Cardinality(SentTo) + Cardinality(marked) - Cardinality(SentTo \cap marked)
    BY <1>3, FS_Union
  <2>3. Cardinality(SentTo \cap marked) = 0
    BY <1>2, NobodySent
  <2> QED BY <2>1, <2>2, <2>3
<1> QED BY <1>1, <1>2, <1>4

LEMMA StepPastInv ==
  RetryInv /\ RequestsInv /\ MessagesInv /\ SavedInv /\ PastInv /\ [Next]_vars => PastInv'
<1> SUFFICES ASSUME RetryInv, RequestsInv, MessagesInv, SavedInv, PastInv, [Next]_vars, harm' = {}
    PROVE  /\ exists' = "no" => Recipients' = {} /\ sentCount' = 0
           /\ exists' = "yes" =>
                sentCount' = Cardinality(SentTo') /\ ProcessedSoFar' /\ CountedAtRest'
  BY DEF PastInv
<1> DEFINE Goal == /\ exists' = "no" => Recipients' = {} /\ sentCount' = 0
                   /\ exists' = "yes" =>
                        sentCount' = Cardinality(SentTo') /\ ProcessedSoFar' /\ CountedAtRest'
<1>t. TypeOK /\ harm = {} /\ BeforeCommit
  BY HarmStays DEF RetryInv, MessagesInv
<1>n. \A u \in Users : queued[u] \in Nat /\ handed[u] \in Nat
  BY <1>t DEF TypeOK
<1>p. /\ exists = "no" => Recipients = {} /\ sentCount = 0
      /\ exists = "yes" => sentCount = Cardinality(SentTo) /\ ProcessedSoFar /\ CountedAtRest
  BY <1>t DEF PastInv
<1>s. /\ exists = "no" => exec = None /\ pc[Creator] # "done"
      /\ exists # "deleted" =>
           \A r \in Requests :
             /\ pc[r] = "unscheduled" => job = None
             /\ pc[r] = "scheduled" => Waiting /\ job.audience = r
      /\ exists = "yes" /\ ~Changing => ToPublish \/ BeingPublished \/ Published
  BY <1>t DEF SavedInv
(* Where nobody is marked and no message is sent or handed over. *)
<1>marks. ASSUME UNCHANGED <<recipient, queued, handed>>
          PROVE  /\ Recipients' = Recipients /\ SentTo' = SentTo /\ Pending' = Pending
                 /\ WithMessage' = WithMessage /\ (NothingSent' <=> NothingSent)
                 /\ (Fresh' <=> Fresh)
  BY <1>marks DEF Recipients, SentTo, Pending, WithMessage, NothingSent, Fresh
(* A step that leaves the publication alone, of a request that does not commit. *)
<1>same. ASSUME UNCHANGED <<exists, audienceSize, sentCount, recipient, queued, handed, exec>>,
                Changing' \/ UNCHANGED <<job, audienceId, audience>>,
                ~Changing' => ~Changing
         PROVE  Goal
  <2>1. ProcessedSoFar => ProcessedSoFar'
    BY <1>same, <1>marks DEF ProcessedSoFar
  <2>2. CountedAtRest => CountedAtRest'
    BY <1>same, <1>marks DEF CountedAtRest, Waiting, Committed
  <2> QED BY <1>same, <1>marks, <1>p, <2>1, <2>2
<1>1. CASE Tick \/ UNCHANGED vars
  BY <1>1, <1>same DEF Tick, vars, saved, messages, requests, Changing
<1>2. ASSUME NEW r \in Requests, Save(r) \/ Check(r) \/ Update(r) PROVE Goal
  <2>1. /\ UNCHANGED <<exists, audience, audienceId, audienceSize, sentCount, recipient, queued,
                       handed, job, exec>>
        /\ pc[r] \in {"idle", "checked"}
        /\ \E place \in {"checked", "written", "unscheduled"} : pc' = [pc EXCEPT ![r] = place]
    BY <1>2 DEF Save, Check, Update, Goto, saved, messages
  <2>2. ~Changing' => ~Changing
    BY <1>t, <2>1 DEF Changing, TypeOK
  <2> QED BY <1>same, <2>1, <2>2
<1>3. ASSUME NEW r \in Requests, Unschedule(r) \/ Schedule(r) PROVE Goal
  <2>1. /\ UNCHANGED <<exists, audienceSize, sentCount, recipient, queued, handed, exec>>
        /\ \E place \in {"unscheduled", "scheduled"} : pc' = [pc EXCEPT ![r] = place]
    BY <1>3 DEF Unschedule, Schedule, Goto, saved, messages
  <2>2. Changing'
    BY <1>t, <2>1 DEF Changing, TypeOK
  <2> QED BY <1>same, <2>1, <2>2
(* An update that is not "raced" commits when nothing has been published yet. *)
<1>4. ASSUME NEW r \in Requests, Commit(r) PROVE Goal
  <2>1. pc[r] = "scheduled" /\ UNCHANGED <<sentCount, recipient, queued, handed, job, exec>>
    BY <1>4 DEF Commit, messages
  <2>2. CASE exists = "deleted"
    BY <1>4, <2>2 DEF Commit
  <2>3. CASE exists # "deleted"
    <3>1. exists' = "yes" /\ Happened("raced", op[r] = "update" /\ Publishing)
      BY <1>4, <2>3 DEF Commit
    <3>2. Waiting /\ Waiting'
      BY <1>s, <2>1, <2>3 DEF Waiting
    <3>3. exec = None /\ NothingSent /\ Recipients = {}
      <4>1. CASE exists = "no"
        BY <1>p, <1>s, <1>t, <4>1 DEF BeforeCommit
      <4>2. CASE exists = "yes"
        <5>1. op[r] = "update"
          BY <2>1, <4>2 DEF RequestsInv, InTransaction
        <5>2. ~Publishing
          BY <3>1, <5>1 DEF Happened
        <5> QED BY <1>n, <5>2 DEF Publishing, NothingSent, Recipients
      <4> QED BY <1>t, <2>3, <4>1, <4>2 DEF TypeOK
    <3>4. SentTo = {}
      BY <3>3 DEF Recipients, SentTo
    <3>5. sentCount = 0
      BY <1>p, <1>t, <2>3, <3>4, NobodySent DEF TypeOK
    <3>6. SentTo' = {} /\ Fresh' /\ exec' = None
      BY <1>marks, <2>1, <3>3, <3>4 DEF Fresh
    <3>7. ProcessedSoFar' /\ CountedAtRest'
      BY <3>2, <3>6 DEF ProcessedSoFar, CountedAtRest, Waiting
    <3> QED BY <2>1, <3>1, <3>5, <3>6, <3>7, NobodySent
  <2> QED BY <2>2, <2>3
<1>5. ASSUME NEW r \in Requests, Delete(r) \/ UnscheduleDeleted(r) PROVE Goal
  <2>1. exists' = "deleted"
    BY <1>5 DEF Delete, UnscheduleDeleted, RequestsInv, saved
  <2> QED BY <2>1
<1>6. ASSUME NEW r \in Requests, Abort(r) PROVE Goal
  <2>1. /\ pc[r] \notin {"unscheduled", "scheduled"} /\ pc' = [pc EXCEPT ![r] = "done"]
        /\ UNCHANGED <<exists, audience, audienceId, audienceSize, sentCount, recipient, queued,
                       handed, job, exec>>
    BY <1>6 DEF Abort, Goto, Happened, saved, messages
  <2>2. ~Changing' => ~Changing
    BY <1>t, <2>1 DEF Changing, TypeOK
  <2> QED BY <1>same, <2>1, <2>2
<1>7. CASE Start
  <2>1. /\ exec' # None /\ exec'.pc = "audience" /\ job' # None /\ job'.at = Fired /\ exec = None
        /\ UNCHANGED <<exists, sentCount, recipient, queued, handed, pc>>
    BY <1>7, <1>t, StartsExecution DEF Start, saved, messages, requests
  <2>2. CASE exists = "deleted"
    BY <2>1, <2>2
  <2>3. CASE exists # "deleted"
    <3>1. exists = "yes" /\ ~Changing /\ Waiting
      BY <1>7, <1>t, <2>3, StartsCommitted DEF ToPublish
    <3>2. Fresh
      BY <1>p, <3>1 DEF CountedAtRest
    <3>3. ProcessedSoFar' /\ CountedAtRest'
      BY <1>marks, <2>1, <3>2 DEF ProcessedSoFar, CountedAtRest, Waiting
    <3> QED BY <1>marks, <1>p, <2>1, <3>1, <3>3
  <2> QED BY <2>2, <2>3
(* While an execution goes on, no job waits unless a request is changing it. *)
<1>goes. ASSUME exec # None, exec' # None, UNCHANGED <<exists, job, pc>>,
                exists = "yes" => sentCount' = Cardinality(SentTo') /\ ProcessedSoFar'
         PROVE  Goal
  <2>1. exists # "no"
    BY <1>goes, <1>s
  <2>2. exists = "yes" => CountedAtRest'
    BY <1>goes, <1>p DEF CountedAtRest, Waiting, Changing
  <2> QED BY <1>goes, <2>1, <2>2
<1>8. CASE LoadAudience
  <2>1. /\ exec' # None /\ exec'.pc = "find" /\ exec # None /\ exec.pc = "audience"
        /\ UNCHANGED <<exists, sentCount, recipient, queued, handed, job, pc>>
    BY <1>8, <1>t, LoadsAudience DEF LoadAudience, saved, messages, requests
  <2>2. ProcessedSoFar => ProcessedSoFar'
    BY <1>marks, <2>1 DEF ProcessedSoFar
  <2> QED BY <1>goes, <1>marks, <1>p, <2>1, <2>2
<1>9. CASE FindActivity
  <2>1. /\ exec # None /\ exec.pc = "find"
        /\ UNCHANGED <<exists, sentCount, recipient, queued, handed, pc>>
    BY <1>9 DEF FindActivity, saved, messages, requests
  <2>2. CASE exists = "yes"
    <3>1. exec' # None /\ exec'.pc = "recipients" /\ job' = job
      BY <1>9, <1>t, <2>2, FindsActivity
    <3>2. ProcessedSoFar => ProcessedSoFar'
      BY <1>marks, <2>1, <3>1 DEF ProcessedSoFar
    <3> QED BY <1>goes, <1>marks, <1>p, <2>1, <3>1, <3>2
  <2>3. CASE exists # "yes"
    BY <1>s, <2>1, <2>3
  <2> QED BY <2>2, <2>3
<1>10. CASE SetRecipients
  <2>1. /\ exec' # None /\ exec'.pc = "mute" /\ exec # None /\ exec.pc = "recipients"
        /\ UNCHANGED <<exists, sentCount, queued, handed, job, pc>>
        /\ recipient' = [u \in Users |-> IF u \in exec.users THEN "pending" ELSE "none"]
    BY <1>10, <1>t, SetsRecipients DEF SetRecipients, saved, requests
  <2>2. exists = "yes" => NothingSent /\ sentCount = 0
    BY <1>p, <2>1, NobodySent DEF ProcessedSoFar, Fresh
  <2>3. SentTo' = {}
    BY <2>1 DEF SentTo
  <2>4. exists = "yes" => ProcessedSoFar'
    BY <2>1, <2>2, <2>3 DEF ProcessedSoFar, Fresh, NothingSent
  <2> QED BY <1>goes, <2>1, <2>2, <2>3, <2>4, NobodySent
<1>11. CASE MarkMuted
  <2>1. /\ exec' # None /\ exec'.pc = "send" /\ exec # None /\ exec.pc = "mute"
        /\ exec.users \in SUBSET Users
        /\ MarkProcessed(exec.users \ exec'.unmuted)
        /\ UNCHANGED <<exists, queued, handed, job, pc>>
    BY <1>11, <1>t, MarksMuted DEF MarkMuted, saved, requests
  <2>2. ASSUME exists = "yes" PROVE sentCount' = Cardinality(SentTo') /\ ProcessedSoFar'
    <3>1. sentCount = Cardinality(SentTo) /\ Pending \subseteq exec.users
      BY <1>p, <2>1, <2>2 DEF SavedInv, RecipientsSet, Recipients, Pending
    <3>2. exec.users \ exec'.unmuted \in SUBSET Users
      BY <2>1
    <3>3. sentCount' = Cardinality(SentTo') /\ Pending' = Pending \ (exec.users \ exec'.unmuted)
      BY <1>t, <2>1, <3>1, <3>2, MarkProcessedCounts
    <3>4. Pending' \subseteq exec'.unmuted
      BY <3>1, <3>3
    <3> QED BY <2>1, <3>3, <3>4 DEF ProcessedSoFar
  <2> QED BY <1>goes, <2>1, <2>2
<1>12. CASE InsertMessages
  <2>1. /\ exec' # None /\ exec'.pc = "count" /\ exec # None /\ exec.pc = "send"
        /\ queued' = [u \in Users |-> queued[u] + IF u \in exec.unmuted THEN 1 ELSE 0]
        /\ UNCHANGED <<exists, sentCount, recipient, handed, job, pc>>
    BY <1>12, <1>t, InsertsMessages DEF InsertMessages, saved, requests
  <2>2. SentTo' = SentTo /\ Pending' = Pending
    BY <2>1 DEF SentTo, Pending
  <2>3. \A u \in exec.unmuted \cap Users : u \in WithMessage'
    BY <1>n, <2>1 DEF WithMessage
  <2>4. exists = "yes" => Pending' \subseteq WithMessage'
    BY <1>p, <2>1, <2>2, <2>3 DEF ProcessedSoFar, Pending
  <2>5. exists = "yes" => ProcessedSoFar'
    BY <2>1, <2>4 DEF ProcessedSoFar
  <2> QED BY <1>goes, <1>p, <2>1, <2>2, <2>5
<1>13. CASE CountAudience
  <2>1. /\ exec # None /\ exec.pc = "count" /\ exec' = None
        /\ job' = IF job # None /\ job.at = Fired THEN None ELSE job
        /\ audienceSize' = IF exists = "yes" THEN Cardinality(exec.users) ELSE audienceSize
        /\ UNCHANGED <<exists, audience, audienceId, sentCount, recipient, queued, handed, pc>>
    BY <1>13 DEF CountAudience, EndExecution, JobDone, saved, messages, requests
  <2>2. exists # "no"
    BY <1>s, <2>1
  <2>3. ASSUME exists = "yes", ~Changing PROVE BeingPublished /\ Pending \subseteq WithMessage
    <3>1. ~Waiting /\ Pending \subseteq WithMessage
      BY <1>p, <2>1, <2>3 DEF CountedAtRest, ProcessedSoFar
    <3> QED BY <1>s, <2>1, <2>3, <3>1 DEF ToPublish, Published
  <2>4. ASSUME exists = "yes" PROVE CountedAtRest'
    <3> SUFFICES ASSUME ~Changing
        PROVE  /\ ~Waiting'
               /\ Pending' \subseteq WithMessage' /\ audienceSize' = Cardinality(Committed')
      BY <2>1 DEF CountedAtRest, Changing
    <3>1. job # None /\ job.at = Fired /\ exec.users = Committed /\ Pending \subseteq WithMessage
      BY <2>1, <2>3, <2>4 DEF BeingPublished
    <3> QED BY <1>marks, <2>1, <2>4, <3>1 DEF Waiting, Committed
  <2> QED BY <1>marks, <1>p, <2>1, <2>2, <2>4 DEF ProcessedSoFar
<1>14. CASE Unresolved \/ NodeDies
  BY <1>14 DEF Unresolved, NodeDies, Happened
(* A retry that is not "repeated" finds everything as the failed execution did. *)
<1>15. CASE ExecutionThrows \/ RecipientsRefused
  <2>1. PICK b \in BOOLEAN : exec # None /\ MaybeRetryJob(b)
    BY <1>15 DEF ExecutionThrows, RecipientsRefused
  <2>2. /\ exec' = None
        /\ job' # None /\ exec.pc \in {"send", "count"} => FALSE
        /\ \/ job = None /\ job' = None
           \/ job # None /\ job.at = Fired /\ job' # None
    BY <1>t, <2>1, MaybeRetryJobType, MaybeRetryJobHarm
  <2>3. UNCHANGED <<exists, audience, audienceId, audienceSize, sentCount, recipient, queued,
                    handed, pc>>
    BY <1>15 DEF ExecutionThrows, RecipientsRefused, saved, messages, requests
  <2>4. exists # "no"
    BY <1>s, <2>1
  <2>5. exec.pc \in Steps
    BY <1>t, <2>1 DEF TypeOK, Executions
  <2>6. ASSUME exists = "yes" PROVE CountedAtRest'
    <3> SUFFICES ASSUME ~Changing PROVE job' # None /\ Fresh'
      BY <2>2, <2>3 DEF CountedAtRest, Changing, Waiting
    <3>1. job # None
      BY <1>s, <2>1, <2>6 DEF ToPublish, Waiting, BeingPublished, Published
    <3>2. job' # None /\ exec.pc \in {"audience", "find", "recipients", "mute"}
      BY <2>2, <2>5, <3>1 DEF Steps
    <3>3. Fresh
      BY <1>p, <2>1, <2>6, <3>2 DEF ProcessedSoFar
    <3> QED BY <1>marks, <2>3, <3>2, <3>3
  <2> QED BY <1>marks, <1>p, <2>2, <2>3, <2>4, <2>6 DEF ProcessedSoFar
<1>16. ASSUME NEW u \in Users, Deliver(u) PROVE Goal
  <2>1. /\ queued[u] > 0 /\ queued' = [queued EXCEPT ![u] = @ - 1]
        /\ UNCHANGED <<exists, audience, audienceId, audienceSize, job, exec, pc>>
        /\ exists = "yes" => MarkProcessed({u})
    BY <1>16 DEF Deliver, saved, requests
  <2>2. ~NothingSent /\ ~Fresh
    BY <1>n, <2>1 DEF NothingSent, Fresh
  <2>3. exists # "no"
    BY <1>t, <2>2 DEF BeforeCommit
  <2>4. ASSUME exists = "yes" PROVE sentCount' = Cardinality(SentTo') /\ ProcessedSoFar' /\ CountedAtRest'
    <3>1. {u} \in SUBSET Users
      OBVIOUS
    <3>2. sentCount' = Cardinality(SentTo') /\ Pending' = Pending \ {u}
      BY <1>p, <1>t, <2>1, <2>4, <3>1, MarkProcessedCounts
    <3>3. WithMessage \ {u} \subseteq WithMessage'
      BY <1>t, <2>1 DEF WithMessage, TypeOK
    <3>4. Pending \subseteq WithMessage => Pending' \subseteq WithMessage'
      BY <3>2, <3>3
    <3>5. ProcessedSoFar'
      BY <1>p, <2>1, <2>2, <2>4, <3>2, <3>4 DEF ProcessedSoFar
    <3>6. CountedAtRest'
      BY <1>p, <2>1, <2>2, <2>4, <3>4 DEF CountedAtRest, Waiting, Changing, Committed
    <3> QED BY <3>2, <3>5, <3>6
  <2> QED BY <2>1, <2>3, <2>4
<1> QED
  BY <1>1, <1>2, <1>3, <1>4, <1>5, <1>6, <1>7, <1>8, <1>9, <1>10, <1>11, <1>12, <1>13, <1>14,
     <1>15, <1>16 DEF Next, Request, Execute

(***************************************************************************)
(* Once its messages are out, SENT_COUNT of a published activity is the    *)
(* size of its audience, for every number of users, some of whom may have  *)
(* muted it: unless something has gone wrong that the history names.       *)
(***************************************************************************)
THEOREM SentMakesPast == Spec => []PastWhenSent
<1>1. ASSUME TypeOK, SavedInv, PastInv,
             Quiet, Due, \A u \in Users : queued[u] = 0, harm = {}
      PROVE  sentCount = audienceSize
  <2>1. ~Changing /\ exists = "yes" /\ job = None /\ exec = None
    BY <1>1 DEF Quiet, Due, Changing
  <2>2. Recipients = Committed
    BY <1>1, <2>1 DEF SavedInv, ToPublish, Waiting, BeingPublished, Published
  <2>3. /\ sentCount = Cardinality(SentTo)
        /\ Pending \subseteq WithMessage /\ audienceSize = Cardinality(Committed)
    BY <1>1, <2>1 DEF PastInv, CountedAtRest
  <2>4. Pending = {}
    BY <1>1, <2>3 DEF Pending, WithMessage
  <2>5. SentTo = Recipients
    BY <1>1, <2>4 DEF SentTo, Recipients, Pending, TypeOK
  <2> QED BY <2>2, <2>3, <2>5
<1>2. RetryInv /\ SavedInv /\ PastInv => PastWhenSent
  BY <1>1 DEF RetryInv, PastWhenSent
<1>3. Init => RetryInv /\ RequestsInv /\ MessagesInv /\ SavedInv /\ PastInv
  BY InitRetryInv, InitRequestsInv, InitMessagesInv, InitSavedInv, InitPastInv
<1>4. RetryInv /\ RequestsInv /\ MessagesInv /\ SavedInv /\ PastInv /\ [Next]_vars
        => RetryInv' /\ RequestsInv' /\ MessagesInv' /\ SavedInv' /\ PastInv'
  BY StepRetryInv, StepRequestsInv, StepMessagesInv, StepSavedInv, StepPastInv DEF RetryInv
<1> QED BY <1>2, <1>3, <1>4, PTL DEF Spec

-------------------------------------------------------------------------------
(***************************************************************************)
(* Without failures.  A request that has unscheduled the job is the only   *)
(* one that can schedule it, while the activity is there, and an execution *)
(* under way cannot bring it back; so that no schedulePublishJob fails.    *)
(***************************************************************************)
NoFailure == faults = 0 /\ exists # "deleted"

OnlyRaces ==
  NoFailure =>
    /\ harm \subseteq {"early", "raced"}
    /\ \A r \in Requests : pc[r] = "unscheduled" => job = None

LEMMA InitOnlyRaces == Init => OnlyRaces
BY DEF Init, OnlyRaces

LEMMA StepOnlyRaces ==
  RetryInv /\ RequestsInv /\ MessagesInv /\ OnlyRaces /\ [Next]_vars => OnlyRaces'
<1> SUFFICES ASSUME RetryInv, RequestsInv, MessagesInv, OnlyRaces, [Next]_vars, NoFailure'
    PROVE  /\ harm' \subseteq {"early", "raced"}
           /\ \A r \in Requests : pc'[r] = "unscheduled" => job' = None
  BY DEF OnlyRaces
<1> DEFINE Goal == /\ harm' \subseteq {"early", "raced"}
                   /\ \A r \in Requests : pc'[r] = "unscheduled" => job' = None
<1>t. TypeOK /\ BeforeCommit
  BY DEF RetryInv, MessagesInv
<1>n. faults \in Nat
  BY <1>t, BoundsAssumption DEF TypeOK
(* Neither a failure nor a delete is undone. *)
<1>c. /\ NoFailure
      /\ harm \subseteq {"early", "raced"}
      /\ \A r \in Requests : pc[r] = "unscheduled" => job = None
  <2>1. faults = 0
    <3>1. faults' = faults \/ faults' = faults + 1
      <4>1. ASSUME Fault PROVE faults' = faults + 1
        BY <4>1 DEF Fault
      <4> HIDE DEF Fault
      <4>2. CASE Tick \/ Start \/ UNCHANGED vars
        BY <4>2 DEF Tick, Start, vars
      <4>3. ASSUME NEW r \in Requests, Save(r) \/ Check(r) \/ Request(r) \/ Abort(r)
            PROVE  faults' = faults \/ faults' = faults + 1
        BY <4>1, <4>3 DEF Save, Check, Request, Update, Unschedule, Schedule, Commit, Counted, Delete,
           UnscheduleDeleted, Abort
      <4>4. CASE Execute
        BY <4>4 DEF Execute, LoadAudience, FindActivity, SetRecipients, RecipientsRefused, MarkMuted,
           InsertMessages, CountAudience
      <4>5. CASE Unresolved \/ NodeDies \/ ExecutionThrows
        BY <4>1, <4>5 DEF Unresolved, NodeDies, ExecutionThrows
      <4>6. ASSUME NEW u \in Users, Deliver(u) PROVE faults' = faults
        BY <4>6 DEF Deliver
      <4> QED BY <4>2, <4>3, <4>4, <4>5, <4>6 DEF Next
    <3> QED BY <1>n, <3>1 DEF NoFailure
  <2>2. exists # "deleted"
    BY DEF NoFailure, Next, vars, Tick, Save, Check, Request, Update, Unschedule, Schedule,
       Commit, Delete, UnscheduleDeleted, Abort, Start, Execute, LoadAudience, FindActivity,
       SetRecipients, RecipientsRefused, MarkMuted, InsertMessages, CountAudience, Unresolved,
       NodeDies, ExecutionThrows, Deliver, saved, requests
  <2> QED BY <2>1, <2>2 DEF OnlyRaces, NoFailure
<1>0. ASSUME UNCHANGED <<job, harm, pc>> PROVE Goal
  BY <1>0, <1>c
<1>1. ASSUME NEW r \in Requests, Save(r) PROVE Goal
  <2>1. r = Creator /\ exists = "no" /\ job = None
    BY <1>1, <1>t DEF Save, BeforeCommit, RequestsInv, TypeOK
  <2> QED BY <1>1, <1>c, <1>t, <2>1 DEF Save, Goto, TypeOK
<1>2. ASSUME NEW r \in Requests, Check(r) \/ Update(r) \/ Delete(r) \/ Commit(r) PROVE Goal
  BY <1>2, <1>c, <1>t DEF Check, Update, Delete, Commit, Goto, Happened, TypeOK
<1>3. ASSUME NEW r \in Requests, Unschedule(r) \/ UnscheduleDeleted(r) PROVE Goal
  BY <1>3, <1>c DEF Unschedule, UnscheduleDeleted
<1>4. ASSUME NEW r \in Requests, Schedule(r) PROVE Goal
  <2>1. \A s \in Requests : pc[s] = "unscheduled" => s = r
    BY <1>4, <1>c, <1>t, OneInTransaction DEF Schedule, InTransaction, NoFailure
  <2> QED BY <1>4, <1>c, <1>t, <2>1 DEF Schedule, Goto, TypeOK
<1>5. ASSUME NEW r \in Requests, Abort(r) PROVE Goal
  BY <1>5, <1>c, <1>n DEF Abort, Fault, NoFailure
<1>6. CASE Start
  <2>1. job # None
    BY <1>6 DEF Start
  <2> QED BY <1>6, <1>c, <2>1 DEF Start, Happened, requests
(* The end of an execution creates no job. *)
<1>7. ASSUME EndExecution, UNCHANGED <<harm, pc>> PROVE Goal
  BY <1>7, <1>c DEF EndExecution, JobDone
<1>8. CASE FindActivity \/ CountAudience
  BY <1>7, <1>8, <1>0 DEF FindActivity, CountAudience, requests
<1>9. CASE RecipientsRefused
  <2>1. exists = "no" /\ exec # None /\ exec.users # {}
    BY <1>9, <1>c, <1>t DEF RecipientsRefused, NoFailure, TypeOK
  <2> QED BY <1>t, <2>1 DEF BeforeCommit
<1>10. CASE Unresolved \/ NodeDies \/ ExecutionThrows
  BY <1>10, <1>c, <1>n DEF Unresolved, NodeDies, ExecutionThrows, Fault, NoFailure
<1>11. CASE Tick \/ UNCHANGED vars
  BY <1>11, <1>0 DEF Tick, vars, requests
<1>12. CASE LoadAudience \/ SetRecipients \/ MarkMuted \/ InsertMessages
  BY <1>12, <1>0 DEF LoadAudience, SetRecipients, MarkMuted, InsertMessages, requests
<1>13. ASSUME NEW u \in Users, Deliver(u) PROVE Goal
  BY <1>13, <1>0 DEF Deliver, requests
<1> QED
  BY <1>1, <1>2, <1>3, <1>4, <1>5, <1>6, <1>8, <1>9, <1>10, <1>11, <1>12, <1>13
     DEF Next, Request, Execute

(***************************************************************************)
(* Without failures, and as long as nobody deletes the activity, two       *)
(* things only can go wrong: that Quartz runs a job before the commit of   *)
(* the request, and that an update comes while or after it is published.   *)
(* Without the second no user gets two messages, without the first the     *)
(* recipients are those of the audience last saved.                        *)
(***************************************************************************)
THEOREM OnlyTwoRaces ==
  Spec => [](NoFailure =>
               /\ harm \subseteq {"early", "raced"}
               /\ "raced" \notin harm => \A u \in Users : queued[u] + handed[u] <= 1
               /\ "early" \notin harm /\ Quiet /\ Due => Recipients = audience[audienceId])
<1> DEFINE Claim == NoFailure =>
               /\ harm \subseteq {"early", "raced"}
               /\ "raced" \notin harm => \A u \in Users : queued[u] + handed[u] <= 1
               /\ "early" \notin harm /\ Quiet /\ Due => Recipients = audience[audienceId]
<1>1. OnlyRaces /\ OneMessageEach /\ PublishedAsSaved => Claim
  BY DEF OnlyRaces, OneMessageEach, PublishedAsSaved
<1>2. Init => RetryInv /\ RequestsInv /\ MessagesInv /\ OnlyRaces
  BY InitRetryInv, InitRequestsInv, InitMessagesInv, InitOnlyRaces
<1>3. RetryInv /\ RequestsInv /\ MessagesInv /\ OnlyRaces /\ [Next]_vars
        => RetryInv' /\ RequestsInv' /\ MessagesInv' /\ OnlyRaces'
  BY StepRetryInv, StepRequestsInv, StepMessagesInv, StepOnlyRaces DEF RetryInv
<1>4. Spec => []OnlyRaces
  BY <1>2, <1>3, PTL DEF Spec
<1> QED BY <1>1, <1>4, SentOnce, PublishedLastSaved, PTL

===============================================================================
