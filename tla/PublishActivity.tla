---------------------------- MODULE PublishActivity ----------------------------
(***************************************************************************)
(* The life of one activity: the requests that save, update and delete it, *)
(* the Quartz job that publishes it, the retries of that job, and the      *)
(* messages that publishing it gives to the queue.                         *)
(*                                                                         *)
(* Quartz uses JobStoreTX: what a request does to the job is committed at  *)
(* once, on a connection of its own, while the request's own transaction   *)
(* is still open.  The steps of a request, of the job and of the workers   *)
(* interleave; each action is one transaction, or one call to Quartz.      *)
(***************************************************************************)
EXTENDS Integers, FiniteSets

CONSTANTS
  Users,        \* usercodes
  Requests,     \* calls of ActivityService about the activity, one each
  Creator,      \* the call of save; the others are of update and delete
  RetryTimes,   \* quartz.job.retryAttempts
  MaxTime,      \* bound on the clock
  MaxFaults,    \* bound on failures in one behaviour
  None          \* nothing

ASSUME RequestsAssumption == Creator \in Requests /\ None \notin Requests

ASSUME BoundsAssumption == RetryTimes \in Nat /\ MaxTime \in Nat /\ MaxFaults \in Nat

ASSUME FiniteUsersAssumption == IsFiniteSet(Users)

Times == 0..MaxTime
Fired == MaxTime + 1       \* instead of a time: the trigger has fired
NoAttempts == -1           \* no FAILED_ATTEMPTS in the job's data

(* A request saves at most one audience; the request stands for the UUID of the audience. *)
Audiences == Requests

(* What Quartz stores of a job, and where an execution of it is. *)
Steps == {"audience", "find", "recipients", "mute", "send", "count"}
Attempts == Nat \cup {NoAttempts}
Jobs == [audience : Audiences, attempts : Attempts, at : 0..Fired]
Executions == [pc : Steps, audience : Audiences, attempts : Attempts,
               users : SUBSET Users, unmuted : SUBSET Users]

ASSUME NoneAssumption == None \notin Jobs \cup Executions

VARIABLES
  now,          \* the clock
  exists,       \* the ACTIVITY row: "no", "yes" or "deleted"
  publishedAt,  \* ACTIVITY.PUBLISHED_AT
  audienceId,   \* ACTIVITY.AUDIENCE_ID
  audienceSize, \* ACTIVITY.AUDIENCE_SIZE
  sentCount,    \* ACTIVITY.SENT_COUNT
  audience      \* the users that the AUDIENCE_COMPONENT rows of an audience resolve to

saved == <<exists, publishedAt, audienceId, audience>>

VARIABLES
  recipient,    \* ACTIVITY_RECIPIENT: no row, SENT_AT null, SENT_AT set
  queued,       \* MESSAGE_SEND rows of each user that wait for a worker
  handed        \* messages of each user that workers handed over (history)

messages == <<recipient, queued, handed>>

VARIABLES
  pc,           \* where each request is
  op,           \* what it is
  want,         \* the audience and the date it asks for
  oldAudience,  \* existingActivity.audienceId, read before its transaction
  lock          \* the request whose open transaction has changed the ACTIVITY row

requests == <<pc, op, want, oldAudience, lock>>

VARIABLES
  job,          \* the activity's job in Quartz: None, or its data and its trigger
  exec,         \* the execution of the job: None, or where it is and what it has read
  tries,        \* executions of the job since it was scheduled (history)
  harm,         \* what has gone wrong: "early", "raced", "lost", "repeated" (history)
  faults        \* failures so far

vars == <<now, saved, audienceSize, sentCount, messages, requests, job, exec, tries, harm, faults>>

Fault == faults < MaxFaults /\ faults' = faults + 1

(* Whether a publication has begun: an execution runs, has set recipients or has sent. *)
Publishing == exec # None \/ \E u \in Users : recipient[u] # "none" \/ queued[u] + handed[u] > 0

Happened(what, condition) == harm' = IF condition THEN harm \cup {what} ELSE harm

-------------------------------------------------------------------------------
Init ==
  /\ now = 0
  /\ exists = "no"
  /\ publishedAt = 0
  /\ audienceId = None
  /\ audienceSize = 0
  /\ sentCount = 0
  /\ audience = [a \in Audiences |-> {}]
  /\ recipient = [u \in Users |-> "none"]
  /\ queued = [u \in Users |-> 0]
  /\ handed = [u \in Users |-> 0]
  /\ pc = [r \in Requests |-> "idle"]
  /\ op = [r \in Requests |-> None]
  /\ want = [r \in Requests |-> [users |-> {}, date |-> 0]]
  /\ oldAudience = [r \in Requests |-> None]
  /\ lock = None
  /\ job = None
  /\ exec = None
  /\ tries = 0
  /\ harm = {}
  /\ faults = 0

(* Dates in the code have milliseconds: a date equal to the clock counts as passed. *)
Tick ==
  /\ now < MaxTime
  /\ now' = now + 1
  /\ UNCHANGED <<saved, audienceSize, sentCount, messages, requests, job, exec, tries, harm, faults>>

-------------------------------------------------------------------------------
(***************************************************************************)
(* Requests.                                                               *)
(*   save:    "idle" -> "unscheduled" -> "scheduled" -> "done"             *)
(*   update:  "idle" -> "checked" -> "written" -> "unscheduled"            *)
(*                   -> "scheduled" -> "done"                              *)
(*   delete:  "idle" -> "checked" -> "deleted" -> "done"                   *)
(***************************************************************************)
Goto(r, place) == pc' = [pc EXCEPT ![r] = place]

(* The audience (of groups, which may have nobody in them) and the date; without a date, now. *)
Asks(r) ==
  \E users \in SUBSET Users, date \in now..MaxTime :
    want' = [want EXCEPT ![r] = [users |-> users, date |-> date]]

(* save, up to schedulePublishJob: nothing of what it inserts is visible yet. *)
Save(r) ==
  /\ pc[r] = "idle" /\ r = Creator
  /\ op' = [op EXCEPT ![r] = "save"]
  /\ Asks(r)
  /\ Goto(r, "unscheduled")
  /\ UNCHANGED <<now, saved, audienceSize, sentCount, messages, oldAudience, lock,
                 job, exec, tries, harm, faults>>

(* update and delete read the activity on a connection of its own.  What is published
   already is refused: the request ends there. *)
NotPublished == publishedAt > now

Check(r) ==
  /\ pc[r] = "idle" /\ exists = "yes" /\ NotPublished
  /\ \E kind \in {"update", "delete"} : op' = [op EXCEPT ![r] = kind]
  /\ oldAudience' = [oldAudience EXCEPT ![r] = audienceId]
  /\ Goto(r, "checked")
  /\ UNCHANGED <<now, saved, audienceSize, sentCount, messages, want, lock,
                 job, exec, tries, harm, faults>>

(* update, up to dao.update: not visible yet, but the row, if there is one, is locked.  The
   audience is always saved anew: line 109 compares it with that of a wrong id. *)
Update(r) ==
  /\ pc[r] = "checked" /\ op[r] = "update" /\ lock = None
  /\ Asks(r)
  /\ lock' = IF exists = "yes" THEN r ELSE None
  /\ Goto(r, "written")
  /\ UNCHANGED <<now, saved, audienceSize, sentCount, messages, op, oldAudience,
                 job, exec, tries, harm, faults>>

(* update: unschedulePublishJob.  An execution that has begun is not stopped. *)
Unschedule(r) ==
  /\ pc[r] = "written"
  /\ job' = None
  /\ Goto(r, "unscheduled")
  /\ UNCHANGED <<now, saved, audienceSize, sentCount, messages, op, want, oldAudience, lock,
                 exec, tries, harm, faults>>

(* schedulePublishJob: Quartz can see the job at once. *)
Schedule(r) ==
  /\ pc[r] = "unscheduled" /\ job = None
  /\ job' = [audience |-> r, attempts |-> NoAttempts, at |-> want[r].date]
  /\ tries' = 0
  /\ Goto(r, "scheduled")
  /\ UNCHANGED <<now, saved, audienceSize, sentCount, messages, op, want, oldAudience, lock,
                 exec, harm, faults>>

(* The size of an audience that does not resolve is 0. *)
Counted(users) ==
  \/ audienceSize' = Cardinality(users) /\ UNCHANGED faults
  \/ audienceSize' = 0 /\ Fault

(* The transaction of save or update commits.  If a delete came first, the UPDATE found no row. *)
Commit(r) ==
  /\ pc[r] = "scheduled"
  /\ audience' = [a \in Audiences |-> IF a = r THEN want[r].users
                                      ELSE IF a = oldAudience[r] THEN {} ELSE audience[a]]
  /\ IF exists = "deleted"
       THEN UNCHANGED <<exists, publishedAt, audienceId, audienceSize, harm, faults>>
       ELSE /\ exists' = "yes"
            /\ publishedAt' = want[r].date
            /\ audienceId' = r
            /\ Counted(want[r].users)
            /\ Happened("raced", op[r] = "update" /\ Publishing)
  /\ lock' = IF lock = r THEN None ELSE lock
  /\ Goto(r, "done")
  /\ UNCHANGED <<now, sentCount, messages, op, want, oldAudience, job, exec, tries>>

(* delete: the transaction of dao.delete. *)
Delete(r) ==
  /\ pc[r] = "checked" /\ op[r] = "delete" /\ lock = None
  /\ exists' = "deleted"
  /\ recipient' = [u \in Users |-> "none"]
  /\ queued' = [u \in Users |-> 0]
  /\ Happened("raced", Publishing)
  /\ Goto(r, "deleted")
  /\ UNCHANGED <<now, publishedAt, audienceId, audience, audienceSize, sentCount, handed,
                 op, want, oldAudience, lock, job, exec, tries, faults>>

(* delete: unschedulePublishJob, after the transaction. *)
UnscheduleDeleted(r) ==
  /\ pc[r] = "deleted"
  /\ job' = None
  /\ Goto(r, "done")
  /\ UNCHANGED <<now, saved, audienceSize, sentCount, messages, op, want, oldAudience, lock,
                 exec, tries, harm, faults>>

(* A request fails in its transaction, which rolls back; what it did to the job stays. *)
Abort(r) ==
  /\ \/ Fault /\ pc[r] \in {"written", "unscheduled", "scheduled", "deleted"}
     \/ pc[r] = "unscheduled" /\ job # None /\ UNCHANGED faults  \* the job exists already
  /\ lock' = IF lock = r THEN None ELSE lock
  /\ Happened("lost", pc[r] \in {"unscheduled", "scheduled"})
  /\ Goto(r, "done")
  /\ UNCHANGED <<now, saved, audienceSize, sentCount, messages, op, want, oldAudience,
                 job, exec, tries>>

Request(r) ==
  \/ Update(r) \/ Unschedule(r) \/ Schedule(r) \/ Commit(r)
  \/ Delete(r) \/ UnscheduleDeleted(r)

-------------------------------------------------------------------------------
(***************************************************************************)
(* PublishActivityJob.  "audience" -> "find" -> "recipients" -> "mute" ->  *)
(* "send" -> "count".  No second execution of a job begins while one runs. *)
(***************************************************************************)
Start ==
  /\ job # None /\ exec = None /\ job.at <= now
  /\ exec' = [pc |-> "audience", audience |-> job.audience, attempts |-> job.attempts,
              users |-> {}, unmuted |-> {}]
  /\ job' = [job EXCEPT !.at = Fired]
  /\ tries' = tries + 1
  /\ Happened("early", pc[job.audience] = "scheduled")
  /\ UNCHANGED <<now, saved, audienceSize, sentCount, messages, requests, faults>>

(* Mutations: the end of an execution deletes the job by its key; a trigger that repeats. *)
JobDoneByKey == None

JobDoneRepeats == IF job # None /\ job.at = Fired THEN [job EXCEPT !.at = now] ELSE job

(* Quartz forgets a job whose only trigger has fired; one scheduled meanwhile stays. *)
JobDone == IF job # None /\ job.at = Fired THEN None ELSE job

EndExecution == exec' = None /\ job' = JobDone

(* getAudience and resolve. *)
LoadAudience ==
  /\ exec # None /\ exec.pc = "audience"
  /\ exec' = [exec EXCEPT !.pc = "find", !.users = audience[exec.audience]]
  /\ UNCHANGED <<now, saved, audienceSize, sentCount, messages, requests, job, tries, harm, faults>>

(* resolve(audience).foreach: a Failure is dropped, and the job ends as if it had succeeded. *)
Unresolved ==
  /\ Fault
  /\ exec # None /\ exec.pc = "audience"
  /\ EndExecution
  /\ Happened("lost", TRUE)
  /\ UNCHANGED <<now, saved, audienceSize, sentCount, messages, requests, tries>>

(* getActivityRenderById(activityId).foreach *)
FindActivity ==
  /\ exec # None /\ exec.pc = "find"
  /\ IF exists = "yes"
       THEN exec' = [exec EXCEPT !.pc = "recipients"] /\ UNCHANGED job
       ELSE EndExecution
  /\ UNCHANGED <<now, saved, audienceSize, sentCount, messages, requests, tries, harm, faults>>

(* setRecipients replaces the rows; it needs the ACTIVITY row to insert any. *)
SetRecipients ==
  /\ exec # None /\ exec.pc = "recipients"
  /\ exists = "yes" \/ exec.users = {}
  /\ recipient' = [u \in Users |-> IF u \in exec.users THEN "pending" ELSE "none"]
  /\ exec' = [exec EXCEPT !.pc = "mute"]
  /\ UNCHANGED <<now, saved, audienceSize, sentCount, queued, handed, requests, job, tries, harm, faults>>

(* markProcessed waits for a transaction that has changed the ACTIVITY row. *)
MarkProcessed(users) ==
  LET marked == {u \in users : recipient[u] = "pending"}
  IN /\ marked = {} \/ lock = None
     /\ recipient' = [u \in Users |-> IF u \in marked THEN "sent" ELSE recipient[u]]
     /\ sentCount' = sentCount + Cardinality(marked)

(* Mutation: who has muted the activity is left out, and not marked as processed. *)
SkipMuted ==
  /\ exec # None /\ exec.pc = "mute"
  /\ \E muted \in SUBSET exec.users :
       exec' = [exec EXCEPT !.pc = "send", !.unmuted = exec.users \ muted]
  /\ UNCHANGED <<now, saved, audienceSize, sentCount, recipient, queued, handed, requests,
                 job, tries, harm, faults>>

(* messaging.send: who has muted the activity is marked; nobody, if it is gone. *)
MarkMuted ==
  /\ exec # None /\ exec.pc = "mute"
  /\ \E muted \in SUBSET exec.users :
       /\ exists = "yes" \/ muted = {}
       /\ MarkProcessed(muted)
       /\ exec' = [exec EXCEPT !.pc = "send", !.unmuted = exec.users \ muted]
  /\ UNCHANGED <<now, saved, audienceSize, queued, handed, requests, job, tries, harm, faults>>

(* messaging.send: a message for everybody else, whether the activity is still there or not. *)
InsertMessages ==
  /\ exec # None /\ exec.pc = "send"
  /\ queued' = [u \in Users |-> queued[u] + IF u \in exec.unmuted THEN 1 ELSE 0]
  /\ exec' = [exec EXCEPT !.pc = "count"]
  /\ UNCHANGED <<now, saved, audienceSize, sentCount, recipient, handed, requests, job,
                 tries, harm, faults>>

(* updateAudienceCount, and the end of a successful execution. *)
CountAudience ==
  /\ exec # None /\ exec.pc = "count" /\ lock = None
  /\ audienceSize' = IF exists = "yes" THEN Cardinality(exec.users) ELSE audienceSize
  /\ EndExecution
  /\ UNCHANGED <<now, saved, sentCount, messages, requests, tries, harm, faults>>

(* The node dies: the job does not ask for recovery, the cluster clears its fired trigger. *)
NodeDies ==
  /\ Fault
  /\ exec # None
  /\ EndExecution
  /\ Happened("lost", TRUE)
  /\ UNCHANGED <<now, saved, audienceSize, sentCount, messages, requests, tries>>

(***************************************************************************)
(* maybeRetryJob, and Quartz storing the data of the job that has changed  *)
(* (@PersistJobDataAfterExecution).  The retry replaces the fired trigger, *)
(* if it is still there, by one five minutes later.  The old data is also  *)
(* stored over that of a job an update has scheduled meanwhile.            *)
(***************************************************************************)
(* Mutation: the number of attempts is not kept. *)
ForgetJobAttempts(attempts) == 0

IncrementJobAttempts(attempts) == IF attempts = NoAttempts THEN 0 ELSE attempts + 1

Retried(attempts, trigger) ==
  [audience |-> exec.audience, attempts |-> attempts, at |-> trigger]

(* Mutation: the failed job is not rescheduled, and its trigger stays as it is. *)
NeverRetryJob(rescheduled) == exec' = None /\ UNCHANGED <<job, harm>>

MaybeRetryJob(rescheduled) ==
  LET attempts == IncrementJobAttempts(exec.attempts)
      again == rescheduled /\ attempts < RetryTimes
      repeated == IF exec.pc \in {"send", "count"} THEN {"repeated"} ELSE {}
  IN /\ exec' = None
     /\ \/ job = None /\ UNCHANGED <<job, harm>>
        \/ /\ job # None /\ job.at = Fired /\ again
           /\ job' = Retried(attempts, now)
           /\ harm' = harm \cup repeated
        \/ /\ job # None /\ job.at = Fired /\ ~again
           /\ job' = None
           /\ harm' = harm \cup {"lost"}
        \/ /\ job # None /\ job.at # Fired
           /\ job' = Retried(attempts, job.at)
           /\ harm' = harm \cup {"lost"} \cup repeated

(* A call in executeJob throws; the call of rescheduleJob may throw as well. *)
ExecutionThrows ==
  /\ Fault
  /\ exec # None
  /\ \E rescheduled \in BOOLEAN : MaybeRetryJob(rescheduled)
  /\ UNCHANGED <<now, saved, audienceSize, sentCount, messages, requests, tries>>

(* The foreign key of ACTIVITY_RECIPIENT refuses recipients of a deleted activity. *)
RecipientsRefused ==
  /\ exec # None /\ exec.pc = "recipients"
  /\ exists # "yes" /\ exec.users # {}
  /\ MaybeRetryJob(TRUE)
  /\ UNCHANGED <<now, saved, audienceSize, sentCount, messages, requests, tries, faults>>

Execute ==
  \/ LoadAudience \/ FindActivity \/ SetRecipients \/ RecipientsRefused
  \/ MarkMuted \/ InsertMessages \/ CountAudience

(* Mutation: a message need not be waiting to be processed. *)
DeliverAny(u) ==
  /\ queued' = [queued EXCEPT ![u] = @ - 1]
  /\ IF exists = "yes"
       THEN MarkProcessed({u}) /\ handed' = [handed EXCEPT ![u] = @ + 1]
       ELSE UNCHANGED <<recipient, sentCount, handed>>
  /\ UNCHANGED <<now, saved, audienceSize, requests, job, exec, tries, harm, faults>>

(* A worker processes a message of u (MessageQueue has its steps). *)
Deliver(u) ==
  /\ queued[u] > 0
  /\ queued' = [queued EXCEPT ![u] = @ - 1]
  /\ IF exists = "yes"
       THEN MarkProcessed({u}) /\ handed' = [handed EXCEPT ![u] = @ + 1]
       ELSE UNCHANGED <<recipient, sentCount, handed>>
  /\ UNCHANGED <<now, saved, audienceSize, requests, job, exec, tries, harm, faults>>

-------------------------------------------------------------------------------
Next ==
  \/ Tick
  \/ \E r \in Requests : Save(r) \/ Check(r) \/ Request(r) \/ Abort(r)
  \/ Start \/ Execute \/ Unresolved \/ NodeDies \/ ExecutionThrows
  \/ \E u \in Users : Deliver(u)

Spec == Init /\ [][Next]_vars

(* Time passes, a request that has begun goes on, Quartz fires triggers and its threads run,
   workers work.  Nobody has to make a request. *)
Fairness ==
  /\ WF_vars(Tick)
  /\ \A r \in Requests : WF_vars(Request(r) \/ Abort(r))
  /\ WF_vars(Start)
  /\ WF_vars(Execute)
  /\ \A u \in Users : WF_vars(Deliver(u))

FairSpec == Spec /\ Fairness

-------------------------------------------------------------------------------
(* Properties. *)

Places == {"idle", "checked", "written", "unscheduled", "scheduled", "deleted", "done"}

TypeOK ==
  /\ now \in Times
  /\ exists \in {"no", "yes", "deleted"}
  /\ publishedAt \in Times
  /\ audienceId \in Audiences \cup {None}
  /\ audienceSize \in Nat
  /\ sentCount \in Nat
  /\ audience \in [Audiences -> SUBSET Users]
  /\ recipient \in [Users -> {"none", "pending", "sent"}]
  /\ queued \in [Users -> Nat]
  /\ handed \in [Users -> Nat]
  /\ pc \in [Requests -> Places]
  /\ op \in [Requests -> {None, "save", "update", "delete"}]
  /\ want \in [Requests -> [users : SUBSET Users, date : Times]]
  /\ oldAudience \in [Requests -> Audiences \cup {None}]
  /\ lock \in Requests \cup {None}
  /\ job \in Jobs \cup {None}
  /\ exec \in Executions \cup {None}
  /\ tries \in Nat
  /\ harm \subseteq {"early", "raced", "lost", "repeated"}
  /\ faults \in 0..MaxFaults

(***************************************************************************)
(* A job that keeps failing is executed at most RetryTimes + 1 times: the  *)
(* count survives in the job's data, also when requests delete and         *)
(* schedule the job while it runs.  (FAILED_ATTEMPTS starts at 0 with the  *)
(* first failure, so it is one more than the log line's $RETRY_TIMES.)     *)
(***************************************************************************)
RetriesBounded == tries <= RetryTimes + 1

(* The same as an inductive invariant: a job that waits has been executed once for each failed
   attempt in its data; one scheduled while another execution runs, never. *)
RetryInv ==
  /\ TypeOK
  /\ RetriesBounded
  /\ job # None /\ job.at # Fired =>
       tries <= job.attempts + 1 /\ (tries = 0 \/ job.attempts < RetryTimes)
  /\ job # None /\ job.at = Fired =>
       exec # None /\ tries <= exec.attempts + 2
  /\ job # None /\ job.at # Fired /\ exec # None => tries = 0

Quiet == job = None /\ exec = None /\ \A r \in Requests : pc[r] \in {"idle", "done"}

Due == exists = "yes" /\ publishedAt <= now

Recipients == {u \in Users : recipient[u] # "none"}

(***************************************************************************)
(* When all is done, an activity whose date has come has the recipients of *)
(* the audience last saved: however updates, executions and retries        *)
(* overlapped.  It can fail to only if an execution began before the       *)
(* commit of the request that scheduled it ("early"), or if the job was    *)
(* lost: its node died, its audience did not resolve, its retries were     *)
(* used up or not stored, an update failed after it had unscheduled it, or *)
(* a failed execution stored its old data over a newly scheduled job.      *)
(***************************************************************************)
PublishedAsSaved ==
  Quiet /\ Due => Recipients = audience[audienceId] \/ harm \cap {"early", "lost"} # {}

(***************************************************************************)
(* A user gets one message of an activity, unless a request changed it     *)
(* while or after it was published ("raced"), or an execution that had     *)
(* begun to send was retried ("repeated").                                 *)
(***************************************************************************)
OneMessageEach ==
  \A u \in Users : queued[u] + handed[u] <= 1 \/ harm \cap {"raced", "repeated"} # {}

(***************************************************************************)
(* Once its messages are out, a published activity has SENT_COUNT =        *)
(* AUDIENCE_SIZE, the condition to appear under the publisher's past       *)
(* alerts; with a larger SENT_COUNT it appears nowhere.                    *)
(***************************************************************************)
PastWhenSent ==
  Quiet /\ Due /\ (\A u \in Users : queued[u] = 0) => sentCount = audienceSize \/ harm # {}

(***************************************************************************)
(* A saved activity is published to its audience, deleted, or one of the   *)
(* things happens that PublishedAsSaved names.                             *)
(***************************************************************************)
EventuallyPublished ==
  exists = "yes" ~> \/ exists = "deleted"
                    \/ Due /\ Recipients = audience[audienceId]
                    \/ harm \cap {"early", "lost"} # {}

(***************************************************************************)
(* ActivityServiceTest.scala:59, "save an item for each recipient", and    *)
(* PublishingJobTest.scala:104, "save audience for notification": when all *)
(* is done, the activity has its recipients.                               *)
(***************************************************************************)
SavedForEachRecipient == Quiet /\ Due => Recipients = audience[audienceId]

(***************************************************************************)
(* ActivityServiceTest.scala:134, "update - fail if activity is already    *)
(* published": what has been given to its recipients is not changed.       *)
(***************************************************************************)
PublishedNotUpdated == [][Recipients # {} => UNCHANGED <<publishedAt, audienceId>>]_vars
===============================================================================
