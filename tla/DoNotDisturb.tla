----------------------------- MODULE DoNotDisturb -----------------------------
(***************************************************************************)
(* The do-not-disturb period of one user and the messages it holds back:   *)
(* the computation of SEND_AT, the calls of send that use it, and the      *)
(* calls of set and disable that change the period and move the messages   *)
(* held so far.  Their transactions interleave, and the clock goes on      *)
(* between the statements of one call.                                     *)
(***************************************************************************)
EXTENDS Integers

CONSTANTS
  Messages,     \* the user's messages; one call of send for each
  Requests,     \* calls of set and disable
  HoursPerDay,  \* 24
  LastDay,      \* bound on the clock
  MaxFaults,    \* bound on calls of set that fail halfway
  None          \* nothing

ASSUME BoundsAssumption ==
  HoursPerDay \in Nat \ {0} /\ LastDay \in Nat /\ MaxFaults \in Nat

ASSUME CallsAssumption == Messages \cap Requests = {}

Calls == Messages \cup Requests

(* A point in time is a LocalDate with a LocalTime, to the hour. *)
Hours == 0..HoursPerDay - 1
Moments == [day : Nat, hour : Hours]
Periods == [start : Hours, end : Hours]

ASSUME NoneAssumption == None \notin Moments \cup Periods

Before(s, t) == s.day < t.day \/ (s.day = t.day /\ s.hour < t.hour)

VARIABLES
  clock,     \* the time of day and the date
  period,    \* the user's row in DO_NOT_DISTURB, or None
  row,       \* MESSAGE_SEND.STATE: "new" before the insert, "A" available, "T" taken
  sendAt,    \* MESSAGE_SEND.SEND_AT, None for null
  pc,        \* where each call is
  began,     \* the moment at which a call has read LocalTime.now, until it uses it
  answer,    \* what reschedule has returned to a call under way
  harm,      \* what has gone wrong: "midnight", "raced", "failed" (history)
  faults     \* calls of set that have failed

vars == <<clock, period, row, sendAt, pc, began, answer, harm, faults>>

Happened(what, condition) == harm' = IF condition THEN harm \cup {what} ELSE harm

(* Mutation: whether the period spans midnight does not matter. *)
RescheduleSameDay(p, time, date) ==
  IF p.start <= time /\ time < p.end THEN [day |-> date, hour |-> p.end] ELSE None

(* Mutation: a period that spans midnight always ends tomorrow. *)
RescheduleTomorrow(p, time, date) ==
  LET spans == p.end < p.start
  IN IF (spans /\ time < p.end) \/ p.start <= time
       THEN [day |-> IF spans THEN date + 1 ELSE date, hour |-> p.end]
       ELSE None

(* Mutation: a day is so many hours, with no carry into the date. *)
HoursLater(t, days) == [t EXCEPT !.hour = @ + days * HoursPerDay]

-------------------------------------------------------------------------------
(* plusDays *)
DaysLater(t, days) == [t EXCEPT !.day = @ + days]

SpansDays(p) == p.end < p.start

(* reschedule, of the time of day read first and the date read last. *)
Reschedule(p, time, date) ==
  LET end == [day |-> date, hour |-> p.end]
  IN IF SpansDays(p)
       THEN IF p.start <= time THEN DaysLater(end, 1)
            ELSE IF time < p.end THEN end ELSE None
       ELSE IF p.start <= time /\ time < p.end THEN end ELSE None

(* Messages whose SEND_AT is in the future. *)
Held == {m \in Messages : row[m] = "A" /\ sendAt[m] # None /\ Before(clock, sendAt[m])}

(* Mutation: SEND_AT > SYSDATE left out of the update. *)
MoveHeldAny(at) == sendAt' = [m \in Messages |-> IF row[m] = "A" THEN at ELSE sendAt[m]]

(* Mutation: nothing is updated when there is no new time. *)
MoveHeldLater(at) ==
  sendAt' = [m \in Messages |-> IF m \in Held /\ at # None THEN at ELSE sendAt[m]]

(* updateMessageSendAtForUser *)
MoveHeld(at) == sendAt' = [m \in Messages |-> IF m \in Held THEN at ELSE sendAt[m]]

-------------------------------------------------------------------------------
Midnight == [day |-> 0, hour |-> 0]

Init ==
  /\ clock = Midnight
  /\ period \in Periods \cup {None}
  /\ row = [m \in Messages |-> "new"]
  /\ sendAt = [m \in Messages |-> None]
  /\ pc = [c \in Calls |-> "idle"]
  /\ began = [c \in Calls |-> Midnight]
  /\ answer = [c \in Calls |-> None]
  /\ harm = {}
  /\ faults = 0

Tick ==
  /\ \/ /\ clock.hour + 1 \in Hours
        /\ clock' = [clock EXCEPT !.hour = @ + 1]
     \/ /\ clock.hour + 1 = HoursPerDay /\ clock.day < LastDay
        /\ clock' = [day |-> clock.day + 1, hour |-> 0]
  /\ UNCHANGED <<period, row, sendAt, pc, began, answer, harm, faults>>

Goto(c, place) == pc' = [pc EXCEPT ![c] = place]

(* A call returns, and what it knew is gone. *)
Return(c) == Goto(c, "done") /\ answer' = [answer EXCEPT ![c] = None]

(***************************************************************************)
(* reschedule:  ... -> "timed" -> "computed" -> ...                        *)
(***************************************************************************)

(* LocalTime.now *)
ReadTime(c) ==
  /\ began' = [began EXCEPT ![c] = clock]
  /\ Goto(c, "timed")
  /\ UNCHANGED <<clock, period, row, sendAt, answer, harm, faults>>

(* get(user), on a connection of its own, and then LocalDate.now. *)
Compute(c) ==
  /\ pc[c] = "timed"
  /\ answer' = [answer EXCEPT ![c] =
                  IF period = None THEN None ELSE Reschedule(period, began[c].hour, clock.day)]
  /\ Happened("midnight", period # None /\ began[c].day # clock.day)
  /\ began' = [began EXCEPT ![c] = Midnight]
  /\ Goto(c, "computed")
  /\ UNCHANGED <<clock, period, row, sendAt, faults>>

(***************************************************************************)
(* MessagingService.send, for one message.                                 *)
(***************************************************************************)
Send(m) == m \in Messages /\ pc[m] = "idle" /\ ReadTime(m)

(* The provider overrides muting (or the user does not have the feature). *)
SendNow(m) ==
  /\ pc[m] = "idle"
  /\ row' = [row EXCEPT ![m] = "A"]
  /\ Goto(m, "overrode")
  /\ UNCHANGED <<clock, period, sendAt, began, answer, harm, faults>>

(* The transaction of send commits. *)
Insert(m) ==
  /\ m \in Messages /\ pc[m] = "computed"
  /\ row' = [row EXCEPT ![m] = "A"]
  /\ sendAt' = [sendAt EXCEPT ![m] = answer[m]]
  /\ Return(m)
  /\ UNCHANGED <<clock, period, began, harm, faults>>

(* A worker takes the message (lockRecord; MessageQueue has its steps). *)
Take(m) ==
  /\ row[m] = "A" /\ m \notin Held
  /\ row' = [row EXCEPT ![m] = "T"]
  /\ UNCHANGED <<clock, period, sendAt, pc, began, answer, harm, faults>>

(***************************************************************************)
(* set: two transactions.  "idle" -> "saved" -> "timed" -> "computed" ->   *)
(* "done".  disable: one.                                                  *)
(***************************************************************************)

(* The period changes between the answer a call got and what it does with it. *)
Overtakes == Happened("raced", \E c \in Calls : pc[c] = "computed")

Set(r) ==
  /\ pc[r] = "idle"
  /\ period' \in Periods
  /\ Overtakes
  /\ Goto(r, "saved")
  /\ UNCHANGED <<clock, row, sendAt, began, answer, faults>>

StartReschedule(r) == pc[r] = "saved" /\ ReadTime(r)

Update(r) ==
  /\ r \in Requests /\ pc[r] = "computed"
  /\ MoveHeld(answer[r])
  /\ Return(r)
  /\ UNCHANGED <<clock, period, row, began, harm, faults>>

Disable(r) ==
  /\ pc[r] = "idle"
  /\ MoveHeld(None)
  /\ period' = None
  /\ Overtakes
  /\ Return(r)
  /\ UNCHANGED <<clock, row, began, faults>>

(* set fails after its first transaction. *)
Fail(r) ==
  /\ faults < MaxFaults
  /\ faults' = faults + 1
  /\ r \in Requests /\ pc[r] \in {"saved", "timed", "computed"}
  /\ Happened("failed", TRUE)
  /\ Return(r)
  /\ began' = [began EXCEPT ![r] = Midnight]
  /\ UNCHANGED <<clock, period, row, sendAt>>

-------------------------------------------------------------------------------
Next ==
  \/ Tick
  \/ \E m \in Messages : Send(m) \/ SendNow(m) \/ Insert(m) \/ Take(m)
  \/ \E r \in Requests : Set(r) \/ StartReschedule(r) \/ Update(r) \/ Disable(r) \/ Fail(r)
  \/ \E c \in Calls : Compute(c)

Spec == Init /\ [][Next]_vars

-------------------------------------------------------------------------------
(* Properties. *)

TypeOK ==
  /\ clock \in Moments
  /\ period \in Periods \cup {None}
  /\ row \in [Messages -> {"new", "A", "T"}]
  /\ sendAt \in [Messages -> Moments \cup {None}]
  /\ pc \in [Calls -> {"idle", "saved", "timed", "computed", "done", "overrode"}]
  /\ began \in [Calls -> Moments]
  /\ answer \in [Calls -> Moments \cup {None}]
  /\ harm \subseteq {"midnight", "raced", "failed"}
  /\ faults \in 0..MaxFaults

(* Round the clock from one hour to another. *)
HoursFrom(from, to) == IF from <= to THEN to - from ELSE to - from + HoursPerDay

(* An hour is in the period if it comes before the end on the way from the start. *)
InPeriod(p, hour) == HoursFrom(p.start, hour) < HoursFrom(p.start, p.end)

(* The next time after t that the period ends: at its hour, and at most a day later. *)
IsNextEnd(p, t, end) ==
  end # None /\ end.hour = p.end /\ Before(t, end) /\ ~Before(DaysLater(t, 1), end)

(***************************************************************************)
(* reschedule, with one reading of the clock: in the period the answer is  *)
(* the next end of it, today or tomorrow; outside of it there is none.     *)
(***************************************************************************)
RescheduleToNextEnd ==
  \A p \in Periods :
    LET end == Reschedule(p, clock.hour, clock.day)
    IN IF InPeriod(p, clock.hour) THEN IsNextEnd(p, clock, end) ELSE end = None

Settled == \A c \in Calls : pc[c] \in {"idle", "done", "overrode"}

(***************************************************************************)
(* DoNotDisturbView.js:107, alerts "will instead be delivered shortly      *)
(* after the period ends": when no call is under way, what is held back is *)
(* held until the next end of the period that the user has now, however    *)
(* often it was changed.  Unless a call read the time before midnight and  *)
(* the date after it, the period changed between the answer that a call    *)
(* got and its transaction, or set failed between its two transactions.    *)
(***************************************************************************)
HeldUntilPeriodEnds ==
  Settled /\ harm = {} =>
    \A m \in Held : period # None /\ IsNextEnd(period, clock, sendAt[m])

(***************************************************************************)
(* No message waits for more than a day from now, in whatever order calls  *)
(* overlap; over midnight, not for more than two.                          *)
(***************************************************************************)
WithinDays(t) ==
  ~Before(DaysLater(clock, IF "midnight" \in harm THEN 2 ELSE 1), t)

HeldLessThanADay == \A m \in Held : WithinDays(sendAt[m])

(* What it rests on: the answers under way, and the clock going on. *)
SoonInv ==
  /\ \A m \in Messages : sendAt[m] # None => WithinDays(sendAt[m])
  /\ \A c \in Calls : answer[c] # None => WithinDays(answer[c])
  /\ \A c \in Calls : pc[c] = "timed" => ~Before(clock, began[c])

(* A message is inserted by its call only. *)
NewUntilInsert == \A m \in Messages : row[m] # "new" => pc[m] \in {"done", "overrode"}

(***************************************************************************)
(* What is due stays due: a batch that a worker has selected stays as it   *)
(* is, whatever the user does to the period meanwhile.                     *)
(***************************************************************************)
DueStaysDue ==
  [][\A m \in Messages : row[m] = "A" /\ m \notin Held => m \notin Held']_vars

(***************************************************************************)
(* DoNotDisturbView.js:106, "alerts won't pop up on your phone between     *)
(* From and Until times each day": no message of a provider that honours   *)
(* the period is taken in it.  (lockRecord reads SEND_AT only, which says  *)
(* nothing of a message that was sent before the period and still waits.)  *)
(***************************************************************************)
NotTakenInPeriod ==
  [][\A m \in Messages :
       pc[m] = "done" /\ row[m] = "A" /\ row'[m] = "T"
         => period = None \/ ~InPeriod(period, clock.hour)]_vars
===============================================================================
