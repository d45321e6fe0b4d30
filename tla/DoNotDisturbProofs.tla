-------------------------- MODULE DoNotDisturbProofs --------------------------
(***************************************************************************)
(* Theorems about DoNotDisturb, for every number of messages and requests, *)
(* and every length of the day.                                            *)
(***************************************************************************)
EXTENDS DoNotDisturb, TLAPS

(* What reschedule returns is a moment, or nothing. *)
LEMMA RescheduleType ==
  ASSUME NEW p \in Periods, NEW time \in Hours, NEW date \in Nat
  PROVE  Reschedule(p, time, date) \in Moments \cup {None}
BY DEF Reschedule, DaysLater, Moments, Periods, Hours

(* Neither does a missing period count as a period. *)
LEMMA NoneIsNothing == None \notin Moments /\ None \notin Periods
BY NoneAssumption

LEMMA InitTypeOK == Init => TypeOK
BY BoundsAssumption DEF Init, TypeOK, Midnight, Moments, Hours

LEMMA StepTypeOK == TypeOK /\ [Next]_vars => TypeOK'
<1> SUFFICES ASSUME TypeOK, [Next]_vars PROVE TypeOK'
  OBVIOUS
<1> USE BoundsAssumption DEF TypeOK
<1>m. Midnight \in Moments
  BY DEF Midnight, Moments, Hours
<1>1. CASE Tick
  BY <1>1 DEF Tick, Moments, Hours
<1>2. ASSUME NEW c \in Calls, ReadTime(c) PROVE TypeOK'
  BY <1>2 DEF ReadTime, Goto
<1>3. ASSUME NEW m \in Messages, SendNow(m) PROVE TypeOK'
  BY <1>3 DEF SendNow, Goto, Calls
<1>4. ASSUME NEW m \in Messages, Insert(m) PROVE TypeOK'
  BY <1>4 DEF Insert, Return, Goto, Calls
<1>5. ASSUME NEW m \in Messages, Take(m) PROVE TypeOK'
  BY <1>5 DEF Take
<1>6. ASSUME NEW r \in Requests, Set(r) PROVE TypeOK'
  BY <1>6 DEF Set, Overtakes, Happened, Goto, Calls
<1>7. ASSUME NEW r \in Requests, Update(r) PROVE TypeOK'
  BY <1>7 DEF Update, MoveHeld, Return, Goto, Calls
<1>8. ASSUME NEW r \in Requests, Disable(r) PROVE TypeOK'
  BY <1>8 DEF Disable, MoveHeld, Overtakes, Happened, Return, Goto, Calls
<1>9. ASSUME NEW r \in Requests, Fail(r) PROVE TypeOK'
  BY <1>9, <1>m DEF Fail, Happened, Return, Goto, Calls
<1>10. ASSUME NEW c \in Calls, Compute(c) PROVE TypeOK'
  <2>1. clock.day \in Nat /\ began[c].hour \in Hours
    BY DEF Moments
  <2>2. (IF period = None THEN None ELSE Reschedule(period, began[c].hour, clock.day))
           \in Moments \cup {None}
    BY <2>1, RescheduleType
  <2> QED BY <1>10, <1>m, <2>2 DEF Compute, Happened, Goto
<1>11. CASE UNCHANGED vars
  BY <1>11 DEF vars
<1> QED
  BY <1>1, <1>2, <1>3, <1>4, <1>5, <1>6, <1>7, <1>8, <1>9, <1>10, <1>11
     DEF Next, Send, StartReschedule, Calls

(***************************************************************************)
(* The clock, the user's row, the table and the calls keep their types.    *)
(***************************************************************************)
THEOREM TypeCorrect == Spec => []TypeOK
BY InitTypeOK, StepTypeOK, PTL DEF Spec

-------------------------------------------------------------------------------
(***************************************************************************)
(* What reschedule answers is right at every moment and for every period:  *)
(* those that span midnight, those that do not, and those of no length.    *)
(***************************************************************************)
LEMMA NextEnd == TypeOK => RescheduleToNextEnd
<1> SUFFICES ASSUME TypeOK, NEW p \in Periods
    PROVE LET end == Reschedule(p, clock.hour, clock.day)
          IN IF InPeriod(p, clock.hour) THEN IsNextEnd(p, clock, end) ELSE end = None
  BY DEF RescheduleToNextEnd
<1> DEFINE end == Reschedule(p, clock.hour, clock.day)
<1>1. clock \in Moments /\ clock.day \in Nat /\ clock.hour \in 0..HoursPerDay - 1
  BY DEF TypeOK, Moments, Hours
<1>2. p.start \in 0..HoursPerDay - 1 /\ p.end \in 0..HoursPerDay - 1
  BY DEF Periods, Hours
<1>3. HoursPerDay \in Nat
  BY BoundsAssumption
<1>4. CASE InPeriod(p, clock.hour)
  <2>1. end \in Moments
    BY <1>1, <1>2, <1>3, <1>4
       DEF Reschedule, SpansDays, DaysLater, InPeriod, HoursFrom, Moments, Hours
  <2>2. end.hour = p.end
    BY <1>1, <1>2, <1>3, <1>4 DEF Reschedule, SpansDays, DaysLater, InPeriod, HoursFrom
  <2>3. Before(clock, end)
    BY <1>1, <1>2, <1>3, <1>4
       DEF Reschedule, SpansDays, DaysLater, Before, InPeriod, HoursFrom
  <2>4. ~Before(DaysLater(clock, 1), end)
    BY <1>1, <1>2, <1>3, <1>4
       DEF Reschedule, SpansDays, DaysLater, Before, InPeriod, HoursFrom, Moments
  <2> QED BY <1>4, <2>1, <2>2, <2>3, <2>4, NoneIsNothing DEF IsNextEnd
<1>5. CASE ~InPeriod(p, clock.hour)
  BY <1>1, <1>2, <1>3, <1>5 DEF Reschedule, SpansDays, InPeriod, HoursFrom
<1> QED BY <1>4, <1>5

THEOREM ReschedulesToNextEnd == Spec => []RescheduleToNextEnd
BY TypeCorrect, NextEnd, PTL
-------------------------------------------------------------------------------
(* A moment that is within a day or two of one stays so of every later one. *)
LEMMA ClockGoesOn ==
  ASSUME TypeOK, Tick
  PROVE  /\ \A t \in Moments : WithinDays(t) => WithinDays(t)'
         /\ \A t \in Moments : ~Before(clock, t) => ~Before(clock', t)
BY BoundsAssumption DEF Tick, TypeOK, WithinDays, Before, DaysLater, Moments, Hours

(* What has happened only moves the limit further away. *)
LEMMA LimitRelaxes ==
  ASSUME TypeOK, clock' = clock, harm \subseteq harm'
  PROVE  \A t \in Moments : WithinDays(t) => WithinDays(t)'
BY DEF TypeOK, WithinDays, Before, DaysLater, Moments, Hours

(***************************************************************************)
(* The answer of reschedule is at most a day away, although time passes    *)
(* between the reading of the time and that of the date; over midnight, at *)
(* most two.                                                               *)
(***************************************************************************)
LEMMA AnswerSoon ==
  ASSUME TypeOK, NEW c \in Calls, Compute(c), ~Before(clock, began[c]), answer'[c] # None
  PROVE  WithinDays(answer[c])'
<1> DEFINE t == Reschedule(period, began[c].hour, clock.day)
<1>0. period # None /\ answer'[c] = t /\ t # None
  BY DEF Compute, TypeOK
<1>1. /\ clock \in Moments /\ clock.day \in Nat /\ clock.hour \in 0..HoursPerDay - 1
      /\ began[c].day \in Nat /\ began[c].hour \in 0..HoursPerDay - 1
      /\ clock' = clock
  BY DEF TypeOK, Moments, Hours, Compute
<1>2. period.start \in 0..HoursPerDay - 1 /\ period.end \in 0..HoursPerDay - 1
  BY <1>0 DEF TypeOK, Periods, Hours
<1>3. HoursPerDay \in Nat
  BY BoundsAssumption
<1>4. CASE began[c].day # clock.day
  <2>1. "midnight" \in harm'
    BY <1>0, <1>4 DEF Compute, Happened
  <2>2. ~Before(DaysLater(clock, 2), t)
    BY <1>0, <1>1, <1>2, <1>3 DEF Reschedule, SpansDays, DaysLater, Before, Moments
  <2> QED BY <1>0, <1>1, <2>1, <2>2 DEF WithinDays, Before, DaysLater
<1>5. CASE began[c].day = clock.day
  <2>1. began[c].hour <= clock.hour
    BY <1>1, <1>3, <1>5 DEF Before
  <2>2. ~Before(DaysLater(clock, 1), t) /\ ~Before(DaysLater(clock, 2), t)
    BY <1>0, <1>1, <1>2, <1>3, <2>1 DEF Reschedule, SpansDays, DaysLater, Before, Moments
  <2> QED BY <1>0, <1>1, <2>2 DEF WithinDays, Before, DaysLater
<1> QED BY <1>4, <1>5

LEMMA InitSoonInv == Init => SoonInv
BY DEF Init, SoonInv, Calls

(* An update gives the messages what the call knows, which is not far away. *)
LEMMA MoveHeldSoon ==
  ASSUME TypeOK, SoonInv, NEW at, at # None => WithinDays(at), MoveHeld(at)
  PROVE  \A m \in Messages : sendAt'[m] # None => WithinDays(sendAt'[m])
BY DEF TypeOK, SoonInv, MoveHeld

LEMMA StepSoonInv == TypeOK /\ TypeOK' /\ SoonInv /\ [Next]_vars => SoonInv'
<1> SUFFICES ASSUME TypeOK, TypeOK', SoonInv, [Next]_vars PROVE SoonInv'
  OBVIOUS
<1>t. /\ \A m \in Messages : sendAt[m] # None => sendAt[m] \in Moments
      /\ \A c \in Calls : answer[c] # None => answer[c] \in Moments
      /\ \A c \in Calls : began[c] \in Moments
      /\ clock \in Moments
  BY DEF TypeOK
<1>1. CASE Tick
  BY <1>1, <1>t, ClockGoesOn DEF Tick, SoonInv
<1>still. ASSUME clock' = clock, harm \subseteq harm',
                 \A m \in Messages : sendAt'[m] # None => WithinDays(sendAt'[m]),
                 \A c \in Calls : answer'[c] # None => WithinDays(answer'[c]),
                 \A c \in Calls : pc'[c] = "timed" => ~Before(clock, began'[c])
          PROVE  SoonInv'
  <2>1. /\ \A m \in Messages : sendAt'[m] # None => sendAt'[m] \in Moments
        /\ \A c \in Calls : answer'[c] # None => answer'[c] \in Moments
    BY DEF TypeOK
  <2>2. \A t \in Moments : WithinDays(t) => WithinDays(t)'
    BY <1>still, LimitRelaxes
  <2>3. /\ \A m \in Messages : sendAt'[m] # None => WithinDays(sendAt[m])'
        /\ \A c \in Calls : answer'[c] # None => WithinDays(answer[c])'
    BY <1>still, <2>1, <2>2 DEF WithinDays
  <2> QED BY <1>still, <2>3 DEF SoonInv
<1>2. ASSUME NEW c \in Calls, ReadTime(c) PROVE SoonInv'
  <2>1. ~Before(clock, clock)
    BY <1>t DEF Before, Moments, Hours
  <2> QED BY <1>2, <1>still, <2>1 DEF ReadTime, Goto, SoonInv, TypeOK
<1>3. ASSUME NEW m \in Messages, SendNow(m) PROVE SoonInv'
  BY <1>3, <1>still DEF SendNow, Goto, SoonInv, TypeOK
<1>4. ASSUME NEW m \in Messages, Insert(m) PROVE SoonInv'
  BY <1>4, <1>still DEF Insert, Return, Goto, SoonInv, TypeOK, Calls
<1>5. ASSUME NEW m \in Messages, Take(m) PROVE SoonInv'
  BY <1>5, <1>still DEF Take, SoonInv
<1>6. ASSUME NEW r \in Requests, Set(r) PROVE SoonInv'
  BY <1>6, <1>still DEF Set, Overtakes, Happened, Goto, SoonInv, TypeOK
<1>7. ASSUME NEW r \in Requests, Update(r) PROVE SoonInv'
  <2>1. answer[r] # None => WithinDays(answer[r])
    BY DEF SoonInv, Calls
  <2>2. \A m \in Messages : sendAt'[m] # None => WithinDays(sendAt'[m])
    BY <1>7, <2>1, MoveHeldSoon DEF Update
  <2> QED BY <1>7, <1>still, <2>2 DEF Update, Return, Goto, SoonInv, TypeOK
<1>8. ASSUME NEW r \in Requests, Disable(r) PROVE SoonInv'
  <2>1. \A m \in Messages : sendAt'[m] # None => WithinDays(sendAt'[m])
    BY <1>8, MoveHeldSoon DEF Disable
  <2> QED BY <1>8, <1>still, <2>1 DEF Disable, Overtakes, Happened, Return, Goto, SoonInv, TypeOK
<1>9. ASSUME NEW r \in Requests, Fail(r) PROVE SoonInv'
  BY <1>9, <1>still DEF Fail, Happened, Return, Goto, SoonInv, TypeOK
<1>10. ASSUME NEW c \in Calls, Compute(c) PROVE SoonInv'
  <2>1. clock' = clock /\ harm \subseteq harm' /\ sendAt' = sendAt
    BY <1>10 DEF Compute, Happened
  <2>2. \A m \in Messages : sendAt'[m] # None => WithinDays(sendAt[m])'
    BY <1>t, <2>1, LimitRelaxes DEF SoonInv
  <2>3. \A d \in Calls : d # c /\ answer'[d] # None => WithinDays(answer[d])'
    <3> SUFFICES ASSUME NEW d \in Calls, d # c, answer'[d] # None PROVE WithinDays(answer[d])'
      OBVIOUS
    <3>1. answer'[d] = answer[d] /\ answer[d] \in Moments /\ WithinDays(answer[d])
      BY <1>10, <1>t DEF Compute, SoonInv, TypeOK
    <3> QED BY <2>1, <3>1, LimitRelaxes DEF WithinDays
  <2>4. answer'[c] # None => WithinDays(answer[c])'
    <3> SUFFICES ASSUME answer'[c] # None PROVE WithinDays(answer[c])'
      OBVIOUS
    <3>1. ~Before(clock, began[c])
      BY <1>10 DEF Compute, SoonInv
    <3> QED BY <1>10, <3>1, AnswerSoon
  <2>5. \A d \in Calls : pc'[d] = "timed" => ~Before(clock', began'[d])
    BY <1>10 DEF Compute, Goto, SoonInv, TypeOK
  <2> QED BY <2>2, <2>3, <2>4, <2>5 DEF SoonInv
<1>11. CASE UNCHANGED vars
  BY <1>11, <1>still DEF vars, SoonInv
<1> QED
  BY <1>1, <1>2, <1>3, <1>4, <1>5, <1>6, <1>7, <1>8, <1>9, <1>10, <1>11
     DEF Next, Send, StartReschedule, Calls

(***************************************************************************)
(* No message is held for more than a day, however the calls of send, set  *)
(* and disable overlap; over midnight, for more than two.                  *)
(***************************************************************************)
THEOREM HeldSoon == Spec => []HeldLessThanADay
<1>1. TypeOK /\ SoonInv => HeldLessThanADay
  BY DEF SoonInv, HeldLessThanADay, Held
<1>2. Init => SoonInv
  BY InitSoonInv
<1>3. TypeOK /\ TypeOK' /\ SoonInv /\ [Next]_vars => SoonInv'
  BY StepSoonInv
<1> QED BY <1>1, <1>2, <1>3, TypeCorrect, PTL DEF Spec

-------------------------------------------------------------------------------
LEMMA InitNewUntilInsert == Init => NewUntilInsert
BY DEF Init, NewUntilInsert

LEMMA StepNewUntilInsert == TypeOK /\ NewUntilInsert /\ [Next]_vars => NewUntilInsert'
<1> SUFFICES ASSUME TypeOK, NewUntilInsert, [Next]_vars PROVE NewUntilInsert'
  OBVIOUS
<1> USE DEF NewUntilInsert, TypeOK, Goto, Return, Calls
<1>1. CASE Tick \/ UNCHANGED vars
  BY <1>1 DEF Tick, vars
<1>2. CASE \E m \in Messages : Send(m) \/ SendNow(m) \/ Insert(m) \/ Take(m)
  BY <1>2 DEF Send, ReadTime, SendNow, Insert, Take
<1>3. CASE \E r \in Requests : Set(r) \/ StartReschedule(r) \/ Update(r) \/ Disable(r) \/ Fail(r)
  BY <1>3, CallsAssumption DEF Set, StartReschedule, ReadTime, Update, Disable, Fail
<1>4. CASE \E c \in Calls : Compute(c)
  BY <1>4 DEF Compute
<1> QED BY <1>1, <1>2, <1>3, <1>4 DEF Next

(***************************************************************************)
(* No call takes back a message that a worker may have selected already.   *)
(***************************************************************************)
THEOREM DueForGood == Spec => DueStaysDue
<1> DEFINE Due(m) == row[m] = "A" /\ m \notin Held
<1>1. ASSUME TypeOK, TypeOK', NewUntilInsert, [Next]_vars,
             NEW m \in Messages, Due(m)
      PROVE  m \notin Held'
  <2>1. row[m] = "A" /\ ~(sendAt[m] # None /\ Before(clock, sendAt[m]))
    BY <1>1 DEF Held
  <2>2. CASE Tick
    <3>1. sendAt[m] # None => ~Before(clock', sendAt[m])
      BY <1>1, <2>1, <2>2, ClockGoesOn DEF TypeOK
    <3> QED BY <2>1, <2>2, <3>1 DEF Tick, Held
  <2>3. CASE clock' = clock /\ sendAt'[m] = sendAt[m]
    BY <2>1, <2>3 DEF Held
  <2>4. CASE \E n \in Messages : Send(n) \/ SendNow(n) \/ Take(n)
    BY <2>3, <2>4 DEF Send, ReadTime, SendNow, Take
  <2>5. CASE \E n \in Messages : Insert(n)
    <3>1. PICK n \in Messages : Insert(n)
      BY <2>5
    <3>2. n # m
      BY <1>1, <2>1, <3>1 DEF Insert, NewUntilInsert
    <3> QED BY <1>1, <2>3, <3>1, <3>2 DEF Insert, TypeOK
  <2>6. CASE \E r \in Requests : Set(r) \/ StartReschedule(r) \/ Fail(r)
    BY <2>3, <2>6 DEF Set, StartReschedule, ReadTime, Fail
  <2>7. CASE \E r \in Requests : Update(r) \/ Disable(r)
    BY <1>1, <2>3, <2>7 DEF Update, Disable, MoveHeld, TypeOK
  <2>8. CASE \E c \in Calls : Compute(c)
    BY <2>3, <2>8 DEF Compute
  <2> QED BY <1>1, <2>2, <2>3, <2>4, <2>5, <2>6, <2>7, <2>8 DEF Next, vars
<1>2. TypeOK /\ TypeOK' /\ NewUntilInsert /\ [Next]_vars
        => [\A m \in Messages : Due(m) => m \notin Held']_vars
  BY <1>1
<1>3. TypeOK /\ TypeOK' /\ NewUntilInsert /\ [Next]_vars
        => [\A m \in Messages : row[m] = "A" /\ m \notin Held => m \notin Held']_vars
  BY <1>2
<1> QED BY <1>3, InitNewUntilInsert, StepNewUntilInsert, TypeCorrect, PTL DEF Spec, DueStaysDue
-------------------------------------------------------------------------------
(***************************************************************************)
(* HeldUntilPeriodEnds says nothing while calls are under way.  What makes *)
(* it hold when they have returned: the answer that a call got belongs to  *)
(* the period the user has now (a change would be "raced"), and stays the  *)
(* next end until that has passed; what is held is right, or a call of set *)
(* is still to move it.                                                    *)
(***************************************************************************)

(* A moment, if there is one and it is still to come, is the next end of the period. *)
Until(p, at, t) == t # None /\ Before(at, t) => p # None /\ IsNextEnd(p, at, t)

SetUnderWay == \E r \in Requests : pc[r] \in {"saved", "timed", "computed"}

AnswersCurrent == \A c \in Calls : pc[c] = "computed" => Until(period, clock, answer[c])

HeldCurrent == \A m \in Held : Until(period, clock, sendAt[m])

(* A message that is still to be sent has no time yet. *)
NoTimeYet == \A m \in Messages : pc[m] = "idle" => sendAt[m] = None

HeldInv == harm = {} => AnswersCurrent /\ (SetUnderWay \/ HeldCurrent)

(* The next end stays the next end until it has passed. *)
LEMMA UntilGoesOn ==
  ASSUME TypeOK, Tick, NEW t \in Moments \cup {None}, Until(period, clock, t)
  PROVE  Until(period, clock', t)
<1> SUFFICES ASSUME t # None, Before(clock', t)
    PROVE  period # None /\ IsNextEnd(period, clock', t)
  BY DEF Until
<1>1. clock' \in Moments /\ clock \in Moments /\ HoursPerDay \in Nat /\ t \in Moments
  BY BoundsAssumption, NoneIsNothing DEF Tick, TypeOK, Moments, Hours
<1>2. Before(clock, t)
  BY <1>1 DEF Tick, Before, Moments, Hours
<1>3. period # None /\ t.hour = period.end /\ ~Before(DaysLater(clock, 1), t)
  BY <1>2 DEF Until, IsNextEnd
<1>4. ~Before(DaysLater(clock', 1), t)
  BY <1>1, <1>3 DEF Tick, Before, DaysLater, Moments, Hours
<1> QED BY <1>3, <1>4 DEF IsNextEnd

(***************************************************************************)
(* The answer of a call that read the time and the date on the same day,   *)
(* however many hours apart, is the next end unless it has passed already. *)
(***************************************************************************)
LEMMA AnswerCurrent ==
  ASSUME TypeOK, NEW c \in Calls, Compute(c), ~Before(clock, began[c]), harm' = {}
  PROVE  Until(period, clock, answer'[c])
<1> DEFINE t == Reschedule(period, began[c].hour, clock.day)
<1> SUFFICES ASSUME answer'[c] # None, Before(clock, answer'[c])
    PROVE  period # None /\ IsNextEnd(period, clock, answer'[c])
  BY DEF Until
<1>1. period # None /\ answer'[c] = t /\ t # None /\ began[c].day = clock.day
  BY DEF Compute, TypeOK, Happened
<1>2. /\ clock \in Moments /\ clock.day \in Nat /\ clock.hour \in 0..HoursPerDay - 1
      /\ began[c].day \in Nat /\ began[c].hour \in 0..HoursPerDay - 1
  BY DEF TypeOK, Moments, Hours
<1>3. period.start \in 0..HoursPerDay - 1 /\ period.end \in 0..HoursPerDay - 1
  BY <1>1 DEF TypeOK, Periods, Hours
<1>4. HoursPerDay \in Nat /\ began[c].hour <= clock.hour
  BY BoundsAssumption, <1>1, <1>2 DEF Before
<1>5. t.hour = period.end
  BY <1>1, <1>2, <1>3, <1>4 DEF Reschedule, SpansDays, DaysLater
<1>6. ~Before(DaysLater(clock, 1), t)
  BY <1>1, <1>2, <1>3, <1>4 DEF Reschedule, SpansDays, DaysLater, Before, Moments
<1> QED BY <1>1, <1>5, <1>6 DEF IsNextEnd

LEMMA InitHeldInv == Init => HeldInv
BY DEF Init, HeldInv, AnswersCurrent, HeldCurrent, Held, Calls

LEMMA InitNoTimeYet == Init => NoTimeYet
BY DEF Init, NoTimeYet

LEMMA StepNoTimeYet == TypeOK /\ NoTimeYet /\ [Next]_vars => NoTimeYet'
<1> SUFFICES ASSUME TypeOK, NoTimeYet, [Next]_vars PROVE NoTimeYet'
  OBVIOUS
<1> USE DEF NoTimeYet, TypeOK, Goto, Return, Calls
<1>1. CASE Tick \/ UNCHANGED vars
  BY <1>1 DEF Tick, vars
<1>2. CASE \E m \in Messages : Send(m) \/ SendNow(m) \/ Insert(m) \/ Take(m)
  BY <1>2 DEF Send, ReadTime, SendNow, Insert, Take
<1>3. CASE \E r \in Requests : Set(r) \/ StartReschedule(r) \/ Fail(r)
  BY <1>3, CallsAssumption DEF Set, StartReschedule, ReadTime, Fail
<1>4. CASE \E r \in Requests : Update(r) \/ Disable(r)
  BY <1>4, CallsAssumption DEF Update, Disable, MoveHeld, Held
<1>5. CASE \E c \in Calls : Compute(c)
  BY <1>5 DEF Compute
<1> QED BY <1>1, <1>2, <1>3, <1>4, <1>5 DEF Next

(* A call of set, once it has computed its answer, moves whatever is held. *)
LEMMA MoveHeldCurrent ==
  ASSUME TypeOK, NEW at, Until(period, clock, at), MoveHeld(at),
         clock' = clock, period' = period, row' = row
  PROVE  HeldCurrent'
<1> SUFFICES ASSUME NEW m \in Messages, m \in Held' PROVE Until(period, clock, sendAt'[m])
  BY DEF HeldCurrent, Held
<1>1. row[m] = "A" /\ sendAt'[m] # None /\ Before(clock, sendAt'[m])
  BY DEF Held
<1>2. sendAt'[m] = at
  BY <1>1 DEF MoveHeld, Held, TypeOK
<1> QED BY <1>2

LEMMA StepHeldInv ==
  TypeOK /\ TypeOK' /\ SoonInv /\ NoTimeYet /\ HeldInv /\ [Next]_vars => HeldInv'
<1> SUFFICES ASSUME TypeOK, TypeOK', SoonInv, NoTimeYet, HeldInv, [Next]_vars, harm' = {}
    PROVE  AnswersCurrent' /\ (SetUnderWay' \/ HeldCurrent')
  BY DEF HeldInv
<1> DEFINE Preserved == AnswersCurrent' /\ (SetUnderWay' \/ HeldCurrent')
<1>inv. harm = {} /\ AnswersCurrent /\ (SetUnderWay \/ HeldCurrent)
  <2>1. harm = {}
    BY DEF Next, vars, Tick, Send, ReadTime, SendNow, Insert, Take, Set, Overtakes, Happened,
           StartReschedule, Update, Disable, Fail, Compute
  <2> QED BY <2>1 DEF HeldInv
(* What is still held was held before, unless the step has set its time. *)
<1>still. ASSUME clock' = clock, period' = period, HeldCurrent,
                 \A m \in Messages : row'[m] = "A" /\ sendAt'[m] # None =>
                   \/ row[m] = "A" /\ sendAt'[m] = sendAt[m]
                   \/ Until(period, clock, sendAt'[m])
          PROVE  HeldCurrent'
  BY <1>still DEF HeldCurrent, Held
<1>1. CASE Tick
  <2>1. AnswersCurrent'
    BY <1>1, <1>inv, UntilGoesOn DEF AnswersCurrent, TypeOK, Tick
  <2>2. ASSUME HeldCurrent PROVE HeldCurrent'
    <3> SUFFICES ASSUME NEW m \in Messages, m \in Held' PROVE Until(period, clock', sendAt[m])
      BY <1>1 DEF HeldCurrent, Held, Tick
    <3>1. row[m] = "A" /\ sendAt[m] # None /\ sendAt[m] \in Moments /\ Before(clock', sendAt[m])
      BY <1>1 DEF Held, Tick, TypeOK
    <3>2. m \in Held
      BY <1>1, <3>1, ClockGoesOn DEF Held
    <3> QED BY <1>1, <2>2, <3>1, <3>2, UntilGoesOn DEF HeldCurrent
  <2> QED BY <1>1, <1>inv, <2>1, <2>2 DEF Tick, SetUnderWay
<1>2. ASSUME NEW c \in Calls, ReadTime(c), c \in Messages \/ pc[c] = "saved" PROVE Preserved
  <2>1. AnswersCurrent'
    BY <1>2, <1>inv DEF AnswersCurrent, ReadTime, Goto, TypeOK
  <2>2. SetUnderWay => SetUnderWay'
    BY <1>2, CallsAssumption DEF SetUnderWay, ReadTime, Goto, TypeOK, Calls
  <2>3. HeldCurrent => HeldCurrent'
    BY <1>2, <1>still DEF ReadTime
  <2> QED BY <1>inv, <2>1, <2>2, <2>3
<1>3. ASSUME NEW m \in Messages, SendNow(m) PROVE Preserved
  <2>1. AnswersCurrent'
    BY <1>3, <1>inv DEF AnswersCurrent, SendNow, Goto, TypeOK
  <2>2. SetUnderWay => SetUnderWay'
    BY <1>3, CallsAssumption DEF SetUnderWay, SendNow, Goto, TypeOK, Calls
  <2>3. HeldCurrent => HeldCurrent'
    BY <1>3, <1>still DEF SendNow, NoTimeYet, TypeOK
  <2> QED BY <1>inv, <2>1, <2>2, <2>3
<1>4. ASSUME NEW m \in Messages, Insert(m) PROVE Preserved
  <2>1. AnswersCurrent'
    BY <1>4, <1>inv DEF AnswersCurrent, Insert, Return, Goto, TypeOK, Calls
  <2>2. SetUnderWay => SetUnderWay'
    BY <1>4, CallsAssumption DEF SetUnderWay, Insert, Return, Goto, TypeOK, Calls
  <2>3. Until(period, clock, answer[m])
    BY <1>4, <1>inv DEF AnswersCurrent, Insert, Calls
  <2>4. HeldCurrent => HeldCurrent'
    BY <1>4, <1>still, <2>3 DEF Insert, TypeOK
  <2> QED BY <1>inv, <2>1, <2>2, <2>4
<1>5. ASSUME NEW m \in Messages, Take(m) PROVE Preserved
  <2>1. AnswersCurrent'
    BY <1>5, <1>inv DEF AnswersCurrent, Take
  <2>2. SetUnderWay => SetUnderWay'
    BY <1>5 DEF SetUnderWay, Take
  <2>3. HeldCurrent => HeldCurrent'
    BY <1>5, <1>still DEF Take, TypeOK
  <2> QED BY <1>inv, <2>1, <2>2, <2>3
(* A change of the period finds no answer under way, and its own call is to move what is held. *)
<1>6. ASSUME NEW r \in Requests, Set(r) PROVE Preserved
  <2>1. AnswersCurrent'
    BY <1>6 DEF AnswersCurrent, Set, Overtakes, Happened, Goto, TypeOK, Calls
  <2>2. SetUnderWay'
    BY <1>6 DEF SetUnderWay, Set, Goto, TypeOK, Calls
  <2> QED BY <2>1, <2>2
<1>7. ASSUME NEW r \in Requests, Update(r) PROVE Preserved
  <2>1. AnswersCurrent'
    BY <1>7, <1>inv DEF AnswersCurrent, Update, Return, Goto, TypeOK, Calls
  <2>2. Until(period, clock, answer[r])
    BY <1>7, <1>inv DEF AnswersCurrent, Update, Calls
  <2>3. HeldCurrent'
    BY <1>7, <2>2, MoveHeldCurrent DEF Update
  <2> QED BY <2>1, <2>3
(* disable leaves nothing held. *)
<1>8. ASSUME NEW r \in Requests, Disable(r) PROVE Preserved
  <2>1. AnswersCurrent'
    BY <1>8 DEF AnswersCurrent, Disable, Overtakes, Happened, Return, Goto, TypeOK, Calls
  <2>2. HeldCurrent'
    BY <1>8 DEF HeldCurrent, Held, Disable, MoveHeld, TypeOK
  <2> QED BY <2>1, <2>2
<1>9. ASSUME NEW r \in Requests, Fail(r) PROVE FALSE
  BY <1>9 DEF Fail, Happened
<1>10. ASSUME NEW c \in Calls, Compute(c) PROVE Preserved
  <2>1. Until(period, clock, answer'[c])
    BY <1>10, AnswerCurrent DEF SoonInv, Compute
  <2>2. AnswersCurrent'
    BY <1>10, <1>inv, <2>1 DEF AnswersCurrent, Compute, Goto, TypeOK
  <2>3. SetUnderWay => SetUnderWay'
    BY <1>10 DEF SetUnderWay, Compute, Goto, TypeOK
  <2>4. HeldCurrent => HeldCurrent'
    BY <1>10, <1>still DEF Compute
  <2> QED BY <1>inv, <2>2, <2>3, <2>4
<1>11. CASE UNCHANGED vars
  BY <1>11, <1>inv DEF vars, AnswersCurrent, SetUnderWay, HeldCurrent, Held
<1> QED
  BY <1>1, <1>2, <1>3, <1>4, <1>5, <1>6, <1>7, <1>8, <1>9, <1>10, <1>11
     DEF Next, Send, StartReschedule, Calls

(***************************************************************************)
(* When no call is under way, what is held back is held until the next end *)
(* of the period that the user has now, for any number of messages and of  *)
(* calls of set and disable, and however long the steps of a call take:    *)
(* unless it went over midnight, was overtaken or failed halfway.          *)
(***************************************************************************)
THEOREM HeldUntilEnds == Spec => []HeldUntilPeriodEnds
<1>1. HeldInv => HeldUntilPeriodEnds
  BY DEF HeldInv, HeldUntilPeriodEnds, Settled, SetUnderWay, HeldCurrent, Held, Until, Calls
<1>2. Init => SoonInv /\ NoTimeYet /\ HeldInv
  BY InitSoonInv, InitNoTimeYet, InitHeldInv
<1>3. TypeOK /\ TypeOK' /\ SoonInv /\ NoTimeYet /\ HeldInv /\ [Next]_vars
        => SoonInv' /\ NoTimeYet' /\ HeldInv'
  BY StepSoonInv, StepNoTimeYet, StepHeldInv
<1> QED BY <1>1, <1>2, <1>3, TypeCorrect, PTL DEF Spec
===============================================================================
