--------------------------- MODULE GroupItemsByDate ----------------------------
(***************************************************************************)
(* How a list of alerts or activities is put under headings: "Today",      *)
(* "Last Week" and so on (GroupItemsByDate.js, and the views that use it). *)
(* The grouping goes through the list once and fails if a group comes up   *)
(* again; and the clock is read for each day anew, so that midnight may    *)
(* pass in the middle of a list.                                           *)
(*                                                                         *)
(* A date is the number of its day, day 0 being a Monday.                  *)
(***************************************************************************)
EXTENDS Integers, SequencesExt

Week(day) == day \div 7

maxGroup == 7

(***************************************************************************)
(* The first of the conditions that holds.  isAfter(tomorrow) compares the *)
(* beginning of the date with an hour of tomorrow: later than tomorrow.    *)
(***************************************************************************)
GroupForItem(date, now) ==
  LET isGroup == << Week(date) = Week(now) + 1 /\ date > now + 1,
                    Week(date) = Week(now) /\ date > now + 1,
                    date = now + 1, date = now, date = now - 1,
                    Week(date) = Week(now), Week(date) = Week(now) - 1, TRUE >>
  IN SelectInSeq(isGroup, LAMBDA holds : holds) - 1

NoGroup == -1

(***************************************************************************)
(* One item of the forEach.  A new day may begin a new group, which must   *)
(* not be among those that are finished ("Normally caused by items not in  *)
(* order").                                                                *)
(***************************************************************************)
AddItem(grouping, item) ==
  LET newGroup == GroupForItem(item.date, item.now)
      isNew == item.date # grouping.date /\ newGroup # grouping.group
      isFirst == grouping.group = NoGroup
  IN [date |-> item.date,
      group |-> IF isNew THEN newGroup ELSE grouping.group,
      items |-> IF isNew THEN <<item.date>> ELSE Append(grouping.items, item.date),
      groups |-> IF isNew /\ ~isFirst
                 THEN Append(grouping.groups, [group |-> grouping.group, items |-> grouping.items])
                 ELSE grouping.groups,
      failed |-> grouping.failed
                   \/ (isNew /\ ~isFirst /\ \E g \in ToSet(grouping.groups) : g.group = newGroup)]

NothingGrouped ==
  [date |-> NoGroup, group |-> NoGroup, items |-> <<>>, groups |-> <<>>, failed |-> FALSE]

Grouping(items) == FoldLeft(AddItem, NothingGrouped, items)

GetGroupedItems(items) ==
  LET grouping == Grouping(items)
  IN IF grouping.group = NoGroup THEN <<>>
     ELSE Append(grouping.groups, [group |-> grouping.group, items |-> grouping.items])

(* Mutation: every list is grouped. *)
AlwaysGrouped(top, now) == TRUE

(* shouldBeGrouped: by the newest item of the stream. *)
ShouldBeGrouped(top, now) == GroupForItem(top, now) # maxGroup

-------------------------------------------------------------------------------
(* Lists of up to three items, newest first, from three weeks before to three after. *)
SortedDates == {dates \in UNION {[1..n -> 0..41] : n \in 1..3} :
                  \A i \in 1..Len(dates) - 1 : dates[i] >= dates[i + 1]}

(* The day now, and the place in the list, if any, from which on it is the next day. *)
Clocks == [today : 14..20, midnight : 1..4]

Dated(dates, clock) ==
  [i \in 1..Len(dates) |->
     [date |-> dates[i], now |-> IF i < clock.midnight THEN clock.today ELSE clock.today + 1]]

(***************************************************************************)
(* A sorted list that a view decides to group can be grouped, even if      *)
(* midnight passes meanwhile: no group comes up twice, the headings are in *)
(* their order, and the groups together are the list.  Dates of more than  *)
(* a week ahead count as "Older" and would break this; that the newest     *)
(* item is not in that group is what keeps them out.                       *)
(***************************************************************************)
GroupsFollowTheList ==
  \A dates \in SortedDates, clock \in Clocks :
    ShouldBeGrouped(dates[1], clock.today) =>
      LET items == Dated(dates, clock)
          grouped == GetGroupedItems(items)
      IN /\ ~Grouping(items).failed
         /\ \A i, j \in DOMAIN grouped : i < j => grouped[i].group < grouped[j].group
         /\ FlattenSeq([i \in DOMAIN grouped |-> grouped[i].items]) = dates
===============================================================================
