------------------------------ MODULE StreamMerge ------------------------------
(***************************************************************************)
(* The arrays in which the web client keeps a stream (stream.js): one      *)
(* array of items for each month, newest first, and the merge that adds    *)
(* received items to them.  The merge takes short cuts by date; here it is *)
(* compared with what it must compute, the sorted union.                   *)
(***************************************************************************)
EXTENDS StreamItems, SequencesExt, FiniteSetsExt, Functions, TLC

CONSTANT MonthOf   \* partitionByYearAndMonth: the month of each item, of its date

ASSUME MonthsAssumption ==
  /\ MonthOf \in [Items -> Nat]
  /\ \A x, y \in Items : MonthOf[x] > MonthOf[y] => DateOf[x] > DateOf[y]

Months == Range(MonthOf)

(* An item goes behind the last of those that it does not go before. *)
Insert(sorted, x) == InsertAt(sorted, SelectLastInSeq(sorted, LAMBDA y : ~Newer(x, y)) + 1, x)

(* orderBy of lodash: stable. *)
SortItems(items) == FoldLeft(Insert, <<>>, items)

UniqItems(items) ==
  FoldLeft(LAMBDA kept, x : IF Contains(kept, x) THEN kept ELSE Append(kept, x), <<>>, items)

OldestDate(items) == Min({DateOf[x] : x \in Range(items)})

(* Mutation: the merge starts above the items of the oldest received date. *)
MergeBelowTies(partition, rx) ==
  LET oldestRx == OldestDate(rx)
      mergeStart == SelectLastInSeq(partition, LAMBDA x : DateOf[x] > oldestRx)
  IN IF partition = <<>> THEN SortItems(UniqItems(rx))
     ELSE SortItems(UniqItems(SubSeq(partition, 1, mergeStart) \o rx))
          \o SubSeq(partition, mergeStart + 1, Len(partition))

(***************************************************************************)
(* mergeReceivedItems.  Its last line, for items that are all older than   *)
(* the partition, is never reached: the newest of the partition is then    *)
(* not older than the oldest received, so there is a place to merge at.    *)
(***************************************************************************)
MergeReceivedItems(partition, rx) ==
  LET uniqRx == UniqItems(rx)
      oldestRx == OldestDate(uniqRx)
      mergeStart == SelectLastInSeq(partition, LAMBDA x : DateOf[x] >= oldestRx)
      toMerge == SubSeq(partition, 1, mergeStart) \o uniqRx
      rest == SubSeq(partition, mergeStart + 1, Len(partition))
  IN IF partition = <<>> THEN SortItems(uniqRx)
     ELSE IF DateOf[Head(partition)] < oldestRx
     THEN UniqItems(SortItems(uniqRx) \o partition)
     ELSE SortItems(UniqItems(toMerge)) \o rest

(* groupBy of lodash: the items of a month, in the order received. *)
GroupOf(rx, month) ==
  FoldLeft(LAMBDA group, x : IF MonthOf[x] = month THEN Append(group, x) ELSE group, <<>>, rx)

(* onStreamReceive: group what was received by month and merge group by group. *)
OnStreamReceive(stream, rx) ==
  [month \in Months |->
     IF GroupOf(rx, month) = <<>> THEN stream[month]
     ELSE MergeReceivedItems(stream[month], GroupOf(rx, month))]

EmptyStream == [month \in Months |-> <<>>]

Keys(stream) == {month \in DOMAIN stream : stream[month] # <<>>}

Orders(keys) == {p \in [1..Cardinality(keys) -> keys] : Range(p) = keys}

(* getOrderedStreamPartitions: by descending key. *)
PartitionKeys(stream) ==
  CHOOSE p \in Orders(Keys(stream)) : \A i, j \in DOMAIN p : i < j => p[i] > p[j]

Partitions(stream) ==
  LET keys == PartitionKeys(stream) IN [n \in DOMAIN keys |-> stream[keys[n]]]

(* Mutation: up to n items are taken of each partition. *)
TakeOfEach(taken, part, n) ==
  IF Len(taken) >= n THEN taken ELSE taken \o SubSeq(part, 1, Min({n, Len(part)}))

TakeOf(taken, part, n) ==
  IF Len(taken) >= n THEN taken
  ELSE taken \o SubSeq(part, 1, Min({n - Len(taken), Len(part)}))

TakeFromStream(stream, n) ==
  FoldLeft(LAMBDA taken, part : TakeOf(taken, part, n), <<>>, Partitions(stream))

GetLastItemInStream(stream) == Last(Last(Partitions(stream)))

GetStreamSize(stream) == SumFunction([month \in Keys(stream) |-> Len(stream[month])])

GetNumItemsSince(stream, date) ==
  SumFunction([month \in Keys(stream) |->
                 Quantify(DOMAIN stream[month], LAMBDA i : DateOf[stream[month][i]] > date)])

(***************************************************************************)
(* freeze: what is stored; loading it receives it into an empty stream.    *)
(* The partitions come in the order in which they were made, any order.    *)
(***************************************************************************)
Freeze(stream, order) == FlattenSeq([n \in DOMAIN order |-> stream[order[n]]])

-------------------------------------------------------------------------------
(* The items of a set in their order: the place of each is one more than how many are newer. *)
InOrder(set) ==
  [n \in 1..Cardinality(set) |->
     CHOOSE x \in set : Cardinality({y \in set : Newer(y, x)}) = n - 1]

(* The stream that holds a set of items: they are sorted, month by month. *)
StreamOf(set) == [month \in Months |-> InOrder({x \in set : MonthOf[x] = month})]

(* What a response or a push may hold: items in any order, the same one perhaps twice. *)
ReceivedItems == UNION {[1..n -> Items] : n \in 1..3}

(***************************************************************************)
(* Whatever is received, and whatever the stream holds already, the merge  *)
(* yields the sorted union, without duplicates, month by month: the short  *)
(* cuts by date (stream.js) lose and misplace nothing.                     *)
(***************************************************************************)
MergeIsSortedUnion ==
  \A held \in SUBSET Items, rx \in ReceivedItems :
    IsFiniteSet(held) => OnStreamReceive(StreamOf(held), rx) = StreamOf(held \cup Range(rx))

(***************************************************************************)
(* The arrays of the months are read as one list: the newest items, the    *)
(* oldest one, how many there are and how many are newer than a date are   *)
(* those of the set; and a stream that is frozen and received again is the *)
(* same stream.                                                            *)
(***************************************************************************)
StreamIsReadInOrder ==
  \A held \in (SUBSET Items) \ {{}} : IsFiniteSet(held) =>
    LET stream == StreamOf(held)
        sorted == InOrder(held)
    IN /\ \A n \in 0..Len(sorted) : TakeFromStream(stream, n) = SubSeq(sorted, 1, n)
       /\ GetLastItemInStream(stream) = Last(sorted)
       /\ GetStreamSize(stream) = Cardinality(held)
       /\ \A x \in Items :
            GetNumItemsSince(stream, DateOf[x]) = Cardinality({y \in held : DateOf[y] > DateOf[x]})
       /\ \A order \in Orders(Keys(stream)) :
            OnStreamReceive(EmptyStream, Freeze(stream, order)) = stream
===============================================================================
