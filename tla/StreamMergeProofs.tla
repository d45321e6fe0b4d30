--------------------------- MODULE StreamMergeProofs ---------------------------
(***************************************************************************)
(* The arrays of a stream, for any number of items of any dates: what is   *)
(* received is merged into them, and they are read as one list.            *)
(*                                                                         *)
(* A sorted sequence is its set in order, so that what sortItems,          *)
(* uniqItems and the short cuts of the merge return is known from its      *)
(* items once it is known to be sorted.                                    *)
(***************************************************************************)
EXTENDS ClientListsProofs

(* The arrays of a stream: a new item goes to its place. *)

(* Newest first, and no item twice. *)
Sorted(s) == \A i, j \in 1..Len(s) : i < j => Newer(s[i], s[j])

(* Of two items one is newer, and what is newer is not older. *)
LEMMA NewerIsAnOrder ==
  ASSUME NEW x \in Items, NEW y \in Items, NEW z \in Items
  PROVE  /\ ~Newer(x, x)
         /\ Newer(x, y) /\ Newer(y, z) => Newer(x, z)
         /\ Newer(x, y) \/ Newer(y, x) \/ x = y
         /\ DateOf[x] > DateOf[y] => Newer(x, y)
         /\ Newer(x, y) => DateOf[x] >= DateOf[y]
<1>1. /\ x \in Nat /\ y \in Nat /\ z \in Nat
      /\ DateOf[x] \in Nat /\ DateOf[y] \in Nat /\ DateOf[z] \in Nat
  BY ItemsAssumption
<1> QED BY <1>1 DEF Newer

(* What is sorted has no item twice. *)
LEMMA SortedIsDistinct ==
  ASSUME NEW s \in Seq(Items), Sorted(s)
  PROVE  Distinct(s)
<1> SUFFICES ASSUME NEW i \in 1..Len(s), NEW j \in 1..Len(s), s[i] = s[j], i # j PROVE FALSE
  BY DEF Distinct
<1>1. s[i] \in Items /\ s[j] \in Items /\ (i < j \/ j < i)
  OBVIOUS
<1>2. Newer(s[i], s[j]) \/ Newer(s[j], s[i])
  BY <1>1 DEF Sorted
<1> QED BY <1>1, <1>2, NewerIsAnOrder

(* An item that is new goes behind those that are newer and before those that are older. *)
LEMMA PlaceOfNew ==
  ASSUME NEW s \in Seq(Items), Sorted(s), NEW x \in Items, x \notin Range(s)
  PROVE  \E k \in 0..Len(s) :
           /\ SelectLastInSeq(s, LAMBDA y : ~Newer(x, y)) = k
           /\ \A i \in 1..Len(s) : IF i <= k THEN Newer(s[i], x) ELSE Newer(x, s[i])
<1> DEFINE N == Len(s)
           I == {i \in 1..N : ~Newer(x, s[i])}
           k == IF I # {} THEN Max(I) ELSE 0
<1>1. N \in Nat /\ \A i \in 1..N : s[i] \in Items /\ s[i] # x
  BY RangeIs
<1>2. SelectLastInSeq(s, LAMBDA y : ~Newer(x, y)) = k
  BY DEF SelectLastInSeq
<1>3. I \in SUBSET (1..N)
  OBVIOUS
<1>4. CASE I = {}
  <2>1. k = 0 /\ 0 \in 0..N /\ \A i \in 1..N : Newer(x, s[i]) /\ ~(i <= 0)
    BY <1>1, <1>4
  <2> QED BY <1>2, <2>1
<1>5. CASE I # {}
  <2>1. k \in I /\ \A i \in I : i <= k
    <3> HIDE DEF I, N
    <3> QED BY <1>1, <1>3, <1>5, MaxOf
  <2> HIDE DEF k
  <2>2. k \in 1..N /\ k \in 0..N /\ Newer(s[k], x)
    <3>1. k \in 1..N /\ ~Newer(x, s[k])
      BY <2>1
    <3>2. Newer(s[k], x)
      BY <1>1, <3>1, NewerIsAnOrder
    <3> QED BY <1>1, <3>1, <3>2
  <2>3. ASSUME NEW i \in 1..N, i <= k PROVE Newer(s[i], x)
    <3>1. CASE i = k
      BY <2>2, <3>1
    <3>2. CASE i < k
      <4>1. Newer(s[i], s[k])
        BY <2>2, <3>2 DEF Sorted
      <4> QED BY <1>1, <2>2, <4>1, NewerIsAnOrder
    <3> QED BY <1>1, <2>2, <2>3, <3>1, <3>2
  <2>4. ASSUME NEW i \in 1..N, ~(i <= k) PROVE Newer(x, s[i])
    BY <2>1, <2>4
  <2> QED BY <1>2, <2>2, <2>3, <2>4
<1> QED BY <1>4, <1>5

(* A new item goes to its place. *)
LEMMA InsertKeepsOrder ==
  ASSUME NEW s \in Seq(Items), Sorted(s), NEW x \in Items, x \notin Range(s)
  PROVE  /\ Insert(s, x) \in Seq(Items) /\ Sorted(Insert(s, x))
         /\ Range(Insert(s, x)) = Range(s) \cup {x}
<1> DEFINE N == Len(s)
<1>1. PICK k \in 0..N :
        /\ SelectLastInSeq(s, LAMBDA y : ~Newer(x, y)) = k
        /\ \A i \in 1..N : IF i <= k THEN Newer(s[i], x) ELSE Newer(x, s[i])
  BY PlaceOfNew
<1> DEFINE t == InsertAt(s, k + 1, x)
<1>2. Insert(s, x) = t
  BY <1>1 DEF Insert
<1>3. /\ t \in Seq(Items) /\ Len(t) = N + 1
      /\ \A i \in 1..k : t[i] = s[i]
      /\ t[k + 1] = x
      /\ \A i \in k + 1..N : t[i + 1] = s[i]
  <2>1. s \in Seq(Items) /\ x \in Items /\ k \in 0..Len(s)
    OBVIOUS
  <2>2. t \in Seq(Items) /\ Len(t) = Len(s) + 1
    BY ONLY <2>1, InsertIs
  <2>3. \A i \in 1..k : t[i] = s[i]
    BY ONLY <2>1, InsertIs
  <2>4. t[k + 1] = x
    BY ONLY <2>1, InsertIs
  <2>5. \A i \in k + 1..Len(s) : t[i + 1] = s[i]
    BY ONLY <2>1, InsertIs
  <2> HIDE DEF t
  <2> QED BY <2>2, <2>3, <2>4, <2>5
<1>4. N \in Nat /\ k \in Nat /\ \A i \in 1..N : s[i] \in Items
  OBVIOUS
<1> HIDE DEF t, N
<1>5. \A i \in k + 2..N + 1 : i - 1 \in k + 1..N /\ i - 1 \in 1..N /\ t[i] = s[i - 1]
  <2> SUFFICES ASSUME NEW i \in k + 2..N + 1 PROVE i - 1 \in k + 1..N /\ i - 1 \in 1..N /\ t[i] = s[i - 1]
    OBVIOUS
  <2>1. i - 1 \in k + 1..N /\ i - 1 \in 1..N /\ (i - 1) + 1 = i
    BY <1>4
  <2> QED BY <1>3, <2>1
<1>6. Sorted(t)
  <2> SUFFICES ASSUME NEW i \in 1..N + 1, NEW j \in 1..N + 1, i < j PROVE Newer(t[i], t[j])
    BY <1>3 DEF Sorted
  <2>1. CASE j <= k
    <3>1. i \in 1..k /\ j \in 1..k /\ i \in 1..N /\ j \in 1..N
      BY <1>1, <1>4, <2>1
    <3>2. Newer(s[i], s[j])
      BY <3>1 DEF Sorted, N
    <3> QED BY <1>3, <3>1, <3>2
  <2>2. CASE j = k + 1
    <3>1. i \in 1..k /\ i \in 1..N /\ i <= k
      BY <1>1, <1>4, <2>2
    <3> QED BY <1>1, <1>3, <2>2, <3>1
  <2>3. CASE i = k + 1
    <3>1. j \in k + 2..N + 1
      BY <1>4, <2>3
    <3>2. j - 1 \in 1..N /\ ~(j - 1 <= k) /\ t[j] = s[j - 1]
      BY <1>4, <1>5, <3>1
    <3> QED BY <1>1, <1>3, <2>3, <3>2
  <2>4. CASE i <= k /\ j > k + 1
    <3>1. i \in 1..k /\ i \in 1..N /\ j \in k + 2..N + 1
      BY <1>1, <1>4, <2>4
    <3>2. j - 1 \in 1..N /\ i < j - 1 /\ t[j] = s[j - 1] /\ t[i] = s[i]
      BY <1>3, <1>4, <1>5, <2>4, <3>1
    <3>3. Newer(s[i], s[j - 1])
      BY <3>1, <3>2 DEF Sorted, N
    <3> QED BY <3>2, <3>3
  <2>5. CASE i > k + 1
    <3>1. i \in k + 2..N + 1 /\ j \in k + 2..N + 1
      BY <1>4, <2>5
    <3>2. i - 1 \in 1..N /\ j - 1 \in 1..N /\ i - 1 < j - 1 /\ t[j] = s[j - 1] /\ t[i] = s[i - 1]
      BY <1>4, <1>5, <3>1
    <3>3. Newer(s[i - 1], s[j - 1])
      BY <3>2 DEF Sorted, N
    <3> QED BY <3>2, <3>3
  <2> QED BY <1>4, <2>1, <2>2, <2>3, <2>4, <2>5
<1>7. Range(t) = Range(s) \cup {x}
  <2>1. ASSUME NEW y \in Range(t) PROVE y \in Range(s) \cup {x}
    <3>1. PICK i \in 1..N + 1 : t[i] = y
      BY <1>3, <2>1, RangeIs
    <3>2. CASE i <= k
      <4>1. i \in 1..k /\ i \in 1..N
        BY <1>1, <1>4, <3>2
      <4>2. s[i] = y
        BY <1>3, <3>1, <4>1
      <4> QED BY <4>1, <4>2, RangeIs DEF N
    <3>3. CASE i = k + 1
      BY <1>3, <3>1, <3>3
    <3>4. CASE i > k + 1
      <4>1. i \in k + 2..N + 1
        BY <1>4, <3>4
      <4>2. i - 1 \in 1..N /\ s[i - 1] = y
        BY <1>5, <3>1, <4>1
      <4> QED BY <4>2, RangeIs DEF N
    <3> QED BY <1>4, <3>2, <3>3, <3>4
  <2>2. x \in Range(t)
    <3>1. k + 1 \in 1..N + 1
      BY <1>1, <1>4
    <3> QED BY <1>3, <3>1, RangeIs
  <2>3. ASSUME NEW y \in Range(s) PROVE y \in Range(t)
    <3>1. PICK i \in 1..N : s[i] = y
      BY <2>3, RangeIs DEF N
    <3>2. CASE i <= k
      <4>1. i \in 1..k /\ i \in 1..N + 1
        BY <1>4, <3>2
      <4>2. t[i] = y
        BY <1>3, <3>1, <4>1
      <4> QED BY <1>3, <4>1, <4>2, RangeIs
    <3>3. CASE i > k
      <4>1. i \in k + 1..N /\ i + 1 \in 1..N + 1
        BY <1>4, <3>3
      <4>2. t[i + 1] = y
        BY <1>3, <3>1, <4>1
      <4> QED BY <1>3, <4>1, <4>2, RangeIs
    <3> QED BY <1>4, <3>2, <3>3
  <2> QED BY <2>1, <2>2, <2>3
<1> QED BY <1>2, <1>3, <1>6, <1>7
-------------------------------------------------------------------------------
(* sortItems. *)

(* An item is inserted somewhere. *)
LEMMA InsertType ==
  ASSUME NEW s \in Seq(Items), NEW x \in Items
  PROVE  Insert(s, x) \in Seq(Items)
<1> DEFINE N == Len(s)
           I == {i \in 1..N : ~Newer(x, s[i])}
           k == IF I # {} THEN Max(I) ELSE 0
<1>1. SelectLastInSeq(s, LAMBDA y : ~Newer(x, y)) = k
  BY DEF SelectLastInSeq
<1>2. N \in Nat /\ I \in SUBSET (1..N)
  OBVIOUS
<1>3. k \in 0..N
  <2>1. CASE I = {}
    BY <1>2, <2>1
  <2>2. CASE I # {}
    <3>1. Max(I) \in I
      <4> HIDE DEF I, N
      <4> QED BY <1>2, <2>2, MaxOf
    <3> QED BY <1>2, <2>2, <3>1
  <2> QED BY <2>1, <2>2
<1> HIDE DEF k
<1>4. Insert(s, x) = InsertAt(s, k + 1, x)
  BY <1>1 DEF Insert
<1>5. InsertAt(s, k + 1, x) \in Seq(Items)
  BY <1>3, InsertIs
<1> QED BY <1>4, <1>5

(* SortItems goes through the items one by one, with Insert. *)
LEMMA SortingIsPasses ==
  ASSUME NEW items \in Seq(Items)
  PROVE  \E pass \in [0..Len(items) -> Seq(Items)] :
           /\ pass[0] = <<>>
           /\ \A n \in 1..Len(items) : pass[n] = Insert(pass[n - 1], items[n])
           /\ SortItems(items) = pass[Len(items)]
<1> DEFINE T == Seq(Items)
           N == Len(items)
           F == [p \in (1..N) \X T |-> Insert(p[2], items[p[1]])]
           Is(iter) == iter = [s \in SUBSET (1..N) |->
                                 IF s = {} THEN <<>>
                                 ELSE Insert(iter[s \ {Max(s)}], items[Max(s)])]
<1>1. N \in Nat /\ \A n \in 1..N : items[n] \in Items
  OBVIOUS
<1>2. <<>> \in T /\ \A kept \in T : \A x \in Items : Insert(kept, x) \in T
  BY InsertType
<1>3. F \in [(1..N) \X T -> T]
  <2> HIDE DEF T
  <2> QED BY <1>1, <1>2
<1> HIDE DEF T
<1>4. \E iter : Is(iter)
  <2> HIDE DEF F, N
  <2>1. PICK iter \in [SUBSET (1..N) -> T] : IsFold(iter, N, <<>>, F)
    BY <1>1, <1>2, <1>3, FoldExists
  <2>2. \A s \in SUBSET (1..N) : s # {} => Max(s) \in 1..N /\ iter[s \ {Max(s)}] \in T
    BY <1>1, <2>1, MaxOf
  <2>3. \A s \in SUBSET (1..N) : s # {} =>
          F[<<Max(s), iter[s \ {Max(s)}]>>] = Insert(iter[s \ {Max(s)}], items[Max(s)])
    BY <2>2 DEF F
  <2>4. Is(iter)
    BY <2>1, <2>3 DEF IsFold
  <2> QED BY <2>4
<1> DEFINE iter == CHOOSE iter : Is(iter)
<1>5. Is(iter)
  <2> HIDE DEF Is
  <2> QED BY <1>4
<1>6. SortItems(items) = iter[1..N]
  <2>1. DOMAIN items = 1..N
    OBVIOUS
  <2> QED BY <2>1 DEF SortItems, FoldLeft, MapThenFoldSet
<1> HIDE DEF iter
<1>7. iter[1..0] = <<>>
  <2>1. 1..0 = {}
    OBVIOUS
  <2> QED BY <1>5, <2>1
<1>8. \A n \in 1..N : iter[1..n] = Insert(iter[1..n - 1], items[n])
  <2> SUFFICES ASSUME NEW n \in 1..N PROVE iter[1..n] = Insert(iter[1..n - 1], items[n])
    OBVIOUS
  <2>1. Max(1..n) = n /\ (1..n) \ {n} = 1..n - 1
    BY <1>1, MaxOfInterval
  <2> HIDE DEF N
  <2>2. 1..n \in SUBSET (1..N) /\ 1..n # {}
    BY <1>1, PartOfInterval
  <2> QED BY <1>5, <2>1, <2>2
<1> DEFINE Typed == {n \in Nat : n <= N => iter[1..n] \in T}
<1>9. Typed = Nat
  <2>1. 0 \in Typed
    BY <1>2, <1>7
  <2>2. ASSUME NEW n \in Typed PROVE n + 1 \in Typed
    <3> HIDE DEF N
    <3> SUFFICES ASSUME n \in Nat, n + 1 <= N PROVE iter[1..n + 1] \in T
      OBVIOUS
    <3>1. iter[1..n] \in T /\ n + 1 \in 1..N /\ (n + 1) - 1 = n
      BY <1>1
    <3>2. iter[1..n + 1] = Insert(iter[1..n], items[n + 1])
      BY <1>8, <3>1
    <3> QED BY <1>1, <1>2, <3>1, <3>2
  <2>3. Typed \in SUBSET Nat
    OBVIOUS
  <2> HIDE DEF Typed
  <2> QED BY <2>1, <2>2, <2>3, Induction
<1> DEFINE pass == [n \in 0..N |-> iter[1..n]]
<1>10. pass \in [0..N -> T]
  BY <1>1, <1>9
<1>11. /\ pass[0] = <<>>
       /\ \A n \in 1..N : pass[n] = Insert(pass[n - 1], items[n])
       /\ SortItems(items) = pass[N]
  <2> HIDE DEF N
  <2> QED BY <1>1, <1>6, <1>7, <1>8
<1> QED BY <1>10, <1>11 DEF T

(* Sorting items that are all different. *)
LEMMA SortItemsSorts ==
  ASSUME NEW items \in Seq(Items), Distinct(items)
  PROVE  /\ SortItems(items) \in Seq(Items) /\ Sorted(SortItems(items))
         /\ Range(SortItems(items)) = Range(items)
<1> DEFINE N == Len(items)
<1>1. PICK pass \in [0..N -> Seq(Items)] :
        /\ pass[0] = <<>>
        /\ \A n \in 1..N : pass[n] = Insert(pass[n - 1], items[n])
        /\ SortItems(items) = pass[N]
  BY SortingIsPasses
<1>2. N \in Nat /\ \A n \in 1..N : items[n] \in Items
  OBVIOUS
<1> DEFINE Upto(n) == {items[i] : i \in 1..n}
           Ok(n) == Sorted(pass[n]) /\ Range(pass[n]) = Upto(n)
           Done == {n \in Nat : n <= N => Ok(n)}
<1>3. Done = Nat
  <2>1. 0 \in Done
    <3>1. Sorted(<<>>) /\ Range(<<>>) = {} /\ Upto(0) = {}
      BY DEF Sorted, Range
    <3> QED BY <1>1, <3>1
  <2>2. ASSUME NEW n \in Done PROVE n + 1 \in Done
    <3> HIDE DEF Ok, N
    <3> SUFFICES ASSUME n + 1 <= N PROVE Ok(n + 1)
      OBVIOUS
    <3>0. n \in Nat /\ (n <= N => Ok(n))
      OBVIOUS
    <3> USE DEF Ok, N
    <3> HIDE DEF Done
    <3>1. n \in 0..N /\ n + 1 \in 1..N /\ (n + 1) - 1 = n /\ n \in Nat
      BY <1>2, <3>0
    <3>2. Sorted(pass[n]) /\ Range(pass[n]) = Upto(n)
      BY <3>0, <3>1
    <3>3. pass[n] \in Seq(Items) /\ items[n + 1] \in Items
      BY <1>2, <3>1
    <3>4. items[n + 1] \notin Upto(n)
      <4> SUFFICES ASSUME NEW i \in 1..n, items[i] = items[n + 1] PROVE FALSE
        OBVIOUS
      <4>1. i \in 1..N /\ i # n + 1
        BY <1>2, <3>1
      <4> QED BY <3>1, <4>1 DEF Distinct
    <3>5. Upto(n + 1) = Upto(n) \cup {items[n + 1]}
      <4>1. 1..n + 1 = 1..n \cup {n + 1}
        BY <3>1
      <4> QED BY <4>1
    <3>6. pass[n + 1] = Insert(pass[n], items[n + 1])
      BY <1>1, <3>1
    <3> HIDE DEF Upto, N
    <3> DEFINE next == Insert(pass[n], items[n + 1])
    <3>7. Sorted(next) /\ Range(next) = Range(pass[n]) \cup {items[n + 1]}
      BY <3>2, <3>3, <3>4, InsertKeepsOrder
    <3> HIDE DEF next
    <3> QED BY <3>2, <3>5, <3>6, <3>7 DEF next
  <2>3. Done \in SUBSET Nat
    OBVIOUS
  <2> HIDE DEF Done
  <2> QED BY <2>1, <2>2, <2>3, Induction
<1>4. Sorted(pass[N]) /\ Range(pass[N]) = Upto(N)
  <2>1. N \in Done /\ N <= N
    <3> HIDE DEF Done
    <3> QED BY <1>2, <1>3
  <2> QED BY <2>1
<1>5. Range(items) = Upto(N)
  BY RangeIs
<1>6. pass[N] \in Seq(Items)
  <2> HIDE DEF N
  <2>1. N \in 0..N
    BY <1>2
  <2> QED BY <1>1, <2>1
<1> QED BY <1>1, <1>4, <1>5, <1>6
-------------------------------------------------------------------------------
(* uniqItems. *)

(* The items are kept as they are by UniqBy, which the streams and the news have in common. *)
LEMMA UniqItemsIsUniqBy ==
  ASSUME NEW items \in Seq(Items)
  PROVE  UniqItems(items) = UniqBy(items)
BY DEF UniqItems, UniqBy, KeepFirst, FoldLeft, MapThenFoldSet

(* uniqItems keeps every item, once, and changes nothing where there is no item twice. *)
LEMMA UniqItemsAre ==
  ASSUME NEW items \in Seq(Items)
  PROVE  /\ UniqItems(items) \in Seq(Items) /\ Distinct(UniqItems(items))
         /\ Range(UniqItems(items)) = Range(items)
         /\ Distinct(items) => UniqItems(items) = items
BY UniqItemsIsUniqBy, UniqByKeeps
-------------------------------------------------------------------------------
(* A set of items has one order. *)

(* The first items of a sorted sequence. *)
LEMMA StartIsSorted ==
  ASSUME NEW s \in Seq(Items), Sorted(s), NEW n \in 0..Len(s)
  PROVE  LET t == SubSeq(s, 1, n)
         IN /\ t \in Seq(Items) /\ Len(t) = n /\ Sorted(t)
            /\ Range(t) = {s[i] : i \in 1..n}
<1> DEFINE t == SubSeq(s, 1, n)
<1>1. t \in Seq(Items) /\ Len(t) = n /\ n \in Nat /\ Len(s) \in Nat /\ \A i \in 1..n : t[i] = s[i]
  OBVIOUS
<1> HIDE DEF t
<1>2. Sorted(t)
  <2> SUFFICES ASSUME NEW i \in 1..n, NEW j \in 1..n, i < j PROVE Newer(t[i], t[j])
    BY <1>1 DEF Sorted
  <2>1. i \in 1..Len(s) /\ j \in 1..Len(s)
    BY <1>1
  <2> QED BY <1>1, <2>1 DEF Sorted
<1>3. Range(t) = {t[i] : i \in 1..n}
  BY <1>1, RangeIs
<1>4. Range(t) = {s[i] : i \in 1..n}
  BY <1>1, <1>3
<1> QED BY <1>1, <1>2, <1>4 DEF t

(* As many items as come before an item are newer than it. *)
LEMMA RankOf ==
  ASSUME NEW s \in Seq(Items), Sorted(s), NEW n \in 1..Len(s)
  PROVE  Cardinality({y \in Range(s) : Newer(y, s[n])}) = n - 1
<1>1. /\ Len(s) \in Nat /\ n \in Nat /\ n - 1 \in 0..Len(s) /\ n - 1 \in Nat
      /\ \A i \in 1..Len(s) : s[i] \in Items
  OBVIOUS
<1> DEFINE t == SubSeq(s, 1, n - 1)
<1>2. /\ t \in Seq(Items) /\ Len(t) = n - 1 /\ Sorted(t)
      /\ Range(t) = {s[i] : i \in 1..n - 1}
  BY <1>1, StartIsSorted
<1> HIDE DEF t
<1>3. Cardinality(Range(t)) = n - 1
  BY <1>2, SortedIsDistinct, SizeOfRange
<1>4. \A i \in 1..Len(s) : Newer(s[i], s[n]) <=> i \in 1..n - 1
  <2> SUFFICES ASSUME NEW i \in 1..Len(s) PROVE Newer(s[i], s[n]) <=> i \in 1..n - 1
    OBVIOUS
  <2>1. CASE i < n
    <3>1. Newer(s[i], s[n]) /\ i \in 1..n - 1
      BY <1>1, <2>1 DEF Sorted
    <3> QED BY <3>1
  <2>2. CASE i = n
    <3>1. ~Newer(s[i], s[n]) /\ i \notin 1..n - 1
      BY <1>1, <2>2, NewerIsAnOrder
    <3> QED BY <3>1
  <2>3. CASE i > n
    <3>1. Newer(s[n], s[i]) /\ i \notin 1..n - 1
      BY <1>1, <2>3 DEF Sorted
    <3>2. ~Newer(s[i], s[n])
      BY <1>1, <3>1, NewerIsAnOrder
    <3> QED BY <3>1, <3>2
  <2> QED BY <1>1, <2>1, <2>2, <2>3
<1>5. {y \in Range(s) : Newer(y, s[n])} = Range(t)
  <2>1. ASSUME NEW y \in Range(s), Newer(y, s[n]) PROVE y \in Range(t)
    <3>1. PICK i \in 1..Len(s) : s[i] = y
      BY RangeIs
    <3>2. i \in 1..n - 1
      BY <1>4, <2>1, <3>1
    <3> QED BY <1>2, <3>1, <3>2
  <2>2. ASSUME NEW y \in Range(t) PROVE y \in Range(s) /\ Newer(y, s[n])
    <3>1. PICK i \in 1..n - 1 : s[i] = y
      BY <1>2
    <3>2. i \in 1..Len(s)
      BY <1>1
    <3> QED BY <1>4, <3>1, <3>2, RangeIs
  <2> QED BY <2>1, <2>2
<1> QED BY <1>3, <1>5

(* A sorted sequence is its set in order: there is only one. *)
LEMMA SortedIsInOrder ==
  ASSUME NEW s \in Seq(Items), Sorted(s)
  PROVE  InOrder(Range(s)) = s
<1> DEFINE N == Len(s)
           rank(x) == Cardinality({y \in Range(s) : Newer(y, x)})
<1>1. N \in Nat /\ Cardinality(Range(s)) = N
  BY SortedIsDistinct, SizeOfRange
<1>2. \A n \in 1..N : rank(s[n]) = n - 1
  BY RankOf
<1>3. \A n \in 1..N : (CHOOSE x \in Range(s) : rank(x) = n - 1) = s[n]
  <2> HIDE DEF rank
  <2> SUFFICES ASSUME NEW n \in 1..N PROVE (CHOOSE x \in Range(s) : rank(x) = n - 1) = s[n]
    OBVIOUS
  <2>1. s[n] \in Range(s) /\ rank(s[n]) = n - 1
    BY <1>2, RangeIs
  <2>2. \A x \in Range(s) : rank(x) = n - 1 => x = s[n]
    <3> SUFFICES ASSUME NEW x \in Range(s), rank(x) = n - 1 PROVE x = s[n]
      OBVIOUS
    <3>1. PICK i \in 1..N : s[i] = x
      BY RangeIs
    <3>2. i - 1 = n - 1
      BY <1>2, <3>1
    <3>3. i = n
      BY <1>1, <3>2
    <3> QED BY <3>1, <3>3
  <2> QED BY <2>1, <2>2
<1>4. InOrder(Range(s)) = [n \in 1..N |-> CHOOSE x \in Range(s) : rank(x) = n - 1]
  BY <1>1 DEF InOrder
<1>5. s = [n \in 1..N |-> s[n]]
  OBVIOUS
<1> HIDE DEF rank, N
<1> QED BY <1>3, <1>4, <1>5

(* The items of a finite set in order. *)
LEMMA InOrderIs ==
  ASSUME NEW set \in SUBSET Items, IsFiniteSet(set)
  PROVE  InOrder(set) \in Seq(Items) /\ Sorted(InOrder(set)) /\ Range(InOrder(set)) = set
<1>1. PICK n \in Nat : ExistsBijection(1..n, set)
  BY FS_NatBijection
<1>2. PICK f : f \in Bijection(1..n, set)
  BY <1>1 DEF ExistsBijection
<1>3. /\ f \in [1..n -> set]
      /\ \A i, j \in 1..n : f[i] = f[j] => i = j
      /\ \A x \in set : \E i \in 1..n : f[i] = x
  BY <1>2 DEF Bijection, Injection, Surjection, IsInjective
<1>4. f \in Seq(Items) /\ Len(f) = n
  BY <1>3
<1>5. Distinct(f) /\ Range(f) = set
  <2>1. Distinct(f)
    BY <1>3, <1>4 DEF Distinct
  <2>2. \A x : x \in Range(f) <=> \E i \in 1..n : f[i] = x
    BY <1>4, RangeIs
  <2> QED BY <1>3, <2>1, <2>2
<1>6. /\ SortItems(f) \in Seq(Items) /\ Sorted(SortItems(f)) /\ Range(SortItems(f)) = set
  BY <1>4, <1>5, SortItemsSorts
<1> QED BY <1>6, SortedIsInOrder
-------------------------------------------------------------------------------
(* Sorted items in two parts. *)

(* A set of numbers has a least, and Min finds it. *)
LEMMA MinOf ==
  ASSUME NEW s \in SUBSET Nat, s # {}
  PROVE  Min(s) \in s /\ \A x \in s : Min(s) <= x
<1> DEFINE less == OpToRel(<, Nat)
<1>1. IsWellFoundedOn(less, Nat)
  BY NatLessThanWellFounded
<1> HIDE DEF less
<1>2. PICK n \in s : \A m \in s : <<m, n>> \notin less
  BY <1>1, WFMin
<1>3. \A m \in s : n <= m
  <2> SUFFICES ASSUME NEW m \in s, m < n PROVE FALSE
    OBVIOUS
  <2>1. <<m, n>> \in less
    BY DEF less, OpToRel
  <2> QED BY <1>2, <2>1
<1> QED BY <1>2, <1>3 DEF Min

(* The items of two sequences. *)
LEMMA RangeOfConcat ==
  ASSUME NEW s \in Seq(Items), NEW t \in Seq(Items)
  PROVE  s \o t \in Seq(Items) /\ Range(s \o t) = Range(s) \cup Range(t)
<1> DEFINE c == s \o t
           p == Len(s)
           q == Len(t)
<1>1. /\ c \in Seq(Items) /\ Len(c) = p + q /\ p \in Nat /\ q \in Nat
      /\ \A i \in 1..p : c[i] = s[i]
      /\ \A j \in 1..q : c[p + j] = t[j]
  BY ConcatOf
<1>2. /\ \A x : x \in Range(c) <=> \E i \in 1..p + q : c[i] = x
      /\ \A x : x \in Range(s) <=> \E i \in 1..p : s[i] = x
      /\ \A x : x \in Range(t) <=> \E i \in 1..q : t[i] = x
  <2> HIDE DEF c, p
  <2>1. \A x : x \in Range(c) <=> \E i \in 1..p + q : c[i] = x
    BY <1>1, RangeIs
  <2>2. \A x : x \in Range(s) <=> \E i \in 1..p : s[i] = x
    BY RangeIs DEF p
  <2>3. \A x : x \in Range(t) <=> \E i \in 1..q : t[i] = x
    BY RangeIs
  <2> QED BY <2>1, <2>2, <2>3
<1> HIDE DEF c, p, q
<1>3. ASSUME NEW x \in Range(c) PROVE x \in Range(s) \cup Range(t)
  <2>1. PICK i \in 1..p + q : c[i] = x
    BY <1>2, <1>3
  <2>2. CASE i <= p
    <3>1. i \in 1..p
      BY <1>1, <2>2
    <3> QED BY <1>1, <1>2, <2>1, <3>1
  <2>3. CASE i > p
    <3>1. i - p \in 1..q /\ p + (i - p) = i
      BY <1>1, <2>3
    <3>2. c[p + (i - p)] = t[i - p]
      BY <1>1, <3>1
    <3> QED BY <1>2, <2>1, <3>1, <3>2
  <2> QED BY <1>1, <2>2, <2>3
<1>4. ASSUME NEW x \in Range(s) PROVE x \in Range(c)
  <2>1. PICK i \in 1..p : s[i] = x
    BY <1>2, <1>4
  <2>2. i \in 1..p + q
    BY <1>1
  <2> QED BY <1>1, <1>2, <2>1, <2>2
<1>5. ASSUME NEW x \in Range(t) PROVE x \in Range(c)
  <2>1. PICK i \in 1..q : t[i] = x
    BY <1>2, <1>5
  <2>2. p + i \in 1..p + q
    BY <1>1
  <2> QED BY <1>1, <1>2, <2>1, <2>2
<1> QED BY <1>1, <1>3, <1>4, <1>5 DEF c

(* Sorted items, and older ones behind them. *)
LEMMA SortedConcat ==
  ASSUME NEW s \in Seq(Items), Sorted(s), NEW t \in Seq(Items), Sorted(t),
         \A x \in Range(s) : \A y \in Range(t) : Newer(x, y)
  PROVE  s \o t \in Seq(Items) /\ Sorted(s \o t) /\ Range(s \o t) = Range(s) \cup Range(t)
<1> DEFINE c == s \o t
           p == Len(s)
           q == Len(t)
<1>1. /\ c \in Seq(Items) /\ Len(c) = p + q /\ p \in Nat /\ q \in Nat
      /\ \A i \in 1..p : c[i] = s[i]
      /\ \A j \in 1..q : c[p + j] = t[j]
  BY ConcatOf
<1>2. \A i \in 1..p : \A j \in 1..q : Newer(s[i], t[j])
  BY RangeIs
<1>3. /\ \A i, j \in 1..p : i < j => Newer(s[i], s[j])
      /\ \A i, j \in 1..q : i < j => Newer(t[i], t[j])
  BY DEF Sorted
<1> HIDE DEF c, p, q
<1>4. Sorted(c)
  <2> SUFFICES ASSUME NEW i \in 1..p + q, NEW j \in 1..p + q, i < j PROVE Newer(c[i], c[j])
    BY <1>1 DEF Sorted
  <2>1. ASSUME NEW k \in 1..p + q, k > p PROVE k - p \in 1..q /\ c[k] = t[k - p]
    <3>1. k - p \in 1..q /\ p + (k - p) = k
      BY <1>1, <2>1
    <3>2. c[p + (k - p)] = t[k - p]
      BY <1>1, <3>1
    <3> QED BY <3>1, <3>2
  <2>2. CASE j <= p
    <3>1. i \in 1..p /\ j \in 1..p
      BY <1>1, <2>2
    <3> QED BY <1>1, <1>3, <3>1
  <2>3. CASE i <= p /\ j > p
    <3>1. i \in 1..p
      BY <1>1, <2>3
    <3>2. j - p \in 1..q /\ c[j] = t[j - p]
      BY <2>1, <2>3
    <3> QED BY <1>1, <1>2, <3>1, <3>2
  <2>4. CASE i > p
    <3>1. j > p
      BY <1>1, <2>4
    <3>2. i - p \in 1..q /\ j - p \in 1..q /\ c[i] = t[i - p] /\ c[j] = t[j - p]
      BY <2>1, <2>4, <3>1
    <3>3. i - p < j - p
      BY <1>1
    <3> QED BY <1>3, <3>2, <3>3
  <2> QED BY <1>1, <2>2, <2>3, <2>4
<1> QED BY <1>1, <1>4, RangeOfConcat DEF c

(* A sorted sequence in two parts. *)
LEMMA PartsOfSorted ==
  ASSUME NEW s \in Seq(Items), Sorted(s), NEW k \in 0..Len(s)
  PROVE  LET a == SubSeq(s, 1, k)
             b == SubSeq(s, k + 1, Len(s))
         IN /\ a \in Seq(Items) /\ Sorted(a) /\ b \in Seq(Items) /\ Sorted(b)
            /\ Range(s) = Range(a) \cup Range(b)
            /\ Range(b) = {s[i] : i \in k + 1..Len(s)}
            /\ \A x \in Range(a) : \A y \in Range(b) : Newer(x, y)
<1> DEFINE N == Len(s)
           a == SubSeq(s, 1, k)
           b == SubSeq(s, k + 1, N)
<1>1. /\ a \in Seq(Items) /\ Sorted(a) /\ Range(a) = {s[i] : i \in 1..k}
      /\ N \in Nat /\ k \in Nat /\ k <= N
  BY StartIsSorted
<1>2. b \in Seq(Items) /\ Len(b) = N - k /\ \A j \in 1..N - k : b[j] = s[k + j]
  OBVIOUS
<1>3. \A i, j \in 1..N : i < j => Newer(s[i], s[j])
  BY DEF Sorted
<1>4. Range(s) = {s[i] : i \in 1..N}
  BY RangeIs
<1> HIDE DEF a, b, N
<1>5. Sorted(b)
  <2> SUFFICES ASSUME NEW i \in 1..N - k, NEW j \in 1..N - k, i < j PROVE Newer(b[i], b[j])
    BY <1>2 DEF Sorted
  <2>1. k + i \in 1..N /\ k + j \in 1..N /\ k + i < k + j
    BY <1>1
  <2> QED BY <1>2, <1>3, <2>1
<1>6. Range(b) = {s[i] : i \in k + 1..N}
  <2>1. \A x : x \in Range(b) <=> \E j \in 1..N - k : b[j] = x
    BY <1>2, RangeIs
  <2>2. ASSUME NEW j \in 1..N - k PROVE b[j] \in {s[i] : i \in k + 1..N}
    <3>1. k + j \in k + 1..N
      BY <1>1
    <3> QED BY <1>2, <3>1
  <2>3. ASSUME NEW i \in k + 1..N PROVE s[i] \in Range(b)
    <3>1. i - k \in 1..N - k /\ k + (i - k) = i
      BY <1>1
    <3>2. b[i - k] = s[k + (i - k)]
      BY <1>2, <3>1
    <3> QED BY <2>1, <3>1, <3>2
  <2> QED BY <2>1, <2>2, <2>3
<1>7. Range(s) = Range(a) \cup Range(b)
  <2>1. 1..N = 1..k \cup k + 1..N
    BY <1>1
  <2> QED BY <1>1, <1>4, <1>6, <2>1
<1>8. \A i \in 1..k : \A j \in k + 1..N : Newer(s[i], s[j])
  BY <1>1, <1>3
<1> QED BY <1>1, <1>2, <1>5, <1>6, <1>7, <1>8 DEF a, b, N
-------------------------------------------------------------------------------
(* mergeReceivedItems. *)

(* No item received is older than the oldest. *)
LEMMA OldestDateIs ==
  ASSUME NEW items \in Seq(Items), items # <<>>
  PROVE  OldestDate(items) \in Nat /\ \A x \in Range(items) : OldestDate(items) <= DateOf[x]
<1> DEFINE dates == {DateOf[x] : x \in Range(items)}
<1>1. Range(items) \subseteq Items /\ items[1] \in Range(items)
  <2>1. 1 \in 1..Len(items)
    OBVIOUS
  <2> QED BY <2>1, RangeIs
<1>2. dates \in SUBSET Nat /\ DateOf[items[1]] \in dates
  BY <1>1, ItemsAssumption
<1>3. \A x \in Range(items) : DateOf[x] \in dates
  OBVIOUS
<1> HIDE DEF dates
<1>4. Min(dates) \in dates /\ \A d \in dates : Min(dates) <= d
  BY <1>2, MinOf
<1>5. OldestDate(items) = Min(dates)
  BY DEF OldestDate, dates
<1> QED BY <1>2, <1>3, <1>4, <1>5

(* What findLastIndex finds. *)
LEMMA MergeStartIs ==
  ASSUME NEW s \in Seq(Items), NEW date \in Nat
  PROVE  LET k == SelectLastInSeq(s, LAMBDA x : DateOf[x] >= date)
         IN k \in 0..Len(s) /\ \A i \in k + 1..Len(s) : DateOf[s[i]] < date
<1> DEFINE N == Len(s)
           I == {i \in 1..N : DateOf[s[i]] >= date}
           k == IF I # {} THEN Max(I) ELSE 0
<1>1. SelectLastInSeq(s, LAMBDA x : DateOf[x] >= date) = k
  BY DEF SelectLastInSeq
<1>2. N \in Nat /\ I \in SUBSET (1..N)
  OBVIOUS
<1>3. \A i \in 1..N : i \notin I => DateOf[s[i]] < date
  <2> SUFFICES ASSUME NEW i \in 1..N, ~(DateOf[s[i]] >= date) PROVE DateOf[s[i]] < date
    OBVIOUS
  <2>1. s[i] \in Items
    OBVIOUS
  <2>2. DateOf[s[i]] \in Nat
    BY <2>1, ItemsAssumption
  <2> QED BY <2>2
<1> HIDE DEF I, N
<1>4. CASE I = {}
  <2>1. k \in 0..N /\ \A i \in k + 1..N : i \in 1..N /\ i \notin I
    BY <1>2, <1>4
  <2> HIDE DEF k
  <2> QED BY <1>1, <1>3, <2>1 DEF N
<1>5. CASE I # {}
  <2>1. k \in I /\ \A i \in I : i <= k
    BY <1>2, <1>5, MaxOf
  <2> HIDE DEF k
  <2>2. k \in 0..N /\ k \in Nat
    BY <1>2, <2>1
  <2>3. \A i \in k + 1..N : i \in 1..N /\ i \notin I
    BY <1>2, <2>1, <2>2
  <2> QED BY <1>1, <1>3, <2>2, <2>3 DEF N
<1> QED BY <1>4, <1>5

(***************************************************************************)
(* What mergeReceivedItems makes of a sorted partition and received items  *)
(* is sorted, and has the items of both.                                   *)
(***************************************************************************)
LEMMA MergeSorts ==
  ASSUME NEW partition \in Seq(Items), Sorted(partition), NEW rx \in Seq(Items), rx # <<>>
  PROVE  LET merged == MergeReceivedItems(partition, rx)
         IN /\ merged \in Seq(Items) /\ Sorted(merged)
            /\ Range(merged) = Range(partition) \cup Range(rx)
<1> DEFINE uniqRx == UniqItems(rx)
           oldestRx == OldestDate(uniqRx)
           mergeStart == SelectLastInSeq(partition, LAMBDA x : DateOf[x] >= oldestRx)
           toMerge == SubSeq(partition, 1, mergeStart) \o uniqRx
           rest == SubSeq(partition, mergeStart + 1, Len(partition))
           merged == MergeReceivedItems(partition, rx)
           Goal == /\ merged \in Seq(Items) /\ Sorted(merged)
                   /\ Range(merged) = Range(partition) \cup Range(rx)
<1>1. uniqRx \in Seq(Items) /\ Distinct(uniqRx) /\ Range(uniqRx) = Range(rx)
  BY UniqItemsAre
<1>2. uniqRx # <<>>
  <2>1. 1 \in 1..Len(rx)
    OBVIOUS
  <2>2. rx[1] \in Range(uniqRx)
    BY <1>1, <2>1, RangeIs
  <2>3. Range(<<>>) = {}
    BY DEF Range
  <2> QED BY <2>2, <2>3
<1>3. merged = IF partition = <<>> THEN SortItems(uniqRx)
               ELSE IF DateOf[Head(partition)] < oldestRx
               THEN UniqItems(SortItems(uniqRx) \o partition)
               ELSE SortItems(UniqItems(toMerge)) \o rest
  BY DEF MergeReceivedItems
<1> SUFFICES Goal
  OBVIOUS
<1> HIDE DEF uniqRx, merged
<1>4. oldestRx \in Nat /\ \A x \in Range(rx) : oldestRx <= DateOf[x]
  BY <1>1, <1>2, OldestDateIs
<1>5. /\ SortItems(uniqRx) \in Seq(Items) /\ Sorted(SortItems(uniqRx))
      /\ Range(SortItems(uniqRx)) = Range(rx)
  BY <1>1, SortItemsSorts
<1>6. /\ Range(rx) \subseteq Items /\ Range(partition) \subseteq Items
      /\ \A x \in Items : DateOf[x] \in Nat
  BY RangeIs, ItemsAssumption
<1> HIDE DEF oldestRx
<1>7. CASE partition = <<>>
  <2>1. Range(partition) = {}
    BY <1>7 DEF Range
  <2> QED BY <1>3, <1>5, <1>7, <2>1
<1>8. CASE partition # <<>> /\ DateOf[Head(partition)] < oldestRx
  <2>1. ASSUME NEW y \in Range(partition) PROVE DateOf[y] < oldestRx
    <3>1. PICK i \in 1..Len(partition) : partition[i] = y
      BY RangeIs
    <3>2. Head(partition) = partition[1] /\ 1 \in 1..Len(partition) /\ partition[1] \in Items /\ y \in Items
      BY <1>8, <3>1
    <3>3. i = 1 \/ Newer(partition[1], y)
      BY <3>1, <3>2 DEF Sorted
    <3>4. DateOf[y] <= DateOf[partition[1]]
      BY <1>6, <3>1, <3>2, <3>3, NewerIsAnOrder
    <3>5. DateOf[y] \in Nat /\ DateOf[partition[1]] \in Nat
      BY <1>6, <3>2
    <3> QED BY <1>4, <1>8, <3>2, <3>4, <3>5
  <2>2. \A x \in Range(rx) : \A y \in Range(partition) : Newer(x, y)
    <3> SUFFICES ASSUME NEW x \in Range(rx), NEW y \in Range(partition) PROVE Newer(x, y)
      OBVIOUS
    <3>1. DateOf[x] \in Nat /\ DateOf[y] \in Nat /\ oldestRx <= DateOf[x] /\ DateOf[y] < oldestRx
      BY <1>4, <1>6, <2>1
    <3>2. DateOf[x] > DateOf[y]
      BY <1>4, <3>1
    <3> QED BY <3>2 DEF Newer
  <2> DEFINE c == SortItems(uniqRx) \o partition
  <2>3. c \in Seq(Items) /\ Sorted(c) /\ Range(c) = Range(rx) \cup Range(partition)
    BY <1>5, <2>2, SortedConcat
  <2>4. merged = UniqItems(c)
    BY <1>3, <1>8
  <2> HIDE DEF c
  <2>5. UniqItems(c) = c
    BY <2>3, SortedIsDistinct, UniqItemsAre
  <2> QED BY <2>3, <2>4, <2>5
<1>9. CASE partition # <<>> /\ ~(DateOf[Head(partition)] < oldestRx)
  <2>1. /\ mergeStart \in 0..Len(partition)
        /\ \A i \in mergeStart + 1..Len(partition) : DateOf[partition[i]] < oldestRx
    BY <1>4, MergeStartIs
  <2> DEFINE start == SubSeq(partition, 1, mergeStart)
  <2> HIDE DEF mergeStart
  <2>2. /\ start \in Seq(Items) /\ Sorted(start) /\ rest \in Seq(Items) /\ Sorted(rest)
        /\ Range(partition) = Range(start) \cup Range(rest)
        /\ Range(rest) = {partition[i] : i \in mergeStart + 1..Len(partition)}
        /\ \A x \in Range(start) : \A y \in Range(rest) : Newer(x, y)
    BY <2>1, PartsOfSorted
  <2>3. toMerge \in Seq(Items) /\ Range(toMerge) = Range(start) \cup Range(rx)
    BY <1>1, <2>2, RangeOfConcat
  <2>4. merged = SortItems(UniqItems(toMerge)) \o rest
    BY <1>3, <1>9
  <2> HIDE DEF toMerge, start, rest
  <2>5. /\ UniqItems(toMerge) \in Seq(Items) /\ Distinct(UniqItems(toMerge))
        /\ Range(UniqItems(toMerge)) = Range(toMerge)
    BY <2>3, UniqItemsAre
  <2> DEFINE top == SortItems(UniqItems(toMerge))
  <2>6. top \in Seq(Items) /\ Sorted(top) /\ Range(top) = Range(start) \cup Range(rx)
    BY <2>3, <2>5, SortItemsSorts
  <2>7. \A x \in Range(top) : \A y \in Range(rest) : Newer(x, y)
    <3> SUFFICES ASSUME NEW x \in Range(rx), NEW y \in Range(rest) PROVE Newer(x, y)
      BY <2>2, <2>6
    <3>1. DateOf[y] < oldestRx
      BY <2>1, <2>2
    <3>2. DateOf[x] \in Nat /\ DateOf[y] \in Nat /\ oldestRx <= DateOf[x]
      BY <1>4, <1>6, <2>2
    <3>3. DateOf[x] > DateOf[y]
      BY <1>4, <3>1, <3>2
    <3> QED BY <3>3 DEF Newer
  <2> HIDE DEF top
  <2>8. /\ top \o rest \in Seq(Items) /\ Sorted(top \o rest)
        /\ Range(top \o rest) = Range(top) \cup Range(rest)
    BY <2>2, <2>6, <2>7, SortedConcat
  <2>9. merged = top \o rest
    BY <2>4 DEF top
  <2> QED BY <2>2, <2>6, <2>8, <2>9
<1> QED BY <1>7, <1>8, <1>9
-------------------------------------------------------------------------------
(* Streams, month by month. *)

(* groupBy goes through the items received one by one. *)
LEMMA GroupIsPasses ==
  ASSUME NEW rx \in Seq(Items), NEW month
  PROVE  \E pass \in [0..Len(rx) -> Seq(Items)] :
           /\ pass[0] = <<>>
           /\ \A n \in 1..Len(rx) :
                pass[n] = IF MonthOf[rx[n]] = month THEN Append(pass[n - 1], rx[n]) ELSE pass[n - 1]
           /\ GroupOf(rx, month) = pass[Len(rx)]
<1> DEFINE T == Seq(Items)
           N == Len(rx)
           Collect(group, x) == IF MonthOf[x] = month THEN Append(group, x) ELSE group
           F == [p \in (1..N) \X T |-> Collect(p[2], rx[p[1]])]
           Is(iter) == iter = [s \in SUBSET (1..N) |->
                                 IF s = {} THEN <<>>
                                 ELSE Collect(iter[s \ {Max(s)}], rx[Max(s)])]
<1>1. N \in Nat /\ \A n \in 1..N : rx[n] \in Items
  OBVIOUS
<1>2. <<>> \in T /\ \A group \in T : \A x \in Items : Collect(group, x) \in T
  OBVIOUS
<1>4. \E iter : Is(iter)
  <2> HIDE DEF T, N, Collect
  <2>1. F \in [(1..N) \X T -> T]
    BY <1>1, <1>2
  <2> HIDE DEF F
  <2>2. PICK iter \in [SUBSET (1..N) -> T] : IsFold(iter, N, <<>>, F)
    BY <1>1, <1>2, <2>1, FoldExists
  <2>3. \A s \in SUBSET (1..N) : s # {} => Max(s) \in 1..N /\ iter[s \ {Max(s)}] \in T
    BY <1>1, <2>2, MaxOf
  <2>4. \A s \in SUBSET (1..N) : s # {} =>
          F[<<Max(s), iter[s \ {Max(s)}]>>] = Collect(iter[s \ {Max(s)}], rx[Max(s)])
    BY <2>3 DEF F
  <2>5. Is(iter)
    BY <2>2, <2>4 DEF IsFold
  <2> QED BY <2>5
<1> DEFINE iter == CHOOSE iter : Is(iter)
<1>5. Is(iter)
  <2> HIDE DEF Is
  <2> QED BY <1>4
<1>6. GroupOf(rx, month) = iter[1..N]
  <2>1. DOMAIN rx = 1..N
    OBVIOUS
  <2> QED BY <2>1 DEF GroupOf, FoldLeft, MapThenFoldSet
<1> HIDE DEF iter
<1>7. iter[1..0] = <<>>
  <2>1. 1..0 = {}
    OBVIOUS
  <2> QED BY <1>5, <2>1
<1> HIDE DEF T, Collect
<1>8. \A n \in 1..N : iter[1..n] = Collect(iter[1..n - 1], rx[n])
  <2> SUFFICES ASSUME NEW n \in 1..N PROVE iter[1..n] = Collect(iter[1..n - 1], rx[n])
    OBVIOUS
  <2>1. Max(1..n) = n /\ (1..n) \ {n} = 1..n - 1
    BY <1>1, MaxOfInterval
  <2> HIDE DEF N
  <2>2. 1..n \in SUBSET (1..N) /\ 1..n # {}
    BY <1>1, PartOfInterval
  <2> QED BY <1>5, <2>1, <2>2
<1> DEFINE Typed == {n \in Nat : n <= N => iter[1..n] \in T}
<1>9. Typed = Nat
  <2>1. 0 \in Typed
    BY <1>2, <1>7
  <2>2. ASSUME NEW n \in Typed PROVE n + 1 \in Typed
    <3> HIDE DEF N
    <3> SUFFICES ASSUME n \in Nat, n + 1 <= N PROVE iter[1..n + 1] \in T
      OBVIOUS
    <3>1. iter[1..n] \in T /\ n + 1 \in 1..N /\ (n + 1) - 1 = n
      BY <1>1
    <3>2. iter[1..n + 1] = Collect(iter[1..n], rx[n + 1])
      BY <1>8, <3>1
    <3> QED BY <1>1, <1>2, <3>1, <3>2
  <2>3. Typed \in SUBSET Nat
    OBVIOUS
  <2> HIDE DEF Typed
  <2> QED BY <2>1, <2>2, <2>3, Induction
<1> DEFINE pass == [n \in 0..N |-> iter[1..n]]
<1>10. pass \in [0..N -> T]
  BY <1>1, <1>9
<1>11. /\ pass[0] = <<>>
       /\ \A n \in 1..N : pass[n] = Collect(pass[n - 1], rx[n])
       /\ GroupOf(rx, month) = pass[N]
  <2> HIDE DEF N
  <2> QED BY <1>1, <1>6, <1>7, <1>8
<1> QED BY <1>10, <1>11 DEF T, Collect

(* The group of a month has the items of that month. *)
LEMMA GroupIs ==
  ASSUME NEW rx \in Seq(Items), NEW month
  PROVE  /\ GroupOf(rx, month) \in Seq(Items)
         /\ Range(GroupOf(rx, month)) = {x \in Range(rx) : MonthOf[x] = month}
<1> DEFINE N == Len(rx)
           Collect(group, x) == IF MonthOf[x] = month THEN Append(group, x) ELSE group
<1>1. PICK pass \in [0..N -> Seq(Items)] :
        /\ pass[0] = <<>>
        /\ \A n \in 1..N : pass[n] = Collect(pass[n - 1], rx[n])
        /\ GroupOf(rx, month) = pass[N]
  BY GroupIsPasses
<1>2. N \in Nat /\ \A n \in 1..N : rx[n] \in Items
  OBVIOUS
<1> DEFINE Upto(n) == {x \in {rx[i] : i \in 1..n} : MonthOf[x] = month}
           Ok(n) == Range(pass[n]) = Upto(n)
           Done == {n \in Nat : n <= N => Ok(n)}
<1>3. Done = Nat
  <2>1. 0 \in Done
    <3>1. Range(<<>>) = {} /\ Upto(0) = {}
      BY DEF Range
    <3> QED BY <1>1, <3>1
  <2>2. ASSUME NEW n \in Done PROVE n + 1 \in Done
    <3> HIDE DEF Ok, N
    <3> SUFFICES ASSUME n + 1 <= N PROVE Ok(n + 1)
      OBVIOUS
    <3>0. n \in Nat /\ (n <= N => Ok(n))
      OBVIOUS
    <3> USE DEF Ok, N
    <3> HIDE DEF Done
    <3>1. n \in 0..N /\ n + 1 \in 1..N /\ (n + 1) - 1 = n /\ n \in Nat
      BY <1>2, <3>0
    <3>2. Range(pass[n]) = Upto(n)
      BY <3>0, <3>1
    <3>3. pass[n] \in Seq(Items) /\ rx[n + 1] \in Items
      BY <1>2, <3>1
    <3>4. {rx[i] : i \in 1..n + 1} = {rx[i] : i \in 1..n} \cup {rx[n + 1]}
      <4>1. 1..n + 1 = 1..n \cup {n + 1}
        BY <3>1
      <4> QED BY <4>1
    <3>5. pass[n + 1] = Collect(pass[n], rx[n + 1])
      BY <1>1, <3>1
    <3>6. CASE MonthOf[rx[n + 1]] = month
      <4>1. Upto(n + 1) = Upto(n) \cup {rx[n + 1]}
        BY <3>4, <3>6
      <4>2. pass[n + 1] = pass[n] \o <<rx[n + 1]>>
        <5>1. pass[n + 1] = Append(pass[n], rx[n + 1])
          BY <3>5, <3>6
        <5>2. \A group \in Seq(Items), x \in Items : Append(group, x) = group \o <<x>>
          OBVIOUS
        <5> QED BY <3>3, <5>1, <5>2
      <4>3. <<rx[n + 1]>> \in Seq(Items) /\ Range(<<rx[n + 1]>>) = {rx[n + 1]}
        BY <3>3 DEF Range
      <4>4. Range(pass[n] \o <<rx[n + 1]>>) = Range(pass[n]) \cup Range(<<rx[n + 1]>>)
        BY <3>3, <4>3, RangeOfConcat
      <4> QED BY <3>2, <4>1, <4>2, <4>3, <4>4
    <3>7. CASE MonthOf[rx[n + 1]] # month
      <4>1. Upto(n + 1) = Upto(n)
        BY <3>4, <3>7
      <4> QED BY <3>2, <3>5, <3>7, <4>1
    <3> QED BY <3>6, <3>7
  <2>3. Done \in SUBSET Nat
    OBVIOUS
  <2> HIDE DEF Done
  <2> QED BY <2>1, <2>2, <2>3, Induction
<1>4. Range(pass[N]) = Upto(N)
  <2>1. N \in Done /\ N <= N
    <3> HIDE DEF Done
    <3> QED BY <1>2, <1>3
  <2> QED BY <2>1
<1>5. Range(rx) = {rx[i] : i \in 1..N}
  BY RangeIs
<1>6. pass[N] \in Seq(Items)
  <2> HIDE DEF N
  <2>1. N \in 0..N
    BY <1>2
  <2> QED BY <1>1, <2>1
<1> QED BY <1>1, <1>4, <1>5, <1>6

(***************************************************************************)
(* However many items a stream holds, and however many are received, in    *)
(* whatever order and however often each, the merge yields the sorted      *)
(* union.                                                                  *)
(***************************************************************************)
THEOREM MergesSort ==
  ASSUME NEW held \in SUBSET Items, IsFiniteSet(held), NEW rx \in Seq(Items)
  PROVE  OnStreamReceive(StreamOf(held), rx) = StreamOf(held \cup Range(rx))
<1> DEFINE old(month) == {x \in held : MonthOf[x] = month}
           new(month) == {x \in held \cup Range(rx) : MonthOf[x] = month}
           part(month) == StreamOf(held)[month]
           group(month) == GroupOf(rx, month)
<1>1. Range(rx) \subseteq Items
  BY RangeIs
<1> SUFFICES ASSUME NEW month \in Months
             PROVE  IF group(month) = <<>> THEN InOrder(new(month)) = part(month)
                    ELSE InOrder(new(month)) = MergeReceivedItems(part(month), group(month))
  BY DEF OnStreamReceive, StreamOf
<1>2. part(month) = InOrder(old(month))
  BY DEF StreamOf
<1>3. old(month) \in SUBSET Items /\ IsFiniteSet(old(month))
  BY FS_Subset
<1>4. /\ part(month) \in Seq(Items) /\ Sorted(part(month))
      /\ Range(part(month)) = old(month)
  BY <1>2, <1>3, InOrderIs
<1>5. /\ group(month) \in Seq(Items)
      /\ Range(group(month)) = {x \in Range(rx) : MonthOf[x] = month}
  BY GroupIs
<1>6. new(month) = old(month) \cup Range(group(month))
  BY <1>5
<1> HIDE DEF old, new, part, group
<1>7. CASE group(month) = <<>>
  <2>1. Range(<<>>) = {}
    BY DEF Range
  <2>2. new(month) = old(month)
    BY <1>6, <1>7, <2>1
  <2> QED BY <1>2, <1>7, <2>2
<1>8. CASE group(month) # <<>>
  <2> DEFINE merged == MergeReceivedItems(part(month), group(month))
  <2>1. /\ merged \in Seq(Items) /\ Sorted(merged)
        /\ Range(merged) = old(month) \cup Range(group(month))
    BY <1>4, <1>5, <1>8, MergeSorts
  <2> HIDE DEF merged
  <2>2. InOrder(Range(merged)) = merged
    BY <2>1, SortedIsInOrder
  <2> QED BY <1>6, <1>8, <2>1, <2>2 DEF merged
<1> QED BY <1>7, <1>8

(* The streams and responses of a run are instances of it. *)
LEMMA MergesOfTheRun == MergeIsSortedUnion
<1> SUFFICES ASSUME NEW held \in SUBSET Items, NEW rx \in ReceivedItems, IsFiniteSet(held)
             PROVE  OnStreamReceive(StreamOf(held), rx) = StreamOf(held \cup Range(rx))
  BY DEF MergeIsSortedUnion
<1>1. rx \in Seq(Items)
  <2>1. PICK n \in 1..3 : rx \in [1..n -> Items]
    BY DEF ReceivedItems
  <2> QED BY <2>1
<1> QED BY <1>1, MergesSort

(***************************************************************************)
(* mergeReceivedItems loses and misplaces nothing, for every set of items  *)
(* of any dates.                                                           *)
(***************************************************************************)
THEOREM StreamsMerge == Spec => []MergesAreSortedUnions
<1>1. MergesAreSortedUnions
  BY MergesOfTheRun DEF MergesAreSortedUnions
<1> QED BY <1>1, PTL
-------------------------------------------------------------------------------
(* SumFunction. *)

(* What SumFunction computes with. *)
IsSum(iter, S, f) ==
  iter = [s \in SUBSET S |->
            IF s = {} THEN 0 ELSE LET x == CHOOSE x \in s : TRUE IN f[x] + iter[s \ {x}]]

(* A set that is not empty, without the element that is chosen of it. *)
LEMMA WithoutChosen ==
  ASSUME NEW S, IsFiniteSet(S), NEW n \in Nat, NEW s \in SUBSET S, s # {}, Cardinality(s) <= n + 1
  PROVE  LET x == CHOOSE x \in s : TRUE
         IN /\ x \in s /\ x \in S /\ s \ {x} \in SUBSET S
            /\ Cardinality(s \ {x}) <= n /\ Cardinality(s \ {x}) \in Nat
<1> DEFINE x == CHOOSE x \in s : TRUE
<1>1. x \in s
  OBVIOUS
<1> HIDE DEF x
<1>2. IsFiniteSet(s) /\ Cardinality(s) \in Nat
  BY FS_Subset, FS_CardinalityType
<1>3. IsFiniteSet(s \ {x}) /\ Cardinality(s \ {x}) = Cardinality(s) - 1
  BY <1>1, <1>2, FS_RemoveElement
<1>4. Cardinality(s \ {x}) \in Nat
  BY <1>3, FS_CardinalityType
<1>5. Cardinality(s \ {x}) <= n
  BY <1>2, <1>3
<1> QED BY <1>1, <1>4, <1>5 DEF x

(* The function with which SumFunction computes exists. *)
LEMMA SumExists ==
  ASSUME NEW S, IsFiniteSet(S), NEW f \in [S -> Nat]
  PROVE  \E iter \in [SUBSET S -> Nat] : IsSum(iter, S, f)
<1> DEFINE Small(n) == {s \in SUBSET S : Cardinality(s) <= n}
           Sums(n, iter) ==
             /\ iter \in [Small(n) -> Nat]
             /\ \A s \in Small(n) :
                  iter[s] = IF s = {} THEN 0
                            ELSE LET x == CHOOSE x \in s : TRUE IN f[x] + iter[s \ {x}]
           Done == {n \in Nat : \E iter : Sums(n, iter)}
<1>1. 0 \in Done
  <2> DEFINE iter == [s \in Small(0) |-> 0]
  <2>1. \A s \in Small(0) : s = {}
    <3> SUFFICES ASSUME NEW s \in SUBSET S, Cardinality(s) <= 0 PROVE s = {}
      OBVIOUS
    <3>1. IsFiniteSet(s) /\ Cardinality(s) \in Nat
      BY FS_Subset, FS_CardinalityType
    <3>2. Cardinality(s) = 0
      BY <3>1
    <3> QED BY <3>1, <3>2, FS_EmptySet
  <2>2. Sums(0, iter)
    BY <2>1
  <2> QED BY <2>2
<1>2. ASSUME NEW n \in Done PROVE n + 1 \in Done
  <2> HIDE DEF Sums
  <2>1. PICK iter : Sums(n, iter)
    OBVIOUS
  <2>2. n \in Nat
    OBVIOUS
  <2> USE DEF Sums
  <2> HIDE DEF Done
  <2> DEFINE next == [s \in Small(n + 1) |->
                        IF s = {} THEN 0
                        ELSE LET x == CHOOSE x \in s : TRUE IN f[x] + iter[s \ {x}]]
  <2>3. ASSUME NEW s \in Small(n + 1), s # {}
        PROVE  LET x == CHOOSE x \in s : TRUE IN x \in S /\ s \ {x} \in Small(n)
    <3>1. s \in SUBSET S /\ Cardinality(s) <= n + 1
      OBVIOUS
    <3> QED BY <2>2, <2>3, <3>1, WithoutChosen
  <2>4. next \in [Small(n + 1) -> Nat]
    <3> SUFFICES ASSUME NEW s \in Small(n + 1), s # {}
                 PROVE  LET x == CHOOSE x \in s : TRUE IN f[x] + iter[s \ {x}] \in Nat
      OBVIOUS
    <3> DEFINE x == CHOOSE x \in s : TRUE
    <3>1. x \in S /\ s \ {x} \in Small(n)
      BY <2>3
    <3> HIDE DEF x, Small
    <3>2. f[x] \in Nat /\ iter[s \ {x}] \in Nat
      BY <2>1, <3>1
    <3> QED BY <3>2 DEF x
  <2>5. \A s \in Small(n) : next[s] = iter[s]
    <3> SUFFICES ASSUME NEW s \in Small(n) PROVE next[s] = iter[s]
      OBVIOUS
    <3>1. s \in Small(n + 1)
      <4>1. Cardinality(s) \in Nat
        BY FS_Subset, FS_CardinalityType
      <4> QED BY <2>2, <4>1
    <3> HIDE DEF Small
    <3> QED BY <2>1, <3>1
  <2>6. Sums(n + 1, next)
    <3>1. ASSUME NEW s \in Small(n + 1)
          PROVE  next[s] = IF s = {} THEN 0
                           ELSE LET x == CHOOSE x \in s : TRUE IN f[x] + next[s \ {x}]
      <4>1. CASE s = {}
        <5> HIDE DEF Small
        <5> QED BY <4>1
      <4>2. CASE s # {}
        <5> DEFINE x == CHOOSE x \in s : TRUE
        <5>1. x \in S /\ s \ {x} \in Small(n)
          BY <2>3, <4>2
        <5>2. next[s] = f[x] + iter[s \ {x}]
          <6> HIDE DEF Small
          <6> QED BY <4>2
        <5> HIDE DEF next, Small, x
        <5>3. next[s \ {x}] = iter[s \ {x}]
          BY <2>5, <5>1
        <5> QED BY <4>2, <5>2, <5>3 DEF x
      <4> QED BY <4>1, <4>2
    <3> HIDE DEF next, Small
    <3> QED BY <2>4, <3>1
  <2> HIDE DEF Sums
  <2> QED BY <2>2, <2>6 DEF Done
<1>3. Done = Nat
  <2> HIDE DEF Done
  <2>1. Done \in SUBSET Nat
    BY DEF Done
  <2> QED BY <1>1, <1>2, <2>1, Induction
<1>4. Cardinality(S) \in Nat
  BY FS_CardinalityType
<1>5. Small(Cardinality(S)) = SUBSET S
  BY FS_Subset
<1>6. \E iter : Sums(Cardinality(S), iter)
  <2> HIDE DEF Sums
  <2>1. Cardinality(S) \in Done
    BY <1>3, <1>4
  <2> QED BY <2>1
<1> HIDE DEF Small
<1>7. PICK iter : Sums(Cardinality(S), iter)
  BY <1>6
<1>8. IsSum(iter, S, f)
  BY <1>5, <1>7 DEF IsSum
<1> QED BY <1>5, <1>7, <1>8

(***************************************************************************)
(* The sum of how many elements some sets have, none of which have an      *)
(* element in common.                                                      *)
(***************************************************************************)
LEMMA SumOfParts ==
  ASSUME NEW S, IsFiniteSet(S), NEW Part, \A m \in S : IsFiniteSet(Part[m]),
         \A l, m \in S : l # m => Part[l] \cap Part[m] = {}
  PROVE  SumFunction([m \in S |-> Cardinality(Part[m])]) = Cardinality(UNION {Part[m] : m \in S})
<1> DEFINE f == [m \in S |-> Cardinality(Part[m])]
           Is(iter) == IsSum(iter, S, f)
           All(s) == UNION {Part[m] : m \in s}
<1>1. f \in [S -> Nat]
  BY FS_CardinalityType
<1>2. \E iter : Is(iter)
  <2> HIDE DEF f
  <2> QED BY <1>1, SumExists
<1> DEFINE iter == CHOOSE iter : Is(iter)
<1>3. Is(iter)
  <2> HIDE DEF Is
  <2> QED BY <1>2
<1>4. SumFunction(f) = iter[S]
  <2>1. DOMAIN f = S
    OBVIOUS
  <2> HIDE DEF f
  <2> QED BY <2>1 DEF SumFunction, SumFunctionOnSet, FoldFunctionOnSet, MapThenFoldSet, IsSum
<1> HIDE DEF iter
<1> DEFINE Ok(s) == IsFiniteSet(All(s)) /\ iter[s] = Cardinality(All(s))
           Done == {n \in Nat : \A s \in SUBSET S : Cardinality(s) <= n => Ok(s)}
<1>5. Ok({})
  <2>1. All({}) = {}
    OBVIOUS
  <2>2. iter[{}] = 0
    BY <1>3 DEF IsSum
  <2> HIDE DEF All
  <2> QED BY <2>1, <2>2, FS_EmptySet
<1>6. ASSUME NEW n \in Nat, NEW s \in SUBSET S, s # {}, Cardinality(s) <= n + 1,
             \A t \in SUBSET S : Cardinality(t) <= n => Ok(t)
      PROVE  Ok(s)
  <2> DEFINE x == CHOOSE x \in s : TRUE
             t == s \ {x}
  <2>1. x \in s /\ x \in S /\ t \in SUBSET S /\ Cardinality(t) <= n
    BY <1>6, WithoutChosen
  <2>2. iter[s] = f[x] + iter[t]
    <3> HIDE DEF f
    <3> QED BY <1>3, <1>6 DEF IsSum
  <2> HIDE DEF x
  <2>3. All(s) = Part[x] \cup All(t)
    BY <2>1
  <2>4. Part[x] \cap All(t) = {}
    BY <2>1
  <2>5. f[x] = Cardinality(Part[x]) /\ IsFiniteSet(Part[x]) /\ Cardinality(Part[x]) \in Nat
    BY <2>1, FS_CardinalityType
  <2> HIDE DEF t, f, All
  <2>6. IsFiniteSet(All(t)) /\ iter[t] = Cardinality(All(t)) /\ Cardinality(All(t)) \in Nat
    BY <1>6, <2>1, FS_CardinalityType
  <2>7. /\ IsFiniteSet(All(s))
        /\ Cardinality(All(s)) = Cardinality(Part[x]) + Cardinality(All(t)) - Cardinality({})
    <3>1. /\ IsFiniteSet(Part[x] \cup All(t))
          /\ Cardinality(Part[x] \cup All(t))
               = Cardinality(Part[x]) + Cardinality(All(t)) - Cardinality(Part[x] \cap All(t))
      BY ONLY <2>5, <2>6, FS_Union
    <3> QED BY <2>3, <2>4, <3>1
  <2>8. Cardinality({}) = 0
    BY FS_EmptySet
  <2> QED BY <2>2, <2>5, <2>6, <2>7, <2>8
<1>7. Done = Nat
  <2> HIDE DEF Ok
  <2>1. 0 \in Done
    <3> SUFFICES ASSUME NEW s \in SUBSET S, Cardinality(s) <= 0 PROVE Ok(s)
      OBVIOUS
    <3>1. IsFiniteSet(s) /\ Cardinality(s) \in Nat
      BY FS_Subset, FS_CardinalityType
    <3>2. s = {}
      BY <3>1, FS_EmptySet
    <3> QED BY <1>5, <3>2
  <2>2. ASSUME NEW n \in Done PROVE n + 1 \in Done
    <3> SUFFICES ASSUME NEW s \in SUBSET S, Cardinality(s) <= n + 1 PROVE Ok(s)
      OBVIOUS
    <3>1. n \in Nat /\ \A t \in SUBSET S : Cardinality(t) <= n => Ok(t)
      OBVIOUS
    <3> HIDE DEF Done
    <3> QED BY <1>5, <1>6, <3>1
  <2>3. Done \in SUBSET Nat
    OBVIOUS
  <2> HIDE DEF Done
  <2> QED BY <2>1, <2>2, <2>3, Induction
<1>8. Ok(S)
  <2> HIDE DEF Ok
  <2>1. Cardinality(S) \in Nat /\ Cardinality(S) <= Cardinality(S)
    BY FS_CardinalityType
  <2>2. Cardinality(S) \in Done
    <3> HIDE DEF Done
    <3> QED BY <1>7, <2>1
  <2> QED BY <2>1, <2>2
<1> QED BY <1>4, <1>8
-------------------------------------------------------------------------------
(* The months of a stream. *)

(* The greatest comes first. *)
IsDescending(p) == \A i, j \in DOMAIN p : i < j => p[i] > p[j]

(* Some numbers can be put in descending order. *)
LEMMA DescendingExists ==
  ASSUME NEW keys \in SUBSET Nat, IsFiniteSet(keys)
  PROVE  \E p \in Orders(keys) : IsDescending(p)
<1> DEFINE Ordered(n, k) == \E p \in [1..n -> k] : Range(p) = k /\ IsDescending(p)
           Done == {n \in Nat : \A k \in SUBSET Nat :
                                  IsFiniteSet(k) /\ Cardinality(k) = n => Ordered(n, k)}
<1>1. 0 \in Done
  <2> SUFFICES ASSUME NEW k \in SUBSET Nat, IsFiniteSet(k), Cardinality(k) = 0
               PROVE  Ordered(0, k)
    OBVIOUS
  <2>1. k = {}
    BY FS_EmptySet
  <2> DEFINE p == [i \in 1..0 |-> 0]
  <2>2. p \in [1..0 -> k] /\ DOMAIN p = {} /\ Range(p) = {}
    BY DEF Range
  <2> HIDE DEF p
  <2> QED BY <2>1, <2>2 DEF IsDescending
<1>2. ASSUME NEW n \in Done PROVE n + 1 \in Done
  <2> SUFFICES ASSUME NEW k \in SUBSET Nat, IsFiniteSet(k), Cardinality(k) = n + 1
               PROVE  Ordered(n + 1, k)
    OBVIOUS
  <2>1. n \in Nat /\ \A l \in SUBSET Nat : IsFiniteSet(l) /\ Cardinality(l) = n => Ordered(n, l)
    OBVIOUS
  <2> HIDE DEF Done, Ordered
  <2>2. k # {}
    BY <2>1, FS_EmptySet
  <2> DEFINE m == Min(k)
             l == k \ {m}
  <2>3. m \in k /\ \A x \in k : m <= x
    BY <2>2, MinOf
  <2> HIDE DEF m
  <2>4. l \in SUBSET Nat /\ IsFiniteSet(l) /\ Cardinality(l) = n
    <3>1. IsFiniteSet(l) /\ Cardinality(l) = Cardinality(k) - 1
      BY <2>3, FS_RemoveElement
    <3>2. l \in SUBSET Nat
      OBVIOUS
    <3> HIDE DEF l
    <3>3. (n + 1) - 1 = n
      BY ONLY <2>1
    <3>4. Cardinality(k) = n + 1
      OBVIOUS
    <3>5. Cardinality(l) = n
      BY ONLY <3>1, <3>3, <3>4
    <3> QED BY <3>1, <3>2, <3>5
  <2>5. \A x \in l : x \in Nat /\ x > m
    BY <2>3
  <2>6. Ordered(n, l)
    BY <2>1, <2>4
  <2>7. PICK q \in [1..n -> l] : Range(q) = l /\ IsDescending(q)
    BY <2>6 DEF Ordered
  <2> DEFINE p == [i \in 1..n + 1 |-> IF i <= n THEN q[i] ELSE m]
  <2>8. /\ DOMAIN p = 1..n + 1 /\ p[n + 1] = m
        /\ \A i \in 1..n : i \in 1..n + 1 /\ p[i] = q[i] /\ q[i] \in l
        /\ \A i \in 1..n + 1 : i \in 1..n \/ i = n + 1
    BY <2>1, <2>7
  <2>9. p \in [1..n + 1 -> k]
    BY <2>3, <2>7, <2>8
  <2>10. Range(p) = k
    <3>1. Range(q) = {q[i] : i \in 1..n} /\ Range(p) = {p[i] : i \in 1..n + 1}
      BY <2>7, <2>8 DEF Range
    <3> HIDE DEF p
    <3>2. n + 1 \in 1..n + 1
      BY <2>1
    <3> QED BY <2>3, <2>7, <2>8, <3>1, <3>2
  <2>11. IsDescending(p)
    <3> HIDE DEF p, l
    <3> SUFFICES ASSUME NEW i \in 1..n + 1, NEW j \in 1..n + 1, i < j PROVE p[i] > p[j]
      BY <2>8 DEF IsDescending
    <3>1. i \in 1..n
      BY <2>1, <2>8
    <3>2. CASE j \in 1..n
      <4>1. q[i] > q[j]
        BY <2>7, <3>1, <3>2 DEF IsDescending
      <4> QED BY <2>8, <3>1, <3>2, <4>1
    <3>3. CASE j = n + 1
      BY <2>5, <2>8, <3>1, <3>3
    <3> QED BY <2>8, <3>2, <3>3
  <2> QED BY <2>9, <2>10, <2>11 DEF Ordered
<1>3. Done = Nat
  <2> HIDE DEF Done
  <2>1. Done \in SUBSET Nat
    BY DEF Done
  <2> QED BY <1>1, <1>2, <2>1, Induction
<1>4. Cardinality(keys) \in Nat
  BY FS_CardinalityType
<1>5. Ordered(Cardinality(keys), keys)
  <2> HIDE DEF Ordered
  <2> QED BY <1>3, <1>4
<1> QED BY <1>5 DEF Orders

(* The months of a stream. *)
LEMMA KeysOfStream ==
  ASSUME NEW held \in SUBSET Items, IsFiniteSet(held)
  PROVE  LET stream == StreamOf(held)
         IN /\ Keys(stream) = {MonthOf[x] : x \in held} /\ Keys(stream) \in SUBSET Months
            /\ IsFiniteSet(Keys(stream)) /\ Keys(stream) \in SUBSET Nat
            /\ \A month \in Months :
                 /\ stream[month] \in Seq(Items) /\ Sorted(stream[month])
                 /\ Range(stream[month]) = {x \in held : MonthOf[x] = month}
<1> DEFINE stream == StreamOf(held)
           months == {MonthOf[x] : x \in held}
<1>1. stream = [month \in Months |-> InOrder({x \in held : MonthOf[x] = month})]
  BY DEF StreamOf
<1>2. ASSUME NEW month \in Months
      PROVE  /\ stream[month] \in Seq(Items) /\ Sorted(stream[month])
             /\ Range(stream[month]) = {x \in held : MonthOf[x] = month}
  <2> DEFINE old == {x \in held : MonthOf[x] = month}
  <2>1. old \in SUBSET Items /\ IsFiniteSet(old)
    BY FS_Subset
  <2>2. stream[month] = InOrder(old)
    BY <1>1
  <2> HIDE DEF old, stream
  <2>3. stream[month] \in Seq(Items) /\ Sorted(stream[month]) /\ Range(stream[month]) = old
    BY <2>1, <2>2, InOrderIs
  <2> QED BY <2>3 DEF old
<1>3. \A x \in held : MonthOf[x] \in Months /\ MonthOf[x] \in Nat
  BY MonthsAssumption DEF Months, Range
<1>4. Keys(stream) = months
  <2> SUFFICES ASSUME NEW month \in Months PROVE stream[month] # <<>> <=> month \in months
    <3>1. DOMAIN stream = Months
      BY <1>1
    <3> HIDE DEF stream
    <3> QED BY <1>3, <3>1 DEF Keys
  <2>1. stream[month] = <<>> => Range(stream[month]) = {}
    BY DEF Range
  <2>2. ASSUME stream[month] # <<>> PROVE Range(stream[month]) # {}
    <3>1. \E i \in 1..Len(stream[month]) : TRUE
      <4>1. Len(stream[month]) # 0 /\ Len(stream[month]) \in Nat
        BY <1>2, <2>2
      <4>2. 1 \in 1..Len(stream[month])
        BY <4>1
      <4> QED BY <4>2
    <3> QED BY <1>2, <3>1, RangeIs
  <2> HIDE DEF stream
  <2> QED BY <1>2, <2>1, <2>2
<1>5. IsFiniteSet(months)
  <2> DEFINE f == [x \in held |-> MonthOf[x]]
  <2>1. f \in Surjection(held, months)
    BY DEF Surjection
  <2> QED BY <2>1, FS_Surjection
<1>6. months \in SUBSET Nat /\ months \in SUBSET Months
  BY <1>3
<1> QED BY <1>2, <1>4, <1>5, <1>6

(* The partitions come with the newest month first. *)
LEMMA PartitionsAre ==
  ASSUME NEW held \in SUBSET Items, IsFiniteSet(held)
  PROVE  LET stream == StreamOf(held)
             keys == PartitionKeys(stream)
             parts == Partitions(stream)
             K == Cardinality(Keys(stream))
         IN /\ K \in Nat /\ keys \in [1..K -> Keys(stream)] /\ Range(keys) = Keys(stream)
            /\ IsDescending(keys)
            /\ parts \in Seq(Seq(Items)) /\ Len(parts) = K
            /\ \A k \in 1..K : parts[k] = stream[keys[k]] /\ parts[k] # <<>>
<1> DEFINE stream == StreamOf(held)
           keys == PartitionKeys(stream)
           parts == Partitions(stream)
           K == Cardinality(Keys(stream))
<1>1. /\ IsFiniteSet(Keys(stream)) /\ Keys(stream) \in SUBSET Nat /\ Keys(stream) \in SUBSET Months
      /\ \A month \in Months : stream[month] \in Seq(Items)
  BY KeysOfStream
<1> HIDE DEF stream
<1>2. K \in Nat
  BY <1>1, FS_CardinalityType
<1>3. keys \in Orders(Keys(stream)) /\ IsDescending(keys)
  <2>1. \E p \in Orders(Keys(stream)) : IsDescending(p)
    BY <1>1, DescendingExists
  <2> QED BY <2>1 DEF PartitionKeys, IsDescending
<1> HIDE DEF keys
<1>4. keys \in [1..K -> Keys(stream)] /\ Range(keys) = Keys(stream)
  BY <1>3 DEF Orders
<1>5. parts = [k \in 1..K |-> stream[keys[k]]]
  <2>1. DOMAIN keys = 1..K
    BY <1>4
  <2> QED BY <2>1 DEF Partitions, keys
<1>6. \A k \in 1..K : stream[keys[k]] \in Seq(Items) /\ stream[keys[k]] # <<>>
  <2>1. \A k \in 1..K : keys[k] \in Keys(stream)
    BY <1>4
  <2> HIDE DEF K
  <2> QED BY <1>1, <2>1 DEF Keys
<1> HIDE DEF K, parts
<1>7. parts \in Seq(Seq(Items)) /\ Len(parts) = K
  <2>1. parts \in [1..K -> Seq(Items)]
    BY <1>5, <1>6
  <2> QED BY <1>2, <2>1
<1>8. \A k \in 1..K : parts[k] = stream[keys[k]] /\ parts[k] # <<>>
  BY <1>5, <1>6
<1> QED BY <1>2, <1>3, <1>4, <1>7, <1>8 DEF stream, keys, parts, K
-------------------------------------------------------------------------------
(* takeFromStream. *)

(* Up to n items from the start of a list. *)
Start(s, n) == SubSeq(s, 1, IF n <= Len(s) THEN n ELSE Len(s))

(* Two lists with the same items at their places. *)
LEMMA SameList ==
  ASSUME NEW s \in Seq(Items), NEW t \in Seq(Items), Len(s) = Len(t),
         \A i \in 1..Len(s) : s[i] = t[i]
  PROVE  s = t
OBVIOUS

(* What starts a list. *)
LEMMA StartIs ==
  ASSUME NEW s \in Seq(Items), NEW k \in 0..Len(s)
  PROVE  /\ SubSeq(s, 1, k) \in Seq(Items) /\ Len(SubSeq(s, 1, k)) = k
         /\ \A i \in 1..k : SubSeq(s, 1, k)[i] = s[i]
OBVIOUS

(* Taking of one more partition gives the start of one more partition. *)
LEMMA TakeOfStart ==
  ASSUME NEW f \in Seq(Items), NEW part \in Seq(Items), NEW n \in Nat
  PROVE  /\ TakeOf(Start(f, n), part, n) = Start(f \o part, n)
         /\ Start(f, n) \in Seq(Items)
<1> DEFINE p == Len(f)
           q == Len(part)
           c == f \o part
<1>1. /\ c \in Seq(Items) /\ Len(c) = p + q /\ p \in Nat /\ q \in Nat
      /\ \A i \in 1..p : c[i] = f[i]
      /\ \A j \in 1..q : c[p + j] = part[j]
  BY ConcatOf
<1> HIDE DEF c
<1>2. CASE n <= p
  <2>1. Start(f, n) = SubSeq(f, 1, n)
    BY <1>2 DEF Start
  <2>2. n \in 0..p /\ n \in 0..Len(c) /\ n <= Len(c)
    BY <1>1, <1>2
  <2>3. Start(c, n) = SubSeq(c, 1, n)
    BY <2>2 DEF Start
  <2>4. /\ SubSeq(f, 1, n) \in Seq(Items) /\ Len(SubSeq(f, 1, n)) = n
        /\ \A i \in 1..n : SubSeq(f, 1, n)[i] = f[i]
    BY <2>2, StartIs
  <2>5. /\ SubSeq(c, 1, n) \in Seq(Items) /\ Len(SubSeq(c, 1, n)) = n
        /\ \A i \in 1..n : SubSeq(c, 1, n)[i] = c[i]
    BY <1>1, <2>2, StartIs
  <2>6. \A i \in 1..n : c[i] = f[i]
    <3> HIDE DEF p
    <3> QED BY <1>1, <2>2
  <2>7. SubSeq(f, 1, n) = SubSeq(c, 1, n)
    BY <2>4, <2>5, <2>6, SameList
  <2>8. TakeOf(Start(f, n), part, n) = Start(f, n)
    BY <2>1, <2>4 DEF TakeOf
  <2> QED BY <2>1, <2>3, <2>4, <2>7, <2>8 DEF c
<1>3. CASE n > p
  <2> DEFINE m == IF n - p <= q THEN n - p ELSE q
             t == SubSeq(part, 1, m)
  <2>1. ~(n <= p) /\ p \in 0..Len(f)
    BY <1>1, <1>3
  <2>2. SubSeq(f, 1, p) = f
    <3>1. /\ SubSeq(f, 1, p) \in Seq(Items) /\ Len(SubSeq(f, 1, p)) = p
          /\ \A i \in 1..p : SubSeq(f, 1, p)[i] = f[i]
      BY <2>1, StartIs
    <3> QED BY <3>1, SameList
  <2>3. Start(f, n) = f
    BY <2>1, <2>2 DEF Start
  <2>4. n - p \in Nat /\ m \in Nat /\ m \in 0..q /\ p + m \in 0..Len(c)
    BY <1>1, <1>3
  <2>5. Min({n - p, q}) = m
    <3> HIDE DEF p, q
    <3>1. n - p \in Int /\ q \in Int
      BY <1>1, <2>4
    <3>2. Min({n - p, q}) = IF n - p <= q THEN n - p ELSE q
      BY <3>1, MinOfTwo
    <3> QED BY <3>2
  <2>6. TakeOf(f, part, n) = f \o t
    <3>1. ~(Len(f) >= n)
      BY <1>1, <1>3
    <3> HIDE DEF m
    <3> QED BY <2>5, <3>1 DEF TakeOf
  <2>7. t \in Seq(Items) /\ Len(t) = m /\ \A i \in 1..m : t[i] = part[i]
    <3> HIDE DEF m
    <3> QED BY <2>4, StartIs
  <2>8. Start(c, n) = SubSeq(c, 1, p + m)
    <3>0. p \in Nat /\ q \in Nat /\ Len(c) = p + q
      BY <1>1
    <3>1. p + m = IF n <= Len(c) THEN n ELSE Len(c)
      <4> HIDE DEF p, q, t
      <4>1. CASE n - p <= q
        <5>1. m = n - p /\ p + (n - p) = n /\ n <= p + q
          BY <1>3, <3>0, <4>1
        <5> HIDE DEF m
        <5> QED BY <3>0, <5>1
      <4>2. CASE ~(n - p <= q)
        <5>1. m = q /\ ~(n <= p + q)
          BY <1>3, <3>0, <4>2
        <5> HIDE DEF m
        <5> QED BY <3>0, <5>1
      <4> QED BY <4>1, <4>2
    <3> QED BY <3>1 DEF Start
  <2> HIDE DEF m
  <2>9. /\ SubSeq(c, 1, p + m) \in Seq(Items) /\ Len(SubSeq(c, 1, p + m)) = p + m
        /\ \A i \in 1..p + m : SubSeq(c, 1, p + m)[i] = c[i]
    BY <1>1, <2>4, StartIs
  <2> HIDE DEF t
  <2>10. /\ f \o t \in Seq(Items) /\ Len(f \o t) = p + m
         /\ \A i \in 1..p : (f \o t)[i] = f[i]
         /\ \A j \in 1..m : (f \o t)[p + j] = t[j]
    <3>1. f \in Seq(Items) /\ t \in Seq(Items) /\ Len(t) = m
      BY <2>7
    <3>2. /\ f \o t \in Seq(Items) /\ Len(f \o t) = Len(f) + Len(t)
          /\ \A i \in 1..Len(f) : (f \o t)[i] = f[i]
          /\ \A j \in 1..Len(t) : (f \o t)[Len(f) + j] = t[j]
      BY ONLY <3>1, ConcatOf
    <3> QED BY <3>1, <3>2
  <2>11. \A i \in 1..p + m : (f \o t)[i] = c[i]
    <3> SUFFICES ASSUME NEW i \in 1..p + m PROVE (f \o t)[i] = c[i]
      OBVIOUS
    <3> HIDE DEF p, q
    <3>1. CASE i <= p
      <4>1. i \in 1..p
        BY <1>1, <2>4, <3>1
      <4> QED BY <1>1, <2>10, <4>1
    <3>2. CASE i > p
      <4>1. i - p \in 1..m /\ i - p \in 1..q /\ p + (i - p) = i
        <5>1. p \in Nat /\ q \in Nat /\ m \in 0..q /\ i \in 1..p + m /\ i > p
          BY <1>1, <2>4, <3>2
        <5> QED BY ONLY <5>1
      <4>2. (f \o t)[p + (i - p)] = t[i - p] /\ c[p + (i - p)] = part[i - p]
        BY <1>1, <2>10, <4>1
      <4>3. t[i - p] = part[i - p]
        BY <2>7, <4>1
      <4> QED BY <4>1, <4>2, <4>3
    <3>3. i <= p \/ i > p
      <4>1. p \in Nat /\ m \in Nat
        BY <1>1, <2>4
      <4> QED BY ONLY <4>1, i \in 1..p + m
    <3> QED BY <3>1, <3>2, <3>3
  <2>12. f \o t = SubSeq(c, 1, p + m)
    <3> DEFINE a == f \o t
               b == SubSeq(c, 1, p + m)
    <3>1. a \in Seq(Items) /\ b \in Seq(Items) /\ Len(a) = Len(b) /\ \A i \in 1..Len(a) : a[i] = b[i]
      <4> HIDE DEF p
      <4> QED BY <2>9, <2>10, <2>11
    <3> HIDE DEF a, b
    <3>2. a = b
      BY <3>1, SameList
    <3> QED BY <3>2 DEF a, b
  <2> QED BY <2>3, <2>6, <2>8, <2>12 DEF c
<1> QED BY <1>1, <1>2, <1>3
-------------------------------------------------------------------------------
(* Taking goes through the partitions one by one. *)
LEMMA TakingIsPasses ==
  ASSUME NEW parts \in Seq(Seq(Items)), NEW size \in Nat
  PROVE  \E pass \in [0..Len(parts) -> Seq(Items)] :
           /\ pass[0] = <<>>
           /\ \A n \in 1..Len(parts) : pass[n] = TakeOf(pass[n - 1], parts[n], size)
           /\ FoldLeft(LAMBDA taken, part : TakeOf(taken, part, size), <<>>, parts)
                = pass[Len(parts)]
<1> DEFINE T == Seq(Items)
           N == Len(parts)
           Take(taken, part) == TakeOf(taken, part, size)
           F == [p \in (1..N) \X T |-> Take(p[2], parts[p[1]])]
           taken == FoldLeft(LAMBDA t, part : TakeOf(t, part, size), <<>>, parts)
           Is(iter) == iter = [s \in SUBSET (1..N) |->
                                 IF s = {} THEN <<>>
                                 ELSE Take(iter[s \ {Max(s)}], parts[Max(s)])]
<1>1. N \in Nat /\ \A n \in 1..N : parts[n] \in T
  <2> HIDE DEF T
  <2>1. parts \in Seq(T)
    BY DEF T
  <2> QED BY <2>1
<1>2. ASSUME NEW t \in T, NEW part \in T PROVE Take(t, part) \in T
  <2> DEFINE a == size - Len(t)
             b == Len(part)
             m == IF a <= b THEN a ELSE b
  <2>1. CASE Len(t) >= size
    BY <2>1 DEF TakeOf
  <2>2. CASE ~(Len(t) >= size)
    <3>1. a \in Nat /\ b \in Nat /\ m \in 0..Len(part)
      BY <2>2
    <3>2. Min({a, b}) = m
      <4> HIDE DEF a, b
      <4>1. a \in Int /\ b \in Int
        BY <3>1
      <4> QED BY <4>1, MinOfTwo
    <3>3. Take(t, part) = t \o SubSeq(part, 1, m)
      <4> HIDE DEF m
      <4> QED BY <2>2, <3>2 DEF TakeOf
    <3> HIDE DEF m, Take
    <3>4. SubSeq(part, 1, m) \in T
      BY <3>1, StartIs
    <3> QED BY <3>3, <3>4
  <2> QED BY <2>1, <2>2
<1>3. <<>> \in T
  OBVIOUS
<1>4. \E iter : Is(iter)
  <2> HIDE DEF T, N, Take
  <2>1. F \in [(1..N) \X T -> T]
    BY <1>1, <1>2
  <2> HIDE DEF F
  <2>2. PICK iter \in [SUBSET (1..N) -> T] : IsFold(iter, N, <<>>, F)
    BY <1>1, <1>3, <2>1, FoldExists
  <2>3. \A s \in SUBSET (1..N) : s # {} => Max(s) \in 1..N /\ iter[s \ {Max(s)}] \in T
    BY <1>1, <2>2, MaxOf
  <2>4. \A s \in SUBSET (1..N) : s # {} =>
          F[<<Max(s), iter[s \ {Max(s)}]>>] = Take(iter[s \ {Max(s)}], parts[Max(s)])
    BY <2>3 DEF F
  <2>5. Is(iter)
    BY <2>2, <2>4 DEF IsFold
  <2> QED BY <2>5
<1> DEFINE iter == CHOOSE iter : Is(iter)
<1>5. Is(iter)
  <2> HIDE DEF Is
  <2> QED BY <1>4
<1>6. taken = iter[1..N]
  <2>1. DOMAIN parts = 1..N
    OBVIOUS
  <2> QED BY <2>1 DEF FoldLeft, MapThenFoldSet
<1> HIDE DEF iter
<1>7. iter[1..0] = <<>>
  <2>1. 1..0 = {}
    OBVIOUS
  <2> QED BY <1>5, <2>1
<1> HIDE DEF T, Take, taken
<1>8. \A n \in 1..N : iter[1..n] = Take(iter[1..n - 1], parts[n])
  <2> SUFFICES ASSUME NEW n \in 1..N PROVE iter[1..n] = Take(iter[1..n - 1], parts[n])
    OBVIOUS
  <2>1. Max(1..n) = n /\ (1..n) \ {n} = 1..n - 1
    BY <1>1, MaxOfInterval
  <2> HIDE DEF N
  <2>2. 1..n \in SUBSET (1..N) /\ 1..n # {}
    BY <1>1, PartOfInterval
  <2> QED BY <1>5, <2>1, <2>2
<1> DEFINE Typed == {n \in Nat : n <= N => iter[1..n] \in T}
<1>9. Typed = Nat
  <2>1. 0 \in Typed
    BY <1>3, <1>7
  <2>2. ASSUME NEW n \in Typed PROVE n + 1 \in Typed
    <3> HIDE DEF N
    <3> SUFFICES ASSUME n \in Nat, n + 1 <= N PROVE iter[1..n + 1] \in T
      OBVIOUS
    <3>1. iter[1..n] \in T /\ n + 1 \in 1..N /\ (n + 1) - 1 = n
      BY <1>1
    <3>2. iter[1..n + 1] = Take(iter[1..n], parts[n + 1])
      BY <1>8, <3>1
    <3> QED BY <1>1, <1>2, <3>1, <3>2
  <2>3. Typed \in SUBSET Nat
    OBVIOUS
  <2> HIDE DEF Typed
  <2> QED BY <2>1, <2>2, <2>3, Induction
<1> DEFINE pass == [n \in 0..N |-> iter[1..n]]
<1>10. pass \in [0..N -> T]
  BY <1>1, <1>9
<1>11. /\ pass[0] = <<>>
       /\ \A n \in 1..N : pass[n] = Take(pass[n - 1], parts[n])
       /\ taken = pass[N]
  <2> HIDE DEF N
  <2> QED BY <1>1, <1>6, <1>7, <1>8
<1> QED BY <1>10, <1>11 DEF T, Take, taken

(* The items of the first so many months, in order, one month after the other. *)
LEMMA MonthsInOrder ==
  ASSUME NEW held \in SUBSET Items, IsFiniteSet(held)
  PROVE  LET parts == Partitions(StreamOf(held))
             K == Len(parts)
         IN \E front \in [0..K -> Seq(Items)] :
              /\ front[0] = <<>> /\ front[K] = InOrder(held)
              /\ \A k \in 1..K : front[k] = front[k - 1] \o parts[k]
<1> DEFINE stream == StreamOf(held)
           keys == PartitionKeys(stream)
           parts == Partitions(stream)
           K == Cardinality(Keys(stream))
           Upto(k) == {x \in held : \E i \in 1..k : MonthOf[x] = keys[i]}
           front == [k \in 0..K |-> InOrder(Upto(k))]
<1>1. /\ K \in Nat /\ keys \in [1..K -> Keys(stream)] /\ Range(keys) = Keys(stream)
      /\ IsDescending(keys)
      /\ parts \in Seq(Seq(Items)) /\ Len(parts) = K
      /\ \A k \in 1..K : parts[k] = stream[keys[k]] /\ parts[k] # <<>>
  BY PartitionsAre
<1>2. /\ Keys(stream) = {MonthOf[x] : x \in held} /\ Keys(stream) \in SUBSET Months
      /\ Keys(stream) \in SUBSET Nat
      /\ \A month \in Months :
           /\ stream[month] \in Seq(Items) /\ Sorted(stream[month])
           /\ Range(stream[month]) = {x \in held : MonthOf[x] = month}
  BY KeysOfStream
<1> HIDE DEF K, parts, stream, keys
<1>3. \A k : Upto(k) \in SUBSET Items /\ IsFiniteSet(Upto(k))
  BY FS_Subset
<1>4. Upto(0) = {}
  OBVIOUS
<1>5. Upto(K) = held
  <2> SUFFICES ASSUME NEW x \in held PROVE \E i \in 1..K : MonthOf[x] = keys[i]
    OBVIOUS
  <2>1. MonthOf[x] \in Range(keys)
    BY <1>1, <1>2
  <2> QED BY <1>1, <2>1 DEF Range
<1>6. ASSUME NEW k \in 1..K
      PROVE  /\ parts[k] \in Seq(Items) /\ Sorted(parts[k])
             /\ Range(parts[k]) = {x \in held : MonthOf[x] = keys[k]}
  <2>1. keys[k] \in Months
    BY <1>1, <1>2
  <2> QED BY <1>1, <1>2, <2>1
<1>7. ASSUME NEW k \in 1..K
      PROVE  \A x \in Upto(k - 1) : \A y \in Range(parts[k]) : Newer(x, y)
  <2> SUFFICES ASSUME NEW x \in Upto(k - 1), NEW y \in Range(parts[k]) PROVE Newer(x, y)
    OBVIOUS
  <2>1. PICK i \in 1..k - 1 : MonthOf[x] = keys[i]
    OBVIOUS
  <2>2. i \in 1..K /\ i < k
    BY <1>1
  <2>3. keys[i] > keys[k]
    BY <1>1, <2>2 DEF IsDescending
  <2>4. y \in held /\ MonthOf[y] = keys[k]
    BY <1>6
  <2>5. x \in Items /\ y \in Items /\ MonthOf[x] > MonthOf[y]
    BY <2>1, <2>3, <2>4
  <2>6. DateOf[x] > DateOf[y]
    BY <2>5, MonthsAssumption
  <2> QED BY <2>5, <2>6, NewerIsAnOrder
<1>8. ASSUME NEW k \in 1..K PROVE Upto(k) = Upto(k - 1) \cup Range(parts[k])
  <2>1. Range(parts[k]) = {x \in held : MonthOf[x] = keys[k]}
    BY <1>6
  <2>2. \A i : i \in 1..k <=> i \in 1..k - 1 \/ i = k
    BY <1>1
  <2> QED BY <2>1, <2>2
<1> HIDE DEF Upto
<1>9. ASSUME NEW k \in 1..K PROVE InOrder(Upto(k)) = InOrder(Upto(k - 1)) \o parts[k]
  <2> DEFINE f == InOrder(Upto(k - 1))
             c == f \o parts[k]
  <2>1. f \in Seq(Items) /\ Sorted(f) /\ Range(f) = Upto(k - 1)
    BY <1>3, InOrderIs
  <2> HIDE DEF f
  <2>2. parts[k] \in Seq(Items) /\ Sorted(parts[k])
    BY <1>6
  <2>3. c \in Seq(Items) /\ Sorted(c) /\ Range(c) = Range(f) \cup Range(parts[k])
    BY <1>7, <2>1, <2>2, SortedConcat
  <2>4. Range(c) = Upto(k)
    BY <1>8, <2>1, <2>3
  <2> HIDE DEF c
  <2>5. InOrder(Range(c)) = c
    BY <2>3, SortedIsInOrder
  <2> QED BY <2>4, <2>5 DEF c, f
<1>10. front \in [0..K -> Seq(Items)]
  <2>1. \A k : InOrder(Upto(k)) \in Seq(Items)
    BY <1>3, InOrderIs
  <2> QED BY <2>1
<1>11. front[0] = <<>>
  <2>1. InOrder({}) = <<>>
    <3>1. <<>> \in Seq(Items) /\ Sorted(<<>>) /\ Range(<<>>) = {}
      BY DEF Sorted, Range
    <3>2. InOrder(Range(<<>>)) = <<>>
      BY <3>1, SortedIsInOrder
    <3> QED BY <3>1, <3>2
  <2>2. front[0] = InOrder(Upto(0))
    BY <1>1
  <2> HIDE DEF front
  <2> QED BY <1>4, <2>1, <2>2
<1>12. front[K] = InOrder(held)
  BY <1>1, <1>5
<1>13. \A k \in 1..K : front[k] = front[k - 1] \o parts[k]
  <2> SUFFICES ASSUME NEW k \in 1..K PROVE front[k] = front[k - 1] \o parts[k]
    OBVIOUS
  <2>1. k \in 0..K /\ k - 1 \in 0..K
    BY <1>1
  <2> QED BY <1>9, <2>1
<1> HIDE DEF front
<1>14. Len(parts) = K
  BY <1>1
<1> QED BY <1>10, <1>11, <1>12, <1>13, <1>14 DEF parts, stream

(* takeFromStream takes the newest items. *)
LEMMA TakesTheNewest ==
  ASSUME NEW held \in SUBSET Items, IsFiniteSet(held), NEW size \in Nat
  PROVE  TakeFromStream(StreamOf(held), size) = Start(InOrder(held), size)
<1> DEFINE parts == Partitions(StreamOf(held))
           K == Len(parts)
<1>1. parts \in Seq(Seq(Items)) /\ K \in Nat /\ \A k \in 1..K : parts[k] \in Seq(Items)
  <2>1. parts \in Seq(Seq(Items))
    BY PartitionsAre
  <2> DEFINE T == Seq(Items)
  <2> HIDE DEF T, parts
  <2>2. parts \in Seq(T)
    BY <2>1 DEF T
  <2>3. K \in Nat /\ \A k \in 1..K : parts[k] \in T
    BY <2>2
  <2> QED BY <2>1, <2>3 DEF T
<1>2. PICK front \in [0..K -> Seq(Items)] :
        /\ front[0] = <<>> /\ front[K] = InOrder(held)
        /\ \A k \in 1..K : front[k] = front[k - 1] \o parts[k]
  BY MonthsInOrder
<1>3. PICK pass \in [0..K -> Seq(Items)] :
        /\ pass[0] = <<>>
        /\ \A n \in 1..K : pass[n] = TakeOf(pass[n - 1], parts[n], size)
        /\ TakeFromStream(StreamOf(held), size) = pass[K]
  <2>1. TakeFromStream(StreamOf(held), size)
          = FoldLeft(LAMBDA taken, part : TakeOf(taken, part, size), <<>>, parts)
    BY DEF TakeFromStream
  <2> HIDE DEF parts
  <2> QED BY <1>1, <2>1, TakingIsPasses
<1> HIDE DEF parts
<1> DEFINE Done == {n \in Nat : n <= K => pass[n] = Start(front[n], size)}
<1>4. Done = Nat
  <2>1. 0 \in Done
    <3>1. Start(<<>>, size) = <<>>
      BY DEF Start
    <3> QED BY <1>2, <1>3, <3>1
  <2>2. ASSUME NEW n \in Done PROVE n + 1 \in Done
    <3> HIDE DEF K
    <3> SUFFICES ASSUME n \in Nat, n + 1 <= K PROVE pass[n + 1] = Start(front[n + 1], size)
      OBVIOUS
    <3>1. n \in 0..K /\ n + 1 \in 1..K /\ (n + 1) - 1 = n /\ pass[n] = Start(front[n], size)
      BY <1>1
    <3>2. pass[n + 1] = TakeOf(pass[n], parts[n + 1], size)
      BY <1>3, <3>1
    <3>3. front[n + 1] = front[n] \o parts[n + 1]
      BY <1>2, <3>1
    <3>4. front[n] \in Seq(Items) /\ parts[n + 1] \in Seq(Items)
      BY <1>1, <1>2, <3>1
    <3>5. TakeOf(Start(front[n], size), parts[n + 1], size)
            = Start(front[n] \o parts[n + 1], size)
      BY ONLY <3>4, size \in Nat, TakeOfStart
    <3> QED BY <3>1, <3>2, <3>3, <3>5
  <2>3. Done \in SUBSET Nat
    OBVIOUS
  <2> HIDE DEF Done
  <2> QED BY <2>1, <2>2, <2>3, Induction
<1>5. pass[K] = Start(front[K], size)
  <2> HIDE DEF K
  <2>1. K \in Done /\ K <= K
    <3> HIDE DEF Done
    <3> QED BY <1>1, <1>4
  <2> QED BY <2>1
<1> QED BY <1>2, <1>3, <1>5
-------------------------------------------------------------------------------
(* What is read of a stream. *)

(* The last item of the last partition is the oldest one. *)
LEMMA LastIsOldest ==
  ASSUME NEW held \in SUBSET Items, IsFiniteSet(held), held # {}
  PROVE  GetLastItemInStream(StreamOf(held)) = Last(InOrder(held))
<1> DEFINE parts == Partitions(StreamOf(held))
           K == Len(parts)
<1>1. K \in Nat /\ \A k \in 1..K : parts[k] \in Seq(Items) /\ parts[k] # <<>>
  <2> DEFINE T == Seq(Items)
  <2>1. parts \in Seq(T) /\ \A k \in 1..K : parts[k] # <<>>
    BY PartitionsAre
  <2> HIDE DEF T, parts
  <2>2. K \in Nat /\ \A k \in 1..K : parts[k] \in T
    BY <2>1
  <2> QED BY <2>1, <2>2 DEF T
<1>2. PICK front \in [0..K -> Seq(Items)] :
        /\ front[0] = <<>> /\ front[K] = InOrder(held)
        /\ \A k \in 1..K : front[k] = front[k - 1] \o parts[k]
  BY MonthsInOrder
<1> HIDE DEF parts, K
<1>3. K # 0
  <2> SUFFICES ASSUME K = 0 PROVE FALSE
    OBVIOUS
  <2>1. InOrder(held) = <<>>
    BY <1>2
  <2>2. Range(InOrder(held)) = held
    BY InOrderIs
  <2> QED BY <2>1, <2>2 DEF Range
<1> DEFINE f == front[K - 1]
           p == parts[K]
<1>4. K \in 1..K /\ K - 1 \in 0..K
  <2>1. K \in Nat
    BY <1>1
  <2> QED BY ONLY <2>1, <1>3
<1>5. f \in Seq(Items) /\ p \in Seq(Items) /\ p # <<>> /\ InOrder(held) = f \o p
  BY <1>1, <1>2, <1>4
<1> HIDE DEF f, p
<1>6. Len(p) \in Nat /\ Len(f) \in Nat /\ Len(p) # 0
  BY <1>5
<1>7. Len(f \o p) = Len(f) + Len(p) /\ \A j \in 1..Len(p) : (f \o p)[Len(f) + j] = p[j]
  BY ONLY <1>5, ConcatOf
<1>8. Len(p) \in 1..Len(p)
  BY ONLY <1>6
<1>9. Last(f \o p) = Last(p)
  BY <1>7, <1>8 DEF Last
<1>10. GetLastItemInStream(StreamOf(held)) = Last(p)
  BY DEF GetLastItemInStream, p, parts, K, Last
<1> QED BY <1>5, <1>9, <1>10

(* The items of a list of which something holds are counted by their places. *)
LEMMA CountOfPlaces ==
  ASSUME NEW s \in Seq(Items), Distinct(s), NEW date
  PROVE  Quantify(DOMAIN s, LAMBDA i : DateOf[s[i]] > date)
           = Cardinality({x \in Range(s) : DateOf[x] > date})
<1> DEFINE I == {i \in 1..Len(s) : DateOf[s[i]] > date}
           X == {x \in Range(s) : DateOf[x] > date}
           f == [i \in I |-> s[i]]
<1>1. Len(s) \in Nat /\ DOMAIN s = 1..Len(s)
  OBVIOUS
<1>2. IsFiniteSet(I)
  <2>1. IsFiniteSet(1..Len(s)) /\ I \in SUBSET (1..Len(s))
    BY <1>1, FS_Interval
  <2> HIDE DEF I
  <2> QED BY <2>1, FS_Subset
<1>3. f \in Bijection(I, X)
  <2>1. \A x : x \in Range(s) <=> \E i \in 1..Len(s) : s[i] = x
    BY RangeIs
  <2>2. \A i, j \in I : s[i] = s[j] => i = j
    BY DEF Distinct
  <2>3. f \in [I -> X]
    BY <2>1
  <2>4. \A x \in X : \E i \in I : f[i] = x
    BY <2>1
  <2> QED BY <2>2, <2>3, <2>4 DEF Bijection, Injection, Surjection, IsInjective
<1>4. Cardinality(X) = Cardinality(I)
  <2>1. ExistsBijection(I, X)
    BY <1>3 DEF ExistsBijection
  <2> HIDE DEF I, X
  <2> QED BY <1>2, <2>1, FS_Bijection
<1> QED BY <1>1, <1>4 DEF Quantify

(* getStreamSize and getNumItemsSince add up what the months have. *)
LEMMA MonthsAddUp ==
  ASSUME NEW held \in SUBSET Items, IsFiniteSet(held), NEW date
  PROVE  /\ GetStreamSize(StreamOf(held)) = Cardinality(held)
         /\ GetNumItemsSince(StreamOf(held), date) = Cardinality({y \in held : DateOf[y] > date})
<1> DEFINE stream == StreamOf(held)
           S == Keys(stream)
           Of == [m \in S |-> {x \in held : MonthOf[x] = m}]
           Since == [m \in S |-> {x \in held : MonthOf[x] = m /\ DateOf[x] > date}]
<1>1. /\ S = {MonthOf[x] : x \in held} /\ IsFiniteSet(S)
      /\ \A m \in S : /\ stream[m] \in Seq(Items) /\ Sorted(stream[m])
                      /\ Range(stream[m]) = {x \in held : MonthOf[x] = m}
  BY KeysOfStream
<1> HIDE DEF S, stream
<1>2. \A m \in S : IsFiniteSet(Of[m]) /\ IsFiniteSet(Since[m])
  BY FS_Subset
<1>3. \A l, m \in S : l # m => Of[l] \cap Of[m] = {} /\ Since[l] \cap Since[m] = {}
  OBVIOUS
<1>4. /\ UNION {Of[m] : m \in S} = held
      /\ UNION {Since[m] : m \in S} = {y \in held : DateOf[y] > date}
  <2>1. \A x \in held : MonthOf[x] \in S
    BY <1>1
  <2> QED BY <2>1
<1>5. ASSUME NEW m \in S
      PROVE  /\ Len(stream[m]) = Cardinality(Of[m])
             /\ Quantify(DOMAIN stream[m], LAMBDA i : DateOf[stream[m][i]] > date)
                  = Cardinality(Since[m])
  <2> DEFINE s == stream[m]
  <2>1. s \in Seq(Items) /\ Distinct(s) /\ Range(s) = Of[m]
    BY <1>1, SortedIsDistinct
  <2>2. Since[m] = {x \in Range(s) : DateOf[x] > date}
    BY <2>1
  <2> HIDE DEF s, Since, Of
  <2>3. Cardinality(Of[m]) = Len(s)
    BY <2>1, SizeOfRange
  <2>4. Quantify(DOMAIN s, LAMBDA i : DateOf[s[i]] > date)
          = Cardinality({x \in Range(s) : DateOf[x] > date})
    BY <2>1, CountOfPlaces
  <2> QED BY <2>2, <2>3, <2>4 DEF s
<1> HIDE DEF Of, Since
<1>6. GetStreamSize(stream) = SumFunction([m \in S |-> Cardinality(Of[m])])
  <2>1. [m \in S |-> Len(stream[m])] = [m \in S |-> Cardinality(Of[m])]
    BY <1>5
  <2> QED BY <2>1 DEF GetStreamSize, S
<1>7. GetNumItemsSince(stream, date) = SumFunction([m \in S |-> Cardinality(Since[m])])
  <2>1. [m \in S |-> Quantify(DOMAIN stream[m], LAMBDA i : DateOf[stream[m][i]] > date)]
          = [m \in S |-> Cardinality(Since[m])]
    BY <1>5
  <2> QED BY <2>1 DEF GetNumItemsSince, S
<1>8. SumFunction([m \in S |-> Cardinality(Of[m])]) = Cardinality(UNION {Of[m] : m \in S})
  BY <1>1, <1>2, <1>3, SumOfParts
<1>9. SumFunction([m \in S |-> Cardinality(Since[m])])
        = Cardinality(UNION {Since[m] : m \in S})
  BY <1>1, <1>2, <1>3, SumOfParts
<1> QED BY <1>4, <1>6, <1>7, <1>8, <1>9 DEF stream

(* The items of some lists, flattened, are those of each. *)
LEMMA FlattenedItems ==
  ASSUME NEW s \in Seq(Seq(Items)), s # <<>>
  PROVE  /\ FlattenSeq(s) \in Seq(Items)
         /\ Range(FlattenSeq(s)) = UNION {Range(s[i]) : i \in 1..Len(s)}
<1> DEFINE N == Len(s)
           Upto(n) == UNION {Range(s[i]) : i \in 1..n}
<1>1. N \in Nat /\ N # 0 /\ \A n \in 1..N : s[n] \in Seq(Items)
  <2> DEFINE T == Seq(Items)
  <2>1. s \in Seq(T)
    OBVIOUS
  <2> HIDE DEF T
  <2>2. N \in Nat /\ N # 0 /\ \A n \in 1..N : s[n] \in T
    BY <2>1
  <2> QED BY <2>2 DEF T
<1>2. PICK f \in [1..N -> Seq(Items)] : IsFlattening(f, s)
  BY FlatteningExists
<1>3. FlattenSeq(s) = f[N]
  BY <1>2, FlattenSeqIs
<1>4. \A n \in 1..N : f[n] = IF n = 1 THEN s[n] ELSE f[n - 1] \o s[n]
  BY <1>2 DEF IsFlattening
<1> HIDE DEF N
<1> DEFINE Done == {n \in Nat : n + 1 <= N => Range(f[n + 1]) = Upto(n + 1)}
<1>5. Done = Nat
  <2>1. 0 \in Done
    <3>1. f[1] = s[1] /\ Upto(1) = Range(s[1])
      <4>1. 1 \in 1..N
        <5>1. N \in Nat /\ N # 0
          BY <1>1
        <5> QED BY ONLY <5>1
      <4>2. 1..1 = {1}
        OBVIOUS
      <4>3. Upto(1) = Range(s[1])
        BY ONLY <4>2
      <4> QED BY <1>4, <4>1, <4>3
    <3> QED BY <3>1
  <2>2. ASSUME NEW n \in Done PROVE n + 1 \in Done
    <3> SUFFICES ASSUME n \in Nat, (n + 1) + 1 <= N, n + 1 <= N => Range(f[n + 1]) = Upto(n + 1)
                 PROVE  Range(f[(n + 1) + 1]) = Upto((n + 1) + 1)
      OBVIOUS
    <3> DEFINE m == n + 1
    <3> HIDE DEF Done
    <3>0. N \in Nat
      BY <1>1
    <3>1. m + 1 \in 1..N /\ m \in 1..N /\ (m + 1) - 1 = m /\ m + 1 # 1 /\ m \in Nat
      BY ONLY <3>0, n \in Nat, (n + 1) + 1 <= N
    <3>2. Range(f[m]) = Upto(m)
      BY <3>0
    <3> HIDE DEF m
    <3>3. f[m + 1] = f[m] \o s[m + 1]
      BY <1>4, <3>1
    <3>4. f[m] \in Seq(Items) /\ s[m + 1] \in Seq(Items)
      BY <1>1, <1>2, <3>1
    <3>5. Range(f[m] \o s[m + 1]) = Range(f[m]) \cup Range(s[m + 1])
      BY ONLY <3>4, RangeOfConcat
    <3>6. 1..m + 1 = 1..m \cup {m + 1}
      BY <3>1
    <3>7. Upto(m + 1) = Upto(m) \cup Range(s[m + 1])
      BY <3>6
    <3> HIDE DEF Upto
    <3>8. Range(f[m + 1]) = Upto(m + 1)
      BY <3>2, <3>3, <3>5, <3>7
    <3> QED BY <3>8 DEF m
  <2>3. Done \in SUBSET Nat
    OBVIOUS
  <2> HIDE DEF Done
  <2> QED BY <2>1, <2>2, <2>3, Induction
<1>6. Range(f[N]) = Upto(N)
  <2>0. N \in Nat /\ N # 0
    BY <1>1
  <2>1. N - 1 \in Nat /\ (N - 1) + 1 = N /\ N <= N
    BY ONLY <2>0
  <2>2. N - 1 \in Done
    <3> HIDE DEF Done
    <3> QED BY <1>5, <2>1
  <2> QED BY <2>1, <2>2
<1>7. N \in 1..N
  <2>0. N \in Nat /\ N # 0
    BY <1>1
  <2> QED BY ONLY <2>0
<1> QED BY <1>2, <1>3, <1>6, <1>7 DEF N

(* What is frozen and received again is the same stream. *)
LEMMA FrozenIsReceived ==
  ASSUME NEW held \in SUBSET Items, IsFiniteSet(held), held # {},
         NEW order \in Orders(Keys(StreamOf(held)))
  PROVE  OnStreamReceive(EmptyStream, Freeze(StreamOf(held), order)) = StreamOf(held)
<1> DEFINE stream == StreamOf(held)
           S == Keys(stream)
           K == Cardinality(S)
           parts == [n \in DOMAIN order |-> stream[order[n]]]
           frozen == FlattenSeq(parts)
<1>1. /\ S = {MonthOf[x] : x \in held} /\ IsFiniteSet(S)
      /\ \A m \in S : /\ stream[m] \in Seq(Items)
                      /\ Range(stream[m]) = {x \in held : MonthOf[x] = m}
  BY KeysOfStream
<1>2. order \in [1..K -> S] /\ Range(order) = S
  BY DEF Orders
<1> HIDE DEF S, stream
<1>3. K \in Nat /\ K # 0
  <2>1. S # {}
    BY <1>1
  <2> QED BY <1>1, <2>1, FS_EmptySet, FS_CardinalityType
<1> HIDE DEF K
<1>4. parts \in Seq(Seq(Items)) /\ Len(parts) = K /\ parts # <<>>
      /\ \A n \in 1..K : parts[n] = stream[order[n]]
  <2>1. DOMAIN order = 1..K /\ \A n \in 1..K : stream[order[n]] \in Seq(Items)
    BY <1>1, <1>2
  <2> DEFINE T == Seq(Items)
  <2>2. parts \in [1..K -> T] /\ \A n \in 1..K : parts[n] = stream[order[n]]
    BY <2>1
  <2> HIDE DEF T, parts
  <2>3. parts \in Seq(T) /\ Len(parts) = K
    BY <1>3, <2>2
  <2>4. parts # <<>>
    BY <1>3, <2>3
  <2> QED BY <2>2, <2>3, <2>4 DEF T
<1> HIDE DEF parts
<1>5. frozen \in Seq(Items) /\ Range(frozen) = UNION {Range(parts[n]) : n \in 1..K}
  <2>1. parts \in Seq(Seq(Items)) /\ parts # <<>>
    BY <1>4
  <2>2. frozen \in Seq(Items)
        /\ Range(frozen) = UNION {Range(parts[n]) : n \in 1..Len(parts)}
    BY ONLY <2>1, FlattenedItems
  <2> QED BY <1>4, <2>2
<1>6. UNION {Range(parts[n]) : n \in 1..K} = held
  <2>1. \A n \in 1..K : Range(parts[n]) = {x \in held : MonthOf[x] = order[n]}
    <3> SUFFICES ASSUME NEW n \in 1..K PROVE Range(parts[n]) = {x \in held : MonthOf[x] = order[n]}
      OBVIOUS
    <3>1. order[n] \in S /\ parts[n] = stream[order[n]]
      BY <1>2, <1>4
    <3> QED BY <1>1, <3>1
  <2>2. \A x \in held : \E n \in 1..K : order[n] = MonthOf[x]
    <3>1. \A m \in S : \E n \in 1..K : order[n] = m
      BY <1>2 DEF Range
    <3> QED BY <1>1, <3>1
  <2> QED BY <2>1, <2>2
<1>7. EmptyStream = StreamOf({})
  <2>1. InOrder({}) = <<>>
    <3>1. <<>> \in Seq(Items) /\ Sorted(<<>>) /\ Range(<<>>) = {}
      BY DEF Sorted, Range
    <3>2. InOrder(Range(<<>>)) = <<>>
      BY <3>1, SortedIsInOrder
    <3> QED BY <3>1, <3>2
  <2>2. \A month : {x \in {} : MonthOf[x] = month} = {}
    OBVIOUS
  <2> QED BY <2>1, <2>2 DEF EmptyStream, StreamOf
<1> HIDE DEF frozen
<1>8. OnStreamReceive(StreamOf({}), frozen) = StreamOf({} \cup Range(frozen))
  <2>1. {} \in SUBSET Items /\ IsFiniteSet({})
    BY FS_EmptySet
  <2> QED BY <1>5, <2>1, MergesSort
<1>9. {} \cup Range(frozen) = held
  BY <1>5, <1>6
<1>10. Freeze(StreamOf(held), order) = frozen
  BY DEF Freeze, frozen, parts, stream
<1> QED BY <1>7, <1>8, <1>9, <1>10

(***************************************************************************)
(* However many items a stream holds, and of whatever dates, its months    *)
(* are read as one list, in order.                                         *)
(***************************************************************************)
THEOREM StreamsReadInOrder == StreamIsReadInOrder
<1> SUFFICES ASSUME NEW held \in (SUBSET Items) \ {{}}, IsFiniteSet(held)
             PROVE  LET stream == StreamOf(held)
                        sorted == InOrder(held)
                    IN /\ \A n \in 0..Len(sorted) : TakeFromStream(stream, n) = SubSeq(sorted, 1, n)
                       /\ GetLastItemInStream(stream) = Last(sorted)
                       /\ GetStreamSize(stream) = Cardinality(held)
                       /\ \A x \in Items :
                            GetNumItemsSince(stream, DateOf[x])
                              = Cardinality({y \in held : DateOf[y] > DateOf[x]})
                       /\ \A order \in Orders(Keys(stream)) :
                            OnStreamReceive(EmptyStream, Freeze(stream, order)) = stream
  BY DEF StreamIsReadInOrder
<1> DEFINE stream == StreamOf(held)
           sorted == InOrder(held)
<1>1. held \in SUBSET Items /\ held # {}
  OBVIOUS
<1>2. ASSUME NEW n \in 0..Len(sorted) PROVE TakeFromStream(stream, n) = SubSeq(sorted, 1, n)
  <2>1. Len(sorted) \in Nat
    BY <1>1, InOrderIs
  <2>2. n \in Nat /\ n <= Len(sorted)
    BY <2>1
  <2> HIDE DEF sorted
  <2>3. TakeFromStream(stream, n) = Start(sorted, n)
    BY <1>1, <2>2, TakesTheNewest DEF sorted
  <2> QED BY <2>2, <2>3 DEF Start
<1>3. GetLastItemInStream(stream) = Last(sorted)
  BY <1>1, LastIsOldest
<1>4. GetStreamSize(stream) = Cardinality(held)
  BY <1>1, MonthsAddUp
<1>5. \A x \in Items : GetNumItemsSince(stream, DateOf[x])
                         = Cardinality({y \in held : DateOf[y] > DateOf[x]})
  BY <1>1, MonthsAddUp
<1>6. \A order \in Orders(Keys(stream)) :
        OnStreamReceive(EmptyStream, Freeze(stream, order)) = stream
  BY <1>1, FrozenIsReceived
<1> HIDE DEF stream, sorted
<1> QED BY <1>2, <1>3, <1>4, <1>5, <1>6 DEF stream, sorted

(***************************************************************************)
(* getOrderedStreamPartitions, takeFromStream, getLastItemInStream,        *)
(* getStreamSize, getNumItemsSince and freeze of stream.js agree on the    *)
(* order of every stream.                                                  *)
(***************************************************************************)
THEOREM StreamsRead == Spec => []StreamsAreReadInOrder
<1>1. StreamsAreReadInOrder
  BY StreamsReadInOrder DEF StreamsAreReadInOrder
<1> QED BY <1>1, PTL
===============================================================================
