--------------------------- MODULE ClientListsProofs ---------------------------
(***************************************************************************)
(* The items under headings and the pages of the news, for lists of any    *)
(* length.  TLC computes them for short ones.                              *)
(*                                                                         *)
(* The folds of the community modules choose the functions they compute    *)
(* with.  Here these are shown to exist, by induction on the number of     *)
(* elements; then what holds after each pass is shown in the same way.     *)
(***************************************************************************)
EXTENDS ClientLists, FiniteSetTheorems, WellFoundedInduction, TLAPS

(* Induction, and the folds of the community modules. *)

(* A set of numbers that holds 0 and the next of each is all of them. *)
LEMMA Induction ==
  ASSUME NEW T \in SUBSET Nat, 0 \in T, \A n \in T : n + 1 \in T
  PROVE  T = Nat
<1> SUFFICES ASSUME T # Nat PROVE FALSE
  OBVIOUS
<1> DEFINE rest == Nat \ T
           less == OpToRel(<, Nat)
<1>1. rest \subseteq Nat /\ rest # {}
  OBVIOUS
<1>2. IsWellFoundedOn(less, Nat)
  BY NatLessThanWellFounded
<1> HIDE DEF less
<1>3. PICK n \in rest : \A m \in rest : <<m, n>> \notin less
  BY <1>1, <1>2, WFMin
<1>4. n - 1 \in rest
  OBVIOUS
<1>5. <<n - 1, n>> \in less
  BY <1>4 DEF less, OpToRel
<1> QED BY <1>3, <1>4, <1>5

(* A set of numbers up to n has a greatest, and Max finds it. *)
LEMMA MaxOf ==
  ASSUME NEW n \in Nat, NEW s \in SUBSET (1..n), s # {}
  PROVE  Max(s) \in s /\ \A x \in s : x <= Max(s)
<1> DEFINE HasMax(t) == \E m \in t : \A x \in t : m >= x
           T == {k \in Nat : \A t \in SUBSET (1..k) : t # {} => HasMax(t)}
<1>1. 0 \in T
  <2>1. \A t \in SUBSET (1..0) : t = {}
    OBVIOUS
  <2> QED BY <2>1
<1>2. ASSUME NEW k \in T PROVE k + 1 \in T
  <2> SUFFICES ASSUME NEW t \in SUBSET (1..k + 1), t # {} PROVE HasMax(t)
    OBVIOUS
  <2>1. CASE k + 1 \in t
    BY <2>1
  <2>2. CASE k + 1 \notin t
    <3>1. t \in SUBSET (1..k)
      BY <2>2
    <3> QED BY <3>1
  <2> QED BY <2>1, <2>2
<1>3. T = Nat
  <2> HIDE DEF T
  <2>1. T \in SUBSET Nat
    BY DEF T
  <2> QED BY <1>1, <1>2, <2>1, Induction
<1>4. HasMax(s)
  BY <1>3
<1> QED BY <1>4 DEF Max

(* What is left of such a set without its greatest is a set of numbers up to one less. *)
LEMMA BelowMax ==
  ASSUME NEW n \in Nat, NEW s \in SUBSET (1..n + 1), s # {}
  PROVE  Max(s) \in 1..n + 1 /\ s \ {Max(s)} \in SUBSET (1..n)
<1>1. n + 1 \in Nat
  OBVIOUS
<1>2. PICK m : m = Max(s) /\ m \in s /\ \A x \in s : x <= m
  BY <1>1, MaxOf
<1>3. \A x \in s \ {m} : x \in 1..n
  BY <1>2
<1> QED BY <1>2, <1>3

(* What FoldLeft computes with. *)
IsFold(iter, N, base, F) ==
  iter = [s \in SUBSET (1..N) |->
            IF s = {} THEN base ELSE F[<<Max(s), iter[s \ {Max(s)}]>>]]

(* The function with which FoldLeft computes exists, on the sets of places. *)
LEMMA FoldExists ==
  ASSUME NEW N \in Nat, NEW T, NEW base \in T, NEW F \in [(1..N) \X T -> T]
  PROVE  \E iter \in [SUBSET (1..N) -> T] : IsFold(iter, N, base, F)
<1> DEFINE Folds(n, iter) ==
             /\ iter \in [SUBSET (1..n) -> T]
             /\ \A s \in SUBSET (1..n) :
                  iter[s] = IF s = {} THEN base ELSE F[<<Max(s), iter[s \ {Max(s)}]>>]
           Done == {n \in Nat : n <= N => \E iter : Folds(n, iter)}
<1>1. 0 \in Done
  <2> DEFINE iter == [s \in SUBSET (1..0) |-> base]
  <2>1. 1..0 = {}
    OBVIOUS
  <2>2. Folds(0, iter)
    BY <2>1
  <2> QED BY <2>2
<1>2. ASSUME NEW n \in Done PROVE n + 1 \in Done
  <2> HIDE DEF Folds
  <2> SUFFICES ASSUME n \in Nat, n + 1 <= N PROVE \E iter : Folds(n + 1, iter)
    OBVIOUS
  <2>1. PICK iter : Folds(n, iter)
    OBVIOUS
  <2> USE DEF Folds
  <2> HIDE DEF Done
  <2> DEFINE next == [s \in SUBSET (1..n + 1) |->
                        IF s = {} THEN base ELSE F[<<Max(s), iter[s \ {Max(s)}]>>]]
  <2>2. ASSUME NEW s \in SUBSET (1..n + 1), s # {}
        PROVE  s \ {Max(s)} \in SUBSET (1..n) /\ Max(s) \in 1..N
    <3>1. Max(s) \in 1..n + 1 /\ s \ {Max(s)} \in SUBSET (1..n)
      BY ONLY <2>2, n \in Nat, BelowMax
    <3>2. 1..n + 1 \subseteq 1..N
      OBVIOUS
    <3> QED BY <3>1, <3>2
  <2>3. next \in [SUBSET (1..n + 1) -> T]
    BY <2>1, <2>2
  <2>4. \A s \in SUBSET (1..n) : next[s] = iter[s]
    BY <2>1
  <2>5. Folds(n + 1, next)
    <3> SUFFICES ASSUME NEW s \in SUBSET (1..n + 1), s # {}
                 PROVE  next[s] = F[<<Max(s), next[s \ {Max(s)}]>>]
      BY <2>3
    <3> QED BY <2>2, <2>4
  <2> QED BY <2>5
<1>3. Done = Nat
  <2> HIDE DEF Done
  <2>1. Done \in SUBSET Nat
    BY DEF Done
  <2> QED BY <1>1, <1>2, <2>1, Induction
<1>4. \E iter : Folds(N, iter)
  <2> HIDE DEF Folds
  <2>1. N \in Done
    BY <1>3
  <2> QED BY <2>1
<1> QED BY <1>4 DEF IsFold

(* FoldLeft takes the places from the last down. *)
LEMMA MaxOfInterval ==
  ASSUME NEW n \in Nat \ {0}
  PROVE  Max(1..n) = n /\ (1..n) \ {n} = 1..n - 1
<1>1. n \in 1..n /\ \A m \in 1..n : n >= m
  OBVIOUS
<1> QED BY <1>1 DEF Max

(* The first places are places. *)
LEMMA PartOfInterval ==
  ASSUME NEW N \in Nat, NEW n \in 1..N
  PROVE  1..n \in SUBSET (1..N) /\ 1..n # {}
<1>1. n \in Nat /\ n \in 1..n /\ n <= N
  OBVIOUS
<1>2. \A i \in 1..n : i \in 1..N
  BY <1>1
<1> QED BY <1>1, <1>2

(* Grouping goes through the items one by one, with AddItem. *)
LEMMA GroupingIsPasses ==
  ASSUME NEW T, NothingGrouped \in T, NEW I, NEW items \in Seq(I),
         \A grouping \in T : \A item \in I : AddItem(grouping, item) \in T
  PROVE  \E pass \in [0..Len(items) -> T] :
           /\ pass[0] = NothingGrouped
           /\ \A n \in 1..Len(items) : pass[n] = AddItem(pass[n - 1], items[n])
           /\ Grouping(items) = pass[Len(items)]
<1> DEFINE N == Len(items)
           F == [p \in (1..N) \X T |-> AddItem(p[2], items[p[1]])]
           Is(iter) == iter = [s \in SUBSET (1..N) |->
                                 IF s = {} THEN NothingGrouped
                                 ELSE AddItem(iter[s \ {Max(s)}], items[Max(s)])]
<1>1. N \in Nat /\ F \in [(1..N) \X T -> T] /\ \A n \in 1..N : items[n] \in I
  OBVIOUS
<1>2. \E iter : Is(iter)
  <2> HIDE DEF F, N
  <2>1. PICK iter \in [SUBSET (1..N) -> T] : IsFold(iter, N, NothingGrouped, F)
    BY <1>1, FoldExists
  <2>2. \A s \in SUBSET (1..N) : s # {} => Max(s) \in 1..N /\ iter[s \ {Max(s)}] \in T
    BY <1>1, <2>1, MaxOf
  <2>3. \A s \in SUBSET (1..N) : s # {} =>
          F[<<Max(s), iter[s \ {Max(s)}]>>] = AddItem(iter[s \ {Max(s)}], items[Max(s)])
    BY <2>2 DEF F
  <2>4. Is(iter)
    BY <2>1, <2>3 DEF IsFold
  <2> QED BY <2>4
<1> DEFINE iter == CHOOSE iter : Is(iter)
<1>3. Is(iter)
  <2> HIDE DEF Is
  <2> QED BY <1>2
<1>4. Grouping(items) = iter[1..N]
  <2>1. DOMAIN items = 1..N
    OBVIOUS
  <2> QED BY <2>1 DEF Grouping, FoldLeft, MapThenFoldSet
<1> HIDE DEF iter
<1>5. iter[1..0] = NothingGrouped
  <2>1. 1..0 = {}
    OBVIOUS
  <2> QED BY <1>3, <2>1
<1>6. \A n \in 1..N : iter[1..n] = AddItem(iter[1..n - 1], items[n])
  <2> SUFFICES ASSUME NEW n \in 1..N PROVE iter[1..n] = AddItem(iter[1..n - 1], items[n])
    OBVIOUS
  <2>1. Max(1..n) = n /\ (1..n) \ {n} = 1..n - 1
    BY <1>1, MaxOfInterval
  <2> HIDE DEF N
  <2>2. 1..n \in SUBSET (1..N) /\ 1..n # {}
    BY <1>1, PartOfInterval
  <2> QED BY <1>3, <2>1, <2>2
<1> DEFINE Typed == {n \in Nat : n <= N => iter[1..n] \in T}
<1>7. Typed = Nat
  <2>1. 0 \in Typed
    BY <1>5
  <2>2. ASSUME NEW n \in Typed PROVE n + 1 \in Typed
    <3> HIDE DEF N
    <3> SUFFICES ASSUME n \in Nat, n + 1 <= N PROVE iter[1..n + 1] \in T
      OBVIOUS
    <3>1. iter[1..n] \in T /\ n + 1 \in 1..N /\ (n + 1) - 1 = n
      BY <1>1
    <3> QED BY <1>1, <1>6, <3>1
  <2>3. Typed \in SUBSET Nat
    OBVIOUS
  <2> HIDE DEF Typed
  <2> QED BY <2>1, <2>2, <2>3, Induction
<1> DEFINE pass == [n \in 0..N |-> iter[1..n]]
<1>8. pass \in [0..N -> T]
  BY <1>1, <1>7
<1>9. /\ pass[0] = NothingGrouped
      /\ \A n \in 1..N : pass[n] = AddItem(pass[n - 1], items[n])
      /\ Grouping(items) = pass[N]
  <2> HIDE DEF N
  <2> QED BY <1>1, <1>4, <1>5, <1>6
<1> QED BY <1>8, <1>9
-------------------------------------------------------------------------------
(* FlattenSeq. *)

(* What FlattenSeq computes with. *)
IsFlattening(f, s) ==
  f = [i \in 1..Len(s) |-> IF i = 1 THEN s[i] ELSE f[i - 1] \o s[i]]

(* The function with which FlattenSeq computes exists. *)
LEMMA FlatteningExists ==
  ASSUME NEW S, NEW s \in Seq(Seq(S))
  PROVE  \E f \in [1..Len(s) -> Seq(S)] : IsFlattening(f, s)
<1> DEFINE Flattens(n, f) ==
             /\ f \in [1..n -> Seq(S)]
             /\ \A i \in 1..n : f[i] = IF i = 1 THEN s[i] ELSE f[i - 1] \o s[i]
           Done == {n \in Nat : n <= Len(s) => \E f : Flattens(n, f)}
<1>1. Len(s) \in Nat /\ \A i \in 1..Len(s) : s[i] \in Seq(S)
  OBVIOUS
<1>2. 0 \in Done
  <2> DEFINE f == [i \in 1..0 |-> <<>>]
  <2>1. 1..0 = {}
    OBVIOUS
  <2>2. Flattens(0, f)
    BY <2>1
  <2> QED BY <2>2
<1>3. ASSUME NEW n \in Done PROVE n + 1 \in Done
  <2> HIDE DEF Flattens
  <2> SUFFICES ASSUME n \in Nat, n + 1 <= Len(s) PROVE \E f : Flattens(n + 1, f)
    OBVIOUS
  <2>1. PICK f : Flattens(n, f)
    BY <1>1
  <2> USE DEF Flattens
  <2> HIDE DEF Done
  <2> DEFINE next == [i \in 1..n + 1 |-> IF i = 1 THEN s[i] ELSE f[i - 1] \o s[i]]
  <2>2. \A i \in 1..n + 1 : s[i] \in Seq(S) /\ (i # 1 => i - 1 \in 1..n /\ f[i - 1] \in Seq(S))
    BY <1>1, <2>1
  <2>3. next \in [1..n + 1 -> Seq(S)]
    <3> SUFFICES ASSUME NEW i \in 1..n + 1 PROVE next[i] \in Seq(S)
      OBVIOUS
    <3> QED BY <2>2
  <2>4. \A i \in 1..n : next[i] = f[i]
    <3> SUFFICES ASSUME NEW i \in 1..n PROVE next[i] = f[i]
      OBVIOUS
    <3>1. i \in 1..n + 1
      OBVIOUS
    <3>2. f[i] = IF i = 1 THEN s[i] ELSE f[i - 1] \o s[i]
      BY <2>1, Zenon
    <3> QED BY <3>1, <3>2
  <2>5. \A i \in 1..n + 1 : next[i] = IF i = 1 THEN s[i] ELSE next[i - 1] \o s[i]
    BY <2>2, <2>4
  <2> QED BY <2>3, <2>5
<1>4. Done = Nat
  <2>1. Done \in SUBSET Nat
    OBVIOUS
  <2> HIDE DEF Done
  <2> QED BY <1>2, <1>3, <2>1, Induction
<1>5. \E f : Flattens(Len(s), f)
  <2> HIDE DEF Flattens
  <2>1. Len(s) \in Done
    BY <1>1, <1>4
  <2> QED BY <1>1, <2>1
<1> QED BY <1>5 DEF IsFlattening

(* There is no other. *)
LEMMA FlatteningIsUnique ==
  ASSUME NEW s, Len(s) \in Nat, NEW f, IsFlattening(f, s), NEW g, IsFlattening(g, s)
  PROVE  f = g
<1> DEFINE Same == {n \in Nat : n \in 1..Len(s) => f[n] = g[n]}
<1>1. 0 \in Same
  OBVIOUS
<1>2. ASSUME NEW n \in Same PROVE n + 1 \in Same
  <2> SUFFICES ASSUME n + 1 \in 1..Len(s) PROVE f[n + 1] = g[n + 1]
    OBVIOUS
  <2>1. CASE n = 0
    BY <2>1 DEF IsFlattening
  <2>2. CASE n # 0
    <3>1. f[n] = g[n] /\ n + 1 # 1 /\ (n + 1) - 1 = n
      BY <2>2
    <3>2. f[n + 1] = f[n] \o s[n + 1]
      BY <3>1 DEF IsFlattening
    <3>3. g[n + 1] = g[n] \o s[n + 1]
      BY <3>1 DEF IsFlattening
    <3> QED BY <3>1, <3>2, <3>3
  <2> QED BY <2>1, <2>2
<1>3. Same = Nat
  <2>1. Same \in SUBSET Nat
    OBVIOUS
  <2> HIDE DEF Same
  <2> QED BY <1>1, <1>2, <2>1, Induction
<1>4. \A n \in 1..Len(s) : f[n] = g[n]
  BY <1>3
<1> QED BY <1>4 DEF IsFlattening

(* FlattenSeq is its last value. *)
LEMMA FlattenSeqIs ==
  ASSUME NEW S, NEW s \in Seq(Seq(S)), s # <<>>, NEW f, IsFlattening(f, s)
  PROVE  FlattenSeq(s) = f[Len(s)]
<1> DEFINE g == CHOOSE g : IsFlattening(g, s)
<1>1. IsFlattening(g, s)
  OBVIOUS
<1>2. FlattenSeq(s) = g[Len(s)]
  <2>1. Len(s) # 0
    OBVIOUS
  <2> QED BY <2>1 DEF FlattenSeq, IsFlattening
<1> HIDE DEF g
<1>3. Len(s) \in Nat
  OBVIOUS
<1> QED BY <1>1, <1>2, <1>3, FlatteningIsUnique

(* One sequence, flattened, is that sequence. *)
LEMMA FlattenOne ==
  ASSUME NEW S, NEW x \in Seq(S)
  PROVE  FlattenSeq(<<x>>) = x
<1>1. <<x>> \in Seq(Seq(S)) /\ <<x>> # <<>> /\ Len(<<x>>) = 1
  OBVIOUS
<1>2. PICK f : IsFlattening(f, <<x>>)
  BY <1>1, FlatteningExists
<1>3. f[1] = x
  BY <1>2 DEF IsFlattening
<1> QED BY <1>1, <1>2, <1>3, FlattenSeqIs

(* One more sequence comes after the others. *)
LEMMA FlattenAppend ==
  ASSUME NEW S, NEW s \in Seq(Seq(S)), s # <<>>, NEW x \in Seq(S)
  PROVE  FlattenSeq(Append(s, x)) = FlattenSeq(s) \o x /\ FlattenSeq(s) \in Seq(S)
<1> DEFINE t == Append(s, x)
           n == Len(s)
<1>1. /\ t \in Seq(Seq(S)) /\ t # <<>> /\ Len(t) = n + 1 /\ n \in Nat /\ n # 0
      /\ t[n + 1] = x /\ \A i \in 1..n : t[i] = s[i]
  <2> DEFINE T == Seq(S)
  <2>1. s \in Seq(T) /\ x \in T
    OBVIOUS
  <2> HIDE DEF T
  <2>2. /\ t \in Seq(T) /\ Len(t) = n + 1 /\ n \in Nat /\ n # 0
        /\ t[n + 1] = x /\ \A i \in 1..n : t[i] = s[i]
    BY <2>1
  <2>3. t # <<>>
    <3> HIDE DEF t, n
    <3> SUFFICES ASSUME t = <<>> PROVE FALSE
      OBVIOUS
    <3>1. Len(t) = 0
      OBVIOUS
    <3> QED BY <2>2, <3>1
  <2> QED BY <2>2, <2>3 DEF T
<1> HIDE DEF t
<1>2. PICK f \in [1..Len(t) -> Seq(S)] : IsFlattening(f, t)
  BY <1>1, FlatteningExists
<1> DEFINE g == [i \in 1..n |-> f[i]]
<1>3. FlattenSeq(t) = f[n + 1]
  BY <1>1, <1>2, FlattenSeqIs
<1>4. IsFlattening(g, s)
  <2> HIDE DEF n
  <2>1. \A i \in 1..n : i \in 1..Len(t) /\ (i # 1 => i - 1 \in 1..n)
    BY <1>1
  <2>2. \A i \in 1..n : g[i] = IF i = 1 THEN s[i] ELSE g[i - 1] \o s[i]
    BY <1>1, <1>2, <2>1 DEF IsFlattening
  <2> QED BY <2>2 DEF IsFlattening, n
<1>5. FlattenSeq(s) = f[n]
  <2> HIDE DEF g
  <2>1. FlattenSeq(s) = g[n]
    BY <1>4, FlattenSeqIs
  <2> QED BY <1>1, <2>1 DEF g
<1>6. f[n + 1] = f[n] \o x /\ f[n] \in Seq(S)
  <2> HIDE DEF n
  <2>1. n + 1 \in 1..Len(t) /\ n \in 1..Len(t) /\ n + 1 # 1 /\ (n + 1) - 1 = n
    BY <1>1
  <2> QED BY <1>1, <1>2, <2>1 DEF IsFlattening
<1> QED BY <1>3, <1>5, <1>6 DEF t
-------------------------------------------------------------------------------
(* Lists under headings: what holds after each item of the forEach. *)

Group == [group : Int, items : Seq(Nat)]

Groupings == [date : Int, group : Int, items : Seq(Nat), groups : Seq(Group), failed : BOOLEAN]

(* Lists of items, newest first, with the day on which each is looked at. *)
DatedLists ==
  {items \in Seq([date : Nat, now : Nat]) :
     \A i, j \in 1..Len(items) :
       i <= j => items[j].date <= items[i].date /\ items[i].now <= items[j].now}

(* No date is further ahead than the headings reach. *)
WithinReach(items, began) == \A i \in 1..Len(items) : Week(items[i].date) <= Week(began) + 1

(* On some day of the grouping, the date was to be found under the group. *)
Under(date, group, began, now) ==
  \E day \in Nat : began <= day /\ day <= now /\ group = GroupForItem(date, day)

(* Where the forEach is: at the day of the item before, under the group of that day. *)
AtLastItem(g, items, n, began) ==
  IF n = 0 THEN g = NothingGrouped
  ELSE /\ g.date = items[n].date
       /\ Under(g.date, g.group, began, items[n].now)

(* The groups are in the order of their headings, so that none comes up again. *)
HeadingsInOrder(g) ==
  /\ ~g.failed
  /\ \A i, j \in 1..Len(g.groups) : i < j => g.groups[i].group < g.groups[j].group
  /\ \A i \in 1..Len(g.groups) : g.groups[i].group < g.group

(* Every item is under a heading that was right for it during the grouping. *)
UnderRightHeading(g, items, n, began) ==
  /\ \A k \in 1..Len(g.items) : Under(g.items[k], g.group, began, items[n].now)
  /\ \A i \in 1..Len(g.groups) : \A k \in 1..Len(g.groups[i].items) :
       Under(g.groups[i].items[k], g.groups[i].group, began, items[n].now)

ItemsOf(groups) == [i \in 1..Len(groups) |-> groups[i].items]

(* The groups together are the items gone through. *)
NothingLost(g, items, n) ==
  n > 0 => FlattenSeq(Append(ItemsOf(g.groups), g.items)) = [i \in 1..n |-> items[i].date]

GroupedSoFar(g, items, n, began) ==
  /\ g \in Groupings
  /\ AtLastItem(g, items, n, began)
  /\ HeadingsInOrder(g)
  /\ UnderRightHeading(g, items, n, began)
  /\ NothingLost(g, items, n)

(* The three things that an item does: it joins the group, or begins the first one, or another. *)
Joins(h, g, item, n, began) ==
  /\ n > 0
  /\ Under(item.date, g.group, began, item.now)
  /\ h = [date |-> item.date, group |-> g.group, items |-> Append(g.items, item.date),
          groups |-> g.groups, failed |-> FALSE]

BeginsFirst(h, item, n) ==
  /\ n = 0
  /\ h = [date |-> item.date, group |-> GroupForItem(item.date, item.now), items |-> <<item.date>>,
          groups |-> <<>>, failed |-> FALSE]

BeginsAnother(h, g, item, n) ==
  /\ n > 0
  /\ g.group < GroupForItem(item.date, item.now)
  /\ h = [date |-> item.date, group |-> GroupForItem(item.date, item.now), items |-> <<item.date>>,
          groups |-> Append(g.groups, [group |-> g.group, items |-> g.items]), failed |-> FALSE]

-------------------------------------------------------------------------------
(* The elements of a sequence. *)
LEMMA MemberOf ==
  ASSUME NEW S, NEW s \in Seq(S)
  PROVE  Len(s) \in Nat /\ \A i \in 1..Len(s) : s[i] \in S
OBVIOUS

(* SelectInSeq finds the first of some conditions, if any holds. *)
LEMMA FirstThatHolds ==
  ASSUME NEW s \in Seq(BOOLEAN), NEW k \in 1..Len(s), s[k], \A j \in 1..k - 1 : ~s[j]
  PROVE  SelectInSeq(s, LAMBDA holds : holds) = k
<1> DEFINE I == {i \in 1..Len(s) : s[i]}
<1>1. k \in I /\ \A i \in I : i \in Int /\ k <= i
  OBVIOUS
<1>2. SelectInSeq(s, LAMBDA holds : holds) = IF I # {} THEN Min(I) ELSE 0
  BY DEF SelectInSeq
<1>3. Min(I) = k
  BY <1>1 DEF Min
<1> QED BY <1>1, <1>2, <1>3

(* Weeks have seven days, and begin at day 0. *)
LEMMA WeekIs ==
  ASSUME NEW day \in Nat
  PROVE  Week(day) \in Nat /\ 7 * Week(day) <= day /\ day <= 7 * Week(day) + 6
BY DEF Week

(* groupForItem as the chain of conditions that it is. *)
LEMMA GroupForItemIs ==
  ASSUME NEW date \in Nat, NEW now \in Nat
  PROVE  GroupForItem(date, now) =
           IF Week(date) = Week(now) + 1 /\ date > now + 1 THEN 0
           ELSE IF Week(date) = Week(now) /\ date > now + 1 THEN 1
           ELSE IF date = now + 1 THEN 2
           ELSE IF date = now THEN 3
           ELSE IF date = now - 1 THEN 4
           ELSE IF Week(date) = Week(now) THEN 5
           ELSE IF Week(date) = Week(now) - 1 THEN 6
           ELSE 7
<1> DEFINE s == << Week(date) = Week(now) + 1 /\ date > now + 1,
                   Week(date) = Week(now) /\ date > now + 1,
                   date = now + 1, date = now, date = now - 1,
                   Week(date) = Week(now), Week(date) = Week(now) - 1, TRUE >>
<1>1. s \in Seq(BOOLEAN) /\ Len(s) = 8
  OBVIOUS
<1>2. \A k \in 1..8 : s[k] /\ (\A j \in 1..k - 1 : ~s[j]) => GroupForItem(date, now) = k - 1
  BY <1>1, FirstThatHolds DEF GroupForItem
<1>3. /\ s[1] <=> Week(date) = Week(now) + 1 /\ date > now + 1
      /\ s[2] <=> Week(date) = Week(now) /\ date > now + 1
      /\ s[3] <=> date = now + 1
      /\ s[4] <=> date = now
      /\ s[5] <=> date = now - 1
      /\ s[6] <=> Week(date) = Week(now)
      /\ s[7] <=> Week(date) = Week(now) - 1
      /\ s[8]
  OBVIOUS
<1> HIDE DEF s
<1> QED BY <1>2, <1>3

(***************************************************************************)
(* An older item, or a later look at the clock, never gives an earlier     *)
(* heading, unless the item is further ahead than the headings reach: then *)
(* it is "Older" until its week comes, which would be out of order.        *)
(***************************************************************************)
LEMMA LaterGroups ==
  ASSUME NEW date \in Nat, NEW older \in Nat, NEW now \in Nat, NEW later \in Nat,
         older <= date, now <= later, Week(date) <= Week(now) + 1
  PROVE  GroupForItem(date, now) <= GroupForItem(older, later)
<1>1. PICK w \in Nat : w = Week(date) /\ 7 * w <= date /\ date <= 7 * w + 6
  BY WeekIs
<1>2. PICK v \in Nat : v = Week(older) /\ 7 * v <= older /\ older <= 7 * v + 6
  BY WeekIs
<1>3. PICK m \in Nat : m = Week(now) /\ 7 * m <= now /\ now <= 7 * m + 6
  BY WeekIs
<1>4. PICK n \in Nat : n = Week(later) /\ 7 * n <= later /\ later <= 7 * n + 6
  BY WeekIs
<1>5. v <= w /\ m <= n /\ w <= m + 1
  BY <1>1, <1>2, <1>3, <1>4
<1>6. PICK g \in 0..7 : g = GroupForItem(date, now)
  BY GroupForItemIs
<1>7. PICK h \in 0..7 : h = GroupForItem(older, later)
  BY GroupForItemIs
<1>8. g = IF w = m + 1 /\ date > now + 1 THEN 0
          ELSE IF w = m /\ date > now + 1 THEN 1
          ELSE IF date = now + 1 THEN 2
          ELSE IF date = now THEN 3
          ELSE IF date = now - 1 THEN 4
          ELSE IF w = m THEN 5
          ELSE IF w = m - 1 THEN 6
          ELSE 7
  BY <1>1, <1>3, <1>6, GroupForItemIs
<1>9. h = IF v = n + 1 /\ older > later + 1 THEN 0
          ELSE IF v = n /\ older > later + 1 THEN 1
          ELSE IF older = later + 1 THEN 2
          ELSE IF older = later THEN 3
          ELSE IF older = later - 1 THEN 4
          ELSE IF v = n THEN 5
          ELSE IF v = n - 1 THEN 6
          ELSE 7
  BY <1>2, <1>4, <1>7, GroupForItemIs
<1>10. g <= h
  BY <1>1, <1>2, <1>3, <1>4, <1>5, <1>8, <1>9
<1> QED BY <1>6, <1>7, <1>10

(* Earlier days are in earlier weeks. *)
LEMMA WeekMonotone ==
  ASSUME NEW older \in Nat, NEW date \in Nat, older <= date
  PROVE  Week(older) <= Week(date)
<1>1. PICK w \in Nat : w = Week(date) /\ 7 * w <= date /\ date <= 7 * w + 6
  BY WeekIs
<1>2. PICK v \in Nat : v = Week(older) /\ 7 * v <= older /\ older <= 7 * v + 6
  BY WeekIs
<1> QED BY <1>1, <1>2

(* A view that groups its items has no newest item further ahead than the headings reach. *)
LEMMA ReachOfGrouped ==
  ASSUME NEW top \in Nat, NEW now \in Nat, ShouldBeGrouped(top, now)
  PROVE  Week(top) <= Week(now) + 1
<1>1. PICK w \in Nat : w = Week(top) /\ 7 * w <= top /\ top <= 7 * w + 6
  BY WeekIs
<1>2. PICK m \in Nat : m = Week(now) /\ 7 * m <= now /\ now <= 7 * m + 6
  BY WeekIs
<1>3. GroupForItem(top, now) # 7
  BY DEF ShouldBeGrouped, maxGroup
<1>4. \/ w = m + 1 \/ w = m \/ w = m - 1
      \/ top = now + 1 \/ top = now \/ top = now - 1
  BY <1>1, <1>2, <1>3, GroupForItemIs
<1> QED BY <1>1, <1>2, <1>4

(* A pass keeps the types. *)
LEMMA AddItemType ==
  ASSUME NEW g \in Groupings, NEW item \in [date : Nat, now : Nat]
  PROVE  AddItem(g, item) \in Groupings
<1>1. GroupForItem(item.date, item.now) \in Int
  BY GroupForItemIs
<1>2. [group |-> g.group, items |-> g.items] \in Group
  BY DEF Groupings, Group
<1>3. /\ g.items \in Seq(Nat) /\ g.groups \in Seq(Group) /\ g.group \in Int /\ g.failed \in BOOLEAN
      /\ item.date \in Nat
  BY DEF Groupings
<1> HIDE DEF Group
<1> QED BY <1>1, <1>2, <1>3 DEF Groupings, AddItem

(* The items of a sorted list, each with the time it is looked at. *)
LEMMA DatedListIs ==
  ASSUME NEW items \in DatedLists
  PROVE  /\ Len(items) \in Nat
         /\ \A i \in 1..Len(items) : /\ items[i] \in [date : Nat, now : Nat]
                                     /\ items[i].date \in Nat /\ items[i].now \in Nat
         /\ \A i, j \in 1..Len(items) :
              i <= j => items[j].date <= items[i].date /\ items[i].now <= items[j].now
         /\ \A i \in 1..Len(items) : items # <<>>
<1> DEFINE Item == [date : Nat, now : Nat]
<1>1. items \in Seq(Item)
  BY DEF DatedLists
<1>2. \A i \in 1..Len(items) : items[i] \in Item
  <2> HIDE DEF Item
  <2> QED BY <1>1
<1>3. Len(items) \in Nat /\ \A i \in 1..Len(items) : items # <<>>
  BY <1>1
<1> QED BY <1>2, <1>3 DEF DatedLists

(* An item of a sorted list joins the group at hand or begins one that comes later. *)
LEMMA ItemJoinsOrBegins ==
  ASSUME NEW items \in DatedLists, NEW began \in Nat, items # <<>> => began <= items[1].now,
         WithinReach(items, began),
         NEW n \in 0..Len(items) - 1, NEW g, GroupedSoFar(g, items, n, began)
  PROVE  LET h == AddItem(g, items[n + 1])
         IN \/ Joins(h, g, items[n + 1], n, began)
            \/ BeginsFirst(h, items[n + 1], n)
            \/ BeginsAnother(h, g, items[n + 1], n)
<1> DEFINE item == items[n + 1]
           h == AddItem(g, item)
           new == GroupForItem(item.date, item.now)
<1>1. n \in Nat /\ n + 1 \in 1..Len(items) /\ Len(items) \in Nat
  BY DatedListIs
<1>2. item.date \in Nat /\ item.now \in Nat /\ began <= item.now
  <2>1. 1 \in 1..Len(items) /\ 1 <= n + 1
    BY <1>1
  <2>2. /\ items # <<>> /\ items[1].now \in Nat /\ item.date \in Nat /\ item.now \in Nat
        /\ items[1].now <= item.now
    BY <1>1, <2>1, DatedListIs
  <2> QED BY <2>2
<1>3. n > 0 => /\ n \in 1..Len(items) /\ items[n].date \in Nat /\ items[n].now \in Nat
               /\ item.date <= items[n].date /\ items[n].now <= item.now
  <2>1. n > 0 => n \in 1..Len(items) /\ n <= n + 1
    BY <1>1
  <2> QED BY <1>1, <2>1, DatedListIs
<1>4. new \in 0..7
  BY <1>2, GroupForItemIs
<1>5. g \in Groupings
  BY DEF GroupedSoFar
<1> HIDE DEF item, new
<1>6. CASE n = 0
  <2>1. g = NothingGrouped
    BY <1>6 DEF GroupedSoFar, AtLastItem
  <2>2. item.date # NoGroup /\ new # NoGroup
    BY <1>2, <1>4 DEF NoGroup
  <2>3. BeginsFirst(h, item, n)
    BY <1>6, <2>1, <2>2 DEF BeginsFirst, AddItem, NothingGrouped, new
  <2> QED BY <2>3 DEF item
<1>7. CASE n > 0
  <2>1. g.date = items[n].date /\ Under(g.date, g.group, began, items[n].now)
    BY <1>7 DEF GroupedSoFar, AtLastItem
  <2>2. PICK t \in Nat : began <= t /\ t <= items[n].now /\ g.group = GroupForItem(items[n].date, t)
    BY <2>1 DEF Under
  <2>3. g.group \in 0..7
    BY <1>3, <1>7, <2>2, GroupForItemIs
  <2>4. g.group <= new
    <3>1. Week(items[n].date) <= Week(t) + 1
      <4>1. Week(items[n].date) <= Week(began) + 1
        BY <1>3, <1>7 DEF WithinReach
      <4>2. Week(began) <= Week(t)
        BY <2>2, WeekMonotone
      <4>3. Week(items[n].date) \in Nat /\ Week(began) \in Nat /\ Week(t) \in Nat
        BY <1>3, <1>7, <2>2, WeekIs
      <4> QED BY <4>1, <4>2, <4>3
    <3>2. t <= item.now
      BY <1>2, <1>3, <1>7, <2>2
    <3> QED BY <1>2, <1>3, <1>7, <2>2, <3>1, <3>2, LaterGroups DEF new
  <2>5. ~g.failed
    BY DEF GroupedSoFar, HeadingsInOrder
  <2>6. CASE item.date = g.date \/ new = g.group
    <3>1. Under(item.date, g.group, began, item.now)
      <4>1. CASE item.date = g.date
        BY <1>2, <1>3, <1>7, <2>1, <2>2, <4>1 DEF Under
      <4>2. CASE new = g.group
        BY <1>2, <4>2 DEF Under, new
      <4> QED BY <2>6, <4>1, <4>2
    <3>2. h = [date |-> item.date, group |-> g.group, items |-> Append(g.items, item.date),
               groups |-> g.groups, failed |-> FALSE]
      BY <1>5, <2>6, <2>5 DEF AddItem, new, Groupings
    <3> QED BY <1>7, <3>1, <3>2 DEF Joins, item
  <2>7. CASE item.date # g.date /\ new # g.group
    <3>1. g.group # NoGroup /\ g.group < new
      BY <1>4, <2>3, <2>4, <2>7 DEF NoGroup
    <3>2. ~ \E f \in ToSet(g.groups) : f.group = new
      <4>1. \A i \in 1..Len(g.groups) : g.groups[i].group \in Int /\ g.groups[i].group < g.group
        <5>1. \A i \in 1..Len(g.groups) : g.groups[i].group < g.group
          BY DEF GroupedSoFar, HeadingsInOrder
        <5>2. \A i \in 1..Len(g.groups) : g.groups[i] \in Group
          <6>1. g.groups \in Seq(Group)
            BY <1>5 DEF Groupings
          <6> QED BY <6>1, MemberOf
        <5> QED BY <5>1, <5>2 DEF Group
      <4>2. \A i \in 1..Len(g.groups) : g.groups[i].group # new
        <5> SUFFICES ASSUME NEW i \in 1..Len(g.groups), g.groups[i].group = new PROVE FALSE
          OBVIOUS
        <5>1. new < g.group /\ g.group < new /\ new \in Int /\ g.group \in Int
          BY <1>4, <2>3, <3>1, <4>1
        <5> QED BY <5>1
      <4>3. DOMAIN g.groups = 1..Len(g.groups)
        BY <1>5 DEF Groupings
      <4> QED BY <4>2, <4>3 DEF ToSet
    <3>3. h = [date |-> item.date, group |-> new, items |-> <<item.date>>,
               groups |-> Append(g.groups, [group |-> g.group, items |-> g.items]), failed |-> FALSE]
      BY <1>5, <2>7, <2>5, <3>1, <3>2 DEF AddItem, new, Groupings
    <3> QED BY <1>7, <3>1, <3>3 DEF BeginsAnother, new, item
  <2> QED BY <2>6, <2>7
<1> QED BY <1>1, <1>6, <1>7

(* The items under a heading with the one before it, as NothingLost counts them. *)
LEMMA ItemsOfAppend ==
  ASSUME NEW groups \in Seq(Group), NEW group \in Group
  PROVE  /\ ItemsOf(groups) \in Seq(Seq(Nat))
         /\ ItemsOf(Append(groups, group)) = Append(ItemsOf(groups), group.items)
<1>1. /\ Len(groups) \in Nat /\ \A i \in 1..Len(groups) : groups[i] \in Group
      /\ Append(groups, group) \in Seq(Group) /\ Len(Append(groups, group)) = Len(groups) + 1
      /\ \A i \in 1..Len(groups) : Append(groups, group)[i] = groups[i]
      /\ Append(groups, group)[Len(groups) + 1] = group
  OBVIOUS
<1>2. (\A i \in 1..Len(groups) : groups[i].items \in Seq(Nat)) /\ group.items \in Seq(Nat)
  BY <1>1 DEF Group
<1> DEFINE T == Seq(Nat)
           n == Len(groups)
           s == ItemsOf(groups)
           t == Append(s, group.items)
           u == ItemsOf(Append(groups, group))
<1>3. s \in Seq(T) /\ Len(s) = n
  <2>1. s \in [1..n -> T] /\ n \in Nat
    BY <1>1, <1>2 DEF ItemsOf
  <2> HIDE DEF T, n, s
  <2> QED BY <2>1
<1>4. t = u
  <2>1. group.items \in T
    BY <1>2
  <2>2. /\ t \in Seq(T) /\ Len(t) = n + 1 /\ t[n + 1] = group.items
        /\ \A i \in 1..n : t[i] = s[i]
    <3> HIDE DEF T, s, n
    <3> QED BY <1>3, <2>1
  <2>3. u = [i \in 1..n + 1 |-> Append(groups, group)[i].items]
    BY <1>1 DEF ItemsOf
  <2>4. \A i \in 1..n + 1 : t[i] = u[i]
    <3> SUFFICES ASSUME NEW i \in 1..n + 1 PROVE t[i] = u[i]
      OBVIOUS
    <3>1. CASE i = n + 1
      <4> HIDE DEF t, u
      <4> QED BY <1>1, <2>2, <2>3, <3>1
    <3>2. CASE i \in 1..n
      <4>1. s[i] = groups[i].items
        BY <3>2 DEF ItemsOf
      <4> HIDE DEF t, u, s
      <4> QED BY <1>1, <2>2, <2>3, <3>2, <4>1
    <3>3. i = n + 1 \/ i \in 1..n
      BY <1>1
    <3> HIDE DEF t, u, n
    <3> QED BY <3>1, <3>2, <3>3
  <2>5. t = [i \in 1..n + 1 |-> t[i]]
    <3> HIDE DEF t, s, T
    <3> QED BY <2>2
  <2> HIDE DEF t, s, T, u
  <2> QED BY <2>3, <2>4, <2>5
<1> QED BY <1>3, <1>4

(* The dates of one more item. *)
LEMMA DatesGrow ==
  ASSUME NEW items \in DatedLists, NEW n \in 0..Len(items) - 1,
         NEW s \in Seq(Nat), s = [i \in 1..n |-> items[i].date]
  PROVE  Append(s, items[n + 1].date) = [i \in 1..n + 1 |-> items[i].date]
<1>1. /\ n \in Nat /\ n + 1 \in 1..Len(items)
      /\ \A i \in 1..n + 1 : items[i].date \in Nat
  BY DatedListIs
<1>2. Len(s) = n
  BY <1>1
<1> DEFINE t == Append(s, items[n + 1].date)
<1>3. /\ t \in Seq(Nat) /\ Len(t) = n + 1 /\ t[n + 1] = items[n + 1].date
      /\ \A i \in 1..n : t[i] = s[i]
  BY <1>1, <1>2
<1> HIDE DEF t
<1>4. t = [i \in 1..n + 1 |-> t[i]]
  BY <1>3
<1>5. \A i \in 1..n + 1 : t[i] = items[i].date
  BY <1>1, <1>3
<1> QED BY <1>4, <1>5 DEF t

(* Append and concatenation. *)
LEMMA AppendToConcat ==
  ASSUME NEW s \in Seq(Nat), NEW t \in Seq(Nat), NEW x \in Nat
  PROVE  s \o Append(t, x) = Append(s \o t, x)
OBVIOUS

(* A sequence of one that comes last is appended. *)
LEMMA ConcatOne ==
  ASSUME NEW s \in Seq(Nat), NEW x \in Nat
  PROVE  s \o <<x>> = Append(s, x)
OBVIOUS

(* A pass of the forEach keeps what is said of the items grouped so far. *)
LEMMA GroupedStep ==
  ASSUME NEW items \in DatedLists, NEW began \in Nat, items # <<>> => began <= items[1].now,
         WithinReach(items, began),
         NEW n \in 0..Len(items) - 1, NEW g, GroupedSoFar(g, items, n, began)
  PROVE  GroupedSoFar(AddItem(g, items[n + 1]), items, n + 1, began)
<1> DEFINE item == items[n + 1]
           day == item.date
           h == AddItem(g, item)
           new == GroupForItem(day, item.now)
           Before(date, group) == Under(date, group, began, items[n].now)
           Now(date, group) == Under(date, group, began, item.now)
<1>1. /\ n \in Nat /\ n + 1 \in 1..Len(items) /\ n + 1 > 0 /\ n + 1 # 0
      /\ item \in [date : Nat, now : Nat] /\ day \in Nat /\ item.now \in Nat
      /\ n > 0 => items[n].now \in Nat /\ items[n].now <= item.now
  <2>1. /\ n \in Nat /\ n + 1 \in 1..Len(items) /\ Len(items) \in Nat
        /\ n > 0 => n \in 1..Len(items) /\ n <= n + 1
    BY DatedListIs
  <2> QED BY <2>1, DatedListIs
<1>2. /\ g \in Groupings /\ g.group \in Int /\ g.items \in Seq(Nat) /\ g.groups \in Seq(Group)
      /\ HeadingsInOrder(g) /\ UnderRightHeading(g, items, n, began) /\ NothingLost(g, items, n)
  BY DEF GroupedSoFar, Groupings
<1>3. n > 0 => \A date, group : Before(date, group) => Now(date, group)
  BY <1>1 DEF Under
<1>4. /\ Joins(h, g, item, n, began) \/ BeginsFirst(h, item, n) \/ BeginsAnother(h, g, item, n)
      /\ h \in Groupings
  BY <1>1, <1>2, ItemJoinsOrBegins, AddItemType
<1>5. new \in Int /\ Now(day, new)
  <2>1. began <= item.now
    <3>1. 1 \in 1..Len(items) /\ 1 <= n + 1
      BY <1>1, DatedListIs
    <3> QED BY <1>1, <3>1, DatedListIs
  <2> QED BY <1>1, <2>1, GroupForItemIs DEF Under
<1>6. ItemsOf(g.groups) \in Seq(Seq(Nat))
  <2>1. [group |-> 0, items |-> <<>>] \in Group
    BY DEF Group
  <2> QED BY <1>2, <2>1, ItemsOfAppend
<1>7. SUFFICES /\ h.date = day /\ Now(day, h.group)
               /\ HeadingsInOrder(h)
               /\ UnderRightHeading(h, items, n + 1, began)
               /\ NothingLost(h, items, n + 1)
  BY <1>1, <1>4 DEF GroupedSoFar, AtLastItem
<1> HIDE DEF h, new, day, item
<1>8. CASE Joins(h, g, item, n, began)
  <2> DEFINE added == Append(g.items, day)
  <2>1. /\ n > 0 /\ Now(day, g.group)
        /\ h = [date |-> day, group |-> g.group, items |-> added, groups |-> g.groups,
                failed |-> FALSE]
    BY <1>8 DEF Joins, day
  <2>2. /\ added \in Seq(Nat) /\ Len(added) = Len(g.items) + 1 /\ Len(g.items) \in Nat
        /\ \A k \in 1..Len(g.items) : added[k] = g.items[k]
        /\ added[Len(added)] = day
    BY <1>1, <1>2
  <2>3. HeadingsInOrder(h)
    BY <1>2, <2>1 DEF HeadingsInOrder
  <2>4. UnderRightHeading(h, items, n + 1, began)
    <3> HIDE DEF added
    <3>1. \A k \in 1..Len(added) : Now(added[k], g.group)
      <4> SUFFICES ASSUME NEW k \in 1..Len(added) PROVE Now(added[k], g.group)
        OBVIOUS
      <4>1. CASE k = Len(added)
        BY <2>1, <2>2, <4>1
      <4>2. CASE k \in 1..Len(g.items)
        <5>1. Before(g.items[k], g.group)
          BY <1>2, <4>2 DEF UnderRightHeading
        <5> QED BY <1>3, <2>1, <2>2, <4>2, <5>1
      <4> QED BY <2>2, <4>1, <4>2, SMTT(30)
    <3>2. \A i \in 1..Len(g.groups) : \A k \in 1..Len(g.groups[i].items) :
            Now(g.groups[i].items[k], g.groups[i].group)
      BY <1>2, <1>3, <2>1 DEF UnderRightHeading
    <3> QED BY <2>1, <3>1, <3>2 DEF UnderRightHeading, item
  <2>5. NothingLost(h, items, n + 1)
    <3> DEFINE P == ItemsOf(g.groups)
               sofar == [i \in 1..n |-> items[i].date]
    <3>1. FlattenSeq(Append(P, g.items)) = sofar
      BY <1>2, <2>1 DEF NothingLost
    <3>2. sofar \in Seq(Nat) /\ Append(sofar, day) = [i \in 1..n + 1 |-> items[i].date]
      <4>1. \A i \in 1..n : items[i].date \in Nat
        BY <1>1, DatedListIs
      <4>2. sofar \in Seq(Nat)
        BY <1>1, <4>1
      <4> HIDE DEF sofar
      <4>3. sofar = [i \in 1..n |-> items[i].date]
        BY DEF sofar
      <4> QED BY <4>2, <4>3, DatesGrow DEF day, item
    <3> HIDE DEF P, sofar
    <3>3. FlattenSeq(Append(P, added)) = Append(sofar, day)
      <4>1. CASE P = <<>>
        <5>1. /\ Append(P, g.items) = <<g.items>> /\ Append(P, added) = <<added>>
          BY <4>1
        <5>2. FlattenSeq(Append(P, g.items)) = g.items /\ FlattenSeq(Append(P, added)) = added
          BY <1>2, <2>2, <5>1, FlattenOne
        <5> QED BY <3>1, <5>2
      <4>2. CASE P # <<>>
        <5>1. P \in Seq(Seq(Nat))
          BY <1>6 DEF P
        <5>2. /\ FlattenSeq(Append(P, g.items)) = FlattenSeq(P) \o g.items
              /\ FlattenSeq(Append(P, added)) = FlattenSeq(P) \o added
              /\ FlattenSeq(P) \in Seq(Nat)
          <6> HIDE DEF added
          <6> QED BY <1>2, <2>2, <4>2, <5>1, FlattenAppend
        <5>3. FlattenSeq(P) \o added = Append(FlattenSeq(P) \o g.items, day)
          BY <1>1, <1>2, <5>2, AppendToConcat
        <5> QED BY <3>1, <5>2, <5>3
      <4> QED BY <4>1, <4>2
    <3> QED BY <2>1, <3>2, <3>3 DEF NothingLost, P
  <2> QED BY <2>1, <2>3, <2>4, <2>5
<1>9. CASE BeginsFirst(h, item, n)
  <2>1. n = 0 /\ h = [date |-> day, group |-> new, items |-> <<day>>, groups |-> <<>>, failed |-> FALSE]
    BY <1>9 DEF BeginsFirst, new, day
  <2>2. HeadingsInOrder(h)
    BY <2>1 DEF HeadingsInOrder
  <2>3. UnderRightHeading(h, items, n + 1, began)
    BY <1>5, <2>1 DEF UnderRightHeading, item
  <2>4. NothingLost(h, items, n + 1)
    <3>1. ItemsOf(<<>>) = <<>>
      BY DEF ItemsOf
    <3>2. h.groups = <<>> /\ h.items = <<day>> /\ <<day>> \in Seq(Nat)
      BY <1>1, <2>1
    <3>3. FlattenSeq(Append(ItemsOf(h.groups), h.items)) = <<day>>
      <4>1. Append(<<>>, <<day>>) = << <<day>> >>
        OBVIOUS
      <4>2. FlattenSeq(<< <<day>> >>) = <<day>>
        BY <3>2, FlattenOne
      <4> QED BY <3>1, <3>2, <4>1, <4>2
    <3>4. <<day>> = [i \in 1..n + 1 |-> items[i].date]
      BY <2>1 DEF day, item
    <3> QED BY <3>3, <3>4 DEF NothingLost
  <2> QED BY <1>5, <2>1, <2>2, <2>3, <2>4
<1>10. CASE BeginsAnother(h, g, item, n)
  <2> DEFINE current == [group |-> g.group, items |-> g.items]
             groups == Append(g.groups, current)
             last == Len(g.groups) + 1
  <2>1. /\ n > 0
        /\ h = [date |-> day, group |-> new, items |-> <<day>>, groups |-> groups, failed |-> FALSE]
        /\ g.group < new
    BY <1>10 DEF BeginsAnother, new, day
  <2>2. current \in Group
    BY <1>2 DEF Group
  <2>3. /\ groups \in Seq(Group) /\ Len(groups) = last /\ last \in Nat
        /\ \A i \in 1..Len(g.groups) : groups[i] = g.groups[i]
        /\ groups[last].group = g.group /\ groups[last].items = g.items
    BY <1>2, <2>2
  <2>4. \A i \in 1..Len(g.groups) : g.groups[i].group \in Int
    <3>1. \A i \in 1..Len(g.groups) : g.groups[i] \in Group
      BY <1>2, MemberOf
    <3> QED BY <3>1 DEF Group
  <2>5. Len(g.groups) \in Nat
    BY <1>2
  <2>6. NothingLost(h, items, n + 1)
    <3> DEFINE P == ItemsOf(g.groups)
               Q == Append(P, g.items)
               sofar == [i \in 1..n |-> items[i].date]
    <3>1. FlattenSeq(Q) = sofar
      BY <1>2, <2>1 DEF NothingLost
    <3>2. sofar \in Seq(Nat) /\ Append(sofar, day) = [i \in 1..n + 1 |-> items[i].date]
      <4>1. \A i \in 1..n : items[i].date \in Nat
        BY <1>1, DatedListIs
      <4>2. sofar \in Seq(Nat)
        BY <1>1, <4>1
      <4> HIDE DEF sofar
      <4>3. sofar = [i \in 1..n |-> items[i].date]
        BY DEF sofar
      <4> QED BY <4>2, <4>3, DatesGrow DEF day, item
    <3>3. ItemsOf(groups) = Q
      BY <1>2, <2>2, ItemsOfAppend
    <3>4. Q \in Seq(Seq(Nat)) /\ Q # <<>>
      <4> DEFINE T == Seq(Nat)
      <4>1. P \in Seq(T) /\ g.items \in T
        BY <1>2, <1>6
      <4> HIDE DEF T, P
      <4>2. Q \in Seq(T) /\ Len(Q) = Len(P) + 1 /\ Len(P) \in Nat
        BY <4>1
      <4>3. Q # <<>>
        <5> HIDE DEF Q
        <5> SUFFICES ASSUME Q = <<>> PROVE FALSE
          OBVIOUS
        <5>1. Len(Q) = 0
          OBVIOUS
        <5> QED BY <4>2, <5>1
      <4> QED BY <4>2, <4>3 DEF T
    <3> HIDE DEF Q, P, sofar, groups
    <3>5. FlattenSeq(Append(Q, <<day>>)) = Append(sofar, day)
      <4>1. <<day>> \in Seq(Nat)
        BY <1>1
      <4>2. FlattenSeq(Append(Q, <<day>>)) = FlattenSeq(Q) \o <<day>>
        BY <3>4, <4>1, FlattenAppend
      <4>3. sofar \o <<day>> = Append(sofar, day)
        BY <1>1, <3>2, ConcatOne
      <4> QED BY <3>1, <4>2, <4>3
    <3> QED BY <2>1, <3>2, <3>3, <3>5 DEF NothingLost
  <2> HIDE DEF groups, current
  <2>7. HeadingsInOrder(h)
    <3>1. \A i \in 1..last : groups[i].group \in Int /\ groups[i].group < new
      <4> SUFFICES ASSUME NEW i \in 1..last PROVE groups[i].group \in Int /\ groups[i].group < new
        OBVIOUS
      <4>1. CASE i = last
        BY <1>2, <2>1, <2>3, <4>1
      <4>2. CASE i \in 1..Len(g.groups)
        <5>1. g.groups[i].group < g.group
          BY <1>2, <4>2 DEF HeadingsInOrder
        <5>2. groups[i].group = g.groups[i].group /\ g.groups[i].group \in Int
          BY <2>3, <2>4, <4>2
        <5> QED BY <1>2, <1>5, <2>1, <5>1, <5>2
      <4> QED BY <2>5, <4>1, <4>2
    <3>2. \A i, j \in 1..last : i < j => groups[i].group < groups[j].group
      <4> SUFFICES ASSUME NEW i \in 1..last, NEW j \in 1..last, i < j
                   PROVE  groups[i].group < groups[j].group
        OBVIOUS
      <4>1. i \in 1..Len(g.groups)
        BY <2>5
      <4>2. CASE j = last
        BY <1>2, <2>3, <4>1, <4>2 DEF HeadingsInOrder
      <4>3. CASE j \in 1..Len(g.groups)
        BY <1>2, <2>3, <4>1, <4>3 DEF HeadingsInOrder
      <4> QED BY <2>5, <4>2, <4>3, SMTT(30)
    <3> QED BY <2>1, <2>3, <3>1, <3>2 DEF HeadingsInOrder
  <2>8. UnderRightHeading(h, items, n + 1, began)
    <3>1. \A i \in 1..last : \A k \in 1..Len(groups[i].items) :
            Now(groups[i].items[k], groups[i].group)
      <4> SUFFICES ASSUME NEW i \in 1..last, NEW k \in 1..Len(groups[i].items)
                   PROVE  Now(groups[i].items[k], groups[i].group)
        OBVIOUS
      <4>1. Before(groups[i].items[k], groups[i].group)
        <5>1. CASE i = last
          BY <1>2, <2>3, <5>1 DEF UnderRightHeading
        <5>2. CASE i \in 1..Len(g.groups)
          BY <1>2, <2>3, <5>2 DEF UnderRightHeading
        <5> QED BY <2>5, <5>1, <5>2
      <4> QED BY <1>3, <2>1, <4>1
    <3> QED BY <1>5, <2>1, <2>3, <3>1 DEF UnderRightHeading, item
  <2> QED BY <1>5, <2>1, <2>6, <2>7, <2>8
<1> QED BY <1>4, <1>8, <1>9, <1>10

(* The forEach goes through the whole list. *)
LEMMA WholeListGrouped ==
  ASSUME NEW items \in DatedLists, NEW began \in Nat, items # <<>> => began <= items[1].now,
         WithinReach(items, began)
  PROVE  GroupedSoFar(Grouping(items), items, Len(items), began)
<1> DEFINE Item == [date : Nat, now : Nat]
<1>1. items \in Seq(Item) /\ Len(items) \in Nat
  BY DEF DatedLists
<1>2. NothingGrouped \in Groupings
  BY DEF NothingGrouped, Groupings, NoGroup
<1>3. PICK pass \in [0..Len(items) -> Groupings] :
        /\ pass[0] = NothingGrouped
        /\ \A n \in 1..Len(items) : pass[n] = AddItem(pass[n - 1], items[n])
        /\ Grouping(items) = pass[Len(items)]
  <2>1. \A g \in Groupings : \A item \in Item : AddItem(g, item) \in Groupings
    BY AddItemType
  <2> HIDE DEF Item
  <2> QED BY <1>1, <1>2, <2>1, GroupingIsPasses
<1> DEFINE Sofar == {n \in Nat : n <= Len(items) => GroupedSoFar(pass[n], items, n, began)}
<1>4. 0 \in Sofar
  <2>1. GroupedSoFar(NothingGrouped, items, 0, began)
    BY <1>2 DEF GroupedSoFar, AtLastItem, HeadingsInOrder, UnderRightHeading, NothingLost,
                NothingGrouped
  <2> QED BY <1>3, <2>1
<1>5. ASSUME NEW n \in Sofar PROVE n + 1 \in Sofar
  <2> SUFFICES ASSUME n \in Nat, n + 1 <= Len(items)
               PROVE  GroupedSoFar(pass[n + 1], items, n + 1, began)
    OBVIOUS
  <2>1. GroupedSoFar(pass[n], items, n, began) /\ n \in 0..Len(items) - 1
    BY <1>1
  <2>2. pass[n + 1] = AddItem(pass[n], items[n + 1])
    <3>0. n \in Nat /\ Len(items) \in Nat /\ n + 1 <= Len(items)
      BY <1>1
    <3>1. n + 1 \in 1..Len(items) /\ (n + 1) - 1 = n
      BY ONLY <3>0
    <3> QED BY <1>3, <3>1
  <2> QED BY <2>1, <2>2, GroupedStep
<1>6. Sofar = Nat
  <2>1. Sofar \in SUBSET Nat
    OBVIOUS
  <2> HIDE DEF Sofar
  <2> QED BY <1>4, <1>5, <2>1, Induction
<1>7. Len(items) \in Sofar
  BY <1>1, <1>6
<1> QED BY <1>1, <1>3, <1>7

(* What a list under headings is to be: nothing lost, in order, each item under a right heading. *)
IsUnderHeadings(grouped, items, began) ==
  /\ \A i, j \in DOMAIN grouped : i < j => grouped[i].group < grouped[j].group
  /\ FlattenSeq([i \in DOMAIN grouped |-> grouped[i].items]) = [i \in 1..Len(items) |-> items[i].date]
  /\ \A i \in DOMAIN grouped : \A k \in DOMAIN grouped[i].items :
       Under(grouped[i].items[k], grouped[i].group, began, items[Len(items)].now)

(***************************************************************************)
(* A sorted list of any length that a view decides to group, by its newest *)
(* item, is put under headings in their order, none of which comes up      *)
(* again: the invariant of getGroupedItems does not fail, however often    *)
(* midnight passes meanwhile.  The groups together are the list, and each  *)
(* item is under a heading that was right for it at some time of the       *)
(* grouping.                                                               *)
(***************************************************************************)
THEOREM ListsCanBeGrouped ==
  \A items \in DatedLists, began \in Nat :
    items # <<>> /\ began <= items[1].now /\ ShouldBeGrouped(items[1].date, began) =>
      ~Grouping(items).failed /\ IsUnderHeadings(GetGroupedItems(items), items, began)
<1> SUFFICES ASSUME NEW items \in DatedLists, NEW began \in Nat,
                    items # <<>>, began <= items[1].now, ShouldBeGrouped(items[1].date, began)
             PROVE  ~Grouping(items).failed /\ IsUnderHeadings(GetGroupedItems(items), items, began)
  OBVIOUS
<1> DEFINE g == Grouping(items)
           n == Len(items)
           last == [group |-> g.group, items |-> g.items]
           m == Len(g.groups)
           grouped == Append(g.groups, last)
<1>1. n \in Nat /\ n # 0
  <2>1. items \in Seq([date : Nat, now : Nat])
    BY DEF DatedLists
  <2> QED BY <2>1
<1>2. WithinReach(items, began)
  <2> SUFFICES ASSUME NEW i \in 1..n PROVE Week(items[i].date) <= Week(began) + 1
    BY DEF WithinReach
  <2>1. 1 \in 1..n /\ 1 <= i
    BY <1>1
  <2>2. items[i].date \in Nat /\ items[1].date \in Nat /\ items[i].date <= items[1].date
    BY <2>1, DatedListIs
  <2>3. Week(items[1].date) <= Week(began) + 1
    BY <2>2, ReachOfGrouped
  <2>4. Week(items[i].date) <= Week(items[1].date)
    BY <2>2, WeekMonotone
  <2>5. Week(items[i].date) \in Nat /\ Week(items[1].date) \in Nat /\ Week(began) \in Nat
    BY <2>2, WeekIs
  <2> QED BY <2>3, <2>4, <2>5
<1>3. GroupedSoFar(g, items, n, began)
  BY <1>2, WholeListGrouped
<1> HIDE DEF g, n
<1>4. /\ g \in Groupings /\ g.groups \in Seq(Group) /\ g.items \in Seq(Nat) /\ g.group \in Int
      /\ HeadingsInOrder(g) /\ UnderRightHeading(g, items, n, began)
      /\ FlattenSeq(Append(ItemsOf(g.groups), g.items)) = [i \in 1..n |-> items[i].date]
      /\ Under(g.date, g.group, began, items[n].now) /\ g.date \in Nat /\ items[n].now \in Nat
  <2>1. n \in 1..n
    BY <1>1
  <2>2. items[n].date \in Nat /\ items[n].now \in Nat
    BY <2>1, DatedListIs DEF n
  <2> QED BY <1>1, <1>3, <2>2 DEF GroupedSoFar, Groupings, NothingLost, AtLastItem
<1>5. GetGroupedItems(items) = grouped
  <2>1. g.group \in 0..7
    BY <1>4, GroupForItemIs DEF Under
  <2>2. g.group # NoGroup
    BY <2>1 DEF NoGroup
  <2> QED BY <2>2 DEF GetGroupedItems, g
<1>6. last \in Group
  BY <1>4 DEF Group
<1>7. /\ grouped \in Seq(Group) /\ Len(grouped) = m + 1 /\ m \in Nat /\ DOMAIN grouped = 1..m + 1
      /\ grouped[m + 1] = last /\ \A i \in 1..m : grouped[i] = g.groups[i]
  <2> HIDE DEF last
  <2> QED BY <1>4, <1>6
<1>8. \A i \in 1..m : g.groups[i] \in Group
  BY <1>4, MemberOf
<1>9. ItemsOf(grouped) = Append(ItemsOf(g.groups), g.items)
  BY <1>4, <1>6, ItemsOfAppend
<1>10. [i \in DOMAIN grouped |-> grouped[i].items] = ItemsOf(grouped)
  <2> HIDE DEF grouped
  <2> QED BY <1>7 DEF ItemsOf
<1> HIDE DEF grouped, m
<1>11. \A i, j \in DOMAIN grouped : i < j => grouped[i].group < grouped[j].group
  <2> SUFFICES ASSUME NEW i \in 1..m + 1, NEW j \in 1..m + 1, i < j
               PROVE  grouped[i].group < grouped[j].group
    BY <1>7
  <2>1. i \in 1..m
    BY <1>7
  <2>2. CASE j = m + 1
    <3>1. g.groups[i].group < g.group
      BY <1>4, <2>1 DEF HeadingsInOrder, m
    <3>2. grouped[i] = g.groups[i] /\ grouped[j].group = g.group
      BY <1>7, <2>1, <2>2
    <3> QED BY <3>1, <3>2
  <2>3. CASE j \in 1..m
    BY <1>4, <1>7, <2>1, <2>3 DEF HeadingsInOrder, m
  <2> QED BY <1>7, <2>2, <2>3
<1>12. ASSUME NEW i \in DOMAIN grouped, NEW k \in DOMAIN grouped[i].items
       PROVE  Under(grouped[i].items[k], grouped[i].group, began, items[n].now)
  <2>1. grouped[i].items \in Seq(Nat)
    <3>1. grouped[i] \in Group
      BY <1>7, MemberOf
    <3> QED BY <3>1 DEF Group
  <2>2. k \in 1..Len(grouped[i].items)
    BY <2>1
  <2>3. CASE i = m + 1
    BY <1>4, <1>7, <2>2, <2>3 DEF UnderRightHeading
  <2>4. CASE i \in 1..m
    BY <1>4, <1>7, <2>2, <2>4 DEF UnderRightHeading, m
  <2> QED BY <1>7, <2>3, <2>4
<1>13. IsUnderHeadings(grouped, items, began)
  BY <1>4, <1>9, <1>10, <1>11, <1>12 DEF IsUnderHeadings, n
<1>14. ~g.failed
  BY <1>4 DEF HeadingsInOrder
<1> QED BY <1>5, <1>13, <1>14 DEF g

(***************************************************************************)
(* The lists of up to three items, dates and clocks of a run: an instance  *)
(* of the theorem about all of them.                                       *)
(***************************************************************************)
THEOREM GroupsFollowTheSortedLists == GroupsFollowTheList
<1> SUFFICES ASSUME NEW dates \in SortedDates, NEW clock \in Clocks,
                    ShouldBeGrouped(dates[1], clock.today)
             PROVE  LET items == Dated(dates, clock)
                        grouped == GetGroupedItems(items)
                    IN /\ ~Grouping(items).failed
                       /\ \A i, j \in DOMAIN grouped : i < j => grouped[i].group < grouped[j].group
                       /\ FlattenSeq([i \in DOMAIN grouped |-> grouped[i].items]) = dates
  BY DEF GroupsFollowTheList
<1> DEFINE items == Dated(dates, clock)
<1>1. PICK n \in 1..3 : dates \in [1..n -> 0..41]
  BY DEF SortedDates
<1>2. /\ dates \in Seq(Nat) /\ Len(dates) = n
      /\ \A i \in 1..n : dates[i] \in Nat
      /\ \A i \in 1..n - 1 : dates[i] >= dates[i + 1]
  <2>1. \A i \in 1..n : dates[i] \in Nat
    <3> SUFFICES ASSUME NEW i \in 1..n PROVE dates[i] \in Nat
      OBVIOUS
    <3>1. dates[i] \in 0..41
      BY <1>1
    <3> QED BY <3>1
  <2>2. dates \in Seq(Nat) /\ Len(dates) = n
    <3>1. n \in Nat /\ dates \in [1..n -> Nat]
      BY <1>1, <2>1
    <3> QED BY <3>1
  <2>3. \A i \in 1..Len(dates) - 1 : dates[i] >= dates[i + 1]
    BY DEF SortedDates
  <2> QED BY <2>1, <2>2, <2>3
<1>3. clock.today \in Nat /\ clock.midnight \in Nat
  BY DEF Clocks
<1>4. items = [i \in 1..n |-> [date |-> dates[i],
                              now |-> IF i < clock.midnight THEN clock.today ELSE clock.today + 1]]
  BY <1>2 DEF Dated
<1>5. items \in Seq([date : Nat, now : Nat]) /\ Len(items) = n
  <2> DEFINE Item == [date : Nat, now : Nat]
  <2>1. items \in [1..n -> Item]
    BY <1>2, <1>3, <1>4
  <2>2. n \in Nat
    OBVIOUS
  <2> HIDE DEF Item, items
  <2>3. items \in Seq(Item) /\ Len(items) = n
    BY <2>1, <2>2
  <2> QED BY <2>3 DEF Item
<1>6. \A i, j \in 1..n :
        i <= j => items[j].date <= items[i].date /\ items[i].now <= items[j].now
  <2> SUFFICES ASSUME NEW i \in 1..n, NEW j \in 1..n, i <= j
               PROVE  items[j].date <= items[i].date /\ items[i].now <= items[j].now
    OBVIOUS
  <2> HIDE DEF items
  <2>1. items[i].date = dates[i] /\ items[j].date = dates[j]
    BY <1>4
  <2>2. items[i].now <= items[j].now
    BY <1>3, <1>4
  <2>3. dates[j] <= dates[i]
    <3>1. CASE i = j
      BY <1>2, <3>1
    <3>2. CASE j = i + 1
      <4>1. i \in 1..n - 1
        BY <3>2
      <4> QED BY <1>2, <3>2, <4>1
    <3>3. CASE i = 1 /\ j = 3
      <4>1. 1 \in 1..n - 1 /\ 2 \in 1..n - 1 /\ 1 + 1 = 2 /\ 2 + 1 = 3 /\ {1, 2, 3} \subseteq 1..n
        BY <3>3
      <4>2. dates[1] >= dates[2] /\ dates[2] >= dates[3]
        BY <1>2, <4>1
      <4> QED BY <1>2, <3>3, <4>1, <4>2
    <3>4. i = j \/ j = i + 1 \/ (i = 1 /\ j = 3)
      OBVIOUS
    <3> QED BY <3>1, <3>2, <3>3, <3>4
  <2> QED BY <2>1, <2>2, <2>3
<1>7. items \in DatedLists
  <2> HIDE DEF items
  <2> QED BY <1>5, <1>6 DEF DatedLists
<1>8. items # <<>> /\ items[1].date = dates[1] /\ clock.today <= items[1].now
  <2>1. 1 \in 1..n
    OBVIOUS
  <2>2. items[1].date = dates[1] /\ clock.today <= items[1].now
    BY <1>3, <1>4, <2>1
  <2> HIDE DEF items
  <2> QED BY <1>5, <2>2
<1>9. [i \in 1..Len(items) |-> items[i].date] = dates
  <2>1. \A i \in 1..n : items[i].date = dates[i]
    BY <1>4
  <2>2. dates = [i \in 1..n |-> dates[i]]
    BY <1>1
  <2> HIDE DEF items
  <2> QED BY <1>5, <2>1, <2>2
<1> HIDE DEF items
<1>10. ~Grouping(items).failed /\ IsUnderHeadings(GetGroupedItems(items), items, clock.today)
  BY <1>3, <1>7, <1>8, ListsCanBeGrouped
<1> QED BY <1>9, <1>10 DEF IsUnderHeadings, items
-------------------------------------------------------------------------------
(* The pages of the news, and what is kept of them. *)

(* Each item once. *)
Distinct(s) == \A i, j \in 1..Len(s) : s[i] = s[j] => i = j

(* The items of a list are those at its places. *)
LEMMA RangeIs ==
  ASSUME NEW S, NEW s \in Seq(S)
  PROVE  /\ Len(s) \in Nat /\ \A i \in 1..Len(s) : s[i] \in S
         /\ Range(s) \subseteq S
         /\ \A x : x \in Range(s) <=> \E i \in 1..Len(s) : s[i] = x
BY DEF Range

(* A sequence without the same item twice has as many items as its set. *)
LEMMA SizeOfRange ==
  ASSUME NEW S, NEW s \in Seq(S), Distinct(s)
  PROVE  IsFiniteSet(Range(s)) /\ Cardinality(Range(s)) = Len(s)
<1>1. Len(s) \in Nat /\ s \in [1..Len(s) -> Range(s)]
  BY RangeIs
<1>2. s \in Bijection(1..Len(s), Range(s))
  BY <1>1, RangeIs DEF Distinct, Bijection, Injection, Surjection, IsInjective
<1>3. ExistsBijection(1..Len(s), Range(s))
  BY <1>2 DEF ExistsBijection
<1> QED BY <1>1, <1>3, FS_CountingElements, FS_NatBijection

(* The elements of a concatenation, whatever they are. *)
LEMMA ConcatOf ==
  ASSUME NEW S, NEW s \in Seq(S), NEW t \in Seq(S)
  PROVE  /\ s \o t \in Seq(S) /\ Len(s \o t) = Len(s) + Len(t) /\ Len(s) \in Nat /\ Len(t) \in Nat
         /\ \A i \in 1..Len(s) : (s \o t)[i] = s[i]
         /\ \A j \in 1..Len(t) : (s \o t)[Len(s) + j] = t[j]
OBVIOUS

(* What InsertAt makes of a list. *)
LEMMA InsertIs ==
  ASSUME NEW S, NEW s \in Seq(S), NEW x \in S, NEW k \in 0..Len(s)
  PROVE  LET t == InsertAt(s, k + 1, x)
         IN /\ t \in Seq(S) /\ Len(t) = Len(s) + 1
            /\ \A i \in 1..k : t[i] = s[i]
            /\ t[k + 1] = x
            /\ \A i \in k + 1..Len(s) : t[i + 1] = s[i]
<1> DEFINE N == Len(s)
           a == SubSeq(s, 1, k)
           b == SubSeq(s, k + 1, N)
           u == a \o <<x>>
           t == u \o b
<1>1. /\ a \in Seq(S) /\ Len(a) = k /\ k \in Nat /\ N \in Nat /\ k <= N
      /\ \A i \in 1..k : a[i] = s[i]
  OBVIOUS
<1>2. /\ b \in Seq(S) /\ Len(b) = N - k
      /\ \A i \in 1..N - k : b[i] = s[k + i]
  OBVIOUS
<1>3. InsertAt(s, k + 1, x) = t
  <2>1. (k + 1) - 1 = k
    OBVIOUS
  <2> QED BY <2>1 DEF InsertAt
<1> HIDE DEF a, b, N
<1>4. /\ u \in Seq(S) /\ Len(u) = k + 1
      /\ \A i \in 1..k : u[i] = s[i]
      /\ u[k + 1] = x
  <2>1. <<x>> \in Seq(S) /\ Len(<<x>>) = 1 /\ <<x>>[1] = x
    OBVIOUS
  <2>2. /\ u \in Seq(S) /\ Len(u) = k + 1
        /\ \A i \in 1..k : u[i] = a[i]
        /\ u[k + 1] = x
    BY ONLY <1>1, <2>1, x \in S, ConcatOf
  <2> QED BY <1>1, <2>2
<1> HIDE DEF u
<1>5. /\ t \in Seq(S) /\ Len(t) = N + 1
      /\ \A i \in 1..k + 1 : t[i] = u[i]
      /\ \A j \in 1..N - k : t[(k + 1) + j] = b[j]
  <2>0. u \in Seq(S) /\ b \in Seq(S)
    BY ONLY <1>2, <1>4
  <2>1. /\ t \in Seq(S) /\ Len(t) = Len(u) + Len(b)
        /\ \A i \in 1..Len(u) : t[i] = u[i]
        /\ \A j \in 1..Len(b) : t[Len(u) + j] = b[j]
    BY ONLY <2>0, ConcatOf
  <2> HIDE DEF t
  <2>2. (k + 1) + (N - k) = N + 1
    BY ONLY <1>1
  <2> QED BY ONLY <1>2, <1>4, <2>1, <2>2
<1> HIDE DEF t
<1>6. \A i \in 1..k : t[i] = s[i]
  <2> SUFFICES ASSUME NEW i \in 1..k PROVE t[i] = s[i]
    OBVIOUS
  <2>1. i \in 1..k + 1
    BY <1>1
  <2> QED BY <1>4, <1>5, <2>1
<1>7. t[k + 1] = x
  <2>1. k + 1 \in 1..k + 1
    BY <1>1
  <2> QED BY <1>4, <1>5, <2>1
<1>8. \A i \in k + 1..N : t[i + 1] = s[i]
  <2> SUFFICES ASSUME NEW i \in k + 1..N PROVE t[i + 1] = s[i]
    OBVIOUS
  <2>1. i - k \in 1..N - k /\ k + (i - k) = i /\ i + 1 = (k + 1) + (i - k)
    BY ONLY <1>1, i \in k + 1..N
  <2>2. t[(k + 1) + (i - k)] = b[i - k]
    BY ONLY <1>5, <2>1
  <2>3. b[i - k] = s[k + (i - k)]
    BY ONLY <1>2, <2>1
  <2> QED BY ONLY <2>1, <2>2, <2>3
<1> QED BY <1>3, <1>5, <1>6, <1>7, <1>8 DEF N

(* The end of a page. *)
LEMMA MinOfTwo ==
  ASSUME NEW a \in Int, NEW b \in Int
  PROVE  Min({a, b}) = IF a <= b THEN a ELSE b
<1> DEFINE m == IF a <= b THEN a ELSE b
<1>1. m \in {a, b} /\ \A x \in {a, b} : m <= x
  OBVIOUS
<1>2. \A x \in {a, b} : (\A y \in {a, b} : x <= y) => x = m
  OBVIOUS
<1> QED BY <1>1, <1>2 DEF Min

(* UniqBy goes through the items one by one, with KeepFirst. *)
LEMMA UniqByIsPasses ==
  ASSUME NEW S, NEW items \in Seq(S)
  PROVE  \E pass \in [0..Len(items) -> Seq(S)] :
           /\ pass[0] = <<>>
           /\ \A n \in 1..Len(items) : pass[n] = KeepFirst(pass[n - 1], items[n])
           /\ UniqBy(items) = pass[Len(items)]
<1> DEFINE T == Seq(S)
           N == Len(items)
           F == [p \in (1..N) \X T |-> KeepFirst(p[2], items[p[1]])]
           Is(iter) == iter = [s \in SUBSET (1..N) |->
                                 IF s = {} THEN <<>>
                                 ELSE KeepFirst(iter[s \ {Max(s)}], items[Max(s)])]
<1>1. N \in Nat /\ \A n \in 1..N : items[n] \in S
  OBVIOUS
<1>2. <<>> \in T /\ \A kept \in T : \A x \in S : KeepFirst(kept, x) \in T
  BY DEF KeepFirst
<1>3. F \in [(1..N) \X T -> T]
  <2> HIDE DEF T
  <2> QED BY <1>1, <1>2
<1> HIDE DEF T
<1>4. \E iter : Is(iter)
  <2> HIDE DEF F, N
  <2>1. PICK iter \in [SUBSET (1..N) -> T] : IsFold(iter, N, <<>>, F)
    BY <1>1, <1>2, <1>3, FoldExists
  <2>2. \A s \in SUBSET (1..N) : s # {} => Max(s) \in 1..N /\ iter[s \ {Max(s)}] \in T
    BY <1>1, <2>1, MaxOf
  <2>3. \A s \in SUBSET (1..N) : s # {} =>
          F[<<Max(s), iter[s \ {Max(s)}]>>] = KeepFirst(iter[s \ {Max(s)}], items[Max(s)])
    BY <2>2 DEF F
  <2>4. Is(iter)
    BY <2>1, <2>3 DEF IsFold
  <2> QED BY <2>4
<1> DEFINE iter == CHOOSE iter : Is(iter)
<1>5. Is(iter)
  <2> HIDE DEF Is
  <2> QED BY <1>4
<1>6. UniqBy(items) = iter[1..N]
  <2>1. DOMAIN items = 1..N
    OBVIOUS
  <2> QED BY <2>1 DEF UniqBy, FoldLeft, MapThenFoldSet
<1> HIDE DEF iter
<1>7. iter[1..0] = <<>>
  <2>1. 1..0 = {}
    OBVIOUS
  <2> QED BY <1>5, <2>1
<1>8. \A n \in 1..N : iter[1..n] = KeepFirst(iter[1..n - 1], items[n])
  <2> SUFFICES ASSUME NEW n \in 1..N PROVE iter[1..n] = KeepFirst(iter[1..n - 1], items[n])
    OBVIOUS
  <2>1. Max(1..n) = n /\ (1..n) \ {n} = 1..n - 1
    BY <1>1, MaxOfInterval
  <2> HIDE DEF N
  <2>2. 1..n \in SUBSET (1..N) /\ 1..n # {}
    BY <1>1, PartOfInterval
  <2> QED BY <1>5, <2>1, <2>2
<1> DEFINE Typed == {n \in Nat : n <= N => iter[1..n] \in T}
<1>9. Typed = Nat
  <2>1. 0 \in Typed
    BY <1>2, <1>7
  <2>2. ASSUME NEW n \in Typed PROVE n + 1 \in Typed
    <3> HIDE DEF N
    <3> SUFFICES ASSUME n \in Nat, n + 1 <= N PROVE iter[1..n + 1] \in T
      OBVIOUS
    <3>1. iter[1..n] \in T /\ n + 1 \in 1..N /\ (n + 1) - 1 = n
      BY <1>1
    <3>2. iter[1..n + 1] = KeepFirst(iter[1..n], items[n + 1])
      BY <1>8, <3>1
    <3> QED BY <1>1, <1>2, <3>1, <3>2
  <2>3. Typed \in SUBSET Nat
    OBVIOUS
  <2> HIDE DEF Typed
  <2> QED BY <2>1, <2>2, <2>3, Induction
<1> DEFINE pass == [n \in 0..N |-> iter[1..n]]
<1>10. pass \in [0..N -> T]
  BY <1>1, <1>9
<1>11. /\ pass[0] = <<>>
       /\ \A n \in 1..N : pass[n] = KeepFirst(pass[n - 1], items[n])
       /\ UniqBy(items) = pass[N]
  <2> HIDE DEF N
  <2> QED BY <1>1, <1>6, <1>7, <1>8
<1> QED BY <1>10, <1>11 DEF T

(* An item is kept once. *)
LEMMA KeepFirstKeeps ==
  ASSUME NEW S, NEW kept \in Seq(S), Distinct(kept), NEW x \in S
  PROVE  /\ KeepFirst(kept, x) \in Seq(S) /\ Distinct(KeepFirst(kept, x))
         /\ Range(KeepFirst(kept, x)) = Range(kept) \cup {x}
         /\ x \notin Range(kept) => KeepFirst(kept, x) = Append(kept, x)
<1> DEFINE q == Len(kept)
<1>1. Contains(kept, x) <=> x \in Range(kept)
  BY RangeIs DEF Contains
<1>2. CASE x \in Range(kept)
  BY <1>1, <1>2 DEF KeepFirst
<1>3. CASE x \notin Range(kept)
  <2> DEFINE s == Append(kept, x)
  <2>1. /\ s \in Seq(S) /\ Len(s) = q + 1 /\ q \in Nat
        /\ \A i \in 1..q : s[i] = kept[i]
        /\ s[q + 1] = x
    OBVIOUS
  <2>2. \A i \in 1..q : kept[i] # x
    BY <1>3, RangeIs
  <2>3. KeepFirst(kept, x) = s
    BY <1>1, <1>3 DEF KeepFirst
  <2> HIDE DEF s
  <2>4. Distinct(s)
    <3> SUFFICES ASSUME NEW i \in 1..q + 1, NEW j \in 1..q + 1, s[i] = s[j] PROVE i = j
      BY <2>1 DEF Distinct
    <3>1. (i \in 1..q \/ i = q + 1) /\ (j \in 1..q \/ j = q + 1)
      BY <2>1
    <3> QED BY <2>1, <2>2, <3>1 DEF Distinct
  <2>5. Range(s) = Range(kept) \cup {x}
    <3>1. 1..q + 1 = 1..q \cup {q + 1}
      BY <2>1
    <3>2. Range(s) = {s[i] : i \in 1..q + 1}
      BY <2>1, RangeIs
    <3>3. Range(kept) = {kept[i] : i \in 1..q}
      BY RangeIs
    <3> HIDE DEF q
    <3> QED BY <2>1, <3>1, <3>2, <3>3
  <2> QED BY <2>1, <2>3, <2>4, <2>5
<1> QED BY <1>2, <1>3

(* UniqBy keeps every item, once, and changes nothing where there is no item twice. *)
LEMMA UniqByKeeps ==
  ASSUME NEW S, NEW items \in Seq(S)
  PROVE  /\ UniqBy(items) \in Seq(S) /\ Distinct(UniqBy(items))
         /\ Range(UniqBy(items)) = Range(items)
         /\ Distinct(items) => UniqBy(items) = items
<1> DEFINE N == Len(items)
<1>1. PICK pass \in [0..N -> Seq(S)] :
        /\ pass[0] = <<>>
        /\ \A n \in 1..N : pass[n] = KeepFirst(pass[n - 1], items[n])
        /\ UniqBy(items) = pass[N]
  BY UniqByIsPasses
<1>2. N \in Nat /\ \A n \in 1..N : items[n] \in S
  OBVIOUS
<1> DEFINE Upto(n) == {items[i] : i \in 1..n}
           Ok(n) == /\ pass[n] \in Seq(S) /\ Distinct(pass[n]) /\ Range(pass[n]) = Upto(n)
                    /\ Distinct(items) => pass[n] = SubSeq(items, 1, n)
           Done == {n \in Nat : n <= N => Ok(n)}
<1>3. Done = Nat
  <2>1. 0 \in Done
    <3>1. <<>> \in Seq(S) /\ Distinct(<<>>) /\ Range(<<>>) = {} /\ Upto(0) = {}
      BY DEF Distinct, Range
    <3>2. SubSeq(items, 1, 0) = <<>>
      OBVIOUS
    <3> QED BY <1>1, <3>1, <3>2
  <2>2. ASSUME NEW n \in Done PROVE n + 1 \in Done
    <3> HIDE DEF Ok, N
    <3> SUFFICES ASSUME n + 1 <= N PROVE Ok(n + 1)
      OBVIOUS
    <3>0. n \in Nat /\ (n <= N => Ok(n))
      OBVIOUS
    <3> USE DEF Ok, N
    <3> HIDE DEF Done
    <3>1. n \in 0..N /\ n + 1 \in 1..N /\ (n + 1) - 1 = n /\ n \in Nat
      BY <1>2, <3>0
    <3>2. Ok(n)
      BY <3>0, <3>1
    <3>3. items[n + 1] \in S
      BY <1>2, <3>1
    <3>4. Upto(n + 1) = Upto(n) \cup {items[n + 1]}
      <4>1. 1..n + 1 = 1..n \cup {n + 1}
        BY <3>1
      <4> QED BY <4>1
    <3>5. pass[n + 1] = KeepFirst(pass[n], items[n + 1])
      BY <1>1, <3>1
    <3> DEFINE p == pass[n]
               x == items[n + 1]
    <3>6. p \in Seq(S) /\ Distinct(p) /\ x \in S /\ Range(p) = Upto(n)
      BY <3>2, <3>3
    <3>7. /\ KeepFirst(p, x) \in Seq(S) /\ Distinct(KeepFirst(p, x))
          /\ Range(KeepFirst(p, x)) = Range(p) \cup {x}
          /\ x \notin Range(p) => KeepFirst(p, x) = Append(p, x)
      <4> HIDE DEF p, x, Upto, Ok, N
      <4> QED BY ONLY <3>6, KeepFirstKeeps
    <3>8. ASSUME Distinct(items) PROVE pass[n + 1] = SubSeq(items, 1, n + 1)
      <4>1. items[n + 1] \notin Upto(n)
        <5> SUFFICES ASSUME NEW i \in 1..n, items[i] = items[n + 1] PROVE FALSE
          OBVIOUS
        <5>1. i \in 1..N /\ i # n + 1
          BY <1>2, <3>1
        <5> QED BY <3>1, <3>8, <5>1 DEF Distinct
      <4>2. Append(SubSeq(items, 1, n), items[n + 1]) = SubSeq(items, 1, n + 1)
        BY <3>1
      <4>3. p = SubSeq(items, 1, n)
        BY <3>2, <3>8
      <4> HIDE DEF p, Upto, Ok
      <4> QED BY <3>5, <3>6, <3>7, <4>1, <4>2, <4>3 DEF p
    <3> HIDE DEF Upto, N
    <3> QED BY <3>4, <3>5, <3>6, <3>7, <3>8
  <2>3. Done \in SUBSET Nat
    OBVIOUS
  <2> HIDE DEF Done
  <2> QED BY <2>1, <2>2, <2>3, Induction
<1>4. Ok(N)
  <2>1. N \in Done /\ N <= N
    <3> HIDE DEF Done
    <3> QED BY <1>2, <1>3
  <2> QED BY <2>1
<1>5. Range(items) = Upto(N)
  BY RangeIs
<1>6. SubSeq(items, 1, N) = items
  OBVIOUS
<1> QED BY <1>1, <1>4, <1>5, <1>6
-------------------------------------------------------------------------------
(* What holds of the news, and what keeps it: the inductive invariant. *)

(* As long as no answer to a request of before a refresh may come, one request is in flight. *)
OneRequest == asked = IF news.fetching THEN <<news.offset>> ELSE <<>>

(* The inductive invariant. *)
FeedInv ==
  /\ TypeOK
  /\ listed \subseteq ToSet(server)
  /\ overtaken \/ (OneRequest /\ Cardinality(Passed) <= repeated + withdrawn)

(* Two words for the set of a list, and for a list with no item twice. *)
LEMMA ElementsAre ==
  ASSUME NEW S, NEW s \in Seq(S)
  PROVE  /\ ToSet(s) = Range(s) /\ ToSet(s) \subseteq S
         /\ IsInjective(s) <=> Distinct(s)
         /\ \A x : x \in ToSet(s) <=> \E i \in 1..Len(s) : s[i] = x
BY DEF ToSet, Range, IsInjective, Distinct

(* The items of a list are finitely many. *)
LEMMA ElementsAreFinite ==
  ASSUME NEW S, NEW s \in Seq(S)
  PROVE  IsFiniteSet(ToSet(s))
<1> DEFINE n == Len(s)
<1>1. n \in Nat /\ s \in [1..n -> ToSet(s)] /\ ToSet(s) = {s[i] : i \in 1..n}
  BY DEF ToSet
<1> HIDE DEF n
<1>2. s \in Surjection(1..n, ToSet(s))
  BY <1>1 DEF Surjection
<1>3. IsFiniteSet(1..n)
  <2>1. 1 \in Int /\ n \in Int
    BY <1>1
  <2> QED BY ONLY <2>1, FS_Interval
<1> QED BY <1>2, <1>3, FS_Surjection

(* What RemoveAt makes of a list. *)
LEMMA RemoveIs ==
  ASSUME NEW S, NEW s \in Seq(S), NEW k \in 1..Len(s)
  PROVE  LET t == RemoveAt(s, k)
         IN /\ t \in Seq(S) /\ Len(t) = Len(s) - 1
            /\ \A i \in 1..k - 1 : t[i] = s[i]
            /\ \A i \in k..Len(s) - 1 : t[i] = s[i + 1]
<1> DEFINE N == Len(s)
           a == SubSeq(s, 1, k - 1)
           b == SubSeq(s, k + 1, N)
           t == a \o b
<1>1. /\ a \in Seq(S) /\ Len(a) = k - 1 /\ k \in Nat /\ N \in Nat /\ k <= N /\ k >= 1
      /\ \A i \in 1..k - 1 : a[i] = s[i]
  OBVIOUS
<1>2. /\ b \in Seq(S) /\ Len(b) = N - k
      /\ \A i \in 1..N - k : b[i] = s[k + i]
  OBVIOUS
<1>3. RemoveAt(s, k) = t
  BY DEF RemoveAt
<1> HIDE DEF a, b, N
<1>4. /\ t \in Seq(S) /\ Len(t) = Len(a) + Len(b)
      /\ \A i \in 1..Len(a) : t[i] = a[i]
      /\ \A j \in 1..Len(b) : t[Len(a) + j] = b[j]
  <2>1. a \in Seq(S) /\ b \in Seq(S)
    BY ONLY <1>1, <1>2
  <2> QED BY ONLY <2>1, ConcatOf
<1> HIDE DEF t
<1>5. Len(t) = N - 1
  BY ONLY <1>1, <1>2, <1>4
<1>6. \A i \in 1..k - 1 : t[i] = s[i]
  BY ONLY <1>1, <1>4
<1>7. \A i \in k..N - 1 : t[i] = s[i + 1]
  <2> SUFFICES ASSUME NEW i \in k..N - 1 PROVE t[i] = s[i + 1]
    OBVIOUS
  <2> DEFINE j == i - k + 1
  <2>1. j \in 1..N - k /\ (k - 1) + j = i /\ k + j = i + 1
    BY ONLY <1>1, i \in k..N - 1
  <2> HIDE DEF j
  <2>2. t[(k - 1) + j] = b[j] /\ b[j] = s[k + j]
    BY ONLY <1>1, <1>2, <1>4, <2>1
  <2> QED BY ONLY <2>1, <2>2
<1> QED BY <1>3, <1>4, <1>5, <1>6, <1>7 DEF N

(* A page is empty beyond the end, and else a run of the server's items. *)
LEMMA PageIs ==
  ASSUME TypeOK, NEW offset \in Nat
  PROVE  LET page == Page(offset)
         IN /\ page \in Seq(NewsItems) /\ Distinct(page)
            /\ page = <<>> => offset >= Len(server)
            /\ \A j \in 1..Len(page) : offset + j \in 1..Len(server) /\ page[j] = server[offset + j]
<1> DEFINE n == Len(server)
           last == IF offset + NewsLimit <= n THEN offset + NewsLimit ELSE n
           page == SubSeq(server, offset + 1, last)
<1>1. server \in Seq(NewsItems) /\ Distinct(server) /\ n \in Nat
  BY ElementsAre DEF TypeOK
<1>2. NewsLimit \in Nat /\ NewsLimit >= 1
  BY NewsFeedAssumption
<1>3. Page(offset) = page
  <2>1. Min({offset + NewsLimit, n}) = last
    BY <1>1, <1>2, MinOfTwo
  <2> QED BY <2>1 DEF Page
<1>4. last \in Nat /\ last <= n /\ (last <= offset => offset >= n)
  BY <1>1, <1>2
<1> HIDE DEF last, n
<1>5. CASE last <= offset
  <2>1. page = <<>>
    BY <1>1, <1>4, <1>5
  <2> QED BY <1>3, <1>4, <1>5, <2>1 DEF Distinct, n
<1>6. CASE last > offset
  <2>1. /\ page \in Seq(NewsItems) /\ Len(page) = last - offset
        /\ \A j \in 1..last - offset : page[j] = server[offset + j]
    BY <1>1, <1>4, <1>6 DEF n
  <2> HIDE DEF page
  <2>2. \A j \in 1..last - offset : offset + j \in 1..n
    BY <1>1, <1>4, <1>6
  <2>3. Distinct(page)
    <3> SUFFICES ASSUME NEW i \in 1..last - offset, NEW j \in 1..last - offset, page[i] = page[j]
                 PROVE  i = j
      BY <2>1 DEF Distinct
    <3>1. server[offset + i] = server[offset + j] /\ offset + i \in 1..n /\ offset + j \in 1..n
      BY <2>1, <2>2
    <3>2. offset + i = offset + j
      BY <1>1, <3>1 DEF Distinct, n
    <3> QED BY <1>4, <3>2
  <2>4. page # <<>>
    BY <1>4, <1>6, <2>1
  <2> QED BY <1>3, <2>1, <2>2, <2>3, <2>4 DEF n
<1> QED BY <1>4, <1>5, <1>6

(* How many items have come a second time is a number. *)
LEMMA DuplicatesType ==
  ASSUME NEW page \in Seq(NewsItems)
  PROVE  Duplicates(page) \in Nat
<1>1. IsFiniteSet(ToSet(page))
  BY ElementsAreFinite
<1>2. IsFiniteSet(ToSet(page) \cap ToSet(news.items))
  BY <1>1, FS_Intersection
<1> QED BY <1>2, FS_CardinalityType DEF Duplicates

(* Items are kept once, and as many are dropped as are shown already. *)
LEMMA UniqueItems ==
  ASSUME NEW items \in Seq(NewsItems), Distinct(items), NEW page \in Seq(NewsItems), Distinct(page)
  PROVE  LET all == items \o page
             unique == UniqBy(all)
         IN /\ unique \in Seq(NewsItems) /\ Distinct(unique)
            /\ ToSet(unique) = ToSet(items) \cup ToSet(page)
            /\ Len(all) - Len(unique) = Cardinality(ToSet(page) \cap ToSet(items))
<1> DEFINE all == items \o page
           unique == UniqBy(all)
<1>1. /\ all \in Seq(NewsItems) /\ Len(all) = Len(items) + Len(page)
      /\ Len(items) \in Nat /\ Len(page) \in Nat
      /\ \A i \in 1..Len(items) : all[i] = items[i]
      /\ \A j \in 1..Len(page) : all[Len(items) + j] = page[j]
  BY ConcatOf
<1> HIDE DEF all
<1>2. unique \in Seq(NewsItems) /\ Distinct(unique) /\ Range(unique) = Range(all)
  BY <1>1, UniqByKeeps
<1> HIDE DEF unique
<1>3. Range(all) = Range(items) \cup Range(page)
  <2>1. \A x : x \in Range(all) <=> \E i \in 1..Len(items) + Len(page) : all[i] = x
    <3>1. \A x : x \in Range(all) <=> \E i \in 1..Len(all) : all[i] = x
      BY ONLY <1>1, RangeIs
    <3> QED BY ONLY <1>1, <3>1
  <2>2. \A x : x \in Range(items) <=> \E i \in 1..Len(items) : items[i] = x
    BY RangeIs
  <2>3. \A x : x \in Range(page) <=> \E j \in 1..Len(page) : page[j] = x
    BY RangeIs
  <2>4. \A i \in 1..Len(items) + Len(page) :
          i \in 1..Len(items) \/ \E j \in 1..Len(page) : i = Len(items) + j
    <3> SUFFICES ASSUME NEW i \in 1..Len(items) + Len(page), i \notin 1..Len(items)
                 PROVE  \E j \in 1..Len(page) : i = Len(items) + j
      OBVIOUS
    <3>1. i - Len(items) \in 1..Len(page) /\ i = Len(items) + (i - Len(items))
      BY <1>1
    <3> QED BY <3>1
  <2>5. \A i \in 1..Len(items) : i \in 1..Len(items) + Len(page)
    BY <1>1
  <2>6. \A j \in 1..Len(page) : Len(items) + j \in 1..Len(items) + Len(page)
    BY <1>1
  <2>7. ASSUME NEW x \in Range(all) PROVE x \in Range(items) \cup Range(page)
    <3>1. PICK i \in 1..Len(items) + Len(page) : all[i] = x
      BY <2>1, <2>7
    <3>2. CASE i \in 1..Len(items)
      BY <1>1, <2>2, <3>1, <3>2
    <3>3. CASE \E j \in 1..Len(page) : i = Len(items) + j
      BY <1>1, <2>3, <3>1, <3>3
    <3> QED BY <2>4, <3>2, <3>3
  <2>8. ASSUME NEW x \in Range(items) PROVE x \in Range(all)
    BY <1>1, <2>1, <2>2, <2>5, <2>8
  <2>9. ASSUME NEW x \in Range(page) PROVE x \in Range(all)
    BY <1>1, <2>1, <2>3, <2>6, <2>9
  <2> QED BY <2>7, <2>8, <2>9
<1>4. /\ IsFiniteSet(Range(unique)) /\ Cardinality(Range(unique)) = Len(unique)
      /\ IsFiniteSet(Range(items)) /\ Cardinality(Range(items)) = Len(items)
      /\ IsFiniteSet(Range(page)) /\ Cardinality(Range(page)) = Len(page)
  BY <1>2, SizeOfRange
<1>5. Cardinality(Range(items) \cup Range(page)) =
        Cardinality(Range(items)) + Cardinality(Range(page)) - Cardinality(Range(items) \cap Range(page))
  BY <1>4, FS_Union
<1>6. Cardinality(Range(items) \cap Range(page)) \in Nat
  BY <1>4, FS_Intersection, FS_CardinalityType
<1>7. Range(page) \cap Range(items) = Range(items) \cap Range(page)
  OBVIOUS
<1>8. Len(all) - Len(unique) = Cardinality(Range(page) \cap Range(items))
  <2>1. Len(unique) = Len(items) + Len(page) - Cardinality(Range(items) \cap Range(page))
    BY <1>2, <1>3, <1>4, <1>5
  <2> DEFINE c == Cardinality(Range(items) \cap Range(page))
             u == Len(unique)
             a == Len(items)
             p == Len(page)
  <2>2. c \in Nat /\ a \in Nat /\ p \in Nat /\ u = a + p - c /\ Len(all) = a + p
    BY <1>1, <1>6, <2>1
  <2>3. (a + p) - u = c
    <3> HIDE DEF a, p, u, c
    <3> QED BY <2>2
  <2> QED BY <1>7, <2>2, <2>3
<1>9. ToSet(unique) = Range(unique) /\ ToSet(items) = Range(items) /\ ToSet(page) = Range(page)
  BY <1>2, ElementsAre
<1> QED BY <1>2, <1>3, <1>8, <1>9 DEF all, unique

(* What NEWS_RECEIVE makes of the news. *)
LEMMA ReceiveIs ==
  ASSUME TypeOK, NEW page \in Seq(NewsItems), Distinct(page)
  PROVE  LET next == Receive(news, page)
         IN /\ next \in NewsTypes /\ IsInjective(next.items) /\ next.fetching = FALSE
            /\ page = <<>> => /\ next.items = news.items /\ next.offset = news.offset
                              /\ next.moreAvailable = FALSE
            /\ page # <<>> => /\ ToSet(next.items) = ToSet(news.items) \cup ToSet(page)
                              /\ next.offset = news.offset + Len(page) + Duplicates(page)
                              /\ next.moreAvailable = TRUE
<1> DEFINE all == news.items \o page
           unique == UniqBy(all)
           offset == news.offset + Len(page) + (Len(all) - Len(unique))
<1>1. news \in NewsTypes /\ news.items \in Seq(NewsItems) /\ Distinct(news.items) /\ IsInjective(news.items)
  BY ElementsAre DEF TypeOK, NewsTypes
<1>2. /\ unique \in Seq(NewsItems) /\ Distinct(unique)
      /\ ToSet(unique) = ToSet(news.items) \cup ToSet(page)
      /\ Len(all) - Len(unique) = Duplicates(page)
  BY <1>1, UniqueItems DEF Duplicates
<1>3. Receive(news, page) = Received(news, page, unique, offset)
  BY DEF Receive
<1> HIDE DEF unique, all
<1>4. offset \in Nat /\ offset = news.offset + Len(page) + Duplicates(page)
  <2>1. Duplicates(page) \in Nat /\ news.offset \in Nat /\ Len(page) \in Nat
    BY <1>1, DuplicatesType DEF NewsTypes
  <2> QED BY <1>2, <2>1
<1> HIDE DEF offset
<1>5. IsInjective(unique)
  BY <1>2, ElementsAre
<1>6. CASE page = <<>>
  <2>1. Receive(news, page) = [news EXCEPT !.fetching = FALSE, !.failed = FALSE, !.moreAvailable = FALSE]
    BY <1>3, <1>6 DEF Received
  <2> QED BY <1>1, <1>6, <2>1 DEF NewsTypes
<1>7. CASE page # <<>>
  <2>1. Receive(news, page) =
          [news EXCEPT !.fetching = FALSE, !.failed = FALSE, !.moreAvailable = TRUE,
                       !.items = unique, !.offset = offset]
    BY <1>3, <1>7 DEF Received
  <2>2. /\ Receive(news, page) \in NewsTypes
        /\ Receive(news, page).items = unique /\ Receive(news, page).offset = offset
        /\ Receive(news, page).fetching = FALSE /\ Receive(news, page).moreAvailable = TRUE
    BY <1>1, <1>2, <1>4, <2>1 DEF NewsTypes
  <2> QED BY <1>2, <1>4, <1>5, <1>7, <2>2
<1> QED BY <1>6, <1>7
-------------------------------------------------------------------------------
(* What is passed, when the list changes and when a page is answered. *)

(* Places of a list are finitely many. *)
LEMMA PlacesAreFinite ==
  ASSUME NEW S, NEW s \in Seq(S), NEW P, P \subseteq DOMAIN s
  PROVE  IsFiniteSet(P) /\ Cardinality(P) \in Nat
<1>1. DOMAIN s = 1..Len(s) /\ 1 \in Int /\ Len(s) \in Int
  OBVIOUS
<1>2. IsFiniteSet(1..Len(s))
  BY ONLY <1>1, FS_Interval
<1> QED BY <1>1, <1>2, FS_Subset, FS_CardinalityType

(* What is passed can be counted. *)
LEMMA PassedIsFinite ==
  ASSUME TypeOK
  PROVE  IsFiniteSet(Passed) /\ Cardinality(Passed) \in Nat
<1>1. server \in Seq(NewsItems) /\ Passed \subseteq DOMAIN server
  BY DEF TypeOK, Passed
<1> QED BY ONLY <1>1, PlacesAreFinite

(* The same after a step. *)
LEMMA PassedStaysFinite ==
  ASSUME TypeOK'
  PROVE  IsFiniteSet(Passed') /\ Cardinality(Passed') \in Nat
<1>1. server' \in Seq(NewsItems) /\ Passed' \subseteq DOMAIN server'
  BY DEF TypeOK, Passed
<1> QED BY ONLY <1>1, PlacesAreFinite

(* A set fits into another if each of its elements has a place of its own there. *)
LEMMA PassedFit ==
  ASSUME NEW S, NEW T, IsFiniteSet(T), NEW f \in [S -> T],
         \A x, y \in S : f[x] = f[y] => x = y
  PROVE  Cardinality(S) <= Cardinality(T)
<1>1. f \in Injection(S, T)
  BY DEF Injection, IsInjective
<1> QED BY <1>1, FS_Injection

(* What InsertAt makes of a list, by the place. *)
LEMMA InsertedIs ==
  ASSUME NEW S, NEW s, s \in Seq(S), NEW x, x \in S, NEW k, k \in 1..Len(s) + 1
  PROVE  LET t == InsertAt(s, k, x)
         IN /\ t \in Seq(S) /\ Len(t) = Len(s) + 1
            /\ \A i \in 1..k - 1 : t[i] = s[i]
            /\ t[k] = x
            /\ \A i \in k..Len(s) : t[i + 1] = s[i]
<1>1. PICK m \in 0..Len(s) : m + 1 = k
  <2>1. k - 1 \in 0..Len(s) /\ (k - 1) + 1 = k
    OBVIOUS
  <2> QED BY <2>1
<1>2. s \in Seq(S) /\ x \in S /\ m \in 0..Len(s)
  OBVIOUS
<1>3. /\ InsertAt(s, m + 1, x) \in Seq(S)
      /\ Len(InsertAt(s, m + 1, x)) = Len(s) + 1
  BY ONLY <1>2, InsertIs
<1>4. \A i \in 1..m : InsertAt(s, m + 1, x)[i] = s[i]
  BY ONLY <1>2, InsertIs
<1>5. InsertAt(s, m + 1, x)[m + 1] = x
  BY ONLY <1>2, InsertIs
<1>6. \A i \in m + 1..Len(s) : InsertAt(s, m + 1, x)[i + 1] = s[i]
  BY ONLY <1>2, InsertIs
<1>7. m = k - 1
  BY <1>1
<1> QED BY <1>1, <1>3, <1>4, <1>5, <1>6, <1>7

(* An item that comes is not one that was listed all the time, and moves others down. *)
LEMMA PublishStep ==
  ASSUME FeedInv, Publish, TypeOK'
  PROVE  FeedInv'
<1> DEFINE n == Len(server)
<1>1. /\ server \in Seq(NewsItems) /\ n \in Nat /\ news.offset \in Nat
      /\ listed \subseteq ToSet(server)
  BY DEF FeedInv, TypeOK, NewsTypes
<1>2. UNCHANGED <<news, asked, listed, repeated, withdrawn, overtaken>>
  BY DEF Publish, history
<1>3. PICK x \in NewsItems \ ToSet(server), k \in 1..n + 1 : server' = InsertAt(server, k, x)
  BY DEF Publish
<1>4. /\ server' \in Seq(NewsItems) /\ Len(server') = n + 1
      /\ \A i \in 1..k - 1 : server'[i] = server[i]
      /\ server'[k] = x
      /\ \A i \in k..n : server'[i + 1] = server[i]
  <2>1. server \in Seq(NewsItems) /\ x \in NewsItems /\ k \in 1..Len(server) + 1
    BY <1>1
  <2>2. LET t == InsertAt(server, k, x)
        IN /\ t \in Seq(NewsItems) /\ Len(t) = Len(server) + 1
           /\ \A i \in 1..k - 1 : t[i] = server[i]
           /\ t[k] = x
           /\ \A i \in k..Len(server) : t[i + 1] = server[i]
    BY ONLY <2>1, InsertedIs
  <2> QED BY <1>3, <2>2
<1>5. listed' \subseteq ToSet(server')
  <2> SUFFICES ASSUME NEW y \in listed PROVE y \in ToSet(server')
    BY <1>2
  <2>1. PICK i \in 1..n : server[i] = y
    BY <1>1, ElementsAre
  <2>2. \E j \in 1..n + 1 : server'[j] = y
    <3>1. CASE i < k
      <4>1. i \in 1..k - 1 /\ i \in 1..n + 1
        BY <1>1, <3>1
      <4> QED BY <1>4, <2>1, <4>1
    <3>2. CASE i >= k
      <4>1. i \in k..n /\ i + 1 \in 1..n + 1
        BY <1>1, <3>2
      <4> QED BY <1>4, <2>1, <4>1
    <3> QED BY <1>1, <3>1, <3>2
  <2> HIDE DEF n
  <2> QED BY <1>4, <2>2, ElementsAre
<1>6. Cardinality(Passed') <= Cardinality(Passed)
  <2> DEFINE Place(j) == IF j < k THEN j ELSE j - 1
             f == [j \in Passed' |-> Place(j)]
  <2>1. ASSUME NEW j \in Passed'
        PROVE  j \in Nat /\ j # k /\ Place(j) \in Passed
    <3>1. /\ j \in 1..n + 1 /\ server'[j] \in listed /\ server'[j] \notin ToSet(news.items)
          /\ j <= news.offset \/ ~news.moreAvailable
      BY <1>2, <1>4, <2>1 DEF Passed
    <3>2. j # k
      BY <1>1, <1>3, <1>4, <3>1
    <3>3. CASE j < k
      <4>1. j \in 1..k - 1 /\ j \in 1..n
        BY <1>1, <3>1, <3>3
      <4>2. server'[j] = server[j]
        BY <1>4, <4>1
      <4> QED BY <3>1, <3>2, <3>3, <4>1, <4>2 DEF Passed
    <3>4. CASE j > k
      <4>1. j - 1 \in k..n /\ (j - 1) + 1 = j /\ j - 1 \in 1..n
        BY <1>1, <3>1, <3>4
      <4>2. server'[j] = server[j - 1]
        BY <1>4, <4>1
      <4>3. j - 1 <= news.offset \/ ~news.moreAvailable
        BY <1>1, <3>1
      <4>4. j - 1 \in Passed
        BY <1>1, <3>1, <4>1, <4>2, <4>3 DEF Passed
      <4>5. Place(j) = j - 1
        BY <3>1, <3>4
      <4> QED BY <3>1, <3>2, <4>4, <4>5
    <3> QED BY <1>1, <3>1, <3>2, <3>3, <3>4
  <2>2. f \in [Passed' -> Passed]
    BY <2>1
  <2>3. \A i, j \in Passed' : f[i] = f[j] => i = j
    <3> SUFFICES ASSUME NEW i \in Passed', NEW j \in Passed', Place(i) = Place(j) PROVE i = j
      OBVIOUS
    <3>1. i \in Nat /\ i # k /\ j \in Nat /\ j # k /\ k \in Nat
      BY <2>1
    <3> QED BY ONLY <3>1, Place(i) = Place(j)
  <2>4. IsFiniteSet(Passed)
    BY PassedIsFinite DEF FeedInv
  <2> HIDE DEF f
  <2> QED BY <2>2, <2>3, <2>4, PassedFit
<1>7. overtaken' \/ (OneRequest' /\ Cardinality(Passed') <= repeated' + withdrawn')
  <2> SUFFICES ASSUME ~overtaken PROVE OneRequest' /\ Cardinality(Passed') <= repeated' + withdrawn'
    BY <1>2
  <2>1. OneRequest /\ Cardinality(Passed) <= repeated + withdrawn
    BY DEF FeedInv
  <2>2. OneRequest'
    BY <1>2, <2>1 DEF OneRequest
  <2>3. Cardinality(Passed) \in Nat /\ Cardinality(Passed') \in Nat /\ repeated \in Nat /\ withdrawn \in Nat
    BY PassedIsFinite, PassedStaysFinite DEF FeedInv, TypeOK
  <2>4. Cardinality(Passed') <= repeated + withdrawn
    BY ONLY <1>6, <2>1, <2>3
  <2> QED BY <1>2, <2>2, <2>4
<1> QED BY <1>5, <1>7 DEF FeedInv

(***************************************************************************)
(* When an item goes from above the offset, the next item moves up past    *)
(* it: one is passed that was not, and is counted.                         *)
(***************************************************************************)
LEMMA WithdrawStep ==
  ASSUME FeedInv, Withdraw, TypeOK'
  PROVE  FeedInv'
<1> DEFINE n == Len(server)
           o == news.offset
<1>1. /\ server \in Seq(NewsItems) /\ n \in Nat /\ o \in Nat /\ news.moreAvailable \in BOOLEAN
      /\ listed \subseteq ToSet(server)
  BY DEF FeedInv, TypeOK, NewsTypes
<1>2. UNCHANGED <<news, asked, repeated, overtaken>>
  BY DEF Withdraw
<1>3. PICK k \in 1..n : /\ server' = RemoveAt(server, k)
                        /\ listed' = listed \ {server[k]}
                        /\ withdrawn' = IF k <= o THEN withdrawn + 1 ELSE withdrawn
  <2>1. DOMAIN server = 1..n
    BY <1>1
  <2> QED BY <2>1 DEF Withdraw
<1>4. /\ server' \in Seq(NewsItems) /\ Len(server') = n - 1
      /\ \A i \in 1..k - 1 : server'[i] = server[i]
      /\ \A i \in k..n - 1 : server'[i] = server[i + 1]
  BY <1>1, <1>3, RemoveIs
<1>5. listed' \subseteq ToSet(server')
  <2> SUFFICES ASSUME NEW y \in listed, y # server[k] PROVE y \in ToSet(server')
    BY <1>3
  <2>1. PICK i \in 1..n : server[i] = y
    BY <1>1, ElementsAre
  <2>2. \E j \in 1..n - 1 : server'[j] = y
    <3>1. CASE i < k
      <4>1. i \in 1..k - 1 /\ i \in 1..n - 1
        BY <1>1, <3>1
      <4> QED BY <1>4, <2>1, <4>1
    <3>2. CASE i > k
      <4>1. i - 1 \in k..n - 1 /\ i - 1 \in 1..n - 1 /\ (i - 1) + 1 = i
        BY <1>1, <3>2
      <4> QED BY <1>4, <2>1, <4>1
    <3> QED BY <1>1, <2>1, <3>1, <3>2
  <2> HIDE DEF n
  <2> QED BY <1>4, <2>2, ElementsAre
<1> DEFINE Next1 == IF k <= o THEN {o + 1} ELSE {}
<1>6. Cardinality(Passed') <= Cardinality(Passed \cup Next1)
  <2> DEFINE Place(j) == IF j < k THEN j ELSE j + 1
             f == [j \in Passed' |-> Place(j)]
  <2>1. ASSUME NEW j \in Passed'
        PROVE  j \in Nat /\ Place(j) \in Passed \cup Next1
    <3>1. /\ j \in 1..n - 1 /\ server'[j] \in listed /\ server'[j] \notin ToSet(news.items)
          /\ j <= o \/ ~news.moreAvailable
      BY <1>2, <1>3, <1>4, <2>1 DEF Passed
    <3>2. CASE j < k
      <4>1. j \in 1..k - 1 /\ j \in 1..n
        BY <1>1, <3>1, <3>2
      <4>2. server'[j] = server[j]
        BY <1>4, <4>1
      <4> QED BY <3>1, <3>2, <4>1, <4>2 DEF Passed
    <3>3. CASE j >= k
      <4>1. j \in k..n - 1 /\ j + 1 \in 1..n
        BY <1>1, <3>1, <3>3
      <4>2. server'[j] = server[j + 1]
        BY <1>4, <4>1
      <4>3. Place(j) = j + 1
        BY <3>1, <3>3
      <4>4. CASE j + 1 <= o \/ ~news.moreAvailable
        BY <3>1, <4>1, <4>2, <4>3, <4>4 DEF Passed
      <4>5. CASE ~(j + 1 <= o \/ ~news.moreAvailable)
        <5>1. j = o /\ k <= o
          BY <1>1, <3>1, <3>3, <4>5
        <5> QED BY <3>1, <4>3, <5>1
      <4> QED BY <3>1, <4>4, <4>5
    <3> QED BY <1>1, <3>1, <3>2, <3>3
  <2>2. f \in [Passed' -> Passed \cup Next1]
    <3> HIDE DEF Next1
    <3> QED BY <2>1
  <2>3. \A i, j \in Passed' : f[i] = f[j] => i = j
    <3> SUFFICES ASSUME NEW i \in Passed', NEW j \in Passed', Place(i) = Place(j) PROVE i = j
      OBVIOUS
    <3>1. i \in Nat /\ j \in Nat /\ k \in Nat
      BY <2>1
    <3> QED BY ONLY <3>1, Place(i) = Place(j)
  <2>4. IsFiniteSet(Passed \cup Next1)
    <3>1. IsFiniteSet(Passed)
      BY PassedIsFinite DEF FeedInv
    <3>2. IsFiniteSet(Passed \cup {o + 1})
      BY ONLY <3>1, FS_AddElement
    <3>3. Passed \cup Next1 = Passed \cup {o + 1} \/ Passed \cup Next1 = Passed
      OBVIOUS
    <3> HIDE DEF Next1
    <3> QED BY <3>1, <3>2, <3>3
  <2> HIDE DEF f, Next1
  <2> QED BY <2>2, <2>3, <2>4, PassedFit
<1>7. overtaken' \/ (OneRequest' /\ Cardinality(Passed') <= repeated' + withdrawn')
  <2> SUFFICES ASSUME ~overtaken PROVE OneRequest' /\ Cardinality(Passed') <= repeated' + withdrawn'
    BY <1>2
  <2>1. OneRequest /\ Cardinality(Passed) <= repeated + withdrawn
    BY DEF FeedInv
  <2>2. OneRequest'
    BY <1>2, <2>1 DEF OneRequest
  <2>3. /\ Cardinality(Passed) \in Nat /\ Cardinality(Passed') \in Nat /\ IsFiniteSet(Passed)
        /\ repeated \in Nat /\ withdrawn \in Nat
    BY PassedIsFinite, PassedStaysFinite DEF FeedInv, TypeOK
  <2>4. Cardinality(Passed') <= repeated' + withdrawn'
    <3>1. CASE k <= o
      <4>1. Cardinality(Passed \cup {o + 1}) =
              IF o + 1 \in Passed THEN Cardinality(Passed) ELSE Cardinality(Passed) + 1
        BY <2>3, FS_AddElement
      <4>2. Passed \cup Next1 = Passed \cup {o + 1}
        BY <3>1
      <4> DEFINE c == Cardinality(Passed)
                 cn == Cardinality(Passed')
                 cu == Cardinality(Passed \cup Next1)
      <4>3. /\ c \in Nat /\ cn \in Nat /\ cn <= cu /\ (cu = c \/ cu = c + 1)
            /\ c <= repeated + withdrawn
        BY <1>6, <2>1, <2>3, <4>1, <4>2
      <4>4. repeated' = repeated /\ withdrawn' = withdrawn + 1
        BY <1>2, <1>3, <3>1
      <4> HIDE DEF c, cn, cu
      <4>5. cn <= repeated + (withdrawn + 1)
        BY ONLY <2>3, <4>3
      <4> QED BY <4>4, <4>5 DEF cn
    <3>2. CASE ~(k <= o)
      <4>1. Passed \cup Next1 = Passed
        BY <3>2
      <4>2. withdrawn' = withdrawn /\ repeated' = repeated
        BY <1>2, <1>3, <3>2
      <4>3. Cardinality(Passed') <= Cardinality(Passed)
        BY <1>6, <4>1
      <4> DEFINE c == Cardinality(Passed)
                 cn == Cardinality(Passed')
      <4>4. c \in Nat /\ cn \in Nat /\ cn <= c /\ c <= repeated + withdrawn
        BY <2>1, <2>3, <4>3
      <4> HIDE DEF c, cn
      <4>5. cn <= repeated + withdrawn
        BY ONLY <2>3, <4>4
      <4> QED BY <4>2, <4>5 DEF cn
    <3> QED BY <3>1, <3>2
  <2> QED BY <2>2, <2>4
<1> QED BY <1>5, <1>7 DEF FeedInv

(***************************************************************************)
(* A page that begins at the offset: what is passed now and was not lies   *)
(* in as many places after the page as it had items shown already.         *)
(***************************************************************************)
LEMMA AnswerStep ==
  ASSUME FeedInv, Answer, TypeOK'
  PROVE  FeedInv'
<1> DEFINE n == Len(server)
           o == news.offset
<1>1. /\ server \in Seq(NewsItems) /\ n \in Nat /\ o \in Nat /\ news.moreAvailable \in BOOLEAN
      /\ listed \subseteq ToSet(server) /\ TypeOK
  BY DEF FeedInv, TypeOK, NewsTypes
<1>2. PICK i \in DOMAIN asked : /\ news' = Receive(news, Page(asked[i]))
                               /\ repeated' = repeated + Duplicates(Page(asked[i]))
                               /\ asked' = RemoveAt(asked, i)
                               /\ UNCHANGED <<server, listed, withdrawn, overtaken>>
  BY DEF Answer
<1>3. listed' \subseteq ToSet(server')
  BY <1>1, <1>2
<1>4. ASSUME ~overtaken
      PROVE  OneRequest' /\ Cardinality(Passed') <= repeated' + withdrawn'
  <2>1. asked = <<o>> /\ Cardinality(Passed) <= repeated + withdrawn
    <3>1. asked # <<>>
      BY <1>2
    <3> QED BY <1>4, <3>1 DEF FeedInv, OneRequest
  <2>2. asked[i] = o /\ asked' = <<>>
    BY <1>1, <1>2, <2>1 DEF RemoveAt
  <2> DEFINE page == Page(o)
             d == Duplicates(page)
             p == Len(page)
  <2>3. /\ page \in Seq(NewsItems) /\ Distinct(page)
        /\ page = <<>> => o >= n
        /\ \A j \in 1..p : o + j \in 1..n /\ page[j] = server[o + j]
    BY <1>1, PageIs
  <2> HIDE DEF page
  <2>4. /\ news'.fetching = FALSE
        /\ page = <<>> => /\ news'.items = news.items /\ news'.offset = o
                          /\ news'.moreAvailable = FALSE
        /\ page # <<>> => /\ ToSet(news'.items) = ToSet(news.items) \cup ToSet(page)
                          /\ news'.offset = o + p + d
                          /\ news'.moreAvailable = TRUE
    BY <1>1, <1>2, <2>2, <2>3, ReceiveIs DEF page
  <2>5. d \in Nat /\ p \in Nat /\ repeated' = repeated + d
    BY <1>2, <2>2, <2>3, DuplicatesType DEF page
  <2>6. /\ Cardinality(Passed) \in Nat /\ Cardinality(Passed') \in Nat
        /\ IsFiniteSet(Passed) /\ repeated \in Nat /\ withdrawn \in Nat
    BY <1>1, PassedIsFinite, PassedStaysFinite DEF TypeOK
  <2> HIDE DEF d
  <2>7. CASE page = <<>>
    <3>1. Passed' \subseteq Passed
      BY <1>1, <1>2, <2>3, <2>4, <2>7 DEF Passed
    <3>2. Cardinality(Passed') <= Cardinality(Passed)
      BY <2>6, <3>1, FS_Subset
    <3>3. withdrawn' = withdrawn
      BY <1>2
    <3> QED BY <2>1, <2>2, <2>4, <2>5, <2>6, <3>2, <3>3 DEF OneRequest
  <2>8. CASE page # <<>>
    <3> DEFINE after == (o + p + 1)..(o + p + d)
    <3>1. Passed' \subseteq Passed \cup after
      <4> SUFFICES ASSUME NEW j \in Passed', j \notin after PROVE j \in Passed
        OBVIOUS
      <4>1. /\ j \in 1..n /\ server[j] \in listed /\ server[j] \notin ToSet(news'.items)
            /\ j <= o + p + d
        BY <1>1, <1>2, <2>4, <2>8 DEF Passed
      <4>2. server[j] \notin ToSet(news.items) /\ server[j] \notin ToSet(page)
        BY <2>4, <2>8, <4>1
      <4>3. j <= o + p
        BY <1>1, <2>5, <4>1
      <4>4. j <= o
        <5> SUFFICES ASSUME j > o PROVE FALSE
          BY <1>1, <4>1
        <5>1. j - o \in 1..p /\ o + (j - o) = j
          BY <1>1, <2>5, <4>1, <4>3
        <5>2. page[j - o] = server[j]
          BY <2>3, <5>1
        <5>3. page[j - o] \in ToSet(page)
          BY <2>3, <5>1, ElementsAre
        <5> QED BY <4>2, <5>2, <5>3
      <4> QED BY <1>1, <4>1, <4>2, <4>4 DEF Passed
    <3>2. IsFiniteSet(after) /\ Cardinality(after) = d
      <4>1. o + p + 1 \in Int /\ o + p + d \in Int
        BY <1>1, <2>5
      <4>2. /\ IsFiniteSet(after)
            /\ Cardinality(after) = IF o + p + 1 > o + p + d THEN 0 ELSE (o + p + d) - (o + p + 1) + 1
        BY ONLY <4>1, FS_Interval
      <4> HIDE DEF after
      <4> QED BY <1>1, <2>5, <4>2
    <3> HIDE DEF after
    <3>3. /\ IsFiniteSet(Passed \cup after)
          /\ Cardinality(Passed \cup after) =
               Cardinality(Passed) + Cardinality(after) - Cardinality(Passed \cap after)
          /\ Cardinality(Passed \cap after) \in Nat
      BY <2>6, <3>2, FS_Union, FS_Intersection, FS_CardinalityType
    <3>4. Cardinality(Passed') <= Cardinality(Passed \cup after)
      BY <3>1, <3>3, FS_Subset
    <3>5. withdrawn' = withdrawn
      BY <1>2
    <3>6. Cardinality(Passed') <= repeated' + withdrawn'
      BY <2>1, <2>5, <2>6, <3>2, <3>3, <3>4, <3>5
    <3> QED BY <2>2, <2>4, <3>6 DEF OneRequest
  <2> QED BY <2>7, <2>8
<1> QED BY <1>2, <1>3, <1>4 DEF FeedInv
-------------------------------------------------------------------------------
(* The news, whatever happens. *)

(* Without one of its items a list still has no item twice. *)
LEMMA RemovedOnce ==
  ASSUME NEW S, NEW s \in Seq(S), Distinct(s), NEW k \in 1..Len(s)
  PROVE  RemoveAt(s, k) \in Seq(S) /\ IsInjective(RemoveAt(s, k))
<1> DEFINE n == Len(s)
<1>0. n \in Nat /\ k \in 1..n
  OBVIOUS
<1>1. PICK t : /\ t = RemoveAt(s, k) /\ t \in Seq(S) /\ Len(t) = n - 1
               /\ \A i \in 1..k - 1 : t[i] = s[i]
               /\ \A i \in k..n - 1 : t[i] = s[i + 1]
  BY RemoveIs
<1> DEFINE Place(i) == IF i < k THEN i ELSE i + 1
<1>2. ASSUME NEW i \in 1..n - 1
      PROVE  Place(i) \in 1..n /\ t[i] = s[Place(i)]
  <2>1. CASE i < k
    <3>1. i \in 1..k - 1 /\ i \in 1..n
      BY <1>0, <2>1
    <3> QED BY <1>1, <2>1, <3>1
  <2>2. CASE ~(i < k)
    <3>1. i \in k..n - 1 /\ i + 1 \in 1..n
      BY <1>0, <2>2
    <3> QED BY <1>1, <2>2, <3>1
  <2> QED BY <2>1, <2>2
<1>3. Distinct(t)
  <2> SUFFICES ASSUME NEW i \in 1..n - 1, NEW j \in 1..n - 1, t[i] = t[j] PROVE i = j
    BY <1>1 DEF Distinct
  <2>1. /\ Place(i) \in 1..n /\ t[i] = s[Place(i)]
        /\ Place(j) \in 1..n /\ t[j] = s[Place(j)]
    <3> HIDE DEF Place, n
    <3> QED BY <1>2
  <2>2. Place(i) = Place(j)
    <3> HIDE DEF Place
    <3> QED BY <2>1 DEF Distinct
  <2>3. i \in Int /\ j \in Int /\ k \in Int
    BY <1>0
  <2> HIDE DEF n
  <2> QED BY ONLY <2>2, <2>3 DEF Place
<1> QED BY <1>1, <1>3, ElementsAre

(* With a new item it has none either. *)
LEMMA InsertedOnce ==
  ASSUME NEW S, NEW s \in Seq(S), Distinct(s), NEW x \in S, x \notin ToSet(s), NEW k \in 1..Len(s) + 1
  PROVE  InsertAt(s, k, x) \in Seq(S) /\ IsInjective(InsertAt(s, k, x))
<1> DEFINE n == Len(s)
<1>0. n \in Nat /\ k \in 1..n + 1
  OBVIOUS
<1> DEFINE t == InsertAt(s, k, x)
<1>1. /\ t \in Seq(S) /\ Len(t) = n + 1
      /\ \A i \in 1..k - 1 : t[i] = s[i]
      /\ t[k] = x
      /\ \A i \in k..n : t[i + 1] = s[i]
  <2>1. s \in Seq(S) /\ x \in S /\ k \in 1..Len(s) + 1
    OBVIOUS
  <2>2. t \in Seq(S) /\ Len(t) = Len(s) + 1
    BY ONLY <2>1, InsertedIs
  <2>3. \A i \in 1..k - 1 : t[i] = s[i]
    BY ONLY <2>1, InsertedIs
  <2>4. t[k] = x
    BY ONLY <2>1, InsertedIs
  <2>5. ASSUME NEW i \in k..Len(s) PROVE t[i + 1] = s[i]
    <3>1. \A j \in k..Len(s) : InsertAt(s, k, x)[j + 1] = s[j]
      BY ONLY <2>1, InsertedIs
    <3> QED BY <3>1
  <2> HIDE DEF t
  <2> QED BY <2>2, <2>3, <2>4, <2>5
<1> HIDE DEF t
<1> DEFINE Place(i) == IF i < k THEN i ELSE i - 1
<1>2. ASSUME NEW i \in 1..n + 1, i # k
      PROVE  Place(i) \in 1..n /\ t[i] = s[Place(i)]
  <2>1. CASE i < k
    <3>1. i \in 1..k - 1 /\ i \in 1..n
      BY <1>0, <2>1
    <3> QED BY <1>1, <2>1, <3>1
  <2>2. CASE i > k
    <3>1. i - 1 \in k..n /\ i - 1 \in 1..n /\ (i - 1) + 1 = i
      BY <1>0, <2>2
    <3>2. t[(i - 1) + 1] = s[i - 1]
      BY <1>1, <3>1
    <3>3. Place(i) = i - 1
      BY <1>0, <2>2
    <3> QED BY <3>1, <3>2, <3>3
  <2> QED BY <1>0, <1>2, <2>1, <2>2
<1>3. \A i \in 1..n : s[i] # x
  BY ElementsAre
<1>4. Distinct(t)
  <2> SUFFICES ASSUME NEW i \in 1..n + 1, NEW j \in 1..n + 1, t[i] = t[j] PROVE i = j
    BY <1>1 DEF Distinct
  <2>1. i = k <=> j = k
    <3> HIDE DEF Place, n
    <3> QED BY <1>1, <1>2, <1>3
  <2>2. CASE i = k
    BY <2>1, <2>2
  <2>3. CASE i # k
    <3>1. /\ Place(i) \in 1..n /\ t[i] = s[Place(i)]
          /\ Place(j) \in 1..n /\ t[j] = s[Place(j)]
      <4> HIDE DEF Place, n
      <4> QED BY <1>2, <2>1, <2>3
    <3>2. Place(i) = Place(j)
      <4> HIDE DEF Place
      <4> QED BY <3>1 DEF Distinct
    <3>3. i \in Int /\ j \in Int /\ k \in Int /\ i # k /\ j # k
      BY <1>0, <2>1, <2>3
    <3> HIDE DEF n
    <3> QED BY ONLY <3>2, <3>3 DEF Place
  <2> QED BY <2>2, <2>3
<1> QED BY <1>1, <1>4, ElementsAre DEF t

(* Without a request that is answered, those in flight are a list. *)
LEMMA RemoveType ==
  ASSUME NEW S, NEW s \in Seq(S), NEW k \in DOMAIN s
  PROVE  RemoveAt(s, k) \in Seq(S)
<1>1. k \in 1..Len(s)
  OBVIOUS
<1> QED BY <1>1, RemoveIs

(* Each step keeps the types. *)
LEMMA TypesStep ==
  ASSUME TypeOK, [Next]_vars
  PROVE  TypeOK'
<1>1. /\ server \in Seq(NewsItems) /\ IsInjective(server) /\ Distinct(server)
      /\ news \in NewsTypes /\ IsInjective(news.items) /\ asked \in Seq(Nat)
      /\ listed \in SUBSET NewsItems /\ repeated \in Nat /\ withdrawn \in Nat /\ overtaken \in BOOLEAN
  BY ElementsAre DEF TypeOK
<1>2. ToSet(server) \in SUBSET NewsItems
  BY <1>1, ElementsAre
<1>3. CASE Publish
  <2>1. UNCHANGED <<news, asked, listed, repeated, withdrawn, overtaken>>
    BY <1>3 DEF Publish, history
  <2>2. PICK x \in NewsItems \ ToSet(server), k \in 1..(Len(server) + 1) : server' = InsertAt(server, k, x)
    BY <1>3 DEF Publish
  <2>3. server' \in Seq(NewsItems) /\ IsInjective(server')
    BY <1>1, <2>2, InsertedOnce
  <2> QED BY <1>1, <2>1, <2>3 DEF TypeOK
<1>4. CASE Withdraw
  <2>1. UNCHANGED <<news, asked, repeated, overtaken>>
    BY <1>4 DEF Withdraw
  <2>2. PICK k \in DOMAIN server : /\ server' = RemoveAt(server, k)
                                   /\ listed' = listed \ {server[k]}
                                   /\ withdrawn' = IF k <= news.offset THEN withdrawn + 1 ELSE withdrawn
    BY <1>4 DEF Withdraw
  <2>3. k \in 1..Len(server)
    BY <1>1
  <2>4. server' \in Seq(NewsItems) /\ IsInjective(server')
    BY <1>1, <2>2, <2>3, RemovedOnce
  <2>5. listed' \in SUBSET NewsItems /\ withdrawn' \in Nat
    BY <1>1, <2>2
  <2> QED BY <1>1, <2>1, <2>4, <2>5 DEF TypeOK
<1>5. CASE Show
  <2>1. UNCHANGED <<server, listed, repeated, withdrawn, overtaken>>
    BY <1>5 DEF Show, history
  <2>2. news' = [news EXCEPT !.fetching = TRUE, !.failed = FALSE] /\ asked' = Append(asked, news.offset)
    BY <1>5 DEF Show, Fetch
  <2>3. news' \in NewsTypes /\ news'.items = news.items /\ news.offset \in Nat
    BY <1>1, <2>2 DEF NewsTypes
  <2>4. asked' \in Seq(Nat)
    BY <1>1, <2>2, <2>3
  <2> QED BY <1>1, <2>1, <2>3, <2>4 DEF TypeOK
<1>6. CASE Refresh
  <2>1. /\ UNCHANGED server /\ listed' = ToSet(server) /\ repeated' = 0 /\ withdrawn' = 0
        /\ overtaken' \in BOOLEAN
    BY <1>6 DEF Refresh
  <2>2. /\ news' = [InitialState EXCEPT !.fetching = TRUE, !.failed = FALSE]
        /\ asked' = Append(asked, InitialState.offset)
    BY <1>6 DEF Refresh, Fetch
  <2>3. <<>> \in Seq(NewsItems) /\ IsInjective(<<>>)
    BY DEF IsInjective
  <2>4. news' \in NewsTypes /\ news'.items = <<>> /\ InitialState.offset = 0
    BY <2>2, <2>3 DEF NewsTypes, InitialState
  <2>5. asked' \in Seq(Nat)
    BY <1>1, <2>2, <2>4
  <2> QED BY <1>1, <1>2, <2>1, <2>3, <2>4, <2>5 DEF TypeOK
<1>7. CASE Answer
  <2>1. PICK i \in DOMAIN asked : /\ news' = Receive(news, Page(asked[i]))
                                 /\ repeated' = repeated + Duplicates(Page(asked[i]))
                                 /\ asked' = RemoveAt(asked, i)
                                 /\ UNCHANGED <<server, listed, withdrawn, overtaken>>
    BY <1>7 DEF Answer
  <2>2. asked[i] \in Nat /\ asked' \in Seq(Nat)
    BY <1>1, <2>1, RemoveType
  <2> DEFINE page == Page(asked[i])
  <2>3. page \in Seq(NewsItems) /\ Distinct(page)
    BY <2>2, PageIs
  <2> HIDE DEF page
  <2>4. news' \in NewsTypes /\ IsInjective(news'.items)
    BY <2>1, <2>3, ReceiveIs DEF page
  <2>5. repeated' \in Nat
    BY <1>1, <2>1, <2>3, DuplicatesType DEF page
  <2> QED BY <1>1, <2>1, <2>2, <2>4, <2>5 DEF TypeOK
<1>8. CASE Fail
  <2>1. PICK i \in DOMAIN asked : /\ news' = [news EXCEPT !.fetching = FALSE, !.failed = TRUE]
                                 /\ asked' = RemoveAt(asked, i)
                                 /\ UNCHANGED <<server, listed, repeated, withdrawn, overtaken>>
    BY <1>8 DEF Fail, history
  <2>2. asked' \in Seq(Nat)
    BY <1>1, <2>1, RemoveType
  <2>3. news' \in NewsTypes /\ news'.items = news.items
    BY <1>1, <2>1 DEF NewsTypes
  <2> QED BY <1>1, <2>1, <2>2, <2>3 DEF TypeOK
<1>9. CASE UNCHANGED vars
  BY <1>1, <1>9 DEF vars, history, TypeOK
<1> QED BY <1>3, <1>4, <1>5, <1>6, <1>7, <1>8, <1>9 DEF Next

(* A request is for the offset of now, and there is no other. *)
LEMMA ShowStep ==
  ASSUME FeedInv, Show, TypeOK'
  PROVE  FeedInv'
<1>1. UNCHANGED <<server, listed, repeated, withdrawn, overtaken>> /\ ~news.fetching
  BY DEF Show, history
<1>2. news' = [news EXCEPT !.fetching = TRUE, !.failed = FALSE] /\ asked' = Append(asked, news.offset)
  BY DEF Show, Fetch
<1>3. /\ news'.fetching = TRUE /\ news'.items = news.items /\ news'.offset = news.offset
      /\ news'.moreAvailable = news.moreAvailable
  BY <1>2 DEF FeedInv, TypeOK, NewsTypes
<1>4. Passed' = Passed
  BY <1>1, <1>3 DEF Passed
<1>5. OneRequest => OneRequest'
  BY <1>1, <1>2, <1>3 DEF OneRequest
<1> QED BY <1>1, <1>4, <1>5 DEF FeedInv

(* After a refresh nothing is passed; and unless a request is in flight, its own is the only one. *)
LEMMA RefreshStep ==
  ASSUME FeedInv, Refresh, TypeOK'
  PROVE  FeedInv'
<1>1. /\ UNCHANGED server /\ listed' = ToSet(server) /\ repeated' = 0 /\ withdrawn' = 0
      /\ overtaken' = (asked # <<>>)
  BY DEF Refresh
<1>2. /\ news' = [InitialState EXCEPT !.fetching = TRUE, !.failed = FALSE]
      /\ asked' = Append(asked, InitialState.offset)
  BY DEF Refresh, Fetch
<1>3. /\ news'.fetching = TRUE /\ news'.offset = 0 /\ news'.moreAvailable = TRUE
      /\ InitialState.offset = 0
  BY <1>2 DEF InitialState
<1>4. Passed' = {}
  <2>1. \A i \in DOMAIN server : i \in Nat /\ i >= 1
    BY DEF FeedInv, TypeOK
  <2> QED BY <1>1, <1>3, <2>1 DEF Passed
<1>5. overtaken' \/ OneRequest'
  <2> SUFFICES ASSUME asked = <<>> PROVE OneRequest'
    BY <1>1
  <2> QED BY <1>2, <1>3 DEF OneRequest
<1> QED BY <1>1, <1>4, <1>5, FS_EmptySet DEF FeedInv

(* After an error there is no request, and nothing else has changed. *)
LEMMA FailStep ==
  ASSUME FeedInv, Fail, TypeOK'
  PROVE  FeedInv'
<1>1. PICK i \in DOMAIN asked : /\ news' = [news EXCEPT !.fetching = FALSE, !.failed = TRUE]
                               /\ asked' = RemoveAt(asked, i)
                               /\ UNCHANGED <<server, listed, repeated, withdrawn, overtaken>>
  BY DEF Fail, history
<1>2. /\ news'.fetching = FALSE /\ news'.items = news.items /\ news'.offset = news.offset
      /\ news'.moreAvailable = news.moreAvailable /\ news.offset \in Nat
  BY <1>1 DEF FeedInv, TypeOK, NewsTypes
<1>3. Passed' = Passed
  BY <1>1, <1>2 DEF Passed
<1>4. ASSUME OneRequest PROVE OneRequest'
  <2>1. asked = <<news.offset>>
    BY <1>1, <1>4 DEF OneRequest
  <2>2. asked' = <<>>
    BY <1>1, <1>2, <2>1 DEF RemoveAt
  <2> QED BY <1>2, <2>2 DEF OneRequest
<1> QED BY <1>1, <1>3, <1>4 DEF FeedInv

(* At the beginning nothing is passed. *)
LEMMA Starts ==
  ASSUME Init
  PROVE  FeedInv
<1>1. PICK list \in [1..InitialItems -> NewsItems] : server = list /\ IsInjective(list)
  BY DEF Init
<1>2. server \in Seq(NewsItems) /\ IsInjective(server)
  BY <1>1, NewsFeedAssumption
<1>3. <<>> \in Seq(NewsItems) /\ IsInjective(<<>>) /\ <<>> \in Seq(Nat) /\ 0 \in Nat
  BY DEF IsInjective
<1>4. news \in NewsTypes /\ IsInjective(news.items)
  BY <1>3 DEF Init, InitialState, NewsTypes
<1>5. TypeOK
  BY <1>2, <1>3, <1>4, ElementsAre DEF Init, TypeOK
<1>6. Passed = {}
  <2>1. \A i \in DOMAIN server : i \in Nat /\ i >= 1
    BY <1>2
  <2> QED BY <2>1 DEF Init, InitialState, Passed
<1>7. OneRequest
  BY DEF Init, InitialState, OneRequest
<1> QED BY <1>5, <1>6, <1>7, FS_EmptySet DEF Init, FeedInv

(* Each step keeps the inductive invariant. *)
LEMMA FeedInvStep ==
  FeedInv /\ [Next]_vars => FeedInv'
<1> SUFFICES ASSUME FeedInv, [Next]_vars PROVE FeedInv'
  OBVIOUS
<1>1. TypeOK'
  BY TypesStep DEF FeedInv
<1>2. CASE Publish
  BY <1>1, <1>2, PublishStep
<1>3. CASE Withdraw
  BY <1>1, <1>3, WithdrawStep
<1>4. CASE Show
  BY <1>1, <1>4, ShowStep
<1>5. CASE Refresh
  BY <1>1, <1>5, RefreshStep
<1>6. CASE Answer
  BY <1>1, <1>6, AnswerStep
<1>7. CASE Fail
  BY <1>1, <1>7, FailStep
<1>8. CASE UNCHANGED vars
  <2>1. UNCHANGED <<server, news, asked, listed, repeated, withdrawn, overtaken>>
    BY <1>8 DEF vars, history
  <2> QED BY <1>1, <2>1 DEF FeedInv, OneRequest, Passed
<1> QED BY <1>2, <1>3, <1>4, <1>5, <1>6, <1>7, <1>8 DEF Next

(***************************************************************************)
(* The inductive invariant holds whatever is published and withdrawn, and  *)
(* of any size of a page: places of the server's list can be counted       *)
(* through all of it.                                                      *)
(***************************************************************************)
THEOREM FeedInvHolds == Spec => []FeedInv
<1>1. Init => FeedInv
  BY Starts
<1>2. FeedInv /\ [Next]_vars => FeedInv'
  BY FeedInvStep
<1> QED BY <1>1, <1>2, PTL DEF Spec

(***************************************************************************)
(* The items, the offset and the requests of the news keep their types,    *)
(* whichever page NEWS_RECEIVE gets and whatever is published meanwhile.   *)
(***************************************************************************)
THEOREM FeedTypes == Spec => []TypeOK
<1>1. FeedInv => TypeOK
  BY DEF FeedInv
<1> QED BY <1>1, FeedInvHolds, PTL

(***************************************************************************)
(* The feed passes no more items that are there all the time than came a   *)
(* second time and were withdrawn from above its offset (news.js:96).      *)
(***************************************************************************)
THEOREM FeedSkipsOnlyAfterChanges == Spec => []SkipsOnlyAfterChanges
<1>1. FeedInv => SkipsOnlyAfterChanges
  BY DEF FeedInv, SkipsOnlyAfterChanges
<1> QED BY <1>1, FeedInvHolds, PTL

(***************************************************************************)
(* Every sorted list, of items of any dates, can be put under headings     *)
(* (GroupItemsByDate.js) without an item lost, misplaced or under a wrong  *)
(* heading.                                                                *)
(***************************************************************************)
THEOREM ListsGroup == Spec => []ListsAreGrouped
<1>1. ListsAreGrouped
  BY GroupsFollowTheSortedLists DEF ListsAreGrouped
<1> QED BY <1>1, PTL
===============================================================================
