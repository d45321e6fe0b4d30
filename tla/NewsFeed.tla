------------------------------- MODULE NewsFeed --------------------------------
(***************************************************************************)
(* The news of the web client (state/news.js): pages fetched by offset as  *)
(* the user scrolls.  The offset is a position in the server's list, which *)
(* changes under it: items are published on top of those already shown, or *)
(* among them, and go away.  What to do about it is the reducer's.         *)
(***************************************************************************)
EXTENDS Integers, SequencesExt, FiniteSetsExt

CONSTANTS
  NewsLimit,      \* limit of ReadNewsController.feed
  NewsItems,      \* the news items
  InitialItems,   \* how many of them are listed when the page is opened
  MaxWithdrawn,   \* bound: of items withdrawn from what was passed, since a refresh
  MaxRequests     \* bound: of requests in flight

ASSUME NewsFeedAssumption == NewsLimit \in Nat \ {0} /\ InitialItems \in Nat

VARIABLES
  server,       \* the items that the server lists for the user, the newest first
  news,         \* this slice of the store
  asked,        \* the offsets of the requests in flight
  listed,       \* history: the items listed ever since the refresh
  repeated,     \* history: how many items have come a second time since the refresh
  withdrawn,    \* history: how many were withdrawn from above the offset since the refresh
  overtaken     \* history: did the refresh come while a request was in flight

history == <<listed, repeated, withdrawn, overtaken>>
vars == <<server, news, asked, history>>

InitialState == [fetching |-> FALSE, failed |-> FALSE, items |-> <<>>, offset |-> 0,
                 moreAvailable |-> TRUE]

Init ==
  /\ server \in {list \in [1..InitialItems -> NewsItems] : IsInjective(list)}
  /\ news = InitialState
  /\ asked = <<>>
  /\ listed = ToSet(server)
  /\ repeated = 0
  /\ withdrawn = 0
  /\ overtaken = FALSE

-------------------------------------------------------------------------------
(* The server *)

(***************************************************************************)
(* An item is listed: PublishNewsItemJob gives it recipients, or the user  *)
(* selects a category again.  Its place is that of its date, which may be  *)
(* in the past: that of a news item saved so, of an update, of a category. *)
(***************************************************************************)
Publish ==
  /\ \E x \in NewsItems \ ToSet(server), place \in 1..(Len(server) + 1) :
       server' = InsertAt(server, place, x)
  /\ UNCHANGED <<news, asked, history>>

(***************************************************************************)
(* An item is listed no longer: it is deleted, its recipients are (update, *)
(* until its job runs), or the user deselects its category.                *)
(***************************************************************************)
Withdraw ==
  /\ withdrawn < MaxWithdrawn
  /\ \E place \in DOMAIN server :
       /\ server' = RemoveAt(server, place)
       /\ listed' = listed \ {server[place]}
       /\ withdrawn' = IF place <= news.offset THEN withdrawn + 1 ELSE withdrawn
  /\ UNCHANGED <<news, asked, repeated, overtaken>>

(* latestNews *)
Page(offset) ==
  SubSeq(server, offset + 1, Min({offset + NewsLimit, Len(server)}))

-------------------------------------------------------------------------------
(* The client *)

(* fetch, when nothing is being fetched: NEWS_REQUEST, and a request for the offset of now. *)
Fetch(state) ==
  /\ Len(asked) < MaxRequests
  /\ news' = [state EXCEPT !.fetching = TRUE, !.failed = FALSE]
  /\ asked' = Append(asked, state.offset)

(* The view fetches when it is empty, at its end while there is more, and to try again. *)
Show ==
  /\ ~news.fetching
  /\ news.moreAvailable \/ news.items = <<>> \/ news.failed
  /\ Fetch(news)
  /\ UNCHANGED <<server, history>>

(***************************************************************************)
(* NEWS_REFRESH and a fetch, every hour and when the native app comes to   *)
(* the front.  A request in flight is forgotten, but not its answer.       *)
(***************************************************************************)
Refresh ==
  /\ Fetch(InitialState)
  /\ listed' = ToSet(server)
  /\ repeated' = 0
  /\ withdrawn' = 0
  /\ overtaken' = (asked # <<>>)
  /\ UNCHANGED server

KeepFirst(kept, item) == IF Contains(kept, item) THEN kept ELSE Append(kept, item)

(* uniqBy of lodash: the first of equal items stays. *)
UniqBy(items) == FoldLeft(KeepFirst, <<>>, items)

(* What NEWS_RECEIVE makes of a page, given the items and the offset then. *)
Received(state, page, items, offset) ==
  IF page = <<>>
  THEN [state EXCEPT !.fetching = FALSE, !.failed = FALSE, !.moreAvailable = FALSE]
  ELSE [state EXCEPT !.fetching = FALSE, !.failed = FALSE, !.moreAvailable = TRUE,
                     !.items = items, !.offset = offset]

(* Mutation: no look for duplicates. *)
ReceiveAll(state, page) ==
  Received(state, page, state.items \o page, state.offset + Len(page))

(* Mutation: the offset advances by all items, not just the new ones. *)
ReceiveTooFar(state, page) ==
  LET items == state.items \o page
  IN Received(state, page, UniqBy(items), state.offset + Len(items))

(***************************************************************************)
(* NEWS_RECEIVE.  The offset advances by the items received and by the     *)
(* duplicates among them once more.                                        *)
(***************************************************************************)
Receive(state, page) ==
  LET items == state.items \o page
      uniqueItems == UniqBy(items)
      numberOfDuplicates == Len(items) - Len(uniqueItems)
  IN Received(state, page, uniqueItems, state.offset + Len(page) + numberOfDuplicates)

Duplicates(page) == Cardinality(ToSet(page) \cap ToSet(news.items))

(***************************************************************************)
(* An answer.  A change of the list between the server's and the client's  *)
(* part of it might as well come afterwards.                               *)
(***************************************************************************)
Answer ==
  \E i \in DOMAIN asked :
    LET page == Page(asked[i])
    IN /\ news' = Receive(news, page)
       /\ repeated' = repeated + Duplicates(page)
       /\ asked' = RemoveAt(asked, i)
       /\ UNCHANGED <<server, listed, withdrawn, overtaken>>

(* NEWS_RECEIVE of an error. *)
Fail ==
  \E i \in DOMAIN asked :
    /\ news' = [news EXCEPT !.fetching = FALSE, !.failed = TRUE]
    /\ asked' = RemoveAt(asked, i)
    /\ UNCHANGED <<server, history>>

Next == Publish \/ Withdraw \/ Show \/ Refresh \/ Answer \/ Fail

Spec == Init /\ [][Next]_vars

-------------------------------------------------------------------------------
NewsTypes ==
  [fetching : BOOLEAN, failed : BOOLEAN, items : Seq(NewsItems), offset : Nat, moreAvailable : BOOLEAN]

(* The state is of its type; no item is listed or shown twice. *)
TypeOK ==
  /\ server \in Seq(NewsItems) /\ IsInjective(server)
  /\ news \in NewsTypes /\ IsInjective(news.items)
  /\ asked \in Seq(Nat)
  /\ listed \in SUBSET NewsItems
  /\ repeated \in Nat
  /\ withdrawn \in Nat
  /\ overtaken \in BOOLEAN

(* Where the user has scrolled past items that were there all the time, without seeing them. *)
Passed ==
  {i \in DOMAIN server :
     /\ server[i] \in listed \ ToSet(news.items)
     /\ i <= news.offset \/ ~news.moreAvailable}

(***************************************************************************)
(* Whatever is published and withdrawn while the user scrolls, the feed    *)
(* passes no more items than it was sent a second time and were withdrawn  *)
(* from above its offset since the refresh -- unless that refresh came     *)
(* while a request was in flight.  It may pass as many.  When an item is   *)
(* published above, the next page begins with one that is shown already,   *)
(* and the offset advances by one too much (news.js:96); when one is       *)
(* withdrawn there, the offset has advanced by one too much already.       *)
(***************************************************************************)
SkipsOnlyAfterChanges ==
  ~overtaken => Cardinality(Passed) <= repeated + withdrawn
===============================================================================
