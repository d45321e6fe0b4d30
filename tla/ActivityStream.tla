----------------------------- MODULE ActivityStream ----------------------------
(***************************************************************************)
(* How the activities of a user reach the web client: pages fetched since  *)
(* the last item fetched, older pages fetched as the user scrolls, items   *)
(* pushed over the web socket, and the copy kept in the browser's storage. *)
(* Responses come in any order; the socket breaks; the page is reloaded.   *)
(*                                                                         *)
(* The stream is the set of its items: StreamMerge shows that the arrays   *)
(* of the code hold just the sorted set.                                   *)
(***************************************************************************)
EXTENDS StreamItems, FiniteSets

CONSTANTS
  Fetches,      \* slots for requests, as many as may be in flight at once
  PageSize,     \* ITEM_FETCH_LIMIT
  MaxFaults,    \* bound on failed requests and reloads of the page in one behaviour
  None          \* nothing

ASSUME StreamAssumption ==
  /\ Fetches \subseteq Nat
  /\ IsFiniteSet(Items)
  /\ PageSize \in Nat \ {0}
  /\ MaxFaults \in Nat
  /\ None \notin Items

Cursors == Items \cup {None}
Snapshots == [items : SUBSET Items, olderItemsOnServer : BOOLEAN]

(* A request: since or before which item, and the answer once the server has computed it. *)
Asked == [kind : {"since", "before"}, ref : Cursors]
Answered == [kind : {"since", "before"}, ref : Cursors, page : SUBSET Items]

ASSUME NoneAssumption == None \notin Snapshots \cup Asked \cup Answered

VARIABLES
  visible,      \* items with an ACTIVITY_RECIPIENT row of the user
  late          \* items that became visible after a newer one (history)

server == <<visible, late>>

VARIABLES
  stream,             \* the items in the store
  lastItemFetched,    \* the newest of them after the last fetch, or None
  olderItemsOnServer, \* whether scrolling down asks for more
  fetching,           \* whether the store thinks that a request is in flight
  request,            \* the requests in flight
  loaded              \* whether the stored copy has been asked for

page == <<stream, lastItemFetched, olderItemsOnServer, fetching, request, loaded>>

VARIABLES
  stored,       \* the stream in localforage, or None
  passed,       \* items missing while something newer came out of order (history)
  failed,       \* whether a request has failed since the page was loaded (history)
  faults        \* failed requests and reloads so far

vars == <<server, page, stored, passed, failed, faults>>

Init ==
  /\ visible = {}
  /\ late = {}
  /\ stream = {}
  /\ lastItemFetched = None
  /\ olderItemsOnServer = TRUE
  /\ fetching = FALSE
  /\ request = [f \in Fetches |-> None]
  /\ loaded = FALSE
  /\ stored = None
  /\ passed = {}
  /\ failed = FALSE
  /\ faults = 0

-------------------------------------------------------------------------------
(* takeFromStream(stream, 1) and getLastItemInStream: the one item, or None, in a set. *)
Newest(items) == IF items = {} THEN {None} ELSE {x \in items : \A y \in items : ~Newer(y, x)}
Oldest(items) == IF items = {} THEN {None} ELSE {x \in items : \A y \in items : ~Newer(x, y)}

(***************************************************************************)
(* Missing items that paging does not reach anymore: older than something  *)
(* in the stream, and either newer than something in it or than the last   *)
(* item the server is believed to have.  Only a fetch since an item older  *)
(* than them still brings them.                                            *)
(***************************************************************************)
Unreached(items, all, more) ==
  {x \in all \ items : /\ \E y \in items : Newer(y, x)
                       /\ ~more \/ \E y \in items : Newer(x, y)}

(* LIMIT: the items of a set that are first in an order. *)
IsFirstPage(items, all, IsBefore(_, _)) ==
  /\ items \subseteq all
  /\ \/ Cardinality(items) = PageSize
     \/ Cardinality(items) < PageSize /\ items = all
  /\ \A x \in items, y \in all : IsBefore(y, x) => y \in items

OldestFirst(x, y) == Newer(y, x)

(* PUBLISHED_AT DESC, ACTIVITY_ID ASC: of equal dates the smaller id comes first. *)
NewestFirst(x, y) == DateOf[x] > DateOf[y] \/ (DateOf[x] = DateOf[y] /\ x < y)

Since(r) == {x \in visible : Newer(x, r.ref)}
Before(r) == {x \in visible : Newer(r.ref, x)}

(* Mutation: the newest items since the cursor, instead of those that follow it. *)
IsPageNewestFirst(items, r) ==
  IF r.ref = None THEN IsFirstPage(items, visible, NewestFirst)
  ELSE IF r.kind = "since" THEN IsFirstPage(items, Since(r), NewestFirst)
  ELSE IsFirstPage(items, Before(r), NewestFirst)

(* getActivitiesForUser *)
IsPageFor(items, r) ==
  IF r.ref = None THEN IsFirstPage(items, visible, NewestFirst)
  ELSE IF r.kind = "since" THEN IsFirstPage(items, Since(r), OldestFirst)
  ELSE IsFirstPage(items, Before(r), NewestFirst)

-------------------------------------------------------------------------------
(* saveRecipients: the rows are committed, before the item is published to the sockets. *)
Publish(x) ==
  /\ x \notin visible
  /\ visible' = visible \cup {x}
  /\ late' = IF \E y \in visible : Newer(y, x) THEN late \cup {x} ELSE late
  /\ UNCHANGED <<page, stored, passed, failed, faults>>

(* Mutation: the stream is replaced. *)
Replace(items, more) ==
  /\ stream' = items
  /\ olderItemsOnServer' = more

(* What the reducers do with received items; more is the new olderItemsOnServer. *)
Receive(items, more) ==
  /\ stream' = stream \cup items
  /\ olderItemsOnServer' = more

(* The items came in no particular order: what they have passed over is noted. *)
NotePassed == passed' = passed \cup Unreached(stream', visible, olderItemsOnServer')

(***************************************************************************)
(* NOTIFICATION_RECEIVE, ACTIVITY_RECEIVE: a push, which comes some time   *)
(* after the rows, once more if the job that sends it is retried, and      *)
(* never if no socket is open then (RestartableWebSocket).                 *)
(* lastItemFetched stays as it is.                                         *)
(***************************************************************************)
PushArrives(x) ==
  /\ x \in visible
  /\ Receive({x}, olderItemsOnServer)
  /\ NotePassed
  /\ UNCHANGED <<server, lastItemFetched, fetching, request, loaded, stored, failed, faults>>

-------------------------------------------------------------------------------
(* Mutation: an empty answer leaves fetching set. *)
FetchedSome(items, more, again) ==
  /\ Receive(items, more)
  /\ lastItemFetched' \in Newest(stream')
  /\ fetching' = IF items = {} THEN fetching ELSE again

(***************************************************************************)
(* NOTIFICATION_FETCH, ACTIVITY_FETCH; again tells that the next fetch is  *)
(* dispatched at once.  The cursor becomes the newest item of the stream,  *)
(* whether it was fetched or pushed.                                       *)
(***************************************************************************)
Fetched(items, more, again) ==
  /\ Receive(items, more)
  /\ lastItemFetched' \in Newest(stream')
  /\ fetching' = again

(* Mutation: what was stored replaces what was pushed before it is loaded. *)
LoadOnlyStored ==
  /\ ~loaded
  /\ loaded' = TRUE
  /\ IF stored = None
     THEN UNCHANGED <<stream, olderItemsOnServer, lastItemFetched, fetching, passed>>
     ELSE /\ Replace(stored.items, stored.olderItemsOnServer)
          /\ lastItemFetched' \in Newest(stream')
          /\ fetching' = FALSE
          /\ NotePassed
  /\ UNCHANGED <<server, request, stored, failed, faults>>

(* persisted: what was stored is dispatched as if it had been fetched. *)
LoadStored ==
  /\ ~loaded
  /\ loaded' = TRUE
  /\ IF stored = None
     THEN UNCHANGED <<stream, olderItemsOnServer, lastItemFetched, fetching, passed>>
     ELSE Fetched(stored.items, stored.olderItemsOnServer, FALSE) /\ NotePassed
  /\ UNCHANGED <<server, request, stored, failed, faults>>

(* The slots of requests are alike: the first free one is taken. *)
Ask(f, kind, ref) ==
  /\ request[f] = None
  /\ \A g \in Fetches : g < f => request[g] # None
  /\ request' = [request EXCEPT ![f] = [kind |-> kind, ref |-> ref]]
  /\ fetching' = TRUE

(* fetchActivities: when the user is known, and whenever the browser comes online. *)
FetchActivities(f) ==
  /\ loaded
  /\ Ask(f, "since", lastItemFetched)
  /\ UNCHANGED <<server, stream, lastItemFetched, olderItemsOnServer, loaded, stored, passed,
                 failed, faults>>

(* fetchMoreActivities: as the user scrolls to the end of the list. *)
FetchMoreActivities(f) ==
  /\ ~fetching
  /\ olderItemsOnServer
  /\ \E ref \in Oldest(stream) : Ask(f, "before", ref)
  /\ UNCHANGED <<server, stream, lastItemFetched, olderItemsOnServer, loaded, stored, passed,
                 failed, faults>>

Answer(f) ==
  /\ request[f] \in Asked
  /\ \E items \in SUBSET visible :
       /\ IsPageFor(items, request[f])
       /\ request' = [request EXCEPT ![f] = [kind |-> @.kind, ref |-> @.ref, page |-> items]]
  /\ UNCHANGED <<server, stream, lastItemFetched, olderItemsOnServer, fetching, loaded, stored,
                 passed, failed, faults>>

(* Mutation: a full page is not taken for one. *)
IsMoreThanFull(items) == Cardinality(items) > PageSize

IsFull(items) == Cardinality(items) = PageSize

(* Only a page that starts from the newest item is not next to one the stream has. *)
NoteIfNewestPage(r) == IF r.ref = None THEN NotePassed ELSE UNCHANGED passed

(* fetchActivities: a full page is followed by the next fetch, since the new cursor. *)
TakeNewer(f) ==
  /\ request[f] \in Answered
  /\ request[f].kind = "since"
  /\ LET items == request[f].page
     IN /\ Fetched(items, olderItemsOnServer, IsFull(items))
        /\ request' = [request EXCEPT ![f] = IF IsFull(items)
                                             THEN [kind |-> "since", ref |-> lastItemFetched']
                                             ELSE None]
  /\ NoteIfNewestPage(request[f])
  /\ UNCHANGED <<server, loaded, stored, failed, faults>>

(* fetchMoreActivities: a page that is not full is the last. *)
TakeOlder(f) ==
  /\ request[f] \in Answered
  /\ request[f].kind = "before"
  /\ Fetched(request[f].page, IsFull(request[f].page), FALSE)
  /\ request' = [request EXCEPT ![f] = None]
  /\ NoteIfNewestPage(request[f])
  /\ UNCHANGED <<server, loaded, stored, failed, faults>>

(* The request or its answer is lost, or the answer is an error: fetching stays as it is. *)
FetchFails(f) ==
  /\ faults < MaxFaults
  /\ faults' = faults + 1
  /\ request[f] # None
  /\ request' = [request EXCEPT ![f] = None]
  /\ failed' = TRUE
  /\ UNCHANGED <<server, stream, lastItemFetched, olderItemsOnServer, fetching, loaded, stored,
                 passed>>

(***************************************************************************)
(* The page is closed and opened again: a new store, no requests in        *)
(* flight.  Once it has loaded, persisted stores each change, a moment     *)
(* after it: what is stored now is the stream, or what an earlier page     *)
(* left.  A copy of this page from before its last changes is what a       *)
(* reload before them leaves.                                              *)
(***************************************************************************)
Reload ==
  /\ faults < MaxFaults
  /\ faults' = faults + 1
  /\ stream' = {}
  /\ lastItemFetched' = None
  /\ olderItemsOnServer' = TRUE
  /\ fetching' = FALSE
  /\ request' = [f \in Fetches |-> None]
  /\ loaded' = FALSE
  /\ failed' = FALSE
  /\ \/ UNCHANGED stored
     \/ loaded /\ stored' = [items |-> stream, olderItemsOnServer |-> olderItemsOnServer]
  /\ UNCHANGED <<server, passed>>

Browser == \E f \in Fetches : FetchActivities(f) \/ FetchMoreActivities(f)

Network == \E f \in Fetches : Answer(f) \/ TakeNewer(f) \/ TakeOlder(f) \/ FetchFails(f)

Next ==
  \/ \E x \in Items : Publish(x) \/ PushArrives(x)
  \/ LoadStored \/ Browser \/ Network \/ Reload

Spec == Init /\ [][Next]_vars

(* The server answers, and the page takes the answers in, unless a request fails. *)
FairSpec ==
  Spec /\ \A f \in Fetches : WF_vars(Answer(f) \/ TakeNewer(f) \/ TakeOlder(f))

-------------------------------------------------------------------------------
TypeOK ==
  /\ visible \subseteq Items
  /\ late \subseteq visible
  /\ stream \subseteq visible
  /\ lastItemFetched \in stream \cup {None}
  /\ olderItemsOnServer \in BOOLEAN
  /\ fetching \in BOOLEAN
  /\ request \in [Fetches -> Asked \cup Answered \cup {None}]
  /\ loaded \in BOOLEAN
  /\ stored \in Snapshots \cup {None}
  /\ passed \subseteq Items
  /\ failed \in BOOLEAN
  /\ faults \in 0..MaxFaults

(* Items whose date another item has: a page of older items may leave one of them out. *)
Tied == {x \in Items : \E y \in Items \ {x} : DateOf[x] = DateOf[y]}

(***************************************************************************)
(* Pages are contiguous, in whichever order their answers arrive and       *)
(* whatever the page had stored: an item that paging does not reach        *)
(* anymore was passed over by a push (or by a page from the newest item or *)
(* the stored copy, next to items that were pushed before), became visible *)
(* after a newer one, or shares its date.  In particular, when the stream  *)
(* says that there are no older items, it has them all.                    *)
(***************************************************************************)
MissedOnlyIfPassed ==
  Unreached(stream, visible, olderItemsOnServer) \subseteq passed \cup late \cup Tied

(***************************************************************************)
(* notifications.js:161: older items are not fetched while fetching is     *)
(* set.  It is cleared by answers only, so it must not stay set without a  *)
(* request in flight; it does after a request that failed.                 *)
(***************************************************************************)
StuckOnlyAfterFailure == fetching => failed \/ \E f \in Fetches : request[f] # None

IsSince(f, x) ==
  /\ request[f] \in Asked
  /\ request[f].kind = "since"
  /\ request[f].ref # None
  /\ Newer(x, request[f].ref)

(***************************************************************************)
(* "Likely there are more recent items available, so fetch them"           *)
(* (notifications.js:74): page by page, a fetch brings all that was newer  *)
(* than the cursor, unless something goes wrong or an item out of order    *)
(* has moved the cursor past it.                                           *)
(***************************************************************************)
FetchCatchesUp ==
  \A x \in Items :
    (x \in visible /\ \E f \in Fetches : IsSince(f, x))
      ~> (x \in stream \cup passed \cup late \/ faults > 0)

(* The page keeps a copy of what the server shows. *)
Copy == INSTANCE StreamCopy WITH
  visible <- visible,
  copy <- stream,
  stored <- IF stored = None THEN {} ELSE stored.items

ImplementsCopy == Copy!Spec
===============================================================================
