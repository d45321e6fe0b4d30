------------------------- MODULE ActivityStreamProofs --------------------------
(***************************************************************************)
(* Theorems about ActivityStream, for every finite set of items with any   *)
(* dates, any size of a page and any number of requests in flight.         *)
(***************************************************************************)
EXTENDS ActivityStream, TLAPS

(* The order of items is transitive, total and strict. *)
LEMMA NewerOrder ==
  ASSUME NEW x \in Items, NEW y \in Items, NEW z \in Items
  PROVE  /\ ~Newer(x, x)
         /\ x = y \/ Newer(x, y) \/ Newer(y, x)
         /\ Newer(x, y) /\ Newer(y, z) => Newer(x, z)
  <1>1. /\ x \in Nat /\ y \in Nat /\ z \in Nat
        /\ DateOf[x] \in Nat /\ DateOf[y] \in Nat /\ DateOf[z] \in Nat
    BY ItemsAssumption
  <1> QED BY <1>1 DEF Newer

(* Pages of older items come in an order that differs for equal dates only. *)
LEMMA NewestFirstOrder ==
  ASSUME NEW x \in Items, NEW y \in Items, Newer(x, y)
  PROVE  NewestFirst(x, y) \/ x \in Tied
  <1>1. x \in Nat /\ y \in Nat /\ DateOf[x] \in Nat /\ DateOf[y] \in Nat
    BY ItemsAssumption
  <1>2. CASE DateOf[x] = DateOf[y]
    <2>1. y \in Items \ {x}
      BY <1>1, <1>2 DEF Newer
    <2> QED BY <2>1, <1>2 DEF Tied
  <1>3. CASE DateOf[x] > DateOf[y]
    BY <1>3 DEF NewestFirst
  <1> QED BY <1>1, <1>2, <1>3 DEF Newer

(* The newest and the oldest item of a set are in it. *)
LEMMA ExtremesType ==
  ASSUME NEW items
  PROVE  Newest(items) \subseteq items \cup {None} /\ Oldest(items) \subseteq items \cup {None}
BY DEF Newest, Oldest

(***************************************************************************)
(* The page of an answered request is next to the item it was asked for:   *)
(* what it leaves out between that item and its own last item came out of  *)
(* order, and a short page of older items leaves out nothing at all.       *)
(***************************************************************************)
NewerPageInv(r) ==
  /\ \A x \in r.page : Newer(x, r.ref)
  /\ \A x \in visible \ r.page :
       Newer(x, r.ref) /\ (\E y \in r.page : Newer(y, x)) => x \in late

OlderPageInv(r) ==
  /\ \A x \in r.page : Newer(r.ref, x)
  /\ \A x \in visible \ r.page :
       Newer(r.ref, x) /\ (~IsFull(r.page) \/ \E y \in r.page : Newer(x, y)) => x \in late \cup Tied

RequestInv(r) ==
  /\ r.ref \in stream \cup {None}
  /\ r \in Answered =>
       /\ r.page \subseteq visible
       /\ r.ref # None => IF r.kind = "since" THEN NewerPageInv(r) ELSE OlderPageInv(r)

StreamInv ==
  /\ TypeOK
  /\ stored # None => stored.items \subseteq visible
  /\ \A f \in Fetches : request[f] # None => RequestInv(request[f])
  /\ MissedOnlyIfPassed

LEMMA AskedNotAnswered ==
  ASSUME NEW r \in Asked
  PROVE  r \notin Answered
  <1>1. DOMAIN r = {"kind", "ref"}
    BY DEF Asked
  <1>2. ASSUME r \in Answered PROVE DOMAIN r = {"kind", "ref", "page"}
    BY <1>2 DEF Answered
  <1>3. "page" \notin {"kind", "ref"}
    OBVIOUS
  <1> QED BY <1>1, <1>2, <1>3

LEMMA InitStreamInv == Init => StreamInv
  <1> SUFFICES ASSUME Init PROVE StreamInv
    OBVIOUS
  <1>a. /\ fetching \in BOOLEAN /\ olderItemsOnServer \in BOOLEAN
        /\ loaded \in BOOLEAN /\ failed \in BOOLEAN
    BY Zenon DEF Init
  <1>b. /\ visible = {} /\ late = {} /\ stream = {} /\ lastItemFetched = None
        /\ request \in [Fetches -> {None}] /\ stored = None /\ passed = {} /\ faults \in 0..MaxFaults
    BY StreamAssumption DEF Init
  <1>1. TypeOK
    BY <1>a, <1>b DEF TypeOK
  <1>2. MissedOnlyIfPassed
    BY DEF Init, MissedOnlyIfPassed, Unreached
  <1> QED BY <1>1, <1>2 DEF Init, StreamInv

(* Receiving items that the server shows keeps the types of the stream. *)
LEMMA FetchedType ==
  ASSUME TypeOK, NEW items \in SUBSET visible, NEW more \in BOOLEAN, NEW again \in BOOLEAN,
         UNCHANGED visible, Fetched(items, more, again)
  PROVE  /\ stream' \subseteq visible'
         /\ lastItemFetched' \in stream' \cup {None}
         /\ olderItemsOnServer' \in BOOLEAN
         /\ fetching' \in BOOLEAN
  <1>1. stream' = stream \cup items /\ olderItemsOnServer' = more /\ fetching' = again
    BY DEF Fetched, Receive
  <1>2. lastItemFetched' \in Newest(stream')
    BY DEF Fetched
  <1>3. lastItemFetched' \in stream' \cup {None}
    BY <1>2, ExtremesType
  <1> QED BY <1>1, <1>3 DEF TypeOK

LEMMA NotePassedType ==
  ASSUME TypeOK, NotePassed
  PROVE  passed' \subseteq Items
BY DEF NotePassed, Unreached, TypeOK

LEMMA AskType ==
  ASSUME TypeOK, NEW f \in Fetches, NEW kind \in {"since", "before"}, NEW ref \in Cursors,
         Ask(f, kind, ref)
  PROVE  request' \in [Fetches -> Asked \cup Answered \cup {None}] /\ fetching' \in BOOLEAN
  <1>1. [kind |-> kind, ref |-> ref] \in Asked
    BY DEF Asked
  <1> QED BY <1>1 DEF Ask, TypeOK

LEMMA StepTypeOK == StreamInv /\ [Next]_vars => TypeOK'
  <1> SUFFICES ASSUME StreamInv, [Next]_vars PROVE TypeOK'
    OBVIOUS
  <1>t. TypeOK
    BY DEF StreamInv
  <1>1. ASSUME NEW x \in Items, Publish(x) PROVE TypeOK'
    BY <1>1, <1>t DEF Publish, TypeOK, page
  <1>2. ASSUME NEW x \in Items, PushArrives(x) PROVE TypeOK'
    <2>1. stream' = stream \cup {x} /\ UNCHANGED olderItemsOnServer
      BY <1>2 DEF PushArrives, Receive
    <2>2. passed' \subseteq Items
      BY <1>2, <1>t, NotePassedType DEF PushArrives
    <2> QED BY <1>2, <1>t, <2>1, <2>2 DEF PushArrives, TypeOK, server
  <1>3. CASE LoadStored
    <2>1. CASE stored = None
      BY <1>3, <2>1, <1>t DEF LoadStored, TypeOK, server
    <2>2. CASE stored # None
      <3>1. stored \in Snapshots /\ stored.items \subseteq visible
        BY <2>2, <1>t DEF TypeOK, StreamInv
      <3>2. stored.olderItemsOnServer \in BOOLEAN
        BY <3>1 DEF Snapshots
      <3>3. Fetched(stored.items, stored.olderItemsOnServer, FALSE) /\ NotePassed /\ UNCHANGED visible
        BY <1>3, <2>2 DEF LoadStored, server
      <3>4. /\ stream' \subseteq visible' /\ lastItemFetched' \in stream' \cup {None}
            /\ olderItemsOnServer' \in BOOLEAN /\ fetching' \in BOOLEAN
        BY <3>1, <3>2, <3>3, <1>t, FetchedType
      <3>5. passed' \subseteq Items
        BY <3>3, <1>t, NotePassedType
      <3> QED BY <1>3, <1>t, <3>4, <3>5 DEF LoadStored, TypeOK, server
    <2> QED BY <2>1, <2>2
  <1>4. ASSUME NEW f \in Fetches, FetchActivities(f) PROVE TypeOK'
    <2>1. Ask(f, "since", lastItemFetched) /\ lastItemFetched \in Cursors
      BY <1>4, <1>t DEF FetchActivities, TypeOK, Cursors
    <2>2. request' \in [Fetches -> Asked \cup Answered \cup {None}] /\ fetching' \in BOOLEAN
      BY <2>1, <1>t, AskType
    <2> QED BY <1>4, <1>t, <2>2 DEF FetchActivities, TypeOK, server
  <1>5. ASSUME NEW f \in Fetches, FetchMoreActivities(f) PROVE TypeOK'
    <2>1. PICK ref \in Oldest(stream) : Ask(f, "before", ref)
      BY <1>5 DEF FetchMoreActivities
    <2>2. ref \in Cursors
      BY <1>t, ExtremesType DEF TypeOK, Cursors
    <2>3. request' \in [Fetches -> Asked \cup Answered \cup {None}] /\ fetching' \in BOOLEAN
      BY <2>1, <2>2, <1>t, AskType
    <2> QED BY <1>5, <1>t, <2>3 DEF FetchMoreActivities, TypeOK, server
  <1>6. ASSUME NEW f \in Fetches, Answer(f) PROVE TypeOK'
    <2>1. PICK items \in SUBSET visible :
            request' = [request EXCEPT ![f] = [kind |-> @.kind, ref |-> @.ref, page |-> items]]
      BY <1>6 DEF Answer
    <2>2. [kind |-> request[f].kind, ref |-> request[f].ref, page |-> items] \in Answered
      BY <1>6, <1>t DEF Answer, Asked, Answered, TypeOK
    <2>3. request' \in [Fetches -> Asked \cup Answered \cup {None}]
      BY <2>1, <2>2, <1>t DEF TypeOK
    <2> QED BY <1>6, <1>t, <2>3 DEF Answer, TypeOK, server
  <1>7. ASSUME NEW f \in Fetches, TakeNewer(f) \/ TakeOlder(f) PROVE TypeOK'
    <2> DEFINE r == request[f]
    <2>1. r \in Answered /\ r.page \subseteq visible
      BY <1>7, NoneAssumption DEF TakeNewer, TakeOlder, StreamInv, RequestInv
    <2>2. passed' \subseteq Items
      BY <1>7, <1>t, NotePassedType DEF TakeNewer, TakeOlder, NoteIfNewestPage, TypeOK
    <2>3. IsFull(r.page) \in BOOLEAN /\ UNCHANGED visible
      BY <1>7 DEF IsFull, TakeNewer, TakeOlder, server
    <2>4. \E more, again \in BOOLEAN : Fetched(r.page, more, again)
      BY <1>7, <1>t, <2>3 DEF TakeNewer, TakeOlder, TypeOK
    <2>5. /\ stream' \subseteq visible' /\ lastItemFetched' \in stream' \cup {None}
          /\ olderItemsOnServer' \in BOOLEAN /\ fetching' \in BOOLEAN
      BY <2>1, <2>3, <2>4, <1>t, FetchedType
    <2>6. request' \in [Fetches -> Asked \cup Answered \cup {None}]
      <3>1. lastItemFetched' \in Cursors
        BY <2>5, <2>3, <1>t DEF TypeOK, Cursors
      <3>2. [kind |-> "since", ref |-> lastItemFetched'] \in Asked
        BY <3>1 DEF Asked
      <3> QED BY <1>7, <1>t, <3>2 DEF TakeNewer, TakeOlder, TypeOK
    <2> QED BY <1>7, <1>t, <2>2, <2>3, <2>5, <2>6 DEF TakeNewer, TakeOlder, TypeOK, server
  <1>8. ASSUME NEW f \in Fetches, FetchFails(f) PROVE TypeOK'
    BY <1>8, <1>t, StreamAssumption DEF FetchFails, TypeOK, server
  <1>9. CASE Reload
    <2>1. stored' \in Snapshots \cup {None}
      BY <1>9, <1>t DEF Reload, TypeOK, Snapshots
    <2>2. request' \in [Fetches -> Asked \cup Answered \cup {None}]
      BY <1>9 DEF Reload
    <2>3. /\ fetching' \in BOOLEAN /\ olderItemsOnServer' \in BOOLEAN
          /\ loaded' \in BOOLEAN /\ failed' \in BOOLEAN
      BY <1>9, Zenon DEF Reload
    <2>4. /\ stream' = {} /\ lastItemFetched' = None /\ faults' \in 0..MaxFaults
          /\ UNCHANGED <<visible, late, passed>>
      BY <1>9, <1>t, StreamAssumption DEF Reload, TypeOK, server
    <2> QED BY <1>t, <2>1, <2>2, <2>3, <2>4 DEF TypeOK
  <1>10. CASE UNCHANGED vars
    BY <1>10, <1>t DEF vars, server, page, TypeOK
  <1> QED
    BY <1>1, <1>2, <1>3, <1>4, <1>5, <1>6, <1>7, <1>8, <1>9, <1>10 DEF Next, Browser, Network

-------------------------------------------------------------------------------
(* What is noted covers all that paging does not reach. *)
LEMMA NotedIsEnough ==
  ASSUME NotePassed, UNCHANGED visible
  PROVE  MissedOnlyIfPassed'
BY DEF NotePassed, MissedOnlyIfPassed

(* A page of newer items is next to the stream: no other item comes out of reach. *)
LEMMA NewerPageReaches ==
  ASSUME StreamInv, NEW r \in Answered, RequestInv(r), r.kind = "since", r.ref # None,
         stream' = stream \cup r.page, UNCHANGED <<server, olderItemsOnServer, passed>>
  PROVE  MissedOnlyIfPassed'
  <1>1. /\ stream \subseteq visible /\ visible \subseteq Items /\ r.page \subseteq visible
        /\ r.ref \in stream /\ NewerPageInv(r)
    BY DEF StreamInv, TypeOK, RequestInv
  <1> SUFFICES ASSUME NEW x \in visible \ (stream \cup r.page), x \notin late,
                      NEW z \in stream \cup r.page, Newer(z, x),
                      ~olderItemsOnServer \/ \E y \in stream \cup r.page : Newer(x, y)
               PROVE  x \in passed \cup late \cup Tied
    BY DEF MissedOnlyIfPassed, Unreached, server
  <1>2. Newer(r.ref, x) \/ z \in stream
    <2>1. CASE z \in r.page
      <3>1. ~Newer(x, r.ref)
        BY <1>1, <2>1 DEF NewerPageInv
      <3> QED BY <1>1, <3>1, NewerOrder
    <2> QED BY <2>1
  <1>3. \E y \in stream : Newer(y, x)
    BY <1>1, <1>2
  <1>4. ASSUME NEW y \in r.page, Newer(x, y) PROVE Newer(x, r.ref)
    <2>1. Newer(y, r.ref)
      BY <1>1 DEF NewerPageInv
    <2> QED BY <1>1, <1>4, <2>1, NewerOrder
  <1>5. ~olderItemsOnServer \/ \E y \in stream : Newer(x, y)
    BY <1>1, <1>4
  <1>6. x \in Unreached(stream, visible, olderItemsOnServer)
    BY <1>3, <1>5 DEF Unreached
  <1> QED BY <1>6 DEF StreamInv, MissedOnlyIfPassed

(* Neither does a page of older items, full or not. *)
LEMMA OlderPageReaches ==
  ASSUME StreamInv, NEW r \in Answered, RequestInv(r), r.kind = "before", r.ref # None,
         stream' = stream \cup r.page, olderItemsOnServer' = IsFull(r.page),
         UNCHANGED <<server, passed>>
  PROVE  MissedOnlyIfPassed'
  <1>1. /\ stream \subseteq visible /\ visible \subseteq Items /\ r.page \subseteq visible
        /\ r.ref \in stream /\ OlderPageInv(r)
    BY DEF StreamInv, TypeOK, RequestInv
  <1> SUFFICES ASSUME NEW x \in visible \ (stream \cup r.page),
                      NEW z \in stream \cup r.page, Newer(z, x),
                      ~IsFull(r.page) \/ \E y \in stream \cup r.page : Newer(x, y)
               PROVE  x \in passed \cup late \cup Tied
    BY DEF MissedOnlyIfPassed, Unreached, server
  <1>2. x = r.ref \/ Newer(x, r.ref) \/ Newer(r.ref, x)
    BY <1>1, NewerOrder
  <1>3. CASE Newer(x, r.ref)
    <2>1. \E y \in stream : Newer(y, x)
      <3>1. CASE z \in r.page
        <4>1. Newer(r.ref, z)
          BY <1>1, <3>1 DEF OlderPageInv
        <4> QED BY <1>1, <4>1, NewerOrder
      <3> QED BY <3>1
    <2>2. x \in Unreached(stream, visible, olderItemsOnServer)
      BY <1>1, <1>3, <2>1 DEF Unreached
    <2> QED BY <2>2 DEF StreamInv, MissedOnlyIfPassed
  <1>4. CASE Newer(r.ref, x)
    <2>1. CASE ~IsFull(r.page) \/ \E y \in r.page : Newer(x, y)
      BY <1>1, <1>4, <2>1 DEF OlderPageInv
    <2>2. CASE \E y \in stream : Newer(x, y)
      <3>1. x \in Unreached(stream, visible, olderItemsOnServer)
        BY <1>1, <1>4, <2>2 DEF Unreached
      <3> QED BY <3>1 DEF StreamInv, MissedOnlyIfPassed
    <2> QED BY <2>1, <2>2
  <1> QED BY <1>1, <1>2, <1>3, <1>4

(* What the server answers is next to the item it was asked for. *)
LEMMA AnswerInv ==
  ASSUME TypeOK, NEW r \in Asked, RequestInv(r), NEW items \in SUBSET visible, IsPageFor(items, r)
  PROVE  RequestInv([kind |-> r.kind, ref |-> r.ref, page |-> items])
  <1> DEFINE a == [kind |-> r.kind, ref |-> r.ref, page |-> items]
  <1>1. r.kind \in {"since", "before"} /\ r.ref \in stream \cup {None} /\ visible \subseteq Items
    BY DEF RequestInv, Asked, TypeOK
  <1>2. ASSUME r.ref # None, r.kind = "since" PROVE NewerPageInv(a)
    <2>1. IsFirstPage(items, Since(r), OldestFirst)
      BY <1>2 DEF IsPageFor
    <2>2. /\ items \subseteq Since(r)
          /\ \A x \in items, y \in Since(r) : Newer(x, y) => y \in items
      BY <2>1 DEF IsFirstPage, OldestFirst
    <2> QED BY <2>2 DEF NewerPageInv, Since
  <1>3. ASSUME r.ref # None, r.kind # "since" PROVE OlderPageInv(a)
    <2>1. IsFirstPage(items, Before(r), NewestFirst)
      BY <1>3 DEF IsPageFor
    <2>2. /\ items \subseteq Before(r)
          /\ IsFull(items) \/ items = Before(r)
          /\ \A x \in items, y \in Before(r) : NewestFirst(y, x) => y \in items
      BY <2>1 DEF IsFirstPage, IsFull
    <2>3. ASSUME NEW x \in Before(r) \ items, NEW y \in items, Newer(x, y) PROVE x \in Tied
      BY <1>1, <2>2, <2>3, NewestFirstOrder DEF Before
    <2> QED BY <2>2, <2>3 DEF OlderPageInv, Before
  <1> QED BY <1>1, <1>2, <1>3 DEF RequestInv

LEMMA StepRequests ==
  StreamInv /\ [Next]_vars => \A g \in Fetches : request'[g] # None => RequestInv(request[g])'
  <1> SUFFICES ASSUME StreamInv, [Next]_vars, NEW g \in Fetches, request'[g] # None
               PROVE  RequestInv(request[g])'
    OBVIOUS
  <1>t. TypeOK /\ request \in [Fetches -> Asked \cup Answered \cup {None}]
    BY DEF StreamInv, TypeOK
  <1>k. ASSUME request'[g] = request[g], UNCHANGED <<visible, late>>, stream \subseteq stream'
        PROVE  RequestInv(request[g])'
    <2>1. RequestInv(request[g])
      BY <1>k DEF StreamInv
    <2> QED BY <1>k, <2>1 DEF RequestInv, NewerPageInv, OlderPageInv, IsFull
  <1>1. ASSUME NEW x \in Items, Publish(x) PROVE RequestInv(request[g])'
    <2>1. request' = request
      BY <1>1 DEF Publish, page
    <2> DEFINE r == request[g]
    <2>2. RequestInv(r)
      BY <2>1 DEF StreamInv
    <2>3. /\ visible' = visible \cup {x} /\ x \notin visible
          /\ late \subseteq late' /\ ((\E y \in visible : Newer(y, x)) => x \in late')
          /\ stream' = stream /\ stream \subseteq visible
      BY <1>1 DEF Publish, page, StreamInv, TypeOK
    <2>4. ASSUME r \in Answered, r.ref # None PROVE r.page \subseteq visible /\ r.ref \in visible
      BY <2>2, <2>3, <2>4 DEF RequestInv
    <2>5. ASSUME r \in Answered, r.ref # None, NewerPageInv(r) PROVE NewerPageInv(request[g])'
      BY <2>1, <2>3, <2>4, <2>5 DEF NewerPageInv
    <2>6. ASSUME r \in Answered, r.ref # None, OlderPageInv(r) PROVE OlderPageInv(request[g])'
      BY <2>1, <2>3, <2>4, <2>6 DEF OlderPageInv, IsFull
    <2> QED BY <2>1, <2>2, <2>3, <2>5, <2>6 DEF RequestInv
  <1>2. ASSUME NEW x \in Items, PushArrives(x) PROVE RequestInv(request[g])'
    BY <1>2, <1>k DEF PushArrives, Receive, server
  <1>3. CASE LoadStored
    BY <1>3, <1>k DEF LoadStored, Fetched, Receive, server
  <1>4. ASSUME NEW f \in Fetches, NEW kind \in {"since", "before"}, NEW ref \in stream \cup {None},
               Ask(f, kind, ref), UNCHANGED <<server, stream>>
        PROVE  RequestInv(request[g])'
    <2>1. CASE g = f
      <3>1. request'[g] = [kind |-> kind, ref |-> ref]
        BY <1>4, <2>1, <1>t DEF Ask
      <3>2. [kind |-> kind, ref |-> ref] \notin Answered
        <4>1. ref \in Cursors
          BY <1>t DEF TypeOK, Cursors
        <4>2. [kind |-> kind, ref |-> ref] \in Asked
          BY <4>1 DEF Asked
        <4> QED BY <4>2, AskedNotAnswered
      <3> QED BY <1>4, <3>1, <3>2 DEF RequestInv
    <2>2. CASE g # f
      BY <1>4, <2>2, <1>t, <1>k DEF Ask, server
    <2> QED BY <2>1, <2>2
  <1>5. ASSUME NEW f \in Fetches, FetchActivities(f) \/ FetchMoreActivities(f)
        PROVE  RequestInv(request[g])'
    <2>1. CASE FetchActivities(f)
      BY <2>1, <1>4, <1>t DEF FetchActivities, TypeOK
    <2>2. CASE FetchMoreActivities(f)
      <3>1. PICK ref \in Oldest(stream) : Ask(f, "before", ref)
        BY <2>2 DEF FetchMoreActivities
      <3>2. ref \in stream \cup {None}
        BY ExtremesType
      <3> QED BY <2>2, <3>1, <3>2, <1>4 DEF FetchMoreActivities
    <2> QED BY <1>5, <2>1, <2>2
  <1>6. ASSUME NEW f \in Fetches, Answer(f) PROVE RequestInv(request[g])'
    <2>1. UNCHANGED <<visible, late, stream>>
      BY <1>6 DEF Answer, server
    <2>2. CASE g = f
      <3>1. PICK items \in SUBSET visible :
              /\ IsPageFor(items, request[f])
              /\ request' = [request EXCEPT ![f] = [kind |-> @.kind, ref |-> @.ref, page |-> items]]
        BY <1>6 DEF Answer
      <3>2. request[f] \in Asked /\ RequestInv(request[f])
        BY <1>6, NoneAssumption DEF Answer, StreamInv
      <3>3. RequestInv([kind |-> request[f].kind, ref |-> request[f].ref, page |-> items])
        BY <3>1, <3>2, <1>t, AnswerInv
      <3>4. request'[g] = [kind |-> request[f].kind, ref |-> request[f].ref, page |-> items]
        BY <2>2, <3>1, <1>t
      <3> QED BY <2>1, <3>3, <3>4 DEF RequestInv, NewerPageInv, OlderPageInv, IsFull
    <2>3. CASE g # f
      BY <1>6, <2>1, <2>3, <1>t, <1>k DEF Answer
    <2> QED BY <2>2, <2>3
  <1>7. ASSUME NEW f \in Fetches, TakeNewer(f) \/ TakeOlder(f) PROVE RequestInv(request[g])'
    <2>1. stream \subseteq stream' /\ UNCHANGED <<visible, late>>
      BY <1>7 DEF TakeNewer, TakeOlder, Fetched, Receive, server
    <2>2. CASE g = f
      <3>1. request'[g] = [kind |-> "since", ref |-> lastItemFetched']
        BY <1>7, <2>2, <1>t DEF TakeNewer, TakeOlder
      <3>2. lastItemFetched' \in stream' \cup {None} /\ lastItemFetched' \in Cursors
        BY StepTypeOK DEF TypeOK, Cursors
      <3>3. [kind |-> "since", ref |-> lastItemFetched'] \notin Answered
        <4>1. [kind |-> "since", ref |-> lastItemFetched'] \in Asked
          BY <3>2 DEF Asked
        <4> QED BY <4>1, AskedNotAnswered
      <3> QED BY <3>1, <3>2, <3>3 DEF RequestInv
    <2>3. CASE g # f
      BY <1>7, <2>1, <2>3, <1>t, <1>k DEF TakeNewer, TakeOlder
    <2> QED BY <2>2, <2>3
  <1>8. ASSUME NEW f \in Fetches, FetchFails(f) PROVE RequestInv(request[g])'
    <2>1. g # f
      BY <1>8, <1>t DEF FetchFails
    <2> QED BY <1>8, <2>1, <1>t, <1>k DEF FetchFails, server
  <1>9. CASE Reload
    BY <1>9 DEF Reload
  <1>10. CASE UNCHANGED vars
    BY <1>10, <1>k DEF vars, server, page
  <1> QED
    BY <1>1, <1>2, <1>3, <1>5, <1>6, <1>7, <1>8, <1>9, <1>10 DEF Next, Browser, Network

LEMMA StepMissed == StreamInv /\ [Next]_vars => MissedOnlyIfPassed'
  <1> SUFFICES ASSUME StreamInv, [Next]_vars PROVE MissedOnlyIfPassed'
    OBVIOUS
  <1>k. ASSUME UNCHANGED <<server, stream, olderItemsOnServer, passed>> PROVE MissedOnlyIfPassed'
    BY <1>k DEF StreamInv, MissedOnlyIfPassed, Unreached, server
  <1>1. ASSUME NEW x \in Items, Publish(x) PROVE MissedOnlyIfPassed'
    <2>1. /\ visible' = visible \cup {x} /\ stream \subseteq visible
          /\ late \subseteq late' /\ ((\E y \in visible : Newer(y, x)) => x \in late')
          /\ UNCHANGED <<stream, olderItemsOnServer, passed>>
      BY <1>1 DEF Publish, page, StreamInv, TypeOK
    <2> QED BY <2>1 DEF StreamInv, MissedOnlyIfPassed, Unreached
  <1>2. ASSUME NEW x \in Items, PushArrives(x) PROVE MissedOnlyIfPassed'
    BY <1>2, NotedIsEnough DEF PushArrives, server
  <1>3. CASE LoadStored
    BY <1>3, <1>k, NotedIsEnough DEF LoadStored, server
  <1>4. ASSUME NEW f \in Fetches, TakeNewer(f) PROVE MissedOnlyIfPassed'
    <2>1. request[f] \in Answered /\ RequestInv(request[f]) /\ request[f].kind = "since"
      BY <1>4, NoneAssumption DEF TakeNewer, StreamInv
    <2>2. CASE request[f].ref = None
      BY <1>4, <2>2, NotedIsEnough DEF TakeNewer, NoteIfNewestPage, server
    <2>3. CASE request[f].ref # None
      <3>1. stream' = stream \cup request[f].page /\ UNCHANGED <<server, olderItemsOnServer, passed>>
        BY <1>4, <2>3 DEF TakeNewer, NoteIfNewestPage, Fetched, Receive
      <3> QED BY <2>1, <2>3, <3>1, NewerPageReaches
    <2> QED BY <2>2, <2>3
  <1>5. ASSUME NEW f \in Fetches, TakeOlder(f) PROVE MissedOnlyIfPassed'
    <2>1. request[f] \in Answered /\ RequestInv(request[f]) /\ request[f].kind = "before"
      BY <1>5, NoneAssumption DEF TakeOlder, StreamInv
    <2>2. CASE request[f].ref = None
      BY <1>5, <2>2, NotedIsEnough DEF TakeOlder, NoteIfNewestPage, server
    <2>3. CASE request[f].ref # None
      <3>1. /\ stream' = stream \cup request[f].page /\ olderItemsOnServer' = IsFull(request[f].page)
            /\ UNCHANGED <<server, passed>>
        BY <1>5, <2>3 DEF TakeOlder, NoteIfNewestPage, Fetched, Receive
      <3> QED BY <2>1, <2>3, <3>1, OlderPageReaches
    <2> QED BY <2>2, <2>3
  <1>6. ASSUME NEW f \in Fetches,
               FetchActivities(f) \/ FetchMoreActivities(f) \/ Answer(f) \/ FetchFails(f)
        PROVE  MissedOnlyIfPassed'
    BY <1>6, <1>k DEF FetchActivities, FetchMoreActivities, Answer, FetchFails
  <1>7. CASE Reload
    BY <1>7 DEF Reload, MissedOnlyIfPassed, Unreached
  <1>8. CASE UNCHANGED vars
    BY <1>8, <1>k DEF vars, page
  <1> QED
    BY <1>1, <1>2, <1>3, <1>4, <1>5, <1>6, <1>7, <1>8 DEF Next, Browser, Network

LEMMA StepStored == StreamInv /\ [Next]_vars => (stored # None => stored.items \subseteq visible)'
  <1> SUFFICES ASSUME StreamInv, [Next]_vars, stored' # None PROVE stored'.items \subseteq visible'
    OBVIOUS
  <1>1. visible \subseteq visible'
    BY DEF Next, Browser, Network, Publish, PushArrives, LoadStored, FetchActivities,
           FetchMoreActivities, Answer, TakeNewer, TakeOlder, FetchFails, Reload, vars, server
  <1>2. stored' = stored \/ stored' = [items |-> stream, olderItemsOnServer |-> olderItemsOnServer]
    BY DEF Next, Browser, Network, Publish, PushArrives, LoadStored, FetchActivities,
           FetchMoreActivities, Answer, TakeNewer, TakeOlder, FetchFails, Reload, vars
  <1> QED BY <1>1, <1>2 DEF StreamInv, TypeOK

-------------------------------------------------------------------------------
(***************************************************************************)
(* The inductive invariant: pages in flight are next to the item they were *)
(* asked for, which the stream still has, and what is stored was visible.  *)
(***************************************************************************)
THEOREM StreamSafety == Spec => []StreamInv
  <1>1. Init => StreamInv
    BY InitStreamInv
  <1>2. StreamInv /\ [Next]_vars => StreamInv'
    BY StepTypeOK, StepRequests, StepMissed, StepStored DEF StreamInv
  <1> QED BY <1>1, <1>2, PTL DEF Spec

(* The stream, the cursor and the requests keep their types; the stream is visible. *)
THEOREM TypeCorrect == Spec => []TypeOK
  <1>1. StreamInv => TypeOK
    BY DEF StreamInv
  <1> QED BY <1>1, StreamSafety, PTL

(***************************************************************************)
(* Pages are contiguous whatever the order of the answers: an item that    *)
(* paging does not reach was passed over by a push, came late or is tied.  *)
(***************************************************************************)
THEOREM MissedSafety == Spec => []MissedOnlyIfPassed
  <1>1. StreamInv => MissedOnlyIfPassed
    BY DEF StreamInv
  <1> QED BY <1>1, StreamSafety, PTL

LEMMA StepStuck == StreamInv /\ StuckOnlyAfterFailure /\ [Next]_vars => StuckOnlyAfterFailure'
  <1> SUFFICES ASSUME StreamInv, StuckOnlyAfterFailure, [Next]_vars, fetching', ~failed'
               PROVE  \E f \in Fetches : request'[f] # None
    BY DEF StuckOnlyAfterFailure
  <1>t. request \in [Fetches -> Asked \cup Answered \cup {None}]
    BY DEF StreamInv, TypeOK
  <1>n. \A r \in Asked \cup Answered : r # None
    BY NoneAssumption
  <1>k. ASSUME UNCHANGED <<fetching, request, failed>> PROVE \E f \in Fetches : request'[f] # None
    BY <1>k DEF StuckOnlyAfterFailure
  <1>1. ASSUME NEW x \in Items, Publish(x) \/ PushArrives(x)
        PROVE  \E f \in Fetches : request'[f] # None
    BY <1>1, <1>k DEF Publish, PushArrives, page
  <1>2. CASE LoadStored
    <2>1. CASE stored = None
      BY <1>2, <2>1, <1>k DEF LoadStored
    <2>2. CASE stored # None
      BY <1>2, <2>2 DEF LoadStored, Fetched
    <2> QED BY <2>1, <2>2
  <1>3. ASSUME NEW f \in Fetches, NEW kind \in {"since", "before"}, NEW ref \in Cursors,
               Ask(f, kind, ref)
        PROVE  \E g \in Fetches : request'[g] # None
    <2>1. request'[f] = [kind |-> kind, ref |-> ref] /\ [kind |-> kind, ref |-> ref] \in Asked
      BY <1>3, <1>t DEF Ask, Asked
    <2> QED BY <2>1, <1>n
  <1>4. ASSUME NEW f \in Fetches, FetchActivities(f) \/ FetchMoreActivities(f)
        PROVE  \E g \in Fetches : request'[g] # None
    <2>1. \E kind \in {"since", "before"}, ref \in Cursors : Ask(f, kind, ref)
      BY <1>4, ExtremesType DEF FetchActivities, FetchMoreActivities, StreamInv, TypeOK, Cursors
    <2> QED BY <2>1, <1>3
  <1>5. ASSUME NEW f \in Fetches, Answer(f) PROVE \E g \in Fetches : request'[g] # None
    <2>1. PICK items \in SUBSET visible :
            request' = [request EXCEPT ![f] = [kind |-> @.kind, ref |-> @.ref, page |-> items]]
      BY <1>5 DEF Answer
    <2>2. [kind |-> request[f].kind, ref |-> request[f].ref, page |-> items] \in Answered
      BY <1>5 DEF Answer, Asked, Answered, StreamInv, TypeOK
    <2> QED BY <2>1, <2>2, <1>t, <1>n
  <1>6. ASSUME NEW f \in Fetches, TakeNewer(f) PROVE \E g \in Fetches : request'[g] # None
    <2>1. IsFull(request[f].page)
      BY <1>6 DEF TakeNewer, Fetched
    <2>2. request'[f] = [kind |-> "since", ref |-> lastItemFetched']
      BY <1>6, <2>1, <1>t DEF TakeNewer
    <2>3. [kind |-> "since", ref |-> lastItemFetched'] \in Asked
      BY StepTypeOK DEF TypeOK, Cursors, Asked
    <2> QED BY <2>2, <2>3, <1>n
  <1>7. ASSUME NEW f \in Fetches, TakeOlder(f) \/ FetchFails(f)
        PROVE  \E g \in Fetches : request'[g] # None
    BY <1>7 DEF TakeOlder, Fetched, FetchFails
  <1>8. CASE Reload
    BY <1>8 DEF Reload
  <1>9. CASE UNCHANGED vars
    BY <1>9, <1>k DEF vars, page
  <1> QED
    BY <1>1, <1>2, <1>4, <1>5, <1>6, <1>7, <1>8, <1>9 DEF Next, Browser, Network

(***************************************************************************)
(* The flag that keeps fetchMoreActivities from fetching is not left set   *)
(* by any interleaving of answers, loads and pushes; only a failure does.  *)
(***************************************************************************)
THEOREM StuckSafety == Spec => []StuckOnlyAfterFailure
  <1>1. Init => StuckOnlyAfterFailure
    BY DEF Init, StuckOnlyAfterFailure
  <1>2. StreamInv /\ StuckOnlyAfterFailure /\ [Next]_vars => StuckOnlyAfterFailure'
    BY StepStuck
  <1> QED BY <1>1, <1>2, StreamSafety, PTL DEF Spec

LEMMA InitCopy == Init => Copy!Init
BY DEF Init, Copy!Init

LEMMA StepCopy == StreamInv /\ [Next]_vars => [Copy!Next]_(Copy!vars)
  <1> SUFFICES ASSUME StreamInv, [Next]_vars PROVE Copy!Next \/ UNCHANGED Copy!vars
    OBVIOUS
  <1> DEFINE kept == IF stored = None THEN {} ELSE stored.items
  <1>t. stream \subseteq Items /\ visible \subseteq Items
    BY DEF StreamInv, TypeOK
  <1>1. ASSUME NEW x \in Items, Publish(x) PROVE Copy!Next
    <2>1. Copy!Appear(x)
      BY <1>1 DEF Publish, page, Copy!Appear
    <2> QED BY <2>1 DEF Copy!Next
  <1>2. ASSUME NEW items \in SUBSET visible, stream' = stream \cup items, UNCHANGED <<visible, stored>>
        PROVE  Copy!Next
    <2>1. Copy!Learn(items)
      BY <1>2 DEF Copy!Learn
    <2> QED BY <2>1, <1>t DEF Copy!Next
  <1>3. ASSUME NEW x \in Items, PushArrives(x) PROVE Copy!Next
    BY <1>3, <1>2 DEF PushArrives, Receive, server
  <1>4. CASE LoadStored
    <2>1. CASE stored = None
      BY <1>4, <2>1 DEF LoadStored, server, Copy!vars
    <2>2. CASE stored # None
      <3>1. Copy!Restore
        BY <1>4, <2>2 DEF LoadStored, Fetched, Receive, server, Copy!Restore
      <3> QED BY <3>1 DEF Copy!Next
    <2> QED BY <2>1, <2>2
  <1>5. ASSUME NEW f \in Fetches, TakeNewer(f) \/ TakeOlder(f) PROVE Copy!Next
    <2>1. request[f].page \subseteq visible
      BY <1>5, NoneAssumption DEF TakeNewer, TakeOlder, StreamInv, RequestInv
    <2> QED BY <1>5, <2>1, <1>2 DEF TakeNewer, TakeOlder, Fetched, Receive, server
  <1>6. CASE Reload
    <2>1. kept' \in {kept, stream}
      <3>1. CASE UNCHANGED stored
        BY <3>1
      <3>2. CASE stored' = [items |-> stream, olderItemsOnServer |-> olderItemsOnServer]
        <4>1. stored' \in Snapshots
          BY <3>2, <1>t DEF Snapshots, StreamInv, TypeOK
        <4> QED BY <3>2, <4>1, NoneAssumption
      <3> QED BY <1>6, <3>1, <3>2 DEF Reload
    <2>2. Copy!NewPage
      BY <1>6, <2>1 DEF Reload, server, Copy!NewPage
    <2> QED BY <2>2 DEF Copy!Next
  <1>7. ASSUME NEW f \in Fetches,
               FetchActivities(f) \/ FetchMoreActivities(f) \/ Answer(f) \/ FetchFails(f)
        PROVE  UNCHANGED Copy!vars
    BY <1>7 DEF FetchActivities, FetchMoreActivities, Answer, FetchFails, server, Copy!vars
  <1>8. CASE UNCHANGED vars
    BY <1>8 DEF vars, server, page, Copy!vars
  <1> QED
    BY <1>1, <1>3, <1>4, <1>5, <1>6, <1>7, <1>8 DEF Next, Browser, Network

(* The page keeps a copy of what the server shows, as StreamCopy describes it. *)
THEOREM StreamRefinement == Spec => ImplementsCopy
  <1>1. Init => Copy!Init
    BY InitCopy
  <1>2. StreamInv /\ [Next]_vars => [Copy!Next]_(Copy!vars)
    BY StepCopy
  <1> QED BY <1>1, <1>2, StreamSafety, PTL DEF Spec, ImplementsCopy, Copy!Spec
===============================================================================
