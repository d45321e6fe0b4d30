# My Warwick: specifications

TLA+ specifications of My Warwick (`lol768/mywarwick`), model-checked with TLC
and, where it says so, proved with TLAPS. Paths are those of the repository
(`app/...` is `src/app/...` in `PROJECT.json`).

My Warwick gives alerts ("notifications"), activities and news to the members of
a university. A publisher saves an *activity* for an *audience*; a Quartz job
publishes it when its date comes: the audience is resolved to users, each gets a
row in `ACTIVITY_RECIPIENT`, and for a notification a row in `MESSAGE_SEND` for
each output (email, SMS, push). Worker nodes drain that table. Browsers fetch
their stream and get new items over a web socket.

## The system's parts

| part | state | operations | talks to |
|---|---|---|---|
| Message queue (`MessagingService`, `MessagingDao`) | `MESSAGE_SEND`: state, `SEND_AT` | `send`, `lockRecord`, `success`/`failure`/`skipped`, clean-up, reschedule | called by publishing jobs, workers, do not disturb |
| Worker actors (`WorkerActor`) | a mailbox, a timer, a running Future | `receive(WorkAvailable)` and two callbacks | queue, activities, outputs |
| Outputs (email, SMS, APNS, FCM, web push) | push registrations | `send` | external services |
| Activity publishing (`ActivityService`, its DAOs) | `ACTIVITY`, `ACTIVITY_RECIPIENT`, `AUDIENCE_COMPONENT` | `save`, `update`, `delete`, `setRecipients`, `updateAudienceCount`, `markProcessed` | Quartz, audiences, queue |
| Publishing jobs (`PublishingJob`, `SchedulerService`) | Quartz tables: a job's data and trigger | `execute`, `maybeRetryJob`, `scheduleJob`, `deleteJob` | activities, news, queue, PubSub |
| Do not disturb | a period for each user | `set`, `disable`, `getRescheduleTime` | queue |
| News (`NewsService`) | `NEWS_ITEM`, its recipients and audience | `save`, `update`, `delete` | Quartz, audiences |
| Client stream (`stream.js`, `state/notifications.js`) | a redux store, persisted | fetch newer, fetch older, receive from the socket | API, web socket |
| Web socket (`restartable-websocket.js`, `WebSocketActor`, `PubSub`) | a socket, two timers, a delay; subscriptions | reconnect, publish | client stream, publishing jobs |
| User of the page (`state/user.js`, `userinfo.js`, `boot.js`, `persisted.js`) | who is signed in, what an earlier page has stored | load, ask, retry, clear | the server, every slice of the store |
| Tiles (`state/tiles.js`, the edit views, `TileService`) | `USER_TILE`; a slice of the store, persisted | fetch, edit, persist (GET and PUT) | user of the page, API |
| News feed of the client (`state/news.js`) | items, offset | fetch, refresh | API |
| Mutes, preferences, push registrations, search index, reports | rows of a user; an index | edits and lookups | most of the above |

What is hard in it:

* **Every worker node polls one table.** `lockRecord` selects up to four rows
  and takes the first it can move from A to T; batches overlap, and a node may
  die after any transaction. Correct means: nobody gets a message twice, no
  message that is due waits for ever, a held one is not sent early, the count of
  the publisher's page is right.
* **Quartz is a second database session.** `save` and `update` create and delete
  the job inside a transaction that Quartz is not part of, so the job may run
  before the commit, and outlive a rollback. Correct means: what was saved last
  is what the recipients get, once.
* **Check, then act.** `update` and `delete` look at the date before their
  transaction; executions, retries and other requests come in between.
* **Retries repeat.** A failed execution starts again from its first statement,
  with a count kept in data that other requests delete.
* **The client merges three sources** (what it persisted, what it fetches, what
  it is sent) in any order, with pages of limited length.
* **A page starts with what another left.** It shows and sends what local
  storage holds before it knows whose page it is; its GETs and PUTs cross.
  Correct means: nobody loses tiles they have not hidden, nobody sees another's,
  and a page at rest shows what the server keeps.

`PROJECT.json` lists the hazards line by line, with the properties that cover
each of them or the module it waits for.

## Modules

| module | models | status |
|---|---|---|
| `MessageDelivery` | what the queue promises, without workers | done |
| `MessageQueue` | the table, the workers, the calls that change the table | checked, proved |
| `MessageQueueProofs` | its invariants and the refinement of `MessageDelivery` | proved |
| `PublishActivity` | the requests on one activity, its job, executions and retries | checked, proved |
| `PublishActivityProofs` | its types, the bound on executions, and what comes of a publication: messages, recipients, counts | proved |
| `DoNotDisturb` | the period of one user, the clock, and the calls that use it | checked, proved |
| `DoNotDisturbProofs` | its types and its safety properties | proved |
| `StreamItems`, `StreamMerge` | the arrays of `stream.js`, their merge and how they are read, as functions | checked, proved |
| `StreamMergeProofs` | the merge and the reading of arrays of any length | proved |
| `StreamCopy` | what a page promises of its copy of the stream | done |
| `ActivityStream` | fetches, pushes, persisted copy, failures, reloads | checked, proved |
| `ActivityStreamProofs` | types, safety, the refinement of `StreamCopy` | proved |
| `GroupItemsByDate` | the headings of a list, as functions | checked, proved |
| `NewsFeed` | the news feed of the client, and the list that it pages through | checked, proved |
| `ClientLists` | the three ways in which the client lists things, for one run and its proofs | checked, proved |
| `ClientListsProofs` | headings of lists of any length, and the safety of `NewsFeed` | proved |
| `Connection` | what the web socket promises | done |
| `RestartableWebSocket` | sockets, timers, the back-off | checked, proved |
| `RestartableWebSocketProofs` | types, one connection, the refinement of `Connection` | proved |
| `UserSession` | how a page learns its user | checked with `Tiles` |
| `Tiles` | the tiles of the page, of local storage and of the server | checked, proved |
| `TilesProofs` | types and all safety properties of `Tiles` | proved |
| `MC...` | instances for TLC | |

### MessageQueue

A message id is a record of the immutable columns of its row. `row` is `STATE`,
with "new" before the insert and "gone" after a delete; `held` is "`SEND_AT` is
in the future". A worker's `pc` names the place inside `receive` between two
transactions: `SelectBatch` is the `SELECT ... FOR UPDATE`, `LockRecord` the
update of one of the rows, `NoWork` the empty hand, then `FindActivity`,
`MarkRecipient`, `StartSending` or `UserMissing` are the statements of
`processNow`. `receive` returns with the Future running (`sending`); when it
completes, two callbacks are owed (`recording`, `nudging`) and run in either
order. The row of a batch is not locked in the model between SELECT and UPDATE:
other workers may take it, which allows every behaviour of the database's lock
and more. `ReceiveThrows` is supervision (the actor is restarted, its
constructor asks for work), `RecordThrows` a lost outcome, `Crash` and `Restart`
a node. `Send`, `DeleteActivity`, `UpdateSendAt` and `CleanUp` are what the rest
of the system does to the table; muting and preferences are choices.

`MessageDelivery` has no workers: a message is accepted, claimed once, handed
over at most once, gets a verdict that agrees with whether it was handed over,
or is withdrawn. `ImplementsDelivery` says that the table implements it, with
the same two variables (`row`, `attempts`).

### PublishActivity

One notification (`shouldNotify`), one Quartz job, and a set of calls of
`ActivityService`, one of which is the `save`. A request goes through its
statements: what it writes to the database appears at `Commit`, what it does to
the job at once. `lock` is the row lock on `ACTIVITY` from `dao.update` to the
commit; without a row there is nothing to lock, so that requests can overlap
after a delete. The job is its data (audience id, failed attempts) and its
trigger; a trigger that has fired stays until the execution ends, and Quartz
then forgets the job, unless it was created again meanwhile (`JobDone`).
`MaybeRetryJob` is `maybeRetryJob` with what Quartz does after it: a job that
was created again keeps its new trigger and gets the *old* data, as
`@PersistJobDataAfterExecution` says. `MarkMuted` and `InsertMessages` are
`messaging.send`. A worker's processing of a message is one step here
(`Deliver`); its steps are in `MessageQueue`.

A date with milliseconds is before or after the clock; in the model a date equal
to the clock counts as passed, in the guards of the code (`isBeforeNow`,
`isAfterNow`) and in the properties alike.

`harm` is history: "early" (an execution began before the commit of the request
that scheduled it), "raced" (an update or delete came while or after it was
published), "lost" (a failure took the job), "repeated" (an execution that may
have sent was retried). The properties say what holds outside of these, and the
two runs that expect a violation show the first two happening without any
failure.

### DoNotDisturb

One user. A moment is a date and an hour; `Reschedule` is `reschedule` of the
time read first (`ReadTime`) and the date read last (`Compute`, after the query
for the period on a connection of its own). The clock goes on between any two
steps, a worker may `Take` what is due, and a call of `send` has one message:
messages of one user share nothing but the period, so those of further outputs
or activities behave alike. `set` is two transactions (`Set`, then `Update`),
`disable` one. `harm` is history again: "midnight" (a call read the time before
it and the date after), "raced" (the period changed between the answer that a
call got and its transaction), "failed" (`set` stopped halfway).
`RescheduleToNextEnd` compares `Reschedule` with a definition that knows
nothing of midnight: the hours walked round the clock. `DueStaysDue` is what
lets `MessageQueue` treat do-not-disturb as it does: its `UpdateSendAt` changes
held rows only.

### ActivityStream and StreamMerge

The store keeps a stream as an array for each month. `StreamMerge` translates
the merge of `stream.js` with its short cuts by date, and what reads the arrays:
`takeFromStream`, the last item, the size, the number of items since a date, and
`freeze`. `MergeIsSortedUnion` compares the merge with what it must compute, and
`StreamIsReadInOrder` says that the months together read as one sorted list.
That is why the stream of `ActivityStream` may be a set: the arrays are the
sorted set. The code for activities and for notifications is there twice, and
the module stands for either. A month is a number, and all that is assumed of it
is that later months have later dates; the keys of the code are strings that
sort alike. Where the code takes months in the order in which they were made
(`freeze`), the model takes every order.

A request sits in a slot: first what it asks (`Asked`), then the page that the
server has computed (`Answered`), so that items appear, pushes arrive and other
requests are served between any two of its steps. `TakeNewer` is the recursion
of `fetchActivities` after a full page, `TakeOlder` a page of the scrolling,
`PushArrives` a message of the socket, `LoadStored` the copy that `persisted`
dispatches as if it had been fetched, `Reload` a new page with what the old one
had stored, up to date or not. `FetchFails` leaves `fetching` as it is, as the
code does.

`passed`, `late` and `failed` are history. `passed` are items that were missing
while something came in no order and went above them; `late` became visible
after a newer one; `Tied` share their date with another. The properties say that
nothing else is missed. One user: a change of user clears the store, which is in
`Tiles`. The filter, the mutes and the read marker of a stream do not change
which items it has, and are left out. So is the replacement of one activity by
another: the query for a page leaves out those that have been replaced
(`ActivityDao.scala:280`), which then are in the stream of a page that has them
already and of no other.

### GroupItemsByDate

The views put the stream under headings, in one pass that throws if a group
comes up twice. The functions are those of the code, the clock being read once
for each day of the list; `GroupsFollowTheList` takes every sorted list that
`shouldBeGrouped` admits, with midnight at every place.

### RestartableWebSocket

Sockets and timers are counted, as nothing but the order of callbacks keeps them
from multiplying. A callback is an action (`Opens`, `Closes`, `RetryTimerFires`,
`ResetTimerFires`), with what `backoff` does in it. Nothing in the client sends
or closes the socket explicitly, so that the buffer and `explicitlyClosed` are
not there. `Connection` has one variable, the link; `ImplementsConnection` maps
the counts to it, fairness included.

### UserSession and Tiles

`UserSession` is what a page knows of its user: it starts from `storedUser`,
asks (`info`), may be told something unreadable (and asks again after the timer),
may be told nothing, and when it learns another user than the stored one, clears
local storage and the store before it goes on. Signing in leaves the page, so
`signedIn` changes only at `OpenPage`. One exchange at a time, of one page: two
tabs of a browser, which share local storage and the cookie, are not covered.
Calls of local storage execute in order, and any of them may fail, as the code
expects: `loadUserFromLocalStorage` then answers nobody, so that the user counts
as another one (`LearnOtherUser`), `localforage.clear` ends the exchange
(`ClearFails`), and after `setItemFailed` the user is received all the same, not
stored (`ReceiveUser`). `mislaid` is history: the page has lost what local
storage knew of its user.

`Tiles` conjoins to these steps what they do to the tiles: `MeetUser` clears the
stored copy, `Forget` is `USER_CLEAR`, `Welcome` is `USER_RECEIVE` with the one
fetch of `loadDataFromServer`, `Resume` the native app coming to the front. `Save`
stores a change of the slice, or fails to and logs it. A
copy of tiles carries, for the properties only, whose it is (`of`). The tiles
are persisted when the view of `/edit` is hidden (`Navigate`), although
`AddingTilesView` says that the change of layout does it; whoever goes elsewhere
from `/edit/add` (`away`) has a tile that is shown but not sent. The server takes each
default tile that a PUT does not mention for removed (`Saved`). Whether a tile is
removed stands for all its settings. `early`, `stray` and `crossed` are history,
and name what the code does not exclude: a PUT of a page that did not know its
user, tiles stored while local storage named somebody else, requests that overlap.

### NewsFeed

`news` is the slice of the store, `server` the list that a request pages
through, `asked` the offsets of the requests in flight. Pages go by offset,
which is a position in a list that changes in any place: `Publish` is an item
that gets recipients (a save, whose date may be in the past, the job that comes
after an update, a category selected again), `Withdraw` one that is deleted, has
no recipients until its job runs, or is in a category that is deselected. Changes
of several items at a time are a series of these; an update that moves an item is
a `Withdraw` and a `Publish`. `Show` is the
view that fetches when it is empty, at its end or after a failure; `Refresh`
(`NEWS_REFRESH` and a fetch) forgets a request in flight but not its answer, so
that there may be several, answered in any order (`Answer`) or not (`Fail`).
`Receive` is `NEWS_RECEIVE`, with an offset that counts duplicates once more.

`Answer` is the server's part and the client's in one step: what changes the
list between the two may as well come after both, as the client does not look at
it. The two queries of `latestNews` (ids, then items) are taken to see the same
list; an item deleted in between is missing from the page. Items of one date are
taken to keep their order, which the query does not promise. In what order the
items are shown is not looked at: those that are received late come below older
ones.

`listed`, `repeated`, `withdrawn` and `overtaken` are history, since the last
refresh: the items that have been listed all the time, how many items came a
second time, how many were withdrawn from above the offset, and whether that
refresh overtook a request. `Passed` are the places of items listed all the time
that the feed has gone past: they are not shown, and the next page begins below.

`ClientLists` puts `NewsFeed`, `StreamMerge` and `GroupItemsByDate` together.
What is said of the two that are functions depends on no state; its properties
`MergesAreSortedUnions`, `StreamsAreReadInOrder` and `ListsAreGrouped` say it of
the initial state, where TLC computes it once.

## Runs

| run | question | bounds |
|---|---|---|
| `queue_safety` | safety, and the refinement | 2 workers, 1 activity, 2 users, 3 messages (two of one user), batches of 2, 1 fault |
| `queue_liveness` | does the queue drain? | 2 workers, 2 messages, batches of 1, 1 fault |
| `queue_stuck` | is a taken message always settled? **No** | the same |
| `publish` | is what was saved published, once? | 2 users, 2 requests, 2 faults, 1 retry, 2 points in time |
| `publish_early` | with no failure, is a saved activity published? **Not always** | 1 user, 1 request |
| `publish_race` | is a published activity left alone? **Not always** | 1 user, 2 requests |
| `dnd` | is a message held for as long as it should be? | 1 message, 2 requests, days of 3 hours, 3 days, 1 fault |
| `dnd_quiet` | is the period quiet? **Not always** | 1 message, no request |
| `client_stream` | what can a page miss, and does a fetch catch up? | 3 items, 2 requests in flight, pages of 1, 1 failure or reload |
| `client_lists` | what can the news skip, and are lists merged, read and grouped right? | pages of 1, 4 items of which 3 are listed at the start, 2 withdrawn from above the offset, 2 requests in flight; arrays of 5 items, 2 months, 2 pairs of one date, up to 3 received at a time; lists of 3 dates within 3 weeks before and after |
| `web_socket` | one connection, for ever? | delays of 500 ms to 30 s in units of 500 ms, 12 closes |
| `client_tiles` | whose tiles are shown, and which disappear? | 2 users, 1 tile, 2 GETs and 1 PUT at a time, 2 pages after any earlier visit, 1 fault (an answer lost or spoiled, a call of local storage that fails) |

Why the bounds are enough: the queue's hazards are between two workers and two
messages of one recipient, and a second user makes batches overlap in part; a
batch smaller than the table leaves rows behind. In `publish` two failures give
a retry that fails again (`RetryTimes` = 1 gives two executions), a crash after
a retry, and a failure during an update; two points in time are before and after
a date. A create finds a job of another request only with four of them: a save,
a delete (which leaves no row to lock), and two updates that passed their check
before it. That many are left to the proofs, which are of any number.
The runs of `PublishActivity` do not check for
deadlock: their requests are used up, and the system really stops. A day of
three hours has periods that span midnight, that do not, and that have no
length, each with an hour inside and one outside if it is possible; two requests
are a change of the period during a change. The clock of `DoNotDisturb` stops at
`LastDay`, so its runs do not check for deadlock either.

In `client_stream` three items are one that is missed between two that are not;
two requests in flight are a fetch of newer and one of older items; every item
is a full page, so that each fetch goes on until an empty one. The dates of the
state machine differ; items of equal dates are in the proof and in the arrays.
In `client_lists` a page is one item, so that each item is at a boundary and a
duplicate fills a page; an item may be withdrawn and listed again elsewhere as
often as that keeps the bound on `withdrawn`, a fourth item comes in any place,
and two withdrawals and the duplicates they mix with get three items passed; two
requests are one that a refresh forgets and its own. Items are symmetric. The arrays have a
pair of one date in each month, so that a short cut by date meets items before,
at and behind a tie, and the months of what is received may differ.
The socket runs with its real delays, and twelve closes double the delay to its
limit with some to spare. In `client_tiles` two users are the one before and the
one now; a second page is the one that finds what the first has left, and the
first finds what any earlier visit has left. One tile is enough since tiles do
not touch each other. Closes, pages and faults are used up in the end, so these
two runs do not check for deadlock. What the bounds leave out the proofs cover:
they hold for all sizes, `MaxPuts` included.

Bounds are constants: `MaxFaults` (crashes, exceptions, failed calls),
`MaxTime`, `LastDay`, `HoursPerDay` (24), `LockBatch` (4 in the code) and `RetryTimes`
(`quartz.job.retryAttempts`, 5 in `conf/default.conf`). Ids are used once, as
UUIDs are.

Fairness. Workers: the actor system delivers mailboxes, fires timers and runs
callbacks; output services complete their Futures (web calls time out); a dead
node is started again; a held message's `SEND_AT` passes. Publishing: the clock
goes on, a request that has begun goes on or fails, Quartz fires triggers and
runs its threads, workers work. Nobody has to make a request, send, delete or
fail. Client: the server answers and the page takes the answers, unless a
request fails; the two timers fire, and an attempt to connect has an outcome.
Nothing is assumed of the tiles. All of it is weak fairness: no step that the system has to take is
disabled again and again for ever.

### What they show

* A message is handed over at most once, even with crashes: the price is that
  one taken by a node that dies, or whose processing throws, is never sent nor
  reported (`queue_stuck`), against the comment of `MessagingService`.
* A worker's loop cannot die out or double, by any path.
* A save can be published by nobody (`publish_early`): Quartz may run the job
  before the commit, find no audience, and end without a retry.
* The check of the date in `update` and `delete` does not keep a published
  activity from being changed (`publish_race`), after which its users may get a
  second message.
* Apart from the cases that `harm` names, what is published is what was saved
  last, once to each user, and the counts of the publisher's page agree
  (`PublishedAsSaved`, `OneMessageEach`, `PastWhenSent`).
* A job is executed at most `RetryTimes` + 1 times: the count of failures
  starts at 0 with the first one, so it is one more than the log line says, and
  an update during an execution does not change that.
* A message is held until the next end of the period the user has now, and for
  no more than a day; but a change of the period in the middle of a call, a
  failure in `set` or midnight between two readings of the clock leave a message
  with a time of its own, at most two days away.
* The period is looked at when a message is sent, not when it is taken: one that
  waits when the period begins goes out in it (`dnd_quiet`), against what the
  settings page says.
* A stream never loses what it has, and pages are contiguous in whatever order
  their answers come; but any answer moves the cursor to the newest item,
  a pushed one included, so that items published while the socket was closed are
  never fetched if a push and an answer come before the next fetch. Late items
  and items of one date at the end of a page are skipped for good as well
  (`MissedOnlyIfPassed`).
* After one failed fetch the list cannot be scrolled until some later fetch
  succeeds (`StuckOnlyAfterFailure`).
* There is one socket or one timer at any time, and the delay is set back only
  by a connection that lasts.
* Tiles can still disappear (NEWSTART-1290): a copy in local storage counts as
  fetched, even one of no tiles, and a page that leaves `/edit` before it knows
  its user sends it (`RemovedOnlyIfHidden`, whose exception `early` is this).
  Tiles can be shown to the next user of a browser if the native app fetched
  them before it knew whose they were (`stray`). A page whose requests have
  crossed may stay out of date (`crossed`). None of this happens otherwise.
* A page that knows its user always has its tiles, a failure to show, or a fetch
  under way (`FetchUnderWay`), unless local storage has failed it (`mislaid`):
  the user that could not be stored is another user when the native app comes to
  the front, the page is cleared, and it has had its one fetch. It stays without
  tiles until the app comes to the front again.
* A list that a view groups can be grouped: dates more than a week ahead would
  break it, but the look at the newest item keeps them out.
* The news feed may pass an item for each one that it is sent twice since the
  refresh, which happens when something is listed above while the user scrolls:
  its offset counts duplicates once more than it should. It may pass another for
  each one that is withdrawn from above the offset, as no offset can make good.
  It passes no more than that (`SkipsOnlyAfterChanges`), unless a refresh
  overtakes a request: the answer of before is then put into the new list, and
  moves its offset past items that it does not hold.
* The short cuts of the merge lose and misplace nothing, whatever is received,
  and what `freeze` stores is the same stream when it is loaded.

## Proofs

Assumptions are those named in the modules: a message's columns are of the
declared sets, users are finite in number (counts are numbers), bounds are
natural numbers, and `None` is none of the values it stands beside.

`MessageQueueProofs` proves the invariant `IInv` of `MessageQueue` and from it
`TypeOK`, `AtMostOnce`, `OneHolder`, `OneToken`, `HeldNotTaken` and the
refinement, for any number of workers, users and messages. `AtMostOnce` is not
inductive: that a message is handed over only once needs that the worker at
`StartSending` is its only holder (`OneHolder`), that a held message's row is T
or gone and so cannot be taken again (`HolderOfTaken`), and that a message at
that place has not been handed over yet (`AttemptsByPlace`). `OneToken` counts;
`TokenPlace` says the same as a list of the places, which the solver can follow
and from which the count is proved at the end with the theorems about finite
sets. `HeldNotTaken` needs `BatchNotHeld`: what a worker selected stays due as
long as it is available, because the update of `SEND_AT` changes only rows that
are held. `SentCountExact` has a proof of its own, by the cardinality of the
disjoint union of the recipients sent before and those that a step marks.

`PublishActivityProofs` proves `TypeOK`, and `RetriesBounded` by `RetryInv`: for
a job that waits, executions so far are at most failed attempts + 1, and fewer
than allowed; for one that runs, the same holds of what the execution has read.
A request that deletes and creates the job while it runs starts at no
executions, and the old execution can only raise the stored attempts.

It goes on from there with four invariants, for any users and requests, and any bounds on faults and
retries. `RequestsInv` says what the row lock and the one `save` give: as long
as the activity is there, one request at most is between its `dao.update` and
its commit, and before the first commit no audience has anybody in it. The other
three each prove a property that is far from inductive:

* `OneMessageEach` by `MessagesInv`. That a user has at most one message says
  nothing of the execution that is about to send another. `SendsOnce` does: an
  execution that has still to send, and whose audience is not empty, finds that
  nothing has been sent; so does a job that waits while none is running; and a
  job that waits behind an execution has an audience that has not been committed.
  A retry keeps this unless it is "repeated", a request unless it is "raced".
* `PublishedAsSaved` by `SavedInv`. Between requests (`~Changing`) the activity
  is in one of three places: its job waits, and has the audience last committed;
  an execution has that audience, and what it has read of it is that audience;
  or it has the recipients. What is committed is where the job points, as a
  request that has scheduled but not committed still holds the lock. Each way in
  which an activity can leave the three is one that `harm` calls "early" or
  "lost".
* `PastWhenSent` by `PastInv`, which needs all of the others. `SENT_COUNT` is
  the number of recipients marked as sent; a recipient who is not marked has a
  message, or is among those the execution will send to (`ProcessedSoFar`); and
  with nothing left to execute, `AUDIENCE_SIZE` has been counted from the
  audience committed (`CountedAtRest`). The sum of the parts is then a statement
  about cardinalities (`MarkProcessedCounts`).

`harm` lists what may go wrong, and `OnlyTwoRaces` says how much of it takes a
failure: without one, and as long as nobody deletes the activity, `harm` can be
only "early" and "raced", the two that `publish_early` and `publish_race` show.
Then a request never finds the job it is to schedule there already, since it has
unscheduled it under the lock and an execution that ends does not create one
(`OnlyRaces`).

Beside the assumption on numbers the proofs use that requests include the `save`
(`RequestsAssumption`) and that users are finite in number.

`DoNotDisturbProofs` proves all that the run `dnd` checks. `RescheduleToNextEnd` is a statement about numbers, by
cases on where the hour lies. `HeldLessThanADay` follows from `SoonInv`: what is
stored and what calls are about to store is near, and a call's reading of the
clock is not later than the clock. `DueStaysDue` needs that a message is
inserted only once, by its own call (`NewUntilInsert`). `HeldUntilPeriodEnds`
says something only of states in which no call is under way, so that its
invariant (`HeldInv`) is about the others: the answer that a call has got is the
next end of the period the user has now, and stays so while the clock goes on
(`Until`, which lets go once the end has passed); what is held is held until
then too, or `set` has still to come to its second transaction. A message that
has not been sent has no time that could be a wrong one (`NoTimeYet`).

`ActivityStreamProofs` proves `TypeOK`, `MissedOnlyIfPassed`,
`StuckOnlyAfterFailure` and `ImplementsCopy` from `StreamInv`, for any items,
dates and page size. For `MissedOnlyIfPassed` the pages on their way count as
much as the stream: `StreamInv` says that the page of each answered request is
next to the item it was asked for, which is still in the stream; what it leaves
out between that item and its own last one is late, or tied, and a short page of
older items leaves out nothing else at all. `NewerPageReaches` and `OlderPageReaches` are the two facts about
pages, of the orders that `NewerOrder` and `NewestFirstOrder` show to be orders.

`RestartableWebSocketProofs` proves `TypeOK` and `OneConnection`, which together
are inductive, and that each step is one of `Connection`'s.

`TilesProofs` proves every property of `Tiles` by one invariant, `TilesInv`. Each
property is strengthened by what must hold of the data on their way: of the
copies in answers, in PUTs and in storage (`RemovedInv`: what any of them would
save is of tiles its user has hidden; `OwnInv`: local storage names the user
whose copy it holds, or nobody, but for the steps in which it is cleared and for
what a failure leaves there; `SettledInv`: as
long as nothing has crossed, a fetch is alone on its way, and a PUT holds just
the tiles of the page). `SessionInv` ties what the page and local storage know of
the user to each other: a page that has had its one fetch finds another user
than its own in local storage, or is cleared, only if something was `mislaid`.
`FetchUnderWay` is proved beside these (`FetchInv`).

`ClientListsProofs` and `StreamMergeProofs` are about folds, whose value for
every list is known only by induction. An induction theorem that takes an
operator cannot be used, so `Induction` is stated of a set of numbers (that a
well-founded relation has a minimum gives it), and the statement to be proved
becomes such a set. The folds of the community modules choose the function that
they compute with; `FoldExists`, `FlatteningExists` and `SumExists` construct
one. From these each fold is shown once to be a series of passes
(`GroupingIsPasses`, `UniqByIsPasses`, `SortingIsPasses`, `TakingIsPasses`), and
the rest is said of the passes.

* `ListsGroup`: grouping does not fail, its headings are in order and do not
  come up again, no item is lost, and each is under a heading that was right for
  it at some time of the pass, for lists of any length and any dates
  (`ListsCanBeGrouped`). What makes it true is that an older item or a later
  clock never gives an earlier heading, for all days, provided that the item is
  at most a week ahead; no item of the list is further ahead than that, since
  the newest is not.
* `FeedSkipsOnlyAfterChanges`, by `FeedInv`: what is listed all the time is
  listed, and until a refresh overtakes a request there is one request at most,
  for the offset of now (`OneRequest`). What each step does to `Passed` is an
  injection of places: an item listed above moves the others down, one withdrawn
  moves them up, and only the one that this brings past the offset is new
  (`WithdrawStep`). After an answer the places passed are those of before and as
  many below the page as it had duplicates (`AnswerStep`), since an item of the
  page that was not shown before is shown now.
* `StreamsMerge`, from `MergesSort`, which is of any finite stream and any items
  received. A sorted sequence is its set in order, and there is only one
  (`SortedIsInOrder`), so that it is enough to know that what the merge returns
  is sorted and has the items of the union. `sortItems` inserts each item at its
  place, by induction; the rest of the partition that a short cut leaves alone is
  older than what it merges (`MergeStartIs`, `SortedConcat`).
* `StreamsRead`: the months of a stream in descending order are the stream in
  order, one month after the other (`MonthsInOrder`); taking of one more month
  gives the start of one more month (`TakeOfStart`); and sizes add up, as no item
  is in two months (`SumOfParts`).

They assume that items are numbers, as are their dates and months, with later
months for later dates only, and that a page has at least one item.

Only model-checked is everything temporal that needs fairness
(`EventuallyTaken`, `EventuallyDoneIfNoFault`, `EventuallyPublished`,
`FetchCatchesUp`, `Recovers`, the liveness of `Connection`): liveness is out of
the prover's reach. Every other property of the runs that pass is a theorem. The
properties of the runs that fail are refuted there.

## Not modelled

The search index, health checks, analytics and reports read and copy;
preferences, publishers and permissions are edits of single rows; images, maps
and pages are input and output. Most lines of the JavaScript are of this kind:
React components that draw the state of the stores, tiles that render what the
server sends, the markup of the publishing forms, and the types of libraries
(`flow-typed`). They keep no state that the modules tell apart, so that the
modules stand for a small part of the lines and for most of what can go wrong
between them. Of the slices of the store the modules have the streams, the
tiles, the user and the news; those of preferences (colour scheme, news
categories, do not disturb, alarms) are fetched and posted alike and are in the
plan. Of tiles their content, the tile for early access and new default tiles
are left out; of the stream the filter, the mutes and the read marker; of the
server's side of the socket which sockets are subscribed. Formatting of messages, wording and logging are
left out everywhere. An activity that is not a notification has no messages and
is not in `PublishActivity`; neither is the public audience, which the service
refuses for activities.

## Plan

In this order; each module with its instance, runs, mutants and, where named,
proofs.

1. `NewsPublishing`: two updates whose Futures are reordered, delete, and the
   job's retries; shares the Quartz part with `PublishActivity`.
2. Preferences of the client with `UserSession`: slices that ignore
   `USER_CLEAR`, posts that are delayed, and answers that cross them; the read
   marker of the notifications, which must not decrease.
3. `PublishActivity` with replacement of one activity by another.
4. `ConnectionPool`: requests and jobs that hold one connection and wait for
   another.
5. `PushRegistration`: registering again and removing what is inactive.
6. `PubSub` with `RestartableWebSocket` and `ActivityStream`: which pushes a
   page misses while it has no socket.
7. Proofs: the safety of what items 1 to 6 add.
