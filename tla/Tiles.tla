-------------------------------- MODULE Tiles ----------------------------------
(***************************************************************************)
(* The tiles of a user: the slice `tiles' of the store, its copy in local  *)
(* storage, the edit views, and what the server keeps.  A PUT sends all    *)
(* tiles of the page, and the server takes a default tile the PUT does not *)
(* mention for removed.  Whether a tile is removed stands for all settings *)
(* of a tile; layout and preferences travel with it.                       *)
(***************************************************************************)
EXTENDS UserSession

CONSTANTS
  TileIds,      \* the default tiles
  Fetches,      \* slots of GETs: one of loadDataFromServer, others of the native app
  FirstFetch,   \* the slot of loadDataFromServer
  MaxPuts       \* bound on PUTs on their way at a time

ASSUME TilesAssumption == FirstFetch \in Fetches

VARIABLES
  \* the server
  removed,    \* for each user the tiles removed, in USER_TILE
  \* the network
  asked,      \* slots whose GET the server has not seen yet
  answers,    \* answers on their way
  puts,       \* PUTs on their way
  \* the page
  tiles,      \* state.tiles
  loaded,     \* whether persisted('tiles.data') has loaded the stored copy
  launched,   \* whether loadDataFromServer has been called
  route,      \* "edit", "add", "me" for the rest, "away" for the rest after "add"
  \* local storage
  stored,     \* 'tiles.data': no copy or one
  \* history, for the properties
  hidden,     \* for each user the tiles the user has ever hidden
  early,      \* users of whom a PUT left a page that did not know its user
  stray,      \* users whose tiles were stored while local storage named another
  crossed     \* whether the tiles of the page may be older than the server's

page == <<tiles, loaded, launched, route, stored>>
history == <<hidden, early, stray, crossed>>
vars == <<session, removed, asked, answers, puts, page, history>>

(* A copy of the tiles; `of' tells whose they are, for the properties. *)
Copies == [of : Users \cup {NoUser}, shown : SUBSET TileIds, hidden : SUBSET TileIds]

Blank == [of |-> NoUser, shown |-> {}, hidden |-> {}]

Initial == [data |-> Blank, fetched |-> FALSE, failed |-> FALSE]

(* getLayout: the default tiles, with the user's settings. *)
Layout(u) == [of |-> u, shown |-> TileIds \ removed[u], hidden |-> removed[u]]

(* An earlier visit has left a copy of its user's tiles, or of none. *)
Init ==
  /\ SessionInit
  /\ removed = [u \in Users |-> {}]
  /\ asked = {}
  /\ answers = {}
  /\ puts = {}
  /\ tiles = Initial
  /\ loaded = FALSE
  /\ launched = FALSE
  /\ route = "me"
  /\ stored \in IF storedUser = NoUser THEN {{}, {Blank}} ELSE {{Blank}, {Layout(storedUser)}}
  /\ hidden = [u \in Users |-> {}]
  /\ early = {}
  /\ stray = {}
  /\ crossed = FALSE

-------------------------------------------------------------------------------
(* The store *)

(* Mutation: a tile that is hidden stays among those shown. *)
HideHalf(data, t) == [data EXCEPT !.hidden = @ \cup {t}]

(* updateTileById for TILE_HIDE *)
Hide(data, t) == [data EXCEPT !.shown = @ \ {t}, !.hidden = @ \cup {t}]

(* updateTileById for TILE_SHOW *)
Show(data, t) == [data EXCEPT !.shown = @ \cup {t}, !.hidden = @ \ {t}]

(* Once loaded, persisted saves each change, or logs that it could not. *)
Save(data) ==
  \/ stored' = {data} /\ UNCHANGED faults
  \/ Fault /\ UNCHANGED stored

(* A change of tiles.data *)
Change(data) ==
  /\ tiles' = [tiles EXCEPT !.data = data]
  /\ Save(data)

(* Mutation: TILES_FETCH leaves `fetched' as it is. *)
FetchKeepsFetched(g) ==
  /\ g \notin asked
  /\ \A a \in answers : a.get # g
  /\ asked' = asked \cup {g}
  /\ tiles' = [tiles EXCEPT !.failed = FALSE]
  /\ crossed' = (puts # {} \/ asked # {} \/ answers # {})

(* fetchTiles, up to its request *)
FetchTiles(g) ==
  /\ g \notin asked
  /\ \A a \in answers : a.get # g
  /\ asked' = asked \cup {g}
  /\ tiles' = [tiles EXCEPT !.fetched = FALSE, !.failed = FALSE]
  /\ crossed' = (puts # {} \/ asked # {} \/ answers # {})

(* The PUT of persistTiles *)
SendPut ==
  /\ Cardinality(puts) < MaxPuts
  /\ puts' = puts \cup {[user |-> signedIn, data |-> tiles.data]}
  /\ early' = IF authoritative THEN early ELSE early \cup {signedIn}
  /\ crossed' = (crossed \/ puts # {})

(* Mutation: NEWSTART-1290 not fixed. *)
PersistUnfetched == SendPut

(* persistTiles *)
PersistTiles == IF tiles.fetched THEN SendPut ELSE UNCHANGED <<puts, early, crossed>>

-------------------------------------------------------------------------------
(* The page and its user *)

(* persisted('tiles.data'): what is stored, if it can be read, is taken for fetched. *)
LoadStored ==
  /\ ~loaded
  /\ loaded' = TRUE
  /\ \/ stored = {} /\ Save(tiles.data) /\ UNCHANGED tiles
     \/ \E c \in stored : /\ tiles' = [data |-> c, fetched |-> TRUE, failed |-> FALSE]
                          /\ UNCHANGED <<stored, faults>>
     \/ Fault /\ stored' = {tiles.data} /\ UNCHANGED tiles
  /\ UNCHANGED <<identity, removed, asked, answers, puts, launched, route, history>>

(* userReceive, up to localforage.clear(); the stored copies have been loaded. *)
MeetUser ==
  /\ loaded
  /\ \/ LearnSameUser /\ UNCHANGED stored
     \/ LearnOtherUser /\ stored' = {}
     \/ ClearFails /\ UNCHANGED stored
  /\ UNCHANGED <<removed, asked, answers, puts, tiles, loaded, launched, route, history>>

(* Mutation: the reducer of the tiles ignores USER_CLEAR. *)
ForgetNothing ==
  /\ ClearUser
  /\ UNCHANGED <<faults, removed, asked, answers, puts, page, history>>

(***************************************************************************)
(* USER_CLEAR; an unchanged slice is not saved.  An edit in the meantime   *)
(* has stored the tiles of the user before again, and they remain if this  *)
(* cannot be saved.                                                        *)
(***************************************************************************)
Forget ==
  /\ ClearUser
  /\ tiles' = Initial
  /\ Save(Blank)
  /\ stray' = stray \cup ({c.of : c \in stored'} \ {NoUser, signedIn})
  /\ UNCHANGED <<removed, asked, answers, puts, loaded, launched, route, hidden, early, crossed>>

(* USER_RECEIVE, and loadDataFromServer once on a page. *)
Welcome ==
  /\ ReceiveUser
  /\ launched' = TRUE
  /\ IF launched
     THEN UNCHANGED <<asked, tiles, crossed>>
     ELSE FetchTiles(FirstFetch)
  /\ UNCHANGED <<removed, answers, puts, loaded, route, stored, hidden, early, stray>>

(* onApplicationDidBecomeActive *)
Resume ==
  /\ loaded
  /\ \E g \in Fetches \ {FirstFetch} : FetchTiles(g)
  /\ \/ AskAgain
     \/ info \notin {"settled", "stopped"} /\ UNCHANGED session
  /\ UNCHANGED <<removed, answers, puts, loaded, launched, route, stored, hidden, early, stray>>

(* A page takes nothing along but the storage, the URL and the PUTs it sent. *)
Reload ==
  /\ OpenPage
  /\ asked' = {}
  /\ answers' = {}
  /\ tiles' = Initial
  /\ loaded' = FALSE
  /\ launched' = FALSE
  /\ route' = IF route = "away" THEN "me" ELSE route
  /\ UNCHANGED <<removed, puts, stored, history>>

AskForUser ==
  /\ InfoSpoiled \/ InfoTimerFires \/ InfoUnreachable
  /\ UNCHANGED <<removed, asked, answers, puts, page, history>>

-------------------------------------------------------------------------------
(* The views *)

(***************************************************************************)
(* The view of /edit persists when it is hidden, whatever it is hidden     *)
(* for; that of /edit/add does not, wherever the user goes from it.        *)
(***************************************************************************)
Navigate ==
  /\ \/ route \in {"me", "away"} /\ route' = "edit" /\ UNCHANGED <<puts, early, crossed>>
     \/ route = "edit" /\ route' \in {"me", "add"} /\ PersistTiles
     \/ route = "add" /\ route' \in {"edit", "away"} /\ UNCHANGED <<puts, early, crossed>>
  /\ UNCHANGED <<session, removed, asked, answers, tiles, loaded, launched, stored, hidden, stray>>

(* TILE_HIDE *)
HideTile ==
  /\ route = "edit"
  /\ \E t \in tiles.data.shown :
       /\ Change(Hide(tiles.data, t))
       /\ hidden' = [hidden EXCEPT ![signedIn] = @ \cup {t}]
  /\ UNCHANGED <<identity, removed, asked, answers, puts, loaded, launched, route, early, stray, crossed>>

(* TILE_SHOW *)
ShowTile ==
  /\ route = "add"
  /\ \E t \in tiles.data.hidden :
       Change(Show(tiles.data, t))
  /\ UNCHANGED <<identity, removed, asked, answers, puts, loaded, launched, route, history>>

(* saveTilePreferences, a second after the last change of a preference *)
SavePreferences ==
  /\ tiles.data.shown \cup tiles.data.hidden # {}
  /\ PersistTiles
  /\ UNCHANGED <<session, removed, asked, answers, page, hidden, stray>>

-------------------------------------------------------------------------------
(* The server and the network *)

AnswerFetch ==
  /\ \E g \in asked :
       /\ asked' = asked \ {g}
       /\ answers' = answers \cup {[get |-> g, data |-> Layout(signedIn)]}
  /\ UNCHANGED <<session, removed, puts, page, history>>

(* TILES_FETCH_SUCCESS *)
TakeAnswer ==
  /\ \E a \in answers :
       /\ answers' = answers \ {a}
       /\ tiles' = [data |-> a.data, fetched |-> TRUE, failed |-> FALSE]
       /\ Save(a.data)
  /\ stray' = IF authoritative \/ storedUser = signedIn THEN stray ELSE stray \cup {signedIn}
  /\ UNCHANGED <<identity, removed, asked, puts, loaded, launched, route, hidden, early, crossed>>

(* TILES_FETCH_FAILURE *)
FetchFails ==
  /\ Fault
  /\ \/ \E g \in asked : asked' = asked \ {g} /\ UNCHANGED answers
     \/ \E a \in answers : answers' = answers \ {a} /\ UNCHANGED asked
  /\ tiles' = [tiles EXCEPT !.fetched = FALSE, !.failed = TRUE]
  /\ UNCHANGED <<identity, removed, puts, loaded, launched, route, stored, history>>

(* saveTilePreferencesForUser: default tiles that are not mentioned are removed. *)
Saved(data) == (TileIds \ data.shown) \cup data.hidden

ServePut ==
  /\ \E p \in puts :
       /\ puts' = puts \ {p}
       /\ removed' = [removed EXCEPT ![p.user] = Saved(p.data)]
  /\ UNCHANGED <<session, asked, answers, page, history>>

(* A PUT is lost; nobody looks at its answer. *)
LosePut ==
  /\ Fault
  /\ \E p \in puts : puts' = puts \ {p}
  /\ crossed' = TRUE
  /\ UNCHANGED <<identity, removed, asked, answers, page, hidden, early, stray>>

-------------------------------------------------------------------------------
Browser == LoadStored \/ MeetUser \/ Forget \/ Welcome

Network == AskForUser \/ AnswerFetch \/ TakeAnswer \/ FetchFails \/ ServePut \/ LosePut

User == Resume \/ Reload \/ Navigate \/ HideTile \/ ShowTile \/ SavePreferences

Next == Browser \/ Network \/ User

Spec == Init /\ [][Next]_vars

-------------------------------------------------------------------------------
Datas == {c \in Copies : c.shown \cap c.hidden = {} /\ (c.of = NoUser => c = Blank)}

(* The state is of its type: no tile is both shown and hidden. *)
TypeOK ==
  /\ SessionTypeOK
  /\ removed \in [Users -> SUBSET TileIds]
  /\ asked \in SUBSET Fetches
  /\ answers \in SUBSET [get : Fetches, data : Datas]
  /\ puts \in SUBSET [user : Users, data : Datas]
  /\ tiles \in [data : Datas, fetched : BOOLEAN, failed : BOOLEAN]
  /\ loaded \in BOOLEAN
  /\ launched \in BOOLEAN
  /\ route \in {"me", "edit", "add", "away"}
  /\ stored \in SUBSET Datas
  /\ hidden \in [Users -> SUBSET TileIds]
  /\ early \in SUBSET Users
  /\ stray \in SUBSET Users
  /\ crossed \in BOOLEAN

(***************************************************************************)
(* A tile is removed at the server only if its user has hidden it at some  *)
(* time -- or if a PUT left a page that did not know its user yet:         *)
(* persisted takes a copy left in local storage for fetched, even if it is *)
(* another user's or one of no tiles at all (NEWSTART-1290 in tiles.js).   *)
(***************************************************************************)
RemovedOnlyIfHidden ==
  \A u \in Users \ early : removed[u] \subseteq hidden[u]

(***************************************************************************)
(* A page that knows its user neither shows nor stores another's tiles,    *)
(* and local storage names nobody else -- unless tiles of that other were  *)
(* stored while it named somebody else: fetched before the page knew whose *)
(* they were (onApplicationDidBecomeActive asks for tiles and user at the  *)
(* same time), or edited while the storage was cleared, and not replaced   *)
(* because it failed.  It names nobody only if it has failed, too.         *)
(***************************************************************************)
OwnTiles ==
  authoritative =>
    /\ storedUser = signedIn \/ (mislaid /\ storedUser = NoUser)
    /\ \A c \in stored \cup {tiles.data} : c.of \in {NoUser, signedIn} \cup stray

(* The tiles of the page are as the server keeps them. *)
Agrees(data) ==
  /\ data.hidden \subseteq removed[signedIn]
  /\ data.shown \cap removed[signedIn] = {}

(***************************************************************************)
(* When nothing is on its way and no edit is unsaved, a page shows what    *)
(* the server keeps -- unless requests have crossed: tiles fetched while a *)
(* PUT or another fetch was on its way, two PUTs at a time, a PUT lost.    *)
(***************************************************************************)
SettledTilesAgree ==
  /\ authoritative /\ tiles.fetched /\ route = "me"
  /\ asked = {} /\ answers = {} /\ puts = {} /\ ~crossed
  => Agrees(tiles.data)

(***************************************************************************)
(* A page that knows its user has fetched the tiles, has been told that    *)
(* the fetch failed, or has a fetch on its way: the tiles are fetched once *)
(* on a page, so nothing may clear them after that -- unless local storage *)
(* could not keep or read the user.  The native app then asks for the user *)
(* again, takes the same one for another, and clears the page, which stays *)
(* without any tiles until the app comes to the front once more.           *)
(***************************************************************************)
FetchUnderWay ==
  authoritative =>
    \/ tiles.fetched /\ tiles.data.of = signedIn
    \/ tiles.failed
    \/ asked # {}
    \/ answers # {}
    \/ mislaid /\ tiles = Initial
===============================================================================
