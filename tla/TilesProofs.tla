----------------------------- MODULE TilesProofs -------------------------------
(***************************************************************************)
(* Proofs about the tiles for all users, tiles, slots and bounds.  Each    *)
(* property is strengthened by what holds of the same data on its way: in  *)
(* answers, in PUTs and in local storage.                                  *)
(***************************************************************************)
EXTENDS Tiles, TLAPS

(***************************************************************************)
(* How far the page is in learning its user.  Once it has, local storage   *)
(* names the user, or nobody because it failed; and only then may the page *)
(* be cleared again.                                                       *)
(***************************************************************************)
SessionInv ==
  /\ authoritative => launched
  /\ launched /\ ~authoritative => mislaid
  /\ launched /\ info = "clearing" => mislaid
  /\ launched /\ storedUser # signedIn => mislaid
  /\ launched \/ info \in {"clearing", "storing"} =>
       loaded /\ storedUser \in {NoUser, signedIn}
  /\ asked # {} \/ answers # {} => loaded
  /\ \A a \in answers : a.data.of = signedIn

(* Whatever a PUT may save is of tiles that its user has hidden. *)
RemovedInv ==
  /\ RemovedOnlyIfHidden
  /\ \A p \in puts : p.user \notin early => Saved(p.data) \subseteq hidden[p.user]
  /\ signedIn \notin early =>
       \A a \in answers : Saved(a.data) \subseteq hidden[signedIn]
  /\ signedIn \notin early /\ launched /\ tiles.fetched =>
       Saved(tiles.data) \subseteq hidden[signedIn]

Own(u) == \A c \in stored \cup {tiles.data} : c.of \in {NoUser, u} \cup stray

(* Local storage names the user whose copy it holds. *)
OwnInv ==
  /\ storedUser # NoUser => Own(storedUser)
  /\ launched \/ info = "storing" => Own(signedIn)

(* As long as requests have not crossed, a fetch is alone on its way. *)
SettledInv ==
  ~crossed =>
    /\ asked # {} \/ answers # {} =>
         /\ puts = {} /\ ~tiles.fetched
         /\ asked = {} \/ answers = {}
         /\ \A g, h \in asked : g = h
         /\ \A a, b \in answers : a = b
    /\ \A a \in answers : Agrees(a.data)
    /\ launched /\ tiles.fetched /\ route = "me" =>
         /\ puts = {} => Agrees(tiles.data)
         /\ \A p \in puts : p.user = signedIn /\ p.data = tiles.data

(* The tiles of a page that has ever known its user. *)
FetchInv ==
  launched =>
    \/ tiles.fetched /\ tiles.data.of = signedIn
    \/ tiles.failed
    \/ asked # {}
    \/ answers # {}
    \/ mislaid /\ tiles = Initial

TilesInv ==
  /\ TypeOK
  /\ SessionInv
  /\ RemovedInv
  /\ OwnInv
  /\ SettledInv
  /\ FetchInv

LEMMA BlankData == Blank \in Datas /\ Blank.of = NoUser
  BY DEF Blank, Datas, Copies

LEMMA HideData ==
  ASSUME NEW data \in Datas, NEW t \in data.shown
  PROVE  /\ Hide(data, t) \in Datas
         /\ Hide(data, t).of = data.of
         /\ Hide(data, t).shown = data.shown \ {t}
         /\ Hide(data, t).hidden = data.hidden \cup {t}
<1>1. data \in Copies /\ data.shown \cap data.hidden = {} /\ data.of # NoUser
  BY BlankData DEF Datas, Blank
<1>2. Hide(data, t) \in Copies
  BY <1>1 DEF Copies, Hide
<1>3. /\ Hide(data, t).of = data.of
      /\ Hide(data, t).shown = data.shown \ {t}
      /\ Hide(data, t).hidden = data.hidden \cup {t}
  BY <1>1 DEF Copies, Hide
<1> QED
  BY <1>1, <1>2, <1>3 DEF Datas

LEMMA ShowData ==
  ASSUME NEW data \in Datas, NEW t \in data.hidden
  PROVE  /\ Show(data, t) \in Datas
         /\ Show(data, t).of = data.of
         /\ Show(data, t).shown = data.shown \cup {t}
         /\ Show(data, t).hidden = data.hidden \ {t}
<1>1. data \in Copies /\ data.shown \cap data.hidden = {} /\ data.of # NoUser
  BY BlankData DEF Datas, Blank
<1>2. Show(data, t) \in Copies
  BY <1>1 DEF Copies, Show
<1>3. /\ Show(data, t).of = data.of
      /\ Show(data, t).shown = data.shown \cup {t}
      /\ Show(data, t).hidden = data.hidden \ {t}
  BY <1>1 DEF Copies, Show
<1> QED
  BY <1>1, <1>2, <1>3 DEF Datas

LEMMA LayoutData ==
  ASSUME TypeOK, NEW u \in Users
  PROVE  Layout(u) \in Datas /\ Layout(u).of = u /\ Saved(Layout(u)) = removed[u]
<1>1. removed[u] \in SUBSET TileIds /\ u # NoUser
  BY UsersAssumption DEF TypeOK, UsersAssumption
<1> QED
  BY <1>1 DEF Layout, Datas, Copies, Saved

LEMMA SavedTiles ==
  ASSUME NEW data \in Datas
  PROVE  Saved(data) \subseteq TileIds
  BY DEF Datas, Copies, Saved

(* Changes of the slice keep its other fields. *)
LEMMA ChangeTiles ==
  ASSUME TypeOK, NEW data \in Datas, Change(data)
  PROVE  /\ tiles' \in [data : Datas, fetched : BOOLEAN, failed : BOOLEAN]
         /\ tiles'.data = data
         /\ tiles'.fetched = tiles.fetched
         /\ tiles'.failed = tiles.failed
         /\ stored' \in {stored, {data}}
  BY DEF TypeOK, Change, Save

LEMMA SessionTypeStep == SessionTypeOK /\ [Next]_vars => SessionTypeOK'
<1> SUFFICES ASSUME SessionTypeOK, [Next]_vars
             PROVE  SessionTypeOK'
  OBVIOUS
<1>1. authoritative' \in BOOLEAN /\ mislaid' \in BOOLEAN
  <2>1. CASE UNCHANGED identity
    BY <2>1 DEF identity, SessionTypeOK
  <2>2. CASE MeetUser \/ Forget \/ Welcome \/ AskForUser \/ AskAgain \/ OpenPage
    BY <2>2, Zenon
    DEF SessionTypeOK, MeetUser, LearnSameUser, LearnOtherUser, ClearFails, Forget, ClearUser,
        Welcome, ReceiveUser, AskForUser, InfoSpoiled, InfoTimerFires, InfoUnreachable,
        AskAgain, OpenPage
  <2> QED
    BY <2>1, <2>2
    DEF Next, Browser, Network, User, LoadStored, AnswerFetch, TakeAnswer, FetchFails, ServePut,
        LosePut, Resume, Reload, Navigate, HideTile, ShowTile, SavePreferences, session, vars
<1>2. /\ signedIn' \in Users /\ storedUser' \in Users \cup {NoUser}
      /\ info' \in InfoPhases /\ pages' \in 0..MaxPages /\ faults' \in 0..MaxFaults
  <2> USE BoundsAssumption DEF BoundsAssumption, InfoPhases, SessionTypeOK, Fault, identity
  <2>1. CASE UNCHANGED session
    BY <2>1 DEF session
  <2>2. CASE UNCHANGED identity /\ Fault
    BY <2>2
  <2>3. CASE MeetUser
    BY <2>3 DEF MeetUser, LearnSameUser, LearnOtherUser, ClearFails
  <2>4. CASE Forget
    BY <2>4 DEF Forget, ClearUser, Save
  <2>5. CASE Welcome
    BY <2>5 DEF Welcome, ReceiveUser
  <2>6. CASE AskForUser
    BY <2>6 DEF AskForUser, InfoSpoiled, InfoTimerFires, InfoUnreachable
  <2>7. CASE AskAgain
    BY <2>7 DEF AskAgain
  <2>8. CASE OpenPage
    BY <2>8 DEF OpenPage
  <2> QED
    BY <2>1, <2>2, <2>3, <2>4, <2>5, <2>6, <2>7, <2>8
    DEF Next, Browser, Network, User, LoadStored, AnswerFetch, TakeAnswer, FetchFails, ServePut,
        LosePut, Resume, Reload, Navigate, HideTile, ShowTile, SavePreferences, Change, Save,
        session, vars
<1> QED
  BY <1>1, <1>2 DEF SessionTypeOK

LEMMA TypeStep == TilesInv /\ [Next]_vars => TypeOK'
<1> SUFFICES ASSUME TilesInv, [Next]_vars
             PROVE  TypeOK'
  OBVIOUS
<1>0. SessionTypeOK' /\ signedIn \in Users
  BY SessionTypeStep DEF TilesInv, TypeOK, SessionTypeOK
<1> USE <1>0, UsersAssumption, TilesAssumption DEF UsersAssumption, TilesAssumption, TilesInv, session, identity, page, history, TypeOK, Datas, Copies, Blank, Initial, Layout
<1>1. CASE LoadStored
  <2>1. tiles' \in [data : Datas, fetched : BOOLEAN, failed : BOOLEAN]
    <3>1. CASE stored = {}
      BY <1>1, <3>1 DEF LoadStored
    <3>2. CASE stored # {}
      <4>1. UNCHANGED tiles \/ \E c \in stored : tiles' = [data |-> c, fetched |-> TRUE, failed |-> FALSE]
        BY <1>1, <3>2, Zenon DEF LoadStored
      <4>2. stored \subseteq Datas /\ tiles \in [data : Datas, fetched : BOOLEAN, failed : BOOLEAN]
        OBVIOUS
      <4>3. \A c \in Datas : [data |-> c, fetched |-> TRUE, failed |-> FALSE] \in [data : Datas, fetched : BOOLEAN, failed : BOOLEAN]
        BY Z3
      <4> HIDE DEF Datas, TypeOK
      <4> QED
        BY <4>1, <4>2, <4>3, Zenon
    <3> QED
      BY <3>1, <3>2
  <2>2. stored' \in {stored, {tiles.data}}
    BY <1>1, Zenon DEF LoadStored, Save
  <2>3. loaded' \in BOOLEAN
    BY <1>1, Zenon DEF LoadStored
  <2> HIDE DEF Datas
  <2> QED
    BY <1>1, <2>1, <2>2, <2>3 DEF LoadStored
<1>2. CASE MeetUser
  BY <1>2 DEF MeetUser
<1>3. CASE Forget
  <2>1. tiles' \in [data : Datas, fetched : BOOLEAN, failed : BOOLEAN]
    <3> HIDE DEF Datas, Blank
    <3> QED
      BY <1>3, BlankData DEF Forget, Save
  <2>2. stored' \in SUBSET Datas
    <3> HIDE DEF Datas, Blank
    <3> QED
      BY <1>3, BlankData DEF Forget, Save
  <2>3. \A c \in stored' : c.of \in Users \cup {NoUser}
    BY <2>2
  <2>4. stray' \in SUBSET Users
    <3> HIDE DEF Datas, Blank
    <3> QED
      BY <1>3, <2>3 DEF Forget
  <2> HIDE DEF Datas, Blank
  <2> QED
    BY <1>3, <2>1, <2>2, <2>4 DEF Forget
<1>4. CASE Welcome
  <2>1. launched' \in BOOLEAN
    BY <1>4, Zenon DEF Welcome
  <2>2. /\ tiles' \in [data : Datas, fetched : BOOLEAN, failed : BOOLEAN]
        /\ asked' \in SUBSET Fetches
    <3> HIDE DEF Datas
    <3> QED
      BY <1>4 DEF Welcome, FetchTiles
  <2>3. crossed' \in BOOLEAN
    BY <1>4, Zenon DEF Welcome, FetchTiles
  <2> HIDE DEF Datas
  <2> QED
    BY <1>4, <2>1, <2>2, <2>3 DEF Welcome
<1>5. CASE AskForUser
  BY <1>5 DEF AskForUser, InfoSpoiled, InfoTimerFires, InfoUnreachable, Fault
<1>6. CASE AnswerFetch
  BY <1>6 DEF AnswerFetch
<1>7. CASE TakeAnswer
  BY <1>7 DEF TakeAnswer, Save, Fault
<1>8. CASE FetchFails
  <2>1. tiles' \in [data : Datas, fetched : BOOLEAN, failed : BOOLEAN]
    <3> HIDE DEF Datas
    <3> QED
      BY <1>8 DEF FetchFails
  <2>2. asked' \in SUBSET Fetches /\ answers' \in SUBSET [get : Fetches, data : Datas]
    <3> HIDE DEF Datas
    <3> QED
      BY <1>8 DEF FetchFails
  <2> HIDE DEF Datas
  <2> QED
    BY <1>8, <2>1, <2>2 DEF FetchFails, Fault
<1>9. CASE ServePut
  <2>1. PICK p \in puts : /\ puts' = puts \ {p}
                         /\ removed' = [removed EXCEPT ![p.user] = Saved(p.data)]
    BY <1>9 DEF ServePut
  <2>2. p.user \in Users /\ p.data \in Datas
    <3> HIDE DEF Datas
    <3> QED
      OBVIOUS
  <2>3. Saved(p.data) \subseteq TileIds
    BY <2>2, SavedTiles
  <2>4. removed' \in [Users -> SUBSET TileIds] /\ puts' \in SUBSET [user : Users, data : Datas]
    <3> HIDE DEF Datas
    <3> QED
      BY <2>1, <2>2, <2>3
  <2> HIDE DEF Datas
  <2> QED
    BY <1>9, <2>4 DEF ServePut
<1>10. CASE LosePut
  BY <1>10 DEF LosePut, Fault
<1>11. CASE Resume
  BY <1>11 DEF Resume, FetchTiles, AskAgain
<1>12. CASE Reload
  <2>1. launched' \in BOOLEAN /\ loaded' \in BOOLEAN
    BY <1>12, Zenon DEF Reload
  <2>2. tiles' \in [data : Datas, fetched : BOOLEAN, failed : BOOLEAN]
    <3> HIDE DEF Datas, Blank
    <3> QED
      BY <1>12, BlankData DEF Reload
  <2> HIDE DEF Datas, Blank
  <2> QED
    BY <1>12, <2>1, <2>2 DEF Reload
<1>13. CASE Navigate
  BY <1>13 DEF Navigate, PersistTiles, SendPut
<1>14. CASE HideTile
  <2>1. PICK t \in tiles.data.shown : Change(Hide(tiles.data, t)) /\ hidden' = [hidden EXCEPT ![signedIn] = @ \cup {t}]
    BY <1>14 DEF HideTile
  <2>2. tiles.data \in Datas
    <3> HIDE DEF Datas
    <3> QED
      OBVIOUS
  <2>3. Hide(tiles.data, t) \in Datas
    BY <2>1, <2>2, HideData
  <2>4. /\ tiles' \in [data : Datas, fetched : BOOLEAN, failed : BOOLEAN]
        /\ stored' \in SUBSET Datas
    <3>1. {Hide(tiles.data, t)} \subseteq Datas /\ stored \subseteq Datas
      BY <2>3
    <3> HIDE DEF TypeOK, Datas
    <3> QED
      BY <2>1, <2>3, <3>1, ChangeTiles
  <2>5. t \in TileIds
    BY <2>1, <2>2
  <2>6. hidden' \in [Users -> SUBSET TileIds]
    <3> HIDE DEF Datas
    <3> QED
      BY <2>1, <2>5
  <2> HIDE DEF Datas
  <2> QED
    BY <1>14, <2>4, <2>6 DEF HideTile
<1>15. CASE ShowTile
  <2>1. PICK t \in tiles.data.hidden : Change(Show(tiles.data, t))
    BY <1>15 DEF ShowTile
  <2>2. tiles.data \in Datas
    <3> HIDE DEF Datas
    <3> QED
      OBVIOUS
  <2>3. Show(tiles.data, t) \in Datas
    BY <2>1, <2>2, ShowData
  <2>4. /\ tiles' \in [data : Datas, fetched : BOOLEAN, failed : BOOLEAN]
        /\ stored' \in SUBSET Datas
    <3>1. {Show(tiles.data, t)} \subseteq Datas /\ stored \subseteq Datas
      BY <2>3
    <3> HIDE DEF TypeOK, Datas
    <3> QED
      BY <2>1, <2>3, <3>1, ChangeTiles
  <2> HIDE DEF Datas
  <2> QED
    BY <1>15, <2>4 DEF ShowTile
<1>16. CASE SavePreferences
  BY <1>16 DEF SavePreferences, PersistTiles, SendPut
<1>17. CASE UNCHANGED vars
  BY <1>17 DEF vars
<1> QED
  BY <1>1, <1>2, <1>3, <1>4, <1>5, <1>6, <1>7, <1>8, <1>9, <1>10, <1>11, <1>12, <1>13, <1>14, <1>15, <1>16, <1>17 DEF Next, Browser, Network, User

LEMMA SessionStep == TilesInv /\ [Next]_vars => SessionInv'
<1> SUFFICES ASSUME TilesInv, [Next]_vars
             PROVE  SessionInv'
  OBVIOUS
<1> USE UsersAssumption DEF UsersAssumption, TilesInv, session, identity, page, history, TypeOK, SessionTypeOK, SessionInv, Datas, Copies, Layout, InfoPhases
<1>1. CASE LoadStored
  BY <1>1 DEF LoadStored, Save, Fault
<1>2. CASE MeetUser
  BY <1>2 DEF MeetUser, LearnSameUser, LearnOtherUser, ClearFails, Fault
<1>3. CASE Forget
  BY <1>3 DEF Forget, ClearUser, Save, Fault
<1>4. CASE Welcome
  BY <1>4 DEF Welcome, ReceiveUser, Fault, FetchTiles
<1>5. CASE AskForUser
  BY <1>5 DEF AskForUser, InfoSpoiled, InfoTimerFires, InfoUnreachable, Fault
<1>6. CASE AnswerFetch
  BY <1>6 DEF AnswerFetch
<1>7. CASE TakeAnswer
  BY <1>7 DEF TakeAnswer, Save, Fault
<1>8. CASE FetchFails
  BY <1>8 DEF FetchFails, Fault
<1>9. CASE ServePut
  BY <1>9 DEF ServePut
<1>10. CASE LosePut
  BY <1>10 DEF LosePut, Fault
<1>11. CASE Resume
  BY <1>11 DEF Resume, FetchTiles, AskAgain
<1>12. CASE Reload
  BY <1>12 DEF Reload, OpenPage
<1>13. CASE Navigate
  BY <1>13 DEF Navigate, PersistTiles, SendPut
<1>14. CASE HideTile
  BY <1>14 DEF HideTile, Hide, Change, Save, Fault
<1>15. CASE ShowTile
  BY <1>15 DEF ShowTile, Show, Change, Save, Fault
<1>16. CASE SavePreferences
  BY <1>16 DEF SavePreferences, PersistTiles, SendPut
<1>17. CASE UNCHANGED vars
  BY <1>17 DEF vars
<1> QED
  BY <1>1, <1>2, <1>3, <1>4, <1>5, <1>6, <1>7, <1>8, <1>9, <1>10, <1>11, <1>12, <1>13, <1>14, <1>15, <1>16, <1>17 DEF Next, Browser, Network, User

LEMMA RemovedStep == TilesInv /\ [Next]_vars => RemovedInv'
<1> SUFFICES ASSUME TilesInv, [Next]_vars
             PROVE  RemovedInv'
  OBVIOUS
<1> USE DEF TilesInv, session, identity, page, history, TypeOK, SessionTypeOK, SessionInv, RemovedInv, RemovedOnlyIfHidden, Datas, Copies, Layout, Saved, Initial, Blank
<1>1. CASE LoadStored
  BY <1>1 DEF LoadStored, Save, Fault
<1>2. CASE MeetUser
  BY <1>2 DEF MeetUser, LearnSameUser, LearnOtherUser, ClearFails, Fault
<1>3. CASE Forget
  BY <1>3 DEF Forget, ClearUser, Save, Fault
<1>4. CASE Welcome
  <2>1. ~tiles'.fetched \/ (launched /\ tiles' = tiles)
    <3>1. CASE launched
      <4>1. tiles' = tiles
        BY <1>4, <3>1, Zenon DEF Welcome
      <4> QED
        BY <3>1, <4>1
    <3>2. CASE ~launched
      <4>1. tiles' = [tiles EXCEPT !.fetched = FALSE, !.failed = FALSE]
        BY <1>4, <3>2, Zenon DEF Welcome, FetchTiles
      <4>2. tiles \in [data : Datas, fetched : BOOLEAN, failed : BOOLEAN]
        BY DEF TypeOK
      <4> HIDE DEF TilesInv, TypeOK, SessionInv, RemovedInv, Datas
      <4>3. ~tiles'.fetched
        BY <4>1, <4>2
      <4> QED
        BY <4>3
    <3> QED
      BY <3>1, <3>2
  <2>2. UNCHANGED <<signedIn, removed, answers, puts, hidden, early>>
    BY <1>4 DEF Welcome, ReceiveUser
  <2> HIDE DEF Datas, Saved
  <2> QED
    BY <2>1, <2>2
<1>5. CASE AskForUser
  BY <1>5 DEF AskForUser, InfoSpoiled, InfoTimerFires, InfoUnreachable, Fault
<1>6. CASE AnswerFetch
  BY <1>6 DEF AnswerFetch
<1>7. CASE TakeAnswer
  BY <1>7 DEF TakeAnswer, Save, Fault
<1>8. CASE FetchFails
  BY <1>8 DEF FetchFails, Fault
<1>9. CASE ServePut
  BY <1>9 DEF ServePut
<1>10. CASE LosePut
  BY <1>10 DEF LosePut, Fault
<1>11. CASE Resume
  BY <1>11 DEF Resume, FetchTiles, AskAgain
<1>12. CASE Reload
  BY <1>12 DEF Reload, OpenPage
<1>13. CASE Navigate
  BY <1>13 DEF Navigate, PersistTiles, SendPut
<1>14. CASE HideTile
  <2>1. PICK t \in tiles.data.shown : Change(Hide(tiles.data, t)) /\ hidden' = [hidden EXCEPT ![signedIn] = @ \cup {t}]
    BY <1>14 DEF HideTile
  <2>2. tiles.data \in Datas
    <3> HIDE DEF Datas
    <3> QED
      OBVIOUS
  <2>3. /\ Hide(tiles.data, t) \in Datas
        /\ Hide(tiles.data, t).of = tiles.data.of
        /\ Hide(tiles.data, t).shown = tiles.data.shown \ {t}
        /\ Hide(tiles.data, t).hidden = tiles.data.hidden \cup {t}
    BY <2>1, <2>2, HideData
  <2>4. tiles'.data = Hide(tiles.data, t) /\ tiles'.fetched = tiles.fetched /\ tiles'.failed = tiles.failed
    <3> HIDE DEF TypeOK, Datas
    <3> QED
      BY <2>1, <2>3, ChangeTiles
  <2>5. Saved(tiles'.data) \subseteq Saved(tiles.data) \cup {t}
    BY <2>3, <2>4 DEF Saved
  <2>6. /\ \A u \in Users : hidden[u] \subseteq hidden'[u]
        /\ t \in hidden'[signedIn]
    BY <2>1
  <2>7. UNCHANGED <<signedIn, launched, removed, answers, puts, early>>
    BY <1>14 DEF HideTile
  <2>8. \A p \in puts : p.user \in Users
    OBVIOUS
  <2> HIDE DEF Datas, Saved
  <2> QED
    BY <2>4, <2>5, <2>6, <2>7, <2>8
<1>15. CASE ShowTile
  <2>1. PICK t \in tiles.data.hidden : Change(Show(tiles.data, t))
    BY <1>15 DEF ShowTile
  <2>2. tiles.data \in Datas
    <3> HIDE DEF Datas
    <3> QED
      OBVIOUS
  <2>3. /\ Show(tiles.data, t) \in Datas
        /\ Show(tiles.data, t).of = tiles.data.of
        /\ Show(tiles.data, t).shown = tiles.data.shown \cup {t}
        /\ Show(tiles.data, t).hidden = tiles.data.hidden \ {t}
    BY <2>1, <2>2, ShowData
  <2>4. tiles'.data = Show(tiles.data, t) /\ tiles'.fetched = tiles.fetched /\ tiles'.failed = tiles.failed
    <3> HIDE DEF TypeOK, Datas
    <3> QED
      BY <2>1, <2>3, ChangeTiles
  <2>5. Saved(tiles'.data) \subseteq Saved(tiles.data)
    BY <2>3, <2>4 DEF Saved
  <2>6. UNCHANGED <<signedIn, launched, removed, answers, puts, early, hidden>>
    BY <1>15 DEF ShowTile, identity
  <2> HIDE DEF Datas, Saved
  <2> QED
    BY <2>4, <2>5, <2>6
<1>16. CASE SavePreferences
  BY <1>16 DEF SavePreferences, PersistTiles, SendPut
<1>17. CASE UNCHANGED vars
  BY <1>17 DEF vars
<1> QED
  BY <1>1, <1>2, <1>3, <1>4, <1>5, <1>6, <1>7, <1>8, <1>9, <1>10, <1>11, <1>12, <1>13, <1>14, <1>15, <1>16, <1>17 DEF Next, Browser, Network, User

LEMMA OwnStep == TilesInv /\ [Next]_vars => OwnInv'
<1> SUFFICES ASSUME TilesInv, [Next]_vars
             PROVE  OwnInv'
  OBVIOUS
<1> USE UsersAssumption DEF UsersAssumption, TilesInv, session, identity, page, history, TypeOK, SessionTypeOK, SessionInv, OwnInv, Own, Datas, Copies, Initial, Blank
<1>1. CASE LoadStored
  BY <1>1 DEF LoadStored, Save, Fault
<1>2. CASE MeetUser
  BY <1>2 DEF MeetUser, LearnSameUser, LearnOtherUser, ClearFails, Fault
<1>3. CASE Forget
  BY <1>3 DEF Forget, ClearUser, Save, Fault
<1>4. CASE Welcome
  BY <1>4 DEF Welcome, ReceiveUser, Fault, FetchTiles
<1>5. CASE AskForUser
  BY <1>5 DEF AskForUser, InfoSpoiled, InfoTimerFires, InfoUnreachable, Fault
<1>6. CASE AnswerFetch
  BY <1>6 DEF AnswerFetch
<1>7. CASE TakeAnswer
  BY <1>7 DEF TakeAnswer, Save, Fault
<1>8. CASE FetchFails
  BY <1>8 DEF FetchFails, Fault
<1>9. CASE ServePut
  BY <1>9 DEF ServePut
<1>10. CASE LosePut
  BY <1>10 DEF LosePut, Fault
<1>11. CASE Resume
  BY <1>11 DEF Resume, FetchTiles, AskAgain
<1>12. CASE Reload
  BY <1>12 DEF Reload, OpenPage
<1>13. CASE Navigate
  BY <1>13 DEF Navigate, PersistTiles, SendPut
<1>14. CASE HideTile
  <2>1. PICK t \in tiles.data.shown : Change(Hide(tiles.data, t))
    BY <1>14 DEF HideTile
  <2>2. tiles.data \in Datas
    <3> HIDE DEF Datas
    <3> QED
      OBVIOUS
  <2>3. Hide(tiles.data, t) \in Datas /\ Hide(tiles.data, t).of = tiles.data.of
    BY <2>1, <2>2, HideData
  <2>4. tiles'.data = Hide(tiles.data, t) /\ stored' \in {stored, {Hide(tiles.data, t)}}
    <3> HIDE DEF TypeOK, Datas
    <3> QED
      BY <2>1, <2>3, ChangeTiles
  <2>5. UNCHANGED <<signedIn, storedUser, launched, info, stray>>
    BY <1>14 DEF HideTile
  <2> HIDE DEF Datas
  <2> QED
    BY <2>3, <2>4, <2>5
<1>15. CASE ShowTile
  <2>1. PICK t \in tiles.data.hidden : Change(Show(tiles.data, t))
    BY <1>15 DEF ShowTile
  <2>2. tiles.data \in Datas
    <3> HIDE DEF Datas
    <3> QED
      OBVIOUS
  <2>3. Show(tiles.data, t) \in Datas /\ Show(tiles.data, t).of = tiles.data.of
    BY <2>1, <2>2, ShowData
  <2>4. tiles'.data = Show(tiles.data, t) /\ stored' \in {stored, {Show(tiles.data, t)}}
    <3> HIDE DEF TypeOK, Datas
    <3> QED
      BY <2>1, <2>3, ChangeTiles
  <2>5. UNCHANGED <<signedIn, storedUser, launched, info, stray>>
    BY <1>15 DEF ShowTile
  <2> HIDE DEF Datas
  <2> QED
    BY <2>3, <2>4, <2>5
<1>16. CASE SavePreferences
  BY <1>16 DEF SavePreferences, PersistTiles, SendPut
<1>17. CASE UNCHANGED vars
  BY <1>17 DEF vars
<1> QED
  BY <1>1, <1>2, <1>3, <1>4, <1>5, <1>6, <1>7, <1>8, <1>9, <1>10, <1>11, <1>12, <1>13, <1>14, <1>15, <1>16, <1>17 DEF Next, Browser, Network, User

LEMMA SettledStep == TilesInv /\ [Next]_vars => SettledInv'
<1> SUFFICES ASSUME TilesInv, [Next]_vars
             PROVE  SettledInv'
  OBVIOUS
<1> USE DEF TilesInv, session, identity, page, history, TypeOK, SessionTypeOK, SessionInv, SettledInv, Agrees, Datas, Copies, Layout, Saved, Initial
<1>1. CASE LoadStored
  BY <1>1 DEF LoadStored, Save, Fault
<1>2. CASE MeetUser
  BY <1>2 DEF MeetUser, LearnSameUser, LearnOtherUser, ClearFails, Fault
<1>3. CASE Forget
  BY <1>3 DEF Forget, ClearUser, Save, Fault
<1>4. CASE Welcome
  BY <1>4 DEF Welcome, ReceiveUser, Fault, FetchTiles
<1>5. CASE AskForUser
  BY <1>5 DEF AskForUser, InfoSpoiled, InfoTimerFires, InfoUnreachable, Fault
<1>6. CASE AnswerFetch
  <2>1. PICK g \in asked : /\ asked' = asked \ {g}
                          /\ answers' = answers \cup {[get |-> g, data |-> Layout(signedIn)]}
    BY <1>6 DEF AnswerFetch
  <2>2. UNCHANGED <<signedIn, launched, removed, puts, tiles, route, crossed>>
    BY <1>6 DEF AnswerFetch
  <2>3. Agrees(Layout(signedIn))
    BY DEF Agrees, Layout
  <2> HIDE DEF Datas, Layout, Saved
  <2> QED
    BY <2>1, <2>2, <2>3
<1>7. CASE TakeAnswer
  BY <1>7 DEF TakeAnswer, Save, Fault
<1>8. CASE FetchFails
  BY <1>8 DEF FetchFails, Fault
<1>9. CASE ServePut
  BY <1>9 DEF ServePut
<1>10. CASE LosePut
  BY <1>10 DEF LosePut, Fault
<1>11. CASE Resume
  BY <1>11 DEF Resume, FetchTiles, AskAgain
<1>12. CASE Reload
  BY <1>12 DEF Reload, OpenPage
<1>13. CASE Navigate
  <2>1. UNCHANGED <<signedIn, launched, removed, asked, answers, tiles>>
    BY <1>13 DEF Navigate
  <2>2. CASE UNCHANGED <<puts, crossed>> /\ (route' # "me" \/ ~tiles.fetched)
    BY <2>1, <2>2
  <2>3. CASE tiles.fetched /\ SendPut
    <3>1. /\ puts' = puts \cup {[user |-> signedIn, data |-> tiles.data]}
          /\ ~crossed' => ~crossed /\ puts = {}
      BY <2>3 DEF SendPut
    <3>2. ~crossed' => asked' = {} /\ answers' = {}
      BY <2>1, <2>3, <3>1
    <3>3. ~crossed' => \A p \in puts' : p.user = signedIn' /\ p.data = tiles'.data
      BY <2>1, <3>1
    <3>4. puts' # {}
      BY <3>1
    <3> QED
      BY <3>2, <3>3, <3>4
  <2> QED
    BY <1>13, <2>2, <2>3 DEF Navigate, PersistTiles
<1>14. CASE HideTile
  BY <1>14 DEF HideTile, Hide, Change, Save, Fault
<1>15. CASE ShowTile
  BY <1>15 DEF ShowTile, Show, Change, Save, Fault
<1>16. CASE SavePreferences
  BY <1>16 DEF SavePreferences, PersistTiles, SendPut
<1>17. CASE UNCHANGED vars
  BY <1>17 DEF vars
<1> QED
  BY <1>1, <1>2, <1>3, <1>4, <1>5, <1>6, <1>7, <1>8, <1>9, <1>10, <1>11, <1>12, <1>13, <1>14, <1>15, <1>16, <1>17 DEF Next, Browser, Network, User

LEMMA FetchStep == TilesInv /\ [Next]_vars => FetchInv'
<1> SUFFICES ASSUME TilesInv, [Next]_vars
             PROVE  FetchInv'
  OBVIOUS
<1> USE DEF TilesInv, session, identity, page, history, TypeOK, SessionTypeOK, SessionInv, FetchInv, Datas, Copies, Initial
<1>1. CASE LoadStored
  BY <1>1 DEF LoadStored, Save, Fault
<1>2. CASE MeetUser
  BY <1>2 DEF MeetUser, LearnSameUser, LearnOtherUser, ClearFails, Fault
<1>3. CASE Forget
  BY <1>3 DEF Forget, ClearUser, Save, Fault
<1>4. CASE Welcome
  BY <1>4 DEF Welcome, ReceiveUser, Fault, FetchTiles
<1>5. CASE AskForUser
  BY <1>5 DEF AskForUser, InfoSpoiled, InfoTimerFires, InfoUnreachable, Fault
<1>6. CASE AnswerFetch
  BY <1>6 DEF AnswerFetch
<1>7. CASE TakeAnswer
  BY <1>7 DEF TakeAnswer, Save, Fault
<1>8. CASE FetchFails
  BY <1>8 DEF FetchFails, Fault
<1>9. CASE ServePut
  BY <1>9 DEF ServePut
<1>10. CASE LosePut
  BY <1>10 DEF LosePut, Fault
<1>11. CASE Resume
  BY <1>11 DEF Resume, FetchTiles, AskAgain
<1>12. CASE Reload
  BY <1>12 DEF Reload, OpenPage
<1>13. CASE Navigate
  BY <1>13 DEF Navigate, PersistTiles, SendPut
<1>14. CASE HideTile
  <2>1. PICK t \in tiles.data.shown : Change(Hide(tiles.data, t)) /\ hidden' = [hidden EXCEPT ![signedIn] = @ \cup {t}]
    BY <1>14 DEF HideTile
  <2>2. tiles.data \in Datas
    <3> HIDE DEF Datas
    <3> QED
      OBVIOUS
  <2>3. /\ Hide(tiles.data, t) \in Datas
        /\ Hide(tiles.data, t).of = tiles.data.of
        /\ Hide(tiles.data, t).shown = tiles.data.shown \ {t}
        /\ Hide(tiles.data, t).hidden = tiles.data.hidden \cup {t}
    BY <2>1, <2>2, HideData
  <2>4. tiles'.data = Hide(tiles.data, t) /\ tiles'.fetched = tiles.fetched /\ tiles'.failed = tiles.failed
    <3> HIDE DEF TypeOK, Datas
    <3> QED
      BY <2>1, <2>3, ChangeTiles
  <2>5. UNCHANGED <<signedIn, launched, asked, answers, mislaid>>
    BY <1>14 DEF HideTile
  <2>6. tiles # Initial
    <3> HIDE DEF TypeOK, Datas
    <3> QED
      BY <2>1 DEF Initial, Blank
  <2> HIDE DEF Datas
  <2> QED
    BY <2>3, <2>4, <2>5, <2>6
<1>15. CASE ShowTile
  <2>1. PICK t \in tiles.data.hidden : Change(Show(tiles.data, t))
    BY <1>15 DEF ShowTile
  <2>2. tiles.data \in Datas
    <3> HIDE DEF Datas
    <3> QED
      OBVIOUS
  <2>3. /\ Show(tiles.data, t) \in Datas
        /\ Show(tiles.data, t).of = tiles.data.of
        /\ Show(tiles.data, t).shown = tiles.data.shown \cup {t}
        /\ Show(tiles.data, t).hidden = tiles.data.hidden \ {t}
    BY <2>1, <2>2, ShowData
  <2>4. tiles'.data = Show(tiles.data, t) /\ tiles'.fetched = tiles.fetched /\ tiles'.failed = tiles.failed
    <3> HIDE DEF TypeOK, Datas
    <3> QED
      BY <2>1, <2>3, ChangeTiles
  <2>5. UNCHANGED <<signedIn, launched, asked, answers, mislaid>>
    BY <1>15 DEF ShowTile
  <2>6. tiles # Initial
    <3> HIDE DEF TypeOK, Datas
    <3> QED
      BY <2>1 DEF Initial, Blank
  <2> HIDE DEF Datas
  <2> QED
    BY <2>3, <2>4, <2>5, <2>6
<1>16. CASE SavePreferences
  BY <1>16 DEF SavePreferences, PersistTiles, SendPut
<1>17. CASE UNCHANGED vars
  BY <1>17 DEF vars
<1> QED
  BY <1>1, <1>2, <1>3, <1>4, <1>5, <1>6, <1>7, <1>8, <1>9, <1>10, <1>11, <1>12, <1>13, <1>14, <1>15, <1>16, <1>17 DEF Next, Browser, Network, User

LEMMA TilesInvInit == Init => TilesInv
<1> SUFFICES ASSUME Init
             PROVE  TilesInv
  OBVIOUS
<1>1. ~authoritative /\ ~loaded /\ ~launched /\ ~crossed /\ mislaid \in BOOLEAN
      /\ authoritative \in BOOLEAN /\ loaded \in BOOLEAN /\ launched \in BOOLEAN
      /\ crossed \in BOOLEAN
  BY Zenon DEF Init, SessionInit
<1>2. /\ signedIn \in Users /\ storedUser \in Users \cup {NoUser}
      /\ info = "asked" /\ pages = 0 /\ faults = 0
      /\ removed = [u \in Users |-> {}] /\ hidden = [u \in Users |-> {}]
      /\ asked = {} /\ answers = {} /\ puts = {} /\ early = {} /\ stray = {}
      /\ route = "me" /\ tiles = Initial
  BY DEF Init, SessionInit
<1>3. tiles \in [data : Datas, fetched : BOOLEAN, failed : BOOLEAN] /\ tiles.data = Blank
  BY <1>2, BlankData DEF Initial
<1>4. \A u \in Users : Layout(u) \in Datas /\ Layout(u).of = u
  BY <1>2, UsersAssumption DEF Layout, Datas, Copies, UsersAssumption
<1>5. /\ stored \in SUBSET Datas
      /\ storedUser # NoUser => \A c \in stored : c.of \in {NoUser, storedUser}
  <2>1. CASE storedUser = NoUser
    BY <2>1, BlankData DEF Init
  <2>2. CASE storedUser # NoUser
    BY <1>2, <1>4, <2>2, BlankData DEF Init
  <2> QED
    BY <2>1, <2>2
<1>6. TypeOK
  BY <1>1, <1>2, <1>3, <1>5, BoundsAssumption
  DEF TypeOK, SessionTypeOK, InfoPhases, BoundsAssumption
<1>7. SessionInv
  BY <1>1, <1>2 DEF SessionInv
<1>8. RemovedInv
  BY <1>1, <1>2 DEF RemovedInv, RemovedOnlyIfHidden
<1>9. OwnInv
  BY <1>1, <1>2, <1>3, <1>5, BlankData DEF OwnInv, Own
<1>10. SettledInv
  BY <1>1, <1>2 DEF SettledInv
<1>11. FetchInv
  BY <1>1 DEF FetchInv
<1> QED
  BY <1>6, <1>7, <1>8, <1>9, <1>10, <1>11 DEF TilesInv

(* The inductive invariant. *)
THEOREM TilesInvariant == Spec => []TilesInv
<1>1. TilesInv /\ [Next]_vars => TilesInv'
  BY TypeStep, SessionStep, RemovedStep, OwnStep, SettledStep, FetchStep DEF TilesInv
<1> QED
  BY <1>1, TilesInvInit, PTL DEF Spec

(* The state is of its type, and no tile is both shown and hidden. *)
THEOREM TypeCorrect == Spec => []TypeOK
<1>1. TilesInv => TypeOK
  BY DEF TilesInv
<1> QED
  BY <1>1, TilesInvariant, PTL

(* No tile disappears that its user has not hidden, but for early PUTs. *)
THEOREM RemovedSafety == Spec => []RemovedOnlyIfHidden
<1>1. TilesInv => RemovedOnlyIfHidden
  BY DEF TilesInv, RemovedInv
<1> QED
  BY <1>1, TilesInvariant, PTL

(* A page that knows its user has no other user's tiles, but for stray ones. *)
THEOREM OwnSafety == Spec => []OwnTiles
<1>1. TilesInv => OwnTiles
  BY UsersAssumption
  DEF TilesInv, SessionInv, OwnInv, Own, OwnTiles, TypeOK, SessionTypeOK, UsersAssumption
<1> QED
  BY <1>1, TilesInvariant, PTL

(* The tiles of a page at rest are the server's, unless requests have crossed. *)
THEOREM SettledSafety == Spec => []SettledTilesAgree
<1>1. TilesInv => SettledTilesAgree
  BY DEF TilesInv, SessionInv, SettledInv, SettledTilesAgree
<1> QED
  BY <1>1, TilesInvariant, PTL

(* A page that knows its user is never left without tiles or a fetch of them. *)
THEOREM FetchSafety == Spec => []FetchUnderWay
<1>1. TilesInv => FetchUnderWay
  BY DEF TilesInv, SessionInv, FetchInv, FetchUnderWay
<1> QED
  BY <1>1, TilesInvariant, PTL
===============================================================================
