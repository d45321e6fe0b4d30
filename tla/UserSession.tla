----------------------------- MODULE UserSession -------------------------------
(***************************************************************************)
(* Who the page belongs to: state/user.js, userinfo.js and the part of     *)
(* main.js that asks for the user.  The page starts with what an earlier   *)
(* page left in local storage, and learns from the server later, if at     *)
(* all, who is signed in.  If that is another user than before, the store  *)
(* and the storage are cleared first.                                      *)
(*                                                                         *)
(* One user info exchange is in progress at a time.  Signing in or out     *)
(* leaves the page, so the cookie is the same as long as a page lives.     *)
(* Operations of local storage are executed in the order of their calls.   *)
(* Any of them may fail: userReceive goes on without the user it cannot    *)
(* read or store, and gives up when the storage cannot be cleared.         *)
(***************************************************************************)
EXTENDS Naturals, FiniteSets

CONSTANTS
  Users,
  NoUser,     \* nobody, in local storage
  MaxPages,   \* bound on the pages opened after the first one
  MaxFaults   \* bound on the answers lost or spoiled and the calls of storage that fail

ASSUME UsersAssumption == NoUser \notin Users

ASSUME BoundsAssumption == MaxPages \in Nat /\ MaxFaults \in Nat

VARIABLES
  signedIn,       \* whose cookie the requests of the page carry
  storedUser,     \* 'user' in local storage
  authoritative,  \* state.user.authoritative
  info,           \* how far the page is in learning its user
  pages,          \* pages opened after the first one
  faults,         \* how many of these there were
  mislaid         \* history: has the page lost what local storage knew of its user

identity == <<signedIn, storedUser, authoritative, info, pages, mislaid>>
session == <<identity, faults>>

InfoPhases == {"asked", "waiting", "clearing", "storing", "settled", "stopped"}

(* The first page may follow an earlier visit of any user, or none. *)
SessionInit ==
  /\ signedIn \in Users
  /\ storedUser \in Users \cup {NoUser}
  /\ authoritative = FALSE
  /\ info = "asked"
  /\ pages = 0
  /\ faults = 0
  /\ mislaid = FALSE

Fault == faults < MaxFaults /\ faults' = faults + 1

(* The answer cannot be read: receiveUserInfo sets a timer of five seconds. *)
InfoSpoiled ==
  /\ info = "asked"
  /\ info' = "waiting"
  /\ Fault
  /\ UNCHANGED <<signedIn, storedUser, authoritative, pages, mislaid>>

InfoTimerFires ==
  /\ info = "waiting"
  /\ info' = "asked"
  /\ UNCHANGED <<signedIn, storedUser, authoritative, pages, faults, mislaid>>

(* The request fails: main.js logs it, and the timer's request is not caught. *)
InfoUnreachable ==
  /\ info = "asked"
  /\ info' = "stopped"
  /\ Fault
  /\ UNCHANGED <<signedIn, storedUser, authoritative, pages, mislaid>>

(***************************************************************************)
(* handleRedirects finds the user in the answer (who is signed in, or the  *)
(* page is left), and userReceive compares it with the stored one.         *)
(***************************************************************************)
LearnSameUser ==
  /\ info = "asked"
  /\ storedUser = signedIn
  /\ info' = "storing"
  /\ UNCHANGED <<signedIn, storedUser, authoritative, pages, faults, mislaid>>

(***************************************************************************)
(* localforage.clear() for another user: nobody is another one, and so is  *)
(* a user that loadUserFromLocalStorage cannot read.                       *)
(***************************************************************************)
LearnOtherUser ==
  /\ info = "asked"
  /\ info' = "clearing"
  /\ storedUser' = NoUser
  /\ \/ storedUser # signedIn /\ UNCHANGED <<mislaid, faults>>
     \/ storedUser = signedIn /\ mislaid' = TRUE /\ Fault
  /\ UNCHANGED <<signedIn, authoritative, pages>>

(* localforage.clear() fails, and receiveUserInfo logs it. *)
ClearFails ==
  /\ info = "asked"
  /\ info' = "stopped"
  /\ Fault
  /\ UNCHANGED <<signedIn, storedUser, authoritative, pages, mislaid>>

(* USER_CLEAR *)
ClearUser ==
  /\ info = "clearing"
  /\ info' = "storing"
  /\ authoritative' = FALSE
  /\ UNCHANGED <<signedIn, storedUser, pages, mislaid>>

(* Mutation: the user is not stored. *)
ReceiveUnstored ==
  /\ info = "storing"
  /\ info' = "settled"
  /\ authoritative' = TRUE
  /\ UNCHANGED <<signedIn, storedUser, pages, faults, mislaid>>

(* setItem('user'), which setItemFailed makes good, then USER_RECEIVE *)
ReceiveUser ==
  /\ info = "storing"
  /\ info' = "settled"
  /\ \/ storedUser' = signedIn /\ UNCHANGED <<mislaid, faults>>
     \/ mislaid' = (mislaid \/ storedUser = NoUser) /\ Fault /\ UNCHANGED storedUser
  /\ authoritative' = TRUE
  /\ UNCHANGED <<signedIn, pages>>

(* The native app asks again when it becomes active. *)
AskAgain ==
  /\ info \in {"settled", "stopped"}
  /\ info' = "asked"
  /\ UNCHANGED <<signedIn, storedUser, authoritative, pages, faults, mislaid>>

(* The page is loaded again, possibly after signing in as somebody else. *)
OpenPage ==
  /\ pages < MaxPages
  /\ pages' = pages + 1
  /\ signedIn' \in Users
  /\ authoritative' = FALSE
  /\ mislaid' = FALSE
  /\ info' = "asked"
  /\ UNCHANGED <<storedUser, faults>>

SessionTypeOK ==
  /\ signedIn \in Users
  /\ storedUser \in Users \cup {NoUser}
  /\ authoritative \in BOOLEAN
  /\ info \in InfoPhases
  /\ pages \in 0..MaxPages
  /\ faults \in 0..MaxFaults
  /\ mislaid \in BOOLEAN
===============================================================================
