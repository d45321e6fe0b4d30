------------------------------ MODULE ClientLists ------------------------------
(***************************************************************************)
(* The lists of the web client: the news as it is fetched and, as          *)
(* functions, the arrays of the streams and the headings of lists.  What   *)
(* is said of the functions depends on no state, and is looked at in the   *)
(* first one.                                                              *)
(***************************************************************************)
EXTENDS NewsFeed, StreamMerge, GroupItemsByDate

(* The merge of stream.js yields the sorted union (StreamMerge). *)
MergesAreSortedUnions == Init => MergeIsSortedUnion

(* The arrays of a stream are read in its order (StreamMerge). *)
StreamsAreReadInOrder == Init => StreamIsReadInOrder

(* A sorted list can be put under headings (GroupItemsByDate). *)
ListsAreGrouped == Init => GroupsFollowTheList
===============================================================================
