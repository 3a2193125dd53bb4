---------------------------- MODULE RecencyOrder -----------------------------
(***************************************************************************)
(* What OrderedMap promises the eviction policies: the operations of       *)
(* RecencyList on one list, with nothing of the storage behind it.         *)
(***************************************************************************)
EXTENDS RecencyList

CONSTANTS Keys, Vals

VARIABLES
  list,  \* the entries, most recently touched first
  out    \* what the last operation returned, as a set of at most one element

lvars == <<list, out>>

LInit == list = <<>> /\ out = {}

LAccess(k, promote) ==
  /\ list' = IF promote THEN MoveToFront(list, k) ELSE list
  /\ out' = FoundIn(list, k)

LMoveToFront(k) == list' = MoveToFront(list, k) /\ out' = {}

LUpdateValue(k, v) == list' = UpdateValue(list, k, v) /\ out' = {}

LInsertFront(k, v) == list' = InsertFront(list, k, v) /\ out' = {}

LRemove(k) == list' = Without(list, k) /\ out' = FoundIn(list, k)

LPopBack ==
  /\ list' = PopBack(list)
  /\ out' = IF list = <<>> THEN {} ELSE {BackOf(list)}

LClear == list' = <<>> /\ out' = {}

LNext ==
  \/ \E k \in Keys, promote \in BOOLEAN : LAccess(k, promote)
  \/ \E k \in Keys, v \in Vals : LUpdateValue(k, v) \/ LInsertFront(k, v)
  \/ \E k \in Keys : LMoveToFront(k) \/ LRemove(k)
  \/ LPopBack
  \/ LClear

LSpec == LInit /\ [][LNext]_lvars
==============================================================================
