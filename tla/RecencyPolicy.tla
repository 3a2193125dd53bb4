---------------------------- MODULE RecencyPolicy ----------------------------
(***************************************************************************)
(* RecencyCache of src/policy.rs: one recency list serving both LRU and    *)
(* FIFO.  The two differ in touch_on_get alone.                            *)
(***************************************************************************)
EXTENDS RecencyList

RecencyNew(capacity, touch) ==
  [kind |-> "Recency", map |-> <<>>, capacity |-> capacity, touch_on_get |-> touch]

\* Mutant of RecencyGet: LRU does not promote either.
RecencyGetUntouched(c, k) == GetResult(c, FoundIn(c.map, k))

\* One probe; LRU promotes the entry it finds.
RecencyGet(c, k) ==
  GetResult([c EXCEPT !.map = IF c.touch_on_get THEN MoveToFront(@, k) ELSE @],
            FoundIn(c.map, k))

\* Mutants of RecencyRefresh: FIFO moves a rewritten entry to the front, and a
\* rewrite only counts as a touch.
RecencyRefreshPromotes(c, k, v) ==
  [c EXCEPT !.map = MoveToFront(UpdateValue(@, k, v), k)]
RecencyRefreshKeepsValue(c, k, v) ==
  [c EXCEPT !.map = IF c.touch_on_get THEN MoveToFront(@, k) ELSE @]

\* Put on a key already cached: the value is replaced in place, and LRU counts
\* the write as a touch.
RecencyRefresh(c, k, v) ==
  LET updated == UpdateValue(c.map, k, v)
  IN  [c EXCEPT !.map = IF c.touch_on_get THEN MoveToFront(updated, k) ELSE updated]

\* Mutant of RecencyOverflows: one entry too many.
RecencyOverflowsLate(c, m) == Size(m) > c.capacity + 1

RecencyOverflows(c, m) == Size(m) > c.capacity

\* Put on a new key: insert first, then pop the back if that is one too many.
RecencyAdmit(c, k, v) ==
  LET grown == InsertFront(c.map, k, v)
  IN  IF RecencyOverflows(c, grown)
      THEN PutResult([c EXCEPT !.map = PopBack(grown)], TRUE)
      ELSE PutResult([c EXCEPT !.map = grown], FALSE)

RecencyPut(c, k, v) ==
  CASE c.capacity = 0                      -> PutResult(c, FALSE)
    [] c.capacity > 0 /\ Holds(c.map, k)   -> PutResult(RecencyRefresh(c, k, v), FALSE)
    [] c.capacity > 0 /\ ~ Holds(c.map, k) -> RecencyAdmit(c, k, v)

RecencyClear(c) == [c EXCEPT !.map = <<>>]

RecencyLen(c) == Size(c.map)

RecencyEntries(c) == ToSet(c.map)

RecencyType(c, K, V) ==
  /\ c \in [kind: {"Recency"}, map: Seq([key: K, val: V]), capacity: Nat,
            touch_on_get: BOOLEAN]
  /\ Distinct(c.map)
==============================================================================
