----------------------------- MODULE RecencyList -----------------------------
(***************************************************************************)
(* The OrderedMap of src/ordered.rs as its callers see it: a sequence of   *)
(* entries [key, val], most recently touched first, with no key twice.     *)
(* The hash index and the slot arena behind it are the subject of module   *)
(* OrderedMap; the eviction policies only need the order.                  *)
(***************************************************************************)
EXTENDS Integers, SequencesExt

\* The unit value () of the key-only lists: LFU buckets and ARC ghosts.
Unit == "unit"

Entry(k, v) == [key |-> k, val |-> v]

KeysOf(m) == {m[i].key : i \in DOMAIN m}

Holds(m, k) == \E i \in DOMAIN m : m[i].key = k

Position(m, k) == CHOOSE i \in DOMAIN m : m[i].key = k

\* OrderedMap::len.
Size(m) == Len(m)

\* OrderedMap::get, for a key the map holds.
ValueOf(m, k) == m[Position(m, k)].val

\* Mutant of Without: the entry stays linked.
WithoutStaysLinked(m, k) == m

\* OrderedMap::remove: does nothing if the key is absent.
Without(m, k) == IF Holds(m, k) THEN RemoveAt(m, Position(m, k)) ELSE m

\* OrderedMap::insert_front: an existing key is updated and promoted.
InsertFront(m, k, v) == Cons(Entry(k, v), Without(m, k))

\* OrderedMap::move_to_front, and access with promote set.
MoveToFront(m, k) == IF Holds(m, k) THEN InsertFront(m, k, ValueOf(m, k)) ELSE m

\* OrderedMap::update_value: the order does not change.
UpdateValue(m, k, v) ==
  IF Holds(m, k) THEN ReplaceAt(m, Position(m, k), Entry(k, v)) ELSE m

\* OrderedMap::pop_back: the rest of the list, and the entry it returns.
PopBack(m) == IF m = <<>> THEN m ELSE Front(m)
BackOf(m) == Last(m)

\* No key is on the list twice.
Distinct(m) == \A i, j \in DOMAIN m : m[i].key = m[j].key => i = j

\* What get returns: the cache after its bookkeeping, and the value found,
\* as a set of at most one element (Option<&V>).
GetResult(c, f) == [cache |-> c, found |-> f]

\* What put returns: the cache, and whether a live value was discarded.
PutResult(c, e) == [cache |-> c, evicted |-> e]

FoundIn(m, k) == IF Holds(m, k) THEN {ValueOf(m, k)} ELSE {}
==============================================================================
