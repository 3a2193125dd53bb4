----------------------------- MODULE OrderedMap ------------------------------
(***************************************************************************)
(* OrderedMap of src/ordered.rs with its storage: a hash index from keys   *)
(* to slots, an arena of slots threaded onto a doubly linked list, and the *)
(* free list of vacant slots.  Slots are numbered from 1, so that 0 can    *)
(* stand for NIL; a slot is an Option<Node>, a set of at most one node.    *)
(***************************************************************************)
EXTENDS Integers, FiniteSets, SequencesExt

CONSTANTS
  Keys, Vals,
  Unsupported,  \* keys not equal to themselves, as src/key.rs:64-68 rules out
  MaxStray      \* bound: index entries under such keys

ASSUME KeyAssumption == Unsupported \subseteq Keys /\ MaxStray \in Nat

VARIABLES
  map,    \* hash index: key to slot, for the keys that can be found again
  stray,  \* index entries under unsupported keys, which no probe finds
  slots,  \* the arena
  free,   \* vacant slots, a stack
  front,  \* slot of the most recently touched entry, or NIL
  back,   \* slot of the least recently touched one, or NIL
  out     \* what the last operation returned, an option

NIL == 0
Vacant == {}

links == [slots |-> slots, front |-> front, back |-> back]
vars == <<map, stray, slots, free, front, back, out>>

Init ==
  /\ map = <<>> /\ stray = 0 /\ slots = <<>> /\ free = <<>>
  /\ front = NIL /\ back = NIL
  /\ out = {}

-----------------------------------------------------------------------------
\* The list is handled as a record l of slots, front and back, since one
\* operation writes it several times.

\* Writes a field of the node in slot i; a vacant slot is left alone.
Write(l, i, field, x) ==
  [l EXCEPT !.slots[i] = {[node EXCEPT ![field] = x] : node \in @}]

Neighbour(l, i, side) ==
  IF l.slots[i] = Vacant THEN NIL ELSE (CHOOSE node \in l.slots[i] : TRUE)[side]

\* Mutant of Detach: the neighbour toward the front keeps its link.
DetachHalf(l, i) ==
  LET prev == Neighbour(l, i, "prev")
      next == Neighbour(l, i, "next")
      half == IF prev # NIL THEN l ELSE [l EXCEPT !.front = next]
  IN  IF next # NIL THEN Write(half, next, "prev", prev) ELSE [half EXCEPT !.back = prev]

\* Unlinks slot i: first its neighbour toward the front, then the other.
Detach(l, i) ==
  LET prev == Neighbour(l, i, "prev")
      next == Neighbour(l, i, "next")
      half == IF prev # NIL THEN Write(l, prev, "next", next) ELSE [l EXCEPT !.front = next]
  IN  IF next # NIL THEN Write(half, next, "prev", prev) ELSE [half EXCEPT !.back = prev]

\* Links the detached slot i in at the front.
AttachFront(l, i) ==
  LET linked == Write(Write(l, i, "prev", NIL), i, "next", l.front)
      hooked == IF l.front # NIL THEN Write(linked, l.front, "prev", i)
                                 ELSE [linked EXCEPT !.back = i]
  IN  [hooked EXCEPT !.front = i]

Promote(l, i) == AttachFront(Detach(l, i), i)

Becomes(l) == slots' = l.slots /\ front' = l.front /\ back' = l.back

ValueIn(i) == {node.val : node \in slots[i]}

\* Ends an operation that finds k absent.
Absent(k) == k \notin DOMAIN map /\ out' = {} /\ UNCHANGED <<map, stray, slots, free, front, back>>

-----------------------------------------------------------------------------
\* get when promote is FALSE.
Access(k, promote) ==
  \/ Absent(k)
  \/ /\ k \in DOMAIN map
     /\ Becomes(IF promote THEN Promote(links, map[k]) ELSE links)
     /\ out' = ValueIn(map[k])
     /\ UNCHANGED <<map, stray, free>>

move_to_front(k) ==
  \/ Absent(k)
  \/ /\ k \in DOMAIN map
     /\ Becomes(Promote(links, map[k]))
     /\ out' = {}
     /\ UNCHANGED <<map, stray, free>>

update_value(k, v) ==
  \/ Absent(k)
  \/ /\ k \in DOMAIN map
     /\ Becomes(Write(links, map[k], "val", v))
     /\ out' = {}
     /\ UNCHANGED <<map, stray, free>>

RewriteFront(k, v) ==
  /\ k \in DOMAIN map
  /\ Becomes(Promote(Write(links, map[k], "val", v), map[k]))
  /\ UNCHANGED <<map, stray, free>>

\* Mutant of Recycles: vacant slots are never taken again.
RecyclesNever == FALSE

Recycles == free # <<>>

\* The slot a new entry goes to, recycled if there is one, and the arena with
\* the node in it.
TakenSlot == IF Recycles THEN Last(free) ELSE Len(slots) + 1
Filled(node) ==
  IF Recycles THEN [slots EXCEPT ![Last(free)] = {node}] ELSE Append(slots, {node})

\* The index entry of k, found again only if k equals itself.
Indexes(k, i) ==
  \/ /\ k \notin Unsupported
     /\ map' = [j \in DOMAIN map \cup {k} |-> IF j = k THEN i ELSE map[j]]
     /\ stray' = stray
  \/ /\ k \in Unsupported /\ stray < MaxStray
     /\ map' = map
     /\ stray' = stray + 1

AdmitFront(k, v) ==
  LET node == [key |-> k, val |-> v, prev |-> NIL, next |-> NIL]
  IN  /\ k \notin DOMAIN map
      /\ free' = IF Recycles THEN Front(free) ELSE free
      /\ Indexes(k, TakenSlot)
      /\ Becomes(AttachFront([links EXCEPT !.slots = Filled(node)], TakenSlot))

insert_front(k, v) == (RewriteFront(k, v) \/ AdmitFront(k, v)) /\ out' = {}

\* Mutants of Release: the slot is not vacated before it is put on free; it is
\* given up only if the index knew the key; the index keeps the key.
ReleaseOccupied(k, i) ==
  /\ map' = [j \in DOMAIN map \ {k} |-> map[j]]
  /\ stray' = stray
  /\ Becomes(Detach(links, i))
  /\ free' = Append(free, i)
ReleaseIfIndexed(k, i) ==
  /\ map' = [j \in DOMAIN map \ {k} |-> map[j]]
  /\ stray' = stray
  /\ Becomes(IF k \in DOMAIN map THEN [Detach(links, i) EXCEPT !.slots[i] = Vacant]
                                 ELSE Detach(links, i))
  /\ free' = IF k \in DOMAIN map THEN Append(free, i) ELSE free

ReleaseStaysIndexed(k, i) ==
  /\ UNCHANGED <<map, stray>>
  /\ Becomes([Detach(links, i) EXCEPT !.slots[i] = Vacant])
  /\ free' = Append(free, i)

\* Takes key k out of the index, if it is found there, and its slot i off the
\* list, then vacates it.
Release(k, i) ==
  /\ map' = [j \in DOMAIN map \ {k} |-> map[j]]
  /\ stray' = stray
  /\ Becomes([Detach(links, i) EXCEPT !.slots[i] = Vacant])
  /\ free' = Append(free, i)

remove(k) ==
  \/ Absent(k)
  \/ k \in DOMAIN map /\ Release(k, map[k]) /\ out' = ValueIn(map[k])

\* Nothing to pop if the list is empty, or if its back is a vacant slot.
pop_back ==
  \/ /\ back # NIL => slots[back] = Vacant
     /\ out' = {}
     /\ UNCHANGED <<map, stray, slots, free, front, back>>
  \/ /\ back # NIL
     /\ \E node \in slots[back] :
          /\ Release(node.key, back)
          /\ out' = {[key |-> node.key, val |-> node.val]}

clear ==
  /\ map' = <<>> /\ stray' = 0 /\ slots' = <<>> /\ free' = <<>>
  /\ front' = NIL /\ back' = NIL
  /\ out' = {}

Next ==
  \/ \E k \in Keys, promote \in BOOLEAN : Access(k, promote)
  \/ \E k \in Keys, v \in Vals : update_value(k, v) \/ insert_front(k, v)
  \/ \E k \in Keys : move_to_front(k) \/ remove(k)
  \/ pop_back
  \/ clear

Spec == Init /\ [][Next]_vars

-----------------------------------------------------------------------------
Occupied == {i \in DOMAIN slots : slots[i] # Vacant}

\* Slots of entries that no probe finds.
Unfindable == {i \in DOMAIN slots : \E node \in slots[i] : node.key \in Unsupported}

\* The index and the arena agree: every indexed key is in the slot the index
\* names, every other occupied slot has an unsupported key, and free holds each
\* vacant slot once, so that no slot is lost or handed out twice
\* (src/ordered.rs:35-46), be the keys supported or not.
ArenaCoherent ==
  /\ \A k \in DOMAIN map :
       map[k] \in DOMAIN slots /\ \A node \in slots[map[k]] : node.key = k
  /\ Occupied = {map[k] : k \in DOMAIN map} \cup Unfindable
  /\ ToSet(free) = DOMAIN slots \ Occupied
  /\ Len(free) = Cardinality(ToSet(free))

\* Storage is recycled (src/ordered.rs:12-14): the arena only grows when every
\* slot of it holds an entry.
GrowsOnlyWhenFull == [][Len(slots') > Len(slots) => Occupied = DOMAIN slots]_vars

\* The slots met from the front on, as far as the arena is long.
Walk[j \in 0..Len(slots)] ==
  IF j = 0 THEN front
  ELSE IF Walk[j - 1] = NIL THEN NIL ELSE Neighbour(links, Walk[j - 1], "next")

Linked == {j \in DOMAIN Walk : Walk[j] # NIL}

AsList ==
  [j \in 1..Cardinality(Linked) |->
     LET node == CHOOSE n \in slots[Walk[j - 1]] : TRUE
     IN  [key |-> node.key, val |-> node.val]]

Order == INSTANCE RecencyOrder WITH list <- AsList

\* For supported keys only (the list operations compare keys).  Read from the front, the storage behaves as the list the policies rely on:
\* every operation does to it, and returns, what the same operation of
\* RecencyList does (src/ordered.rs:1-14).
ImplementsRecencyOrder == Order!LSpec
==============================================================================
