-------------------------- MODULE OrderedMapProofs ---------------------------
(***************************************************************************)
(* Theorems about OrderedMap and RecencyStorage for any keys, supported or *)
(* not, values and capacities: the index, the arena and the free list      *)
(* agree, the arena grows only when it is full and stays within the        *)
(* capacity, a key finds what was put under it last, and, if keys equal    *)
(* themselves, all of it is one plain list of entries.                     *)
(***************************************************************************)
EXTENDS RecencyStorage, FiniteSetTheorems, SequenceTheorems, TLAPS

\* A node of an arena of n slots, and a list in it: the links stay inside.
Nodes(n) == [key: Keys, val: Vals, prev: 0..n, next: 0..n]
Lists(n) == [slots: [1..n -> SUBSET Nodes(n)], front: 0..n, back: 0..n]

KeysIn(s, i) == {node.key : node \in s[i]}

\* Two arenas hold the same keys in the same slots.
SameKeys(n, s, t) == \A i \in 1..n : KeysIn(s, i) = KeysIn(t, i)

-----------------------------------------------------------------------------
\* The list operations keep the list inside the arena and every key in place.

LEMMA NodeWritten ==
  ASSUME NEW n \in Nat, NEW node \in Nodes(n), NEW field, NEW x,
         \/ field \in {"prev", "next"} /\ x \in 0..n
         \/ field = "val" /\ x \in Vals
  PROVE  /\ [node EXCEPT ![field] = x] \in Nodes(n)
         /\ [node EXCEPT ![field] = x].key = node.key
<1>1. CASE field = "prev" /\ x \in 0..n
  BY <1>1 DEF Nodes
<1>2. CASE field = "next" /\ x \in 0..n
  BY <1>2 DEF Nodes
<1>3. CASE field = "val" /\ x \in Vals
  BY <1>3 DEF Nodes
<1> QED BY <1>1, <1>2, <1>3

LEMMA WriteSpec ==
  ASSUME NEW n \in Nat, NEW l \in Lists(n), NEW i \in 1..n, NEW field, NEW x,
         \/ field \in {"prev", "next"} /\ x \in 0..n
         \/ field = "val" /\ x \in Vals
  PROVE  /\ Write(l, i, field, x) \in Lists(n)
         /\ SameKeys(n, l.slots, Write(l, i, field, x).slots)
<1> DEFINE S == {[node EXCEPT ![field] = x] : node \in l.slots[i]}
           w == Write(l, i, field, x)
<1>1. l.slots \in [1..n -> SUBSET Nodes(n)] /\ l.front \in 0..n /\ l.back \in 0..n
  BY DEF Lists
<1>2. \A node \in l.slots[i] : node \in Nodes(n)
  BY <1>1
<1>3. \A node \in l.slots[i] :
        /\ [node EXCEPT ![field] = x] \in Nodes(n)
        /\ [node EXCEPT ![field] = x].key = node.key
  BY <1>2, NodeWritten
<1>4. S \subseteq Nodes(n) /\ {node.key : node \in S} = KeysIn(l.slots, i)
  BY <1>3 DEF KeysIn
<1>5. w = [l EXCEPT !.slots = [l.slots EXCEPT ![i] = S]]
  BY DEF Write
<1>6. w.slots = [l.slots EXCEPT ![i] = S] /\ w.front = l.front /\ w.back = l.back
  BY <1>5 DEF Lists
<1> HIDE DEF S
<1>7. [l.slots EXCEPT ![i] = S] \in [1..n -> SUBSET Nodes(n)]
  BY <1>1, <1>4
<1>8. w \in Lists(n)
  BY <1>1, <1>5, <1>7 DEF Lists
<1>9. \A j \in 1..n : [l.slots EXCEPT ![i] = S][j] = IF j = i THEN S ELSE l.slots[j]
  BY <1>1
<1>10. SameKeys(n, l.slots, w.slots)
  BY <1>4, <1>6, <1>9 DEF SameKeys, KeysIn
<1> QED BY <1>8, <1>10

LEMMA NeighbourSpec ==
  ASSUME NEW n \in Nat, NEW l \in Lists(n), NEW i \in 1..n, NEW side \in {"prev", "next"}
  PROVE  Neighbour(l, i, side) \in 0..n
<1>1. l.slots[i] \subseteq Nodes(n)
  BY DEF Lists
<1>2. \A node \in Nodes(n) : node["prev"] \in 0..n /\ node["next"] \in 0..n
  BY DEF Nodes
<1>3. CASE l.slots[i] = {}
  BY <1>3 DEF Neighbour, Vacant, NIL
<1>4. CASE l.slots[i] # {}
  <2>1. (CHOOSE node \in l.slots[i] : TRUE) \in l.slots[i]
    BY <1>4
  <2> QED BY <1>1, <1>2, <1>4, <2>1 DEF Neighbour, Vacant
<1> QED BY <1>3, <1>4

LEMMA SameKeysTrans ==
  ASSUME NEW n, NEW s, NEW t, NEW u, SameKeys(n, s, t), SameKeys(n, t, u)
  PROVE  SameKeys(n, s, u)
BY DEF SameKeys

\* The front or the back of a list may be set to any slot.
LEMMA EndSet ==
  ASSUME NEW n \in Nat, NEW l \in Lists(n), NEW x \in 0..n
  PROVE  /\ [l EXCEPT !.front = x] \in Lists(n) /\ [l EXCEPT !.front = x].slots = l.slots
         /\ [l EXCEPT !.back = x] \in Lists(n) /\ [l EXCEPT !.back = x].slots = l.slots
BY DEF Lists

LEMMA DetachSpec ==
  ASSUME NEW n \in Nat, NEW l \in Lists(n), NEW i \in 1..n
  PROVE  /\ Detach(l, i) \in Lists(n)
         /\ SameKeys(n, l.slots, Detach(l, i).slots)
<1> DEFINE prev == Neighbour(l, i, "prev")
           next == Neighbour(l, i, "next")
           half == IF prev # NIL THEN Write(l, prev, "next", next) ELSE [l EXCEPT !.front = next]
           whole == IF next # NIL THEN Write(half, next, "prev", prev) ELSE [half EXCEPT !.back = prev]
<1>1. prev \in 0..n /\ next \in 0..n
  BY NeighbourSpec
<1>2. SameKeys(n, l.slots, l.slots)
  BY DEF SameKeys
<1> HIDE DEF prev, next
<1>3. half \in Lists(n) /\ SameKeys(n, l.slots, half.slots)
  <2>1. CASE prev # NIL
    <3>1. prev \in 1..n
      BY <1>1, <2>1 DEF NIL
    <3> QED BY <1>1, <2>1, <3>1, WriteSpec
  <2>2. CASE prev = NIL
    BY <1>1, <1>2, <2>2, EndSet
  <2> QED BY <2>1, <2>2
<1> HIDE DEF half
<1>4. whole \in Lists(n) /\ SameKeys(n, half.slots, whole.slots)
  <2>1. CASE next # NIL
    <3>1. next \in 1..n
      BY <1>1, <2>1 DEF NIL
    <3> QED BY <1>1, <1>3, <2>1, <3>1, WriteSpec
  <2>2. CASE next = NIL
    <3>1. SameKeys(n, half.slots, half.slots)
      BY DEF SameKeys
    <3> QED BY <1>1, <1>3, <2>2, <3>1, EndSet
  <2> QED BY <2>1, <2>2
<1> HIDE DEF whole
<1>5. SameKeys(n, l.slots, whole.slots)
  BY <1>3, <1>4, SameKeysTrans
<1> USE DEF whole, half, prev, next
<1>6. Detach(l, i) = whole
  BY DEF Detach
<1> HIDE DEF whole, half, prev, next
<1> QED BY <1>4, <1>5, <1>6

LEMMA AttachFrontSpec ==
  ASSUME NEW n \in Nat, NEW l \in Lists(n), NEW i \in 1..n
  PROVE  /\ AttachFront(l, i) \in Lists(n)
         /\ SameKeys(n, l.slots, AttachFront(l, i).slots)
<1> DEFINE first == Write(l, i, "prev", NIL)
           linked == Write(first, i, "next", l.front)
           hooked == IF l.front # NIL THEN Write(linked, l.front, "prev", i)
                                      ELSE [linked EXCEPT !.back = i]
<1>1. l.front \in 0..n /\ NIL \in 0..n /\ i \in 0..n
  BY DEF Lists, NIL
<1>2. first \in Lists(n) /\ SameKeys(n, l.slots, first.slots)
  BY <1>1, WriteSpec
<1> HIDE DEF first
<1>3. linked \in Lists(n) /\ SameKeys(n, first.slots, linked.slots)
  BY <1>1, <1>2, WriteSpec
<1> HIDE DEF linked
<1>4. hooked \in Lists(n) /\ SameKeys(n, linked.slots, hooked.slots)
  <2>1. CASE l.front # NIL
    <3>1. l.front \in 1..n
      BY <1>1, <2>1 DEF NIL
    <3> QED BY <1>1, <1>3, <2>1, <3>1, WriteSpec
  <2>2. CASE l.front = NIL
    <3>1. SameKeys(n, linked.slots, linked.slots)
      BY DEF SameKeys
    <3> QED BY <1>1, <1>3, <2>2, <3>1, EndSet
  <2> QED BY <2>1, <2>2
<1> HIDE DEF hooked
<1>5. /\ [hooked EXCEPT !.front = i] \in Lists(n)
      /\ [hooked EXCEPT !.front = i].slots = hooked.slots
  BY <1>1, <1>4, EndSet
<1>6. SameKeys(n, l.slots, hooked.slots)
  BY <1>2, <1>3, <1>4, SameKeysTrans
<1> USE DEF hooked, linked, first
<1>7. AttachFront(l, i) = [hooked EXCEPT !.front = i]
  BY DEF AttachFront
<1> HIDE DEF hooked, linked, first
<1> QED BY <1>5, <1>6, <1>7

LEMMA PromoteSpec ==
  ASSUME NEW n \in Nat, NEW l \in Lists(n), NEW i \in 1..n
  PROVE  /\ Promote(l, i) \in Lists(n)
         /\ SameKeys(n, l.slots, Promote(l, i).slots)
<1>1. Detach(l, i) \in Lists(n) /\ SameKeys(n, l.slots, Detach(l, i).slots)
  BY DetachSpec
<1>2. /\ Promote(l, i) \in Lists(n)
      /\ SameKeys(n, Detach(l, i).slots, Promote(l, i).slots)
  BY <1>1, AttachFrontSpec DEF Promote
<1> QED BY <1>1, <1>2, SameKeysTrans

-----------------------------------------------------------------------------
\* What the index m, the arena s of n slots and the free list f owe each other:
\* a slot holds one key at most, the key of an indexed slot is the one that
\* leads to it, any other key held is unsupported, and the vacant slots are
\* those on the free list, each once.
Agree(n, s, m, f) ==
  /\ \A i \in 1..n : \A a, b \in KeysIn(s, i) : a = b
  /\ \A k \in DOMAIN m : m[k] \in 1..n /\ k \in KeysIn(s, m[k]) /\ k \notin Unsupported
  /\ \A i \in 1..n : \A a \in KeysIn(s, i) : a \in Unsupported \/ (a \in DOMAIN m /\ m[a] = i)
  /\ f \in Seq(1..n)
  /\ \A i, j \in DOMAIN f : f[i] = f[j] => i = j
  /\ \A i \in 1..n : KeysIn(s, i) = {} <=> \E j \in DOMAIN f : f[j] = i

\* The inductive strengthening of ArenaCoherent.
StorageInv ==
  /\ slots \in Seq(SUBSET Nodes(Len(slots)))
  /\ links \in Lists(Len(slots))
  /\ Agree(Len(slots), slots, map, free)

\* What every step does: it keeps the invariant, and a larger arena means that
\* there was no vacant slot.
Kept == StorageInv' /\ (Len(slots') <= Len(slots) \/ free = <<>>)

\* They owe it to the keys alone.
LEMMA AgreeSame ==
  ASSUME NEW n, NEW s, NEW t, NEW m, NEW f, Agree(n, s, m, f), SameKeys(n, s, t)
  PROVE  Agree(n, t, m, f)
<1>1. \A i \in 1..n : KeysIn(s, i) = KeysIn(t, i)
  BY DEF SameKeys
<1>2. \A k \in DOMAIN m : KeysIn(s, m[k]) = KeysIn(t, m[k])
  BY <1>1 DEF Agree
<1> HIDE DEF KeysIn
<1> QED BY <1>1, <1>2 DEF Agree

\* A relinked list is still the arena of as many slots.
LEMMA ListsLen ==
  ASSUME NEW n \in Nat, NEW l \in Lists(n)
  PROVE  l.slots \in Seq(SUBSET Nodes(n)) /\ Len(l.slots) = n
BY DEF Lists

\* A step that relinks, or rewrites values, and leaves keys and index alone.
LEMMA Relinked ==
  ASSUME StorageInv, NEW l \in Lists(Len(slots)), SameKeys(Len(slots), slots, l.slots),
         Becomes(l), UNCHANGED <<map, free>>
  PROVE  Kept
<1> DEFINE n == Len(slots)
<1>1. n \in Nat
  BY DEF StorageInv
<1>2. slots' = l.slots /\ front' = l.front /\ back' = l.back
  BY DEF Becomes
<1>3. slots' \in Seq(SUBSET Nodes(n)) /\ Len(slots') = n
  BY <1>1, <1>2, ListsLen
<1>4. links' \in Lists(n)
  BY <1>2 DEF links, Lists
<1>5. Agree(n, slots', map', free')
  BY <1>2, AgreeSame DEF StorageInv
<1> QED BY <1>1, <1>3, <1>4, <1>5 DEF StorageInv, Kept

\* The slot of an indexed key.
LEMMA IndexedSlot ==
  ASSUME StorageInv, NEW k \in DOMAIN map
  PROVE  map[k] \in 1..Len(slots)
BY DEF StorageInv, Agree

LEMMA LinksSlots == links.slots = slots /\ links.front = front /\ links.back = back
BY DEF links

\* Promotion, rewriting, and both.
LEMMA Promoting ==
  ASSUME StorageInv, NEW k \in DOMAIN map, Becomes(Promote(links, map[k])),
         UNCHANGED <<map, free>>
  PROVE  Kept
<1>1. Len(slots) \in Nat /\ links \in Lists(Len(slots))
  BY DEF StorageInv
<1> QED BY <1>1, IndexedSlot, PromoteSpec, LinksSlots, Relinked

LEMMA Rewriting ==
  ASSUME StorageInv, NEW k \in DOMAIN map, NEW v \in Vals,
         \/ Becomes(Write(links, map[k], "val", v))
         \/ Becomes(Promote(Write(links, map[k], "val", v), map[k])),
         UNCHANGED <<map, free>>
  PROVE  Kept
<1> DEFINE n == Len(slots)
           w == Write(links, map[k], "val", v)
<1>1. n \in Nat /\ links \in Lists(n) /\ map[k] \in 1..n
  BY IndexedSlot DEF StorageInv
<1>2. w \in Lists(n) /\ SameKeys(n, slots, w.slots)
  BY <1>1, WriteSpec, LinksSlots
<1> HIDE DEF w
<1>3. Promote(w, map[k]) \in Lists(n) /\ SameKeys(n, slots, Promote(w, map[k]).slots)
  BY <1>1, <1>2, PromoteSpec, SameKeysTrans
<1>4. Becomes(w) \/ Becomes(Promote(w, map[k]))
  BY DEF w
<1> QED BY <1>2, <1>3, <1>4, Relinked

\* Giving up the slot of a key: what Agree needs of the slots and of the lists.
LEMMA AgreeReleased ==
  ASSUME NEW n \in Nat, NEW s, NEW t, NEW m, NEW f, NEW i \in 1..n, NEW k,
         Agree(n, s, m, f), k \in KeysIn(s, i),
         \A j \in 1..n : KeysIn(t, j) = IF j = i THEN {} ELSE KeysIn(s, j),
         NEW o, o = [j \in DOMAIN m \ {k} |-> m[j]],
         NEW g, g = Append(f, i)
  PROVE  Agree(n, t, o, g)
<1>1. f \in Seq(1..n) /\ \A a, b \in DOMAIN f : f[a] = f[b] => a = b
  BY DEF Agree
<1>2. \A j \in DOMAIN f : f[j] # i
  BY <1>1 DEF Agree
<1>3. /\ g \in Seq(1..n) /\ Len(g) = Len(f) + 1
      /\ \A j \in 1..Len(f) : g[j] = f[j]
      /\ g[Len(f) + 1] = i
  BY <1>1
<1>4. DOMAIN f = 1..Len(f) /\ DOMAIN g = 1..(Len(f) + 1) /\ Len(f) \in Nat
  BY <1>1, <1>3
<1>5. \A a, b \in DOMAIN g : g[a] = g[b] => a = b
  BY <1>1, <1>2, <1>3, <1>4
<1>6. \A j \in 1..n : KeysIn(t, j) = {} <=> \E a \in DOMAIN g : g[a] = j
  <2> SUFFICES ASSUME NEW j \in 1..n
               PROVE  KeysIn(t, j) = {} <=> \E a \in DOMAIN g : g[a] = j
    OBVIOUS
  <2>1. CASE j = i
    BY <1>3, <1>4, <2>1
  <2>2. CASE j # i
    <3>1. KeysIn(s, j) = {} <=> \E a \in DOMAIN f : f[a] = j
      BY DEF Agree
    <3>2. (\E a \in DOMAIN g : g[a] = j) <=> (\E a \in DOMAIN f : f[a] = j)
      <4>1. ASSUME NEW a \in DOMAIN g, g[a] = j PROVE \E b \in DOMAIN f : f[b] = j
        <5>1. a \in 1..Len(f)
          BY <1>3, <1>4, <2>2, <4>1
        <5> QED BY <1>3, <1>4, <4>1, <5>1
      <4>2. ASSUME NEW a \in DOMAIN f, f[a] = j PROVE \E b \in DOMAIN g : g[b] = j
        BY <1>3, <1>4, <4>2
      <4> QED BY <4>1, <4>2
    <3> QED BY <2>2, <3>1, <3>2
  <2> QED BY <2>1, <2>2
<1>7. \A j \in 1..n : \A a, b \in KeysIn(t, j) : a = b
  BY DEF Agree
<1>8. \A j \in DOMAIN m : j # k => m[j] \in 1..n /\ m[j] # i
  BY DEF Agree
<1>9. \A j \in DOMAIN o : o[j] \in 1..n /\ j \in KeysIn(t, o[j]) /\ j \notin Unsupported
  BY <1>8 DEF Agree
<1>10. \A j \in 1..n : \A a \in KeysIn(t, j) : a \in Unsupported \/ (a \in DOMAIN o /\ o[a] = j)
  <2> SUFFICES ASSUME NEW j \in 1..n, NEW a \in KeysIn(t, j), a \notin Unsupported
               PROVE  a \in DOMAIN o /\ o[a] = j
    OBVIOUS
  <2>1. j # i /\ a \in KeysIn(s, j) /\ a \in DOMAIN m /\ m[a] = j
    BY DEF Agree
  <2>2. a # k
    BY <2>1 DEF Agree
  <2> QED BY <2>1, <2>2
<1> QED BY <1>3, <1>5, <1>6, <1>7, <1>9, <1>10 DEF Agree

LEMMA Releasing ==
  ASSUME StorageInv, NEW i \in 1..Len(slots), NEW k, k \in KeysIn(slots, i), Release(k, i)
  PROVE  Kept
<1> DEFINE n == Len(slots)
           l == Detach(links, i)
<1>1. n \in Nat /\ links \in Lists(n) /\ Agree(n, slots, map, free)
  BY DEF StorageInv
<1>2. l \in Lists(n) /\ SameKeys(n, slots, l.slots)
  BY <1>1, DetachSpec, LinksSlots
<1>3. Becomes([l EXCEPT !.slots[i] = Vacant])
  BY DEF Release
<1> HIDE DEF l
<1>4. /\ slots' = [l.slots EXCEPT ![i] = {}]
      /\ front' = l.front /\ back' = l.back
  BY <1>2, <1>3 DEF Becomes, Vacant, Lists
<1>5. [l.slots EXCEPT ![i] = {}] \in [1..n -> SUBSET Nodes(n)]
  BY <1>2 DEF Lists
<1>6. links' \in Lists(n)
  BY <1>2, <1>4, <1>5 DEF links, Lists
<1>7. slots' \in Seq(SUBSET Nodes(n)) /\ Len(slots') = n
  <2>1. slots' \in [1..n -> SUBSET Nodes(n)]
    BY <1>4, <1>5
  <2> QED BY <1>1, <2>1
<1>8. \A j \in 1..n : KeysIn(slots', j) = IF j = i THEN {} ELSE KeysIn(slots, j)
  <2>1. l.slots \in [1..n -> SUBSET Nodes(n)]
    BY <1>2 DEF Lists
  <2>2. \A j \in 1..n : slots'[j] = IF j = i THEN {} ELSE l.slots[j]
    BY <1>4, <2>1
  <2> QED BY <1>2, <2>2 DEF SameKeys, KeysIn
<1>9. Agree(n, slots', map', free')
  <2>1. map' = [j \in DOMAIN map \ {k} |-> map[j]] /\ free' = Append(free, i)
    BY DEF Release
  <2> QED BY <1>1, <1>8, <2>1, AgreeReleased
<1> QED BY <1>1, <1>6, <1>7, <1>9 DEF StorageInv, Kept

\* A step that changes nothing here.
LEMMA AbsentStep ==
  ASSUME StorageInv, UNCHANGED <<map, stray, slots, free, front, back>>
  PROVE  Kept
<1>1. Len(slots) \in Nat
  BY DEF StorageInv
<1> QED BY <1>1 DEF StorageInv, links, Kept

\* Removing a key that is indexed, and popping whatever is at the back.
LEMMA RemovingIndexed ==
  ASSUME StorageInv, NEW k \in DOMAIN map, Release(k, map[k])
  PROVE  Kept
<1>1. map[k] \in 1..Len(slots) /\ k \in KeysIn(slots, map[k])
  BY DEF StorageInv, Agree
<1> QED BY <1>1, Releasing

LEMMA Popping ==
  ASSUME StorageInv, pop_back
  PROVE  Kept
<1>1. CASE UNCHANGED <<map, stray, slots, free, front, back>>
  BY <1>1, AbsentStep
<1>2. ASSUME back # NIL, NEW node \in slots[back], Release(node.key, back)
      PROVE  Kept
  <2>1. back \in 1..Len(slots)
    BY <1>2, LinksSlots DEF StorageInv, Lists, NIL
  <2>2. node.key \in KeysIn(slots, back)
    BY DEF KeysIn
  <2> QED BY <1>2, <2>1, <2>2, Releasing
<1> QED BY <1>1, <1>2 DEF pop_back

-----------------------------------------------------------------------------
\* Admission.

\* A larger arena holds what a smaller one did.
LEMMA ListsGrow ==
  ASSUME NEW n \in Nat, NEW s \in [1..n -> SUBSET Nodes(n)], NEW node \in Nodes(n)
  PROVE  /\ Append(s, {node}) \in [1..(n + 1) -> SUBSET Nodes(n + 1)]
         /\ \A j \in 1..(n + 1) : Append(s, {node})[j] = IF j = n + 1 THEN {node} ELSE s[j]
<1>1. 0..n \subseteq 0..(n + 1)
  OBVIOUS
<1>2. Nodes(n) \subseteq Nodes(n + 1)
  BY <1>1 DEF Nodes
<1> DEFINE x == {node}
           S == SUBSET Nodes(n)
<1>3. s \in Seq(S) /\ Len(s) = n /\ x \in S
  OBVIOUS
<1> HIDE DEF x, S
<1>4. \A j \in 1..(n + 1) : Append(s, x)[j] = IF j = n + 1 THEN x ELSE s[j]
  BY <1>3
<1>5. Append(s, x) \in [1..(n + 1) -> S]
  <2>1. Append(s, x) \in Seq(S) /\ Len(Append(s, x)) = n + 1
    BY <1>3
  <2> QED BY <2>1, LenProperties
<1> QED BY <1>2, <1>4, <1>5 DEF x, S

\* Filling a vacant slot with a new key: f is the free list without it.
LEMMA AgreeAdmitted ==
  ASSUME NEW n \in Nat, NEW e \in Nat, NEW s, NEW t, NEW m, NEW o, NEW f, NEW g,
         NEW i \in 1..e, NEW k,
         Agree(n, s, m, f), k \notin DOMAIN m, n <= e,
         \A j \in 1..n : j # i => KeysIn(t, j) = KeysIn(s, j),
         \A j \in 1..e : j \in 1..n \/ j = i,
         KeysIn(t, i) = {k},
         i \in 1..n => KeysIn(s, i) = {},
         \/ k \in Unsupported /\ o = m
         \/ k \notin Unsupported /\ o = [j \in DOMAIN m \cup {k} |-> IF j = k THEN i ELSE m[j]],
         g \in Seq(1..e),
         \A a, b \in DOMAIN g : g[a] = g[b] => a = b,
         \A j \in 1..e : (\E a \in DOMAIN g : g[a] = j) <=> (j # i /\ \E a \in DOMAIN f : f[a] = j)
  PROVE  Agree(e, t, o, g)
<1> HIDE DEF KeysIn
<1>1. \A j \in 1..e : \A a, b \in KeysIn(t, j) : a = b
  <2> SUFFICES ASSUME NEW j \in 1..e, NEW a \in KeysIn(t, j), NEW b \in KeysIn(t, j)
               PROVE  a = b
    OBVIOUS
  <2>1. CASE j = i
    BY <2>1
  <2>2. CASE j # i
    <3>1. j \in 1..n /\ KeysIn(t, j) = KeysIn(s, j)
      BY <2>2
    <3> QED BY <3>1 DEF Agree
  <2> QED BY <2>1, <2>2
<1>2. \A j \in DOMAIN m : m[j] \in 1..n /\ m[j] # i /\ j \in KeysIn(t, m[j]) /\ j \notin Unsupported
  BY DEF Agree
<1>3. 1..n \subseteq 1..e
  OBVIOUS
<1>4. \A j \in DOMAIN o : o[j] \in 1..e /\ j \in KeysIn(t, o[j]) /\ j \notin Unsupported
  BY <1>2, <1>3
<1>5. \A j \in 1..e : \A a \in KeysIn(t, j) : a \in Unsupported \/ (a \in DOMAIN o /\ o[a] = j)
  <2> SUFFICES ASSUME NEW j \in 1..e, NEW a \in KeysIn(t, j), a \notin Unsupported
               PROVE  a \in DOMAIN o /\ o[a] = j
    OBVIOUS
  <2>1. CASE j = i
    BY <2>1
  <2>2. CASE j # i
    <3>1. j \in 1..n /\ a \in KeysIn(s, j) /\ a \in DOMAIN m /\ m[a] = j
      BY <2>2 DEF Agree
    <3> QED BY <3>1
  <2> QED BY <2>1, <2>2
<1>6. \A j \in 1..e : KeysIn(t, j) = {} <=> \E a \in DOMAIN g : g[a] = j
  <2> SUFFICES ASSUME NEW j \in 1..e
               PROVE  KeysIn(t, j) = {} <=> \E a \in DOMAIN g : g[a] = j
    OBVIOUS
  <2>1. CASE j = i
    BY <2>1
  <2>2. CASE j # i
    BY <2>2 DEF Agree
  <2> QED BY <2>1, <2>2
<1> QED BY <1>1, <1>4, <1>5, <1>6 DEF Agree

LEMMA Admitting ==
  ASSUME StorageInv, NEW k \in Keys, NEW v \in Vals, AdmitFront(k, v)
  PROVE  Kept
<1> DEFINE n == Len(slots)
           e == IF Recycles THEN n ELSE n + 1
           i == TakenSlot
           node == [key |-> k, val |-> v, prev |-> NIL, next |-> NIL]
           l == [links EXCEPT !.slots = Filled(node)]
           w == AttachFront(l, i)
<1>1. n \in Nat /\ links \in Lists(n) /\ Agree(n, slots, map, free)
  BY DEF StorageInv
<1>2. e \in Nat /\ n <= e
  BY <1>1
<1>3. node \in Nodes(n)
  BY <1>1 DEF Nodes, NIL
<1>4. /\ slots \in [1..n -> SUBSET Nodes(n)] /\ front \in 0..n /\ back \in 0..n
      /\ l.slots = Filled(node) /\ l.front = front /\ l.back = back
      /\ l = [slots |-> Filled(node), front |-> front, back |-> back]
  BY <1>1, LinksSlots DEF Lists, links
<1>a. /\ i = TakenSlot
      /\ (Recycles => e = n) /\ (~ Recycles => e = n + 1)
      /\ node.key = k
      /\ l.slots = Filled(node)
      /\ Becomes(AttachFront(l, i))
      /\ Indexes(k, i)
  BY <1>4 DEF AdmitFront
<1> HIDE DEF node, e, i, l, w
<1>5. k \notin DOMAIN map
  BY DEF AdmitFront
<1>6. free \in Seq(1..n) /\ \A a, b \in DOMAIN free : free[a] = free[b] => a = b
  BY <1>1 DEF Agree
<1>7. /\ i \in 1..e
      /\ Filled(node) \in [1..e -> SUBSET Nodes(e)]
      /\ \A j \in 1..e : Filled(node)[j] = IF j = i THEN {node} ELSE slots[j]
      /\ \A j \in 1..e : j \in 1..n \/ j = i
      /\ i \in 1..n => KeysIn(slots, i) = {}
      /\ free' \in Seq(1..e)
      /\ \A a, b \in DOMAIN free' : free'[a] = free'[b] => a = b
      /\ \A j \in 1..e : (\E a \in DOMAIN free' : free'[a] = j) <=>
                         (j # i /\ \E a \in DOMAIN free : free[a] = j)
  <2>1. CASE Recycles
    <3>1. free # <<>> /\ i = Last(free) /\ e = n /\ free' = Front(free)
      BY <1>a, <2>1 DEF TakenSlot, Recycles, AdmitFront
    <3>2. Len(free) \in Nat /\ Len(free) >= 1 /\ DOMAIN free = 1..Len(free) /\ i = free[Len(free)]
      BY <1>6, <3>1 DEF Last
    <3>3. /\ free' \in Seq(1..n) /\ DOMAIN free' = 1..(Len(free) - 1)
          /\ \A j \in 1..(Len(free) - 1) : free'[j] = free[j]
      BY <1>6, <3>1, <3>2 DEF Front
    <3>4. i \in 1..n /\ KeysIn(slots, i) = {}
      BY <1>1, <1>6, <3>2 DEF Agree
    <3>5. Filled(node) = [slots EXCEPT ![i] = {node}]
      BY <2>1, <3>1 DEF Filled
    <3>6. /\ Filled(node) \in [1..n -> SUBSET Nodes(n)]
          /\ \A j \in 1..n : Filled(node)[j] = IF j = i THEN {node} ELSE slots[j]
      BY <1>3, <1>4, <3>4, <3>5
    <3>a. \A a : a \in DOMAIN free' <=> a \in DOMAIN free /\ a # Len(free)
      BY <3>2, <3>3
    <3>b. \A a \in DOMAIN free' : a \in DOMAIN free /\ free'[a] = free[a]
      BY <3>2, <3>3
    <3>7. \A a, b \in DOMAIN free' : free'[a] = free'[b] => a = b
      BY <1>6, <3>b
    <3>8. \A j \in 1..n : (\E a \in DOMAIN free' : free'[a] = j) <=>
                         (j # i /\ \E a \in DOMAIN free : free[a] = j)
      <4>1. Len(free) \in DOMAIN free
        BY <3>2
      <4> QED BY <1>6, <3>2, <3>a, <3>b, <4>1
    <3> QED BY <3>1, <3>3, <3>4, <3>6, <3>7, <3>8
  <2>2. CASE ~ Recycles
    <3>1. free = <<>> /\ i = n + 1 /\ e = n + 1 /\ free' = free
      BY <1>a, <2>2 DEF TakenSlot, Recycles, AdmitFront
    <3>2. Filled(node) = Append(slots, {node})
      BY <2>2 DEF Filled
    <3>3. /\ Filled(node) \in [1..e -> SUBSET Nodes(e)]
          /\ \A j \in 1..e : Filled(node)[j] = IF j = i THEN {node} ELSE slots[j]
      <4>1. Append(slots, {node}) \in [1..(n + 1) -> SUBSET Nodes(n + 1)]
        BY <1>1, <1>3, <1>4, ListsGrow
      <4>2. \A j \in 1..(n + 1) : Append(slots, {node})[j] = IF j = n + 1 THEN {node} ELSE slots[j]
        BY <1>1, <1>3, <1>4, ListsGrow
      <4> QED BY <3>1, <3>2, <4>1, <4>2
    <3>4. DOMAIN free = {} /\ free' \in Seq(1..e)
      BY <3>1
    <3> QED BY <1>1, <3>1, <3>3, <3>4
  <2> QED BY <2>1, <2>2
<1>8. l \in Lists(e)
  BY <1>2, <1>4, <1>7 DEF Lists
<1>10. KeysIn(l.slots, i) = {k} /\ \A j \in 1..n : j # i => KeysIn(l.slots, j) = KeysIn(slots, j)
  <2>1. l.slots[i] = {node} /\ \A j \in 1..n : j # i => l.slots[j] = slots[j]
    BY <1>2, <1>4, <1>7
  <2> QED BY <1>a, <2>1 DEF KeysIn
<1>11. \/ k \in Unsupported /\ map' = map
       \/ k \notin Unsupported
          /\ map' = [j \in DOMAIN map \cup {k} |-> IF j = k THEN i ELSE map[j]]
  BY <1>a DEF Indexes
<1>12. Agree(e, l.slots, map', free')
  <2> DEFINE t == l.slots
             o == map'
             g == free'
  <2>1. /\ KeysIn(t, i) = {k}
        /\ \A j \in 1..n : j # i => KeysIn(t, j) = KeysIn(slots, j)
    BY <1>10
  <2>2. \/ k \in Unsupported /\ o = map
        \/ k \notin Unsupported
           /\ o = [j \in DOMAIN map \cup {k} |-> IF j = k THEN i ELSE map[j]]
    BY <1>11
  <2>3. /\ g \in Seq(1..e)
        /\ \A a, b \in DOMAIN g : g[a] = g[b] => a = b
        /\ \A j \in 1..e : (\E a \in DOMAIN g : g[a] = j) <=>
                           (j # i /\ \E a \in DOMAIN free : free[a] = j)
    BY <1>7
  <2>4. /\ Agree(n, slots, map, free) /\ n \in Nat /\ e \in Nat /\ n <= e
        /\ i \in 1..e /\ (i \in 1..n => KeysIn(slots, i) = {})
        /\ \A j \in 1..e : j \in 1..n \/ j = i
    BY <1>1, <1>2, <1>7
  <2> HIDE DEF t, o, g
  <2>5. Agree(e, t, o, g)
    BY <1>5, <2>1, <2>2, <2>3, <2>4, AgreeAdmitted
  <2> QED BY <2>5 DEF t, o, g
<1>13. w \in Lists(e) /\ SameKeys(e, l.slots, w.slots)
  BY <1>2, <1>7, <1>8, AttachFrontSpec DEF w
<1>14. slots' = w.slots /\ front' = w.front /\ back' = w.back
  BY <1>a DEF Becomes, w
<1>15. slots' \in Seq(SUBSET Nodes(e)) /\ Len(slots') = e
  BY <1>2, <1>13, <1>14, ListsLen
<1>16. links' \in Lists(e)
  BY <1>13, <1>14 DEF links, Lists
<1>17. Agree(e, slots', map', free')
  BY <1>12, <1>13, <1>14, AgreeSame
<1>18. Len(slots') <= Len(slots) \/ free = <<>>
  BY <1>1, <1>15, <1>a DEF Recycles, n
<1> QED BY <1>15, <1>16, <1>17, <1>18 DEF StorageInv, Kept

-----------------------------------------------------------------------------
\* The steps keep the invariant, and the invariant implies the properties.

LEMMA InitStorage == Init => StorageInv
<1> SUFFICES ASSUME Init PROVE StorageInv
  OBVIOUS
<1>1. slots = <<>> /\ map = <<>> /\ free = <<>> /\ front = 0 /\ back = 0
  BY DEF Init, NIL
<1>2. Len(slots) = 0 /\ DOMAIN map = {} /\ DOMAIN free = {} /\ free \in Seq(1..0)
  BY <1>1
<1>3. slots \in [1..0 -> SUBSET Nodes(0)] /\ slots \in Seq(SUBSET Nodes(0))
  BY <1>1
<1>4. links \in Lists(0)
  BY <1>1, <1>3 DEF links, Lists
<1>5. Agree(0, slots, map, free)
  BY <1>2 DEF Agree
<1> QED BY <1>2, <1>3, <1>4, <1>5 DEF StorageInv

LEMMA AccessStep ==
  ASSUME StorageInv, NEW k \in Keys, NEW promote \in BOOLEAN, Access(k, promote)
  PROVE  Kept
<1>1. CASE Absent(k)
  BY <1>1, AbsentStep DEF Absent
<1>2. CASE /\ k \in DOMAIN map
           /\ Becomes(IF promote THEN Promote(links, map[k]) ELSE links)
           /\ UNCHANGED <<map, stray, free>>
  <2>1. CASE promote
    BY <1>2, <2>1, Promoting
  <2>2. CASE ~ promote
    <3>1. Becomes(links)
      BY <1>2, <2>2
    <3>2. UNCHANGED <<map, stray, slots, free, front, back>>
      BY <1>2, <3>1, LinksSlots DEF Becomes
    <3> QED BY <3>2, AbsentStep
  <2> QED BY <2>1, <2>2
<1> QED BY <1>1, <1>2 DEF Access

LEMMA UpdateStep ==
  ASSUME StorageInv, NEW k \in Keys, NEW v \in Vals, update_value(k, v)
  PROVE  Kept
<1>1. CASE Absent(k)
  BY <1>1, AbsentStep DEF Absent
<1>2. CASE /\ k \in DOMAIN map
           /\ Becomes(Write(links, map[k], "val", v))
           /\ UNCHANGED <<map, stray, free>>
  BY <1>2, Rewriting
<1> QED BY <1>1, <1>2 DEF update_value

LEMMA RewriteStep ==
  ASSUME StorageInv, NEW k \in Keys, NEW v \in Vals, RewriteFront(k, v)
  PROVE  Kept
BY Rewriting DEF RewriteFront

LEMMA ClearStep ==
  ASSUME StorageInv, clear
  PROVE  Kept
<1>1. /\ slots' = <<>> /\ map' = <<>> /\ free' = <<>> /\ front' = 0 /\ back' = 0
  BY DEF clear, NIL
<1>2. Len(slots') = 0 /\ DOMAIN map' = {} /\ DOMAIN free' = {} /\ free' \in Seq(1..0)
  BY <1>1
<1>3. slots' \in [1..0 -> SUBSET Nodes(0)] /\ slots' \in Seq(SUBSET Nodes(0))
  BY <1>1
<1>4. links' \in Lists(0)
  BY <1>1, <1>3 DEF links, Lists
<1>5. Agree(0, slots', map', free')
  BY <1>2 DEF Agree
<1>6. Len(slots) \in Nat
  BY DEF StorageInv
<1> QED BY <1>2, <1>3, <1>4, <1>5, <1>6 DEF StorageInv, Kept

\* Every operation of OrderedMap, one after the other.
LEMMA NextStorage ==
  ASSUME StorageInv, [Next]_vars
  PROVE  Kept
<1>1. CASE UNCHANGED vars
  BY <1>1, AbsentStep DEF vars
<1>2. ASSUME NEW k \in Keys, NEW promote \in BOOLEAN, Access(k, promote)
      PROVE  Kept
  BY <1>2, AccessStep
<1>3. ASSUME NEW k \in Keys, NEW v \in Vals, update_value(k, v)
      PROVE  Kept
  BY <1>3, UpdateStep
<1>4. ASSUME NEW k \in Keys, NEW v \in Vals, insert_front(k, v)
      PROVE  Kept
  BY <1>4, RewriteStep, Admitting DEF insert_front
<1>5. ASSUME NEW k \in Keys, move_to_front(k)
      PROVE  Kept
  <2>1. CASE Absent(k)
    BY <2>1, AbsentStep DEF Absent
  <2>2. CASE /\ k \in DOMAIN map
             /\ Becomes(Promote(links, map[k]))
             /\ UNCHANGED <<map, stray, free>>
    BY <2>2, Promoting
  <2> QED BY <1>5, <2>1, <2>2 DEF move_to_front
<1>6. ASSUME NEW k \in Keys, remove(k)
      PROVE  Kept
  <2>1. CASE Absent(k)
    BY <2>1, AbsentStep DEF Absent
  <2>2. CASE k \in DOMAIN map /\ Release(k, map[k])
    BY <2>2, RemovingIndexed
  <2> QED BY <1>6, <2>1, <2>2 DEF remove
<1>7. CASE pop_back
  BY <1>7, Popping
<1>8. CASE clear
  BY <1>8, ClearStep
<1> QED BY <1>1, <1>2, <1>3, <1>4, <1>5, <1>6, <1>7, <1>8 DEF Next

\* As many elements as places, if none is there twice.
LEMMA InjectiveSeqCardinality ==
  ASSUME NEW S, NEW f \in Seq(S), \A i, j \in DOMAIN f : f[i] = f[j] => i = j
  PROVE  Cardinality(ToSet(f)) = Len(f)
<1>1. Len(f) \in Nat /\ f \in [1..Len(f) -> S] /\ DOMAIN f = 1..Len(f)
  BY LenProperties
<1>2. ToSet(f) = {f[i] : i \in 1..Len(f)}
  BY <1>1 DEF ToSet
<1>3. f \in [1..Len(f) -> ToSet(f)]
  BY <1>1, <1>2
<1>4. f \in Bijection(1..Len(f), ToSet(f))
  BY <1>1, <1>2, <1>3 DEF Bijection, Injection, Surjection, IsInjective
<1>5. ExistsBijection(1..Len(f), ToSet(f))
  BY <1>4 DEF ExistsBijection
<1> QED BY <1>1, <1>5, FS_CountingElements

LEMMA StorageCoherent == StorageInv => ArenaCoherent
<1> SUFFICES ASSUME StorageInv PROVE ArenaCoherent
  OBVIOUS
<1> DEFINE n == Len(slots)
<1>1. n \in Nat /\ DOMAIN slots = 1..n /\ Agree(n, slots, map, free)
  BY LenProperties DEF StorageInv
<1>2. \A i \in 1..n : \A node \in slots[i] : node.key \in KeysIn(slots, i)
  BY DEF KeysIn
<1>3. \A i \in 1..n : slots[i] = {} <=> KeysIn(slots, i) = {}
  BY DEF KeysIn
<1>4. \A k \in DOMAIN map :
        map[k] \in DOMAIN slots /\ \A node \in slots[map[k]] : node.key = k
  BY <1>1, <1>2 DEF Agree
<1>5. Occupied = {map[k] : k \in DOMAIN map} \cup Unfindable
  <2>1. ASSUME NEW i \in Occupied
        PROVE  i \in {map[k] : k \in DOMAIN map} \cup Unfindable
    <3>1. i \in 1..n /\ slots[i] # {}
      BY <1>1, <2>1 DEF Occupied, Vacant
    <3>2. PICK node \in slots[i] : TRUE
      BY <3>1
    <3>3. node.key \in Unsupported \/ (node.key \in DOMAIN map /\ map[node.key] = i)
      BY <1>1, <1>2, <3>1, <3>2 DEF Agree
    <3> QED BY <1>1, <3>1, <3>2, <3>3 DEF Unfindable
  <2>2. ASSUME NEW k \in DOMAIN map PROVE map[k] \in Occupied
    BY <1>1, <1>3 DEF Occupied, Vacant, Agree
  <2>3. Unfindable \subseteq Occupied
    BY DEF Unfindable, Occupied, Vacant
  <2> QED BY <2>1, <2>2, <2>3
<1>6. free \in Seq(1..n) /\ \A i, j \in DOMAIN free : free[i] = free[j] => i = j
  BY <1>1 DEF Agree
<1>7. ToSet(free) = DOMAIN slots \ Occupied
  <2>1. ToSet(free) = {free[j] : j \in DOMAIN free}
    BY DEF ToSet
  <2>2. \A j \in DOMAIN free : free[j] \in 1..n
    BY <1>6
  <2>3. \A i \in 1..n : slots[i] = {} <=> \E j \in DOMAIN free : free[j] = i
    BY <1>1, <1>3 DEF Agree
  <2> QED BY <1>1, <2>1, <2>2, <2>3 DEF Occupied, Vacant
<1>8. Len(free) = Cardinality(ToSet(free))
  BY <1>6, InjectiveSeqCardinality
<1> QED BY <1>4, <1>5, <1>7, <1>8 DEF ArenaCoherent

\* Whatever operations are applied in whatever order, and whether keys equal
\* themselves or not, the index, the arena and the free list of an OrderedMap
\* agree: no slot is lost, handed out twice or left without its key
\* (src/ordered.rs:35-46).
THEOREM ArenaAlwaysCoherent == Spec => []ArenaCoherent
<1>1. StorageInv /\ [Next]_vars => StorageInv'
  BY NextStorage DEF Kept
<1> QED BY <1>1, InitStorage, StorageCoherent, PTL DEF Spec

\* The arena of an OrderedMap grows only when every slot of it holds an entry
\* (src/ordered.rs:12-14).
THEOREM GrowsOnlyWhenFullAlways == Spec => GrowsOnlyWhenFull
<1>1. StorageInv /\ [Next]_vars => StorageInv'
  BY NextStorage DEF Kept
<1>2. ASSUME StorageInv, [Next]_vars
      PROVE  Len(slots') > Len(slots) => Occupied = DOMAIN slots
  <2> SUFFICES ASSUME Len(slots') > Len(slots) PROVE Occupied = DOMAIN slots
    OBVIOUS
  <2>1. Kept
    BY <1>2, NextStorage
  <2>2. Len(slots) \in Nat /\ Len(slots') \in Nat
    BY <1>2, <2>1 DEF Kept, StorageInv
  <2>3. free = <<>>
    BY <2>1, <2>2 DEF Kept
  <2>4. ToSet(free) = {} /\ ToSet(free) = DOMAIN slots \ Occupied
    BY <1>2, <2>3, StorageCoherent DEF ArenaCoherent, ToSet
  <2>5. Occupied \subseteq DOMAIN slots
    BY DEF Occupied
  <2> QED BY <2>4, <2>5
<1>3. StorageInv /\ [Next]_vars => [Len(slots') > Len(slots) => Occupied = DOMAIN slots]_vars
  BY <1>2
<1> QED BY <1>1, <1>3, InitStorage, PTL DEF Spec, GrowsOnlyWhenFull

\* The operations as RecencyCache combines them.
LEMMA CacheStep ==
  ASSUME StorageInv, touch_on_get \in BOOLEAN, [CNext]_<<vars, cvars>>
  PROVE  StorageInv' /\ touch_on_get' \in BOOLEAN
<1>1. CASE UNCHANGED <<vars, cvars>>
  <2>1. UNCHANGED <<map, stray, slots, free, front, back>> /\ touch_on_get' = touch_on_get
    BY <1>1 DEF vars, cvars
  <2> QED BY <2>1, AbsentStep DEF Kept
<1>2. ASSUME NEW k \in Keys, Get(k) PROVE StorageInv' /\ touch_on_get' \in BOOLEAN
  BY <1>2, AccessStep DEF Get, Kept, cvars
<1>3. ASSUME NEW k \in Keys, NEW v \in Vals, PutLive(k, v)
      PROVE  StorageInv' /\ touch_on_get' \in BOOLEAN
  BY <1>3, RewriteStep, UpdateStep DEF PutLive, Kept
<1>4. ASSUME NEW k \in Keys, NEW v \in Vals, PutNew(k, v)
      PROVE  StorageInv' /\ touch_on_get' \in BOOLEAN
  BY <1>4, Admitting DEF PutNew, Kept
<1>5. CASE PutPop
  BY <1>5, Popping DEF PutPop, Kept
<1>6. CASE Clear
  BY <1>6, ClearStep DEF Clear, Kept, cvars
<1> QED BY <1>1, <1>2, <1>3, <1>4, <1>5, <1>6 DEF CNext

\* The same holds of the storage of an LRU or FIFO cache, for any capacity and
\* with any number of puts under keys that no probe finds again
\* (src/key.rs:64-68).
THEOREM RecencyStorageCoherent == CSpec => []ArenaCoherent
<1>1. CInit => StorageInv /\ touch_on_get \in BOOLEAN
  BY InitStorage DEF CInit
<1>2. (StorageInv /\ touch_on_get \in BOOLEAN) /\ [CNext]_<<vars, cvars>>
        => (StorageInv /\ touch_on_get \in BOOLEAN)'
  BY CacheStep
<1> QED BY <1>1, <1>2, StorageCoherent, PTL DEF CSpec

-----------------------------------------------------------------------------
\* What the list operations do to the links and to the entries.

\* A slot is vacant or holds one node.
Solo(n, s) == \A i \in 1..n : s[i] # {} => \E node \in Nodes(n) : s[i] = {node}

\* The entry in an occupied slot.
Holding(s, i) ==
  LET node == CHOOSE node \in s[i] : TRUE
  IN  [key |-> node.key, val |-> node.val]

\* The list w is the list l with other links.
Relinks(n, l, w) ==
  /\ w \in Lists(n) /\ Solo(n, w.slots)
  /\ \A j \in 1..n : w.slots[j] = {} <=> l.slots[j] = {}
  /\ \A j \in 1..n : l.slots[j] # {} => Holding(w.slots, j) = Holding(l.slots, j)

LEMMA RelinksTrans ==
  ASSUME NEW n, NEW l, NEW w, NEW u, Relinks(n, l, w), Relinks(n, w, u)
  PROVE  Relinks(n, l, u)
BY DEF Relinks

\* What a slot with one node holds.
LEMMA SoloReads ==
  ASSUME NEW l, NEW i, NEW node, l.slots[i] = {node}
  PROVE  /\ Holding(l.slots, i) = [key |-> node.key, val |-> node.val]
         /\ Neighbour(l, i, "prev") = node.prev
         /\ Neighbour(l, i, "next") = node.next
<1>1. (CHOOSE x \in l.slots[i] : TRUE) = node
  OBVIOUS
<1>2. l.slots[i] # {}
  OBVIOUS
<1> QED BY <1>1, <1>2 DEF Holding, Neighbour, Vacant

\* What is read depends on the slot alone.
LEMMA SameSlot ==
  ASSUME NEW l, NEW w, NEW i, w.slots[i] = l.slots[i]
  PROVE  /\ Holding(w.slots, i) = Holding(l.slots, i)
         /\ Neighbour(w, i, "prev") = Neighbour(l, i, "prev")
         /\ Neighbour(w, i, "next") = Neighbour(l, i, "next")
<1>1. (CHOOSE node \in w.slots[i] : TRUE) = (CHOOSE node \in l.slots[i] : TRUE)
  BY Zenon
<1>2. Holding(w.slots, i) = Holding(l.slots, i)
  BY <1>1 DEF Holding
<1>3. ASSUME NEW side PROVE Neighbour(w, i, side) = Neighbour(l, i, side)
  BY <1>1 DEF Neighbour
<1> QED BY <1>2, <1>3

\* A write changes one field of one slot.
LEMMA WriteSlots ==
  ASSUME NEW n \in Nat, NEW l \in Lists(n), NEW i \in 1..n, NEW field, NEW x,
         NEW w, w = Write(l, i, field, x)
  PROVE  /\ w.front = l.front /\ w.back = l.back
         /\ \A j \in 1..n : j # i => w.slots[j] = l.slots[j]
         /\ w.slots[i] = {[node EXCEPT ![field] = x] : node \in l.slots[i]}
<1> DEFINE S == {[node EXCEPT ![field] = x] : node \in l.slots[i]}
<1>1. l.slots \in [1..n -> SUBSET Nodes(n)]
  BY DEF Lists
<1>2. w = [l EXCEPT !.slots = [l.slots EXCEPT ![i] = S]]
  BY DEF Write
<1> HIDE DEF S
<1>3. w.slots = [l.slots EXCEPT ![i] = S] /\ w.front = l.front /\ w.back = l.back
  BY <1>2 DEF Lists
<1>4. w.slots[i] = S /\ \A j \in 1..n : j # i => w.slots[j] = l.slots[j]
  BY <1>1, <1>3
<1> QED BY <1>3, <1>4 DEF S

\* Writing a link.
LEMMA WriteLink ==
  ASSUME NEW n \in Nat, NEW l \in Lists(n), Solo(n, l.slots), NEW i \in 1..n,
         NEW field \in {"prev", "next"}, NEW x \in 0..n, NEW w, w = Write(l, i, field, x)
  PROVE  /\ Relinks(n, l, w)
         /\ w.front = l.front /\ w.back = l.back
         /\ \A j \in 1..n : l.slots[j] # {} =>
              /\ Neighbour(w, j, "prev") =
                   IF j = i /\ field = "prev" THEN x ELSE Neighbour(l, j, "prev")
              /\ Neighbour(w, j, "next") =
                   IF j = i /\ field = "next" THEN x ELSE Neighbour(l, j, "next")
<1>1. /\ w.front = l.front /\ w.back = l.back
      /\ \A j \in 1..n : j # i => w.slots[j] = l.slots[j]
      /\ w.slots[i] = {[node EXCEPT ![field] = x] : node \in l.slots[i]}
  BY WriteSlots
<1>2. w \in Lists(n)
  BY WriteSpec
<1>3. ASSUME NEW j \in 1..n, j # i
      PROVE  /\ w.slots[j] = l.slots[j] /\ Holding(w.slots, j) = Holding(l.slots, j)
             /\ Neighbour(w, j, "prev") = Neighbour(l, j, "prev")
             /\ Neighbour(w, j, "next") = Neighbour(l, j, "next")
  <2>1. w.slots[j] = l.slots[j]
    BY <1>1, <1>3
  <2> QED BY <2>1, SameSlot, Zenon
<1>4. CASE l.slots[i] = {}
  <2>1. w.slots[i] = {}
    BY <1>1, <1>4
  <2> QED BY <1>1, <1>2, <1>3, <1>4, <2>1 DEF Relinks, Solo
<1>5. CASE l.slots[i] # {}
  <2>1. PICK node \in Nodes(n) : l.slots[i] = {node}
    BY <1>5 DEF Solo
  <2> DEFINE mode == [node EXCEPT ![field] = x]
  <2>2. w.slots[i] = {mode}
    BY <1>1, <2>1
  <2>3. /\ mode \in Nodes(n) /\ mode.key = node.key /\ mode.val = node.val
        /\ mode.prev = IF field = "prev" THEN x ELSE node.prev
        /\ mode.next = IF field = "next" THEN x ELSE node.next
    <3>1. CASE field = "prev"
      BY <3>1 DEF Nodes
    <3>2. CASE field = "next"
      BY <3>2 DEF Nodes
    <3> QED BY <3>1, <3>2
  <2> HIDE DEF mode
  <2>4. /\ Holding(w.slots, i) = Holding(l.slots, i)
        /\ Neighbour(w, i, "prev") = IF field = "prev" THEN x ELSE Neighbour(l, i, "prev")
        /\ Neighbour(w, i, "next") = IF field = "next" THEN x ELSE Neighbour(l, i, "next")
    <3>1. /\ Holding(l.slots, i) = [key |-> node.key, val |-> node.val]
          /\ Neighbour(l, i, "prev") = node.prev /\ Neighbour(l, i, "next") = node.next
      BY <2>1, SoloReads
    <3>2. /\ Holding(w.slots, i) = [key |-> mode.key, val |-> mode.val]
          /\ Neighbour(w, i, "prev") = mode.prev /\ Neighbour(w, i, "next") = mode.next
      BY <2>2, SoloReads
    <3> QED BY <2>3, <3>1, <3>2
  <2>5. Solo(n, w.slots)
    BY <1>3, <2>2, <2>3 DEF Solo
  <2>6. Relinks(n, l, w)
    BY <1>2, <1>3, <2>1, <2>2, <2>4, <2>5 DEF Relinks
  <2> QED BY <1>1, <1>3, <2>4, <2>6
<1> QED BY <1>4, <1>5

\* The list w is the list l with value v in slot i.
Rewrites(n, l, i, v, w) ==
  /\ w \in Lists(n) /\ Solo(n, w.slots)
  /\ w.front = l.front /\ w.back = l.back
  /\ \A j \in 1..n : w.slots[j] = {} <=> l.slots[j] = {}
  /\ \A j \in 1..n : l.slots[j] # {} =>
       /\ Neighbour(w, j, "prev") = Neighbour(l, j, "prev")
       /\ Neighbour(w, j, "next") = Neighbour(l, j, "next")
       /\ j # i => Holding(w.slots, j) = Holding(l.slots, j)
  /\ Holding(w.slots, i) = [key |-> Holding(l.slots, i).key, val |-> v]

\* Writing a value.
LEMMA WriteVal ==
  ASSUME NEW n \in Nat, NEW l \in Lists(n), Solo(n, l.slots), NEW i \in 1..n,
         l.slots[i] # {}, NEW v \in Vals, NEW w, w = Write(l, i, "val", v)
  PROVE  Rewrites(n, l, i, v, w)
<1>1. /\ w.front = l.front /\ w.back = l.back
      /\ \A j \in 1..n : j # i => w.slots[j] = l.slots[j]
      /\ w.slots[i] = {[node EXCEPT !["val"] = v] : node \in l.slots[i]}
  BY WriteSlots
<1>2. w \in Lists(n)
  BY WriteSpec, SMTT(20)
<1>3. ASSUME NEW j \in 1..n, j # i
      PROVE  /\ w.slots[j] = l.slots[j] /\ Holding(w.slots, j) = Holding(l.slots, j)
             /\ Neighbour(w, j, "prev") = Neighbour(l, j, "prev")
             /\ Neighbour(w, j, "next") = Neighbour(l, j, "next")
  <2>1. w.slots[j] = l.slots[j]
    BY <1>1, <1>3
  <2> QED BY <2>1, SameSlot, Zenon
<1>4. PICK node \in Nodes(n) : l.slots[i] = {node}
  BY DEF Solo
<1> DEFINE mode == [node EXCEPT !["val"] = v]
<1>5. w.slots[i] = {mode}
  BY <1>1, <1>4
<1>6. /\ mode \in Nodes(n) /\ mode.key = node.key /\ mode.val = v
      /\ mode.prev = node.prev /\ mode.next = node.next
  BY DEF Nodes
<1> HIDE DEF mode
<1>7. /\ Holding(w.slots, i) = [key |-> Holding(l.slots, i).key, val |-> v]
      /\ Neighbour(w, i, "prev") = Neighbour(l, i, "prev")
      /\ Neighbour(w, i, "next") = Neighbour(l, i, "next")
  <2>1. /\ Holding(l.slots, i) = [key |-> node.key, val |-> node.val]
        /\ Neighbour(l, i, "prev") = node.prev /\ Neighbour(l, i, "next") = node.next
    BY <1>4, SoloReads
  <2>2. /\ Holding(w.slots, i) = [key |-> mode.key, val |-> mode.val]
        /\ Neighbour(w, i, "prev") = mode.prev /\ Neighbour(w, i, "next") = mode.next
    BY <1>5, SoloReads
  <2> QED BY <1>6, <2>1, <2>2
<1>8. Solo(n, w.slots)
  BY <1>3, <1>5, <1>6 DEF Solo
<1> QED BY <1>1, <1>2, <1>3, <1>4, <1>5, <1>7, <1>8 DEF Rewrites

\* Setting an end of the list.
LEMMA EndReads ==
  ASSUME NEW n \in Nat, NEW l \in Lists(n), Solo(n, l.slots), NEW x \in 0..n,
         NEW w, w = [l EXCEPT !.front = x] \/ w = [l EXCEPT !.back = x]
  PROVE  /\ Relinks(n, l, w)
         /\ w = [l EXCEPT !.front = x] => w.front = x /\ w.back = l.back
         /\ w = [l EXCEPT !.back = x] => w.front = l.front /\ w.back = x
         /\ \A j \in 1..n : /\ Neighbour(w, j, "prev") = Neighbour(l, j, "prev")
                            /\ Neighbour(w, j, "next") = Neighbour(l, j, "next")
<1>1. w \in Lists(n) /\ w.slots = l.slots
  BY DEF Lists
<1>2. \A j \in 1..n : w.slots[j] = l.slots[j]
  BY <1>1
<1>3. \A j \in 1..n : /\ Neighbour(w, j, "prev") = Neighbour(l, j, "prev")
                      /\ Neighbour(w, j, "next") = Neighbour(l, j, "next")
  BY <1>2, SameSlot
<1>4. Relinks(n, l, w)
  BY <1>1 DEF Relinks
<1>5. w = [l EXCEPT !.front = x] => w.front = x /\ w.back = l.back
  BY DEF Lists
<1>6. w = [l EXCEPT !.back = x] => w.front = l.front /\ w.back = x
  BY DEF Lists
<1> QED BY <1>3, <1>4, <1>5, <1>6

\* Detach makes the neighbours of i each other's, an absent one being the end
\* of the list.
LEMMA DetachReads ==
  ASSUME NEW n \in Nat, NEW l \in Lists(n), Solo(n, l.slots), NEW i \in 1..n,
         NEW prev, prev = Neighbour(l, i, "prev"), NEW next, next = Neighbour(l, i, "next"),
         NEW w, w = Detach(l, i)
  PROVE  /\ Relinks(n, l, w)
         /\ w.front = IF prev = NIL THEN next ELSE l.front
         /\ w.back = IF next = NIL THEN prev ELSE l.back
         /\ \A j \in 1..n : l.slots[j] # {} =>
              /\ Neighbour(w, j, "next") = IF j = prev THEN next ELSE Neighbour(l, j, "next")
              /\ Neighbour(w, j, "prev") = IF j = next THEN prev ELSE Neighbour(l, j, "prev")
<1> DEFINE half == IF prev # NIL THEN Write(l, prev, "next", next) ELSE [l EXCEPT !.front = next]
           whole == IF next # NIL THEN Write(half, next, "prev", prev) ELSE [half EXCEPT !.back = prev]
<1>1. prev \in 0..n /\ next \in 0..n
  BY NeighbourSpec
<1>2. w = whole
  BY DEF Detach
<1>3. /\ Relinks(n, l, half)
      /\ half.front = IF prev = NIL THEN next ELSE l.front
      /\ half.back = l.back
      /\ \A j \in 1..n : l.slots[j] # {} =>
           /\ Neighbour(half, j, "next") = IF j = prev THEN next ELSE Neighbour(l, j, "next")
           /\ Neighbour(half, j, "prev") = Neighbour(l, j, "prev")
  <2>1. CASE prev = NIL
    <3>1. half = [l EXCEPT !.front = next]
      BY <2>1
    <3> HIDE DEF half
    <3>2. \A j \in 1..n : j # prev
      BY <2>1 DEF NIL
    <3> QED BY <1>1, <2>1, <3>1, <3>2, EndReads
  <2>2. CASE prev # NIL
    <3>1. half = Write(l, prev, "next", next) /\ prev \in 1..n
      BY <1>1, <2>2 DEF NIL
    <3> HIDE DEF half
    <3> QED BY <1>1, <2>2, <3>1, WriteLink
  <2> QED BY <2>1, <2>2
<1> HIDE DEF half
<1>4. half \in Lists(n) /\ Solo(n, half.slots)
  BY <1>3 DEF Relinks
<1>5. /\ Relinks(n, half, whole)
      /\ whole.front = half.front
      /\ whole.back = IF next = NIL THEN prev ELSE half.back
      /\ \A j \in 1..n : half.slots[j] # {} =>
           /\ Neighbour(whole, j, "next") = Neighbour(half, j, "next")
           /\ Neighbour(whole, j, "prev") = IF j = next THEN prev ELSE Neighbour(half, j, "prev")
  <2>1. CASE next = NIL
    <3>1. whole = [half EXCEPT !.back = prev]
      BY <2>1
    <3> HIDE DEF whole
    <3>2. \A j \in 1..n : j # next
      BY <2>1 DEF NIL
    <3>3. /\ Relinks(n, half, whole)
          /\ whole.front = half.front /\ whole.back = prev
          /\ \A j \in 1..n : half.slots[j] # {} =>
               /\ Neighbour(whole, j, "next") = Neighbour(half, j, "next")
               /\ Neighbour(whole, j, "prev") = Neighbour(half, j, "prev")
      BY <1>1, <1>4, <3>1, EndReads
    <3> QED BY <2>1, <3>2, <3>3
  <2>2. CASE next # NIL
    <3>1. whole = Write(half, next, "prev", prev) /\ next \in 1..n
      BY <1>1, <2>2 DEF NIL
    <3> HIDE DEF whole
    <3> QED BY <1>1, <1>4, <2>2, <3>1, WriteLink
  <2> QED BY <2>1, <2>2
<1> HIDE DEF whole
<1>6. Relinks(n, l, whole)
  BY <1>3, <1>5, RelinksTrans
<1>7. \A j \in 1..n : l.slots[j] # {} => half.slots[j] # {}
  BY <1>3 DEF Relinks
<1> QED BY <1>2, <1>3, <1>5, <1>6, <1>7

\* AttachFront puts i before the front, which is the back too if the list was
\* empty.
LEMMA AttachReads ==
  ASSUME NEW n \in Nat, NEW l \in Lists(n), Solo(n, l.slots), NEW i \in 1..n,
         l.front # i, NEW w, w = AttachFront(l, i)
  PROVE  /\ Relinks(n, l, w)
         /\ w.front = i
         /\ w.back = IF l.front = NIL THEN i ELSE l.back
         /\ \A j \in 1..n : l.slots[j] # {} =>
              /\ Neighbour(w, j, "next") = IF j = i THEN l.front ELSE Neighbour(l, j, "next")
              /\ Neighbour(w, j, "prev") =
                   IF j = i THEN NIL ELSE IF j = l.front THEN i ELSE Neighbour(l, j, "prev")
<1> DEFINE first == Write(l, i, "prev", NIL)
           linked == Write(first, i, "next", l.front)
           hooked == IF l.front # NIL THEN Write(linked, l.front, "prev", i)
                                      ELSE [linked EXCEPT !.back = i]
           whole == [hooked EXCEPT !.front = i]
<1>1. w = whole
  BY DEF AttachFront
<1>2. l.front \in 0..n /\ NIL \in 0..n /\ i \in 0..n
  BY DEF Lists, NIL
<1>3. /\ Relinks(n, l, first) /\ first.front = l.front /\ first.back = l.back
      /\ \A j \in 1..n : l.slots[j] # {} =>
           /\ Neighbour(first, j, "next") = Neighbour(l, j, "next")
           /\ Neighbour(first, j, "prev") = IF j = i THEN NIL ELSE Neighbour(l, j, "prev")
  BY <1>2, WriteLink
<1> HIDE DEF first
<1>4. first \in Lists(n) /\ Solo(n, first.slots)
  BY <1>3 DEF Relinks
<1>5. /\ Relinks(n, first, linked) /\ linked.front = first.front /\ linked.back = first.back
      /\ \A j \in 1..n : first.slots[j] # {} =>
           /\ Neighbour(linked, j, "next") = IF j = i THEN l.front ELSE Neighbour(first, j, "next")
           /\ Neighbour(linked, j, "prev") = Neighbour(first, j, "prev")
  BY <1>2, <1>4, WriteLink
<1> HIDE DEF linked
<1>6. linked \in Lists(n) /\ Solo(n, linked.slots)
  BY <1>5 DEF Relinks
<1>7. /\ Relinks(n, linked, hooked)
      /\ hooked.back = IF l.front = NIL THEN i ELSE linked.back
      /\ \A j \in 1..n : linked.slots[j] # {} =>
           /\ Neighbour(hooked, j, "next") = Neighbour(linked, j, "next")
           /\ Neighbour(hooked, j, "prev") = IF j = l.front THEN i ELSE Neighbour(linked, j, "prev")
  <2>1. CASE l.front = NIL
    <3>1. hooked = [linked EXCEPT !.back = i]
      BY <2>1
    <3> HIDE DEF hooked
    <3>2. \A j \in 1..n : j # l.front
      BY <2>1 DEF NIL
    <3> QED BY <1>2, <1>6, <2>1, <3>1, <3>2, EndReads
  <2>2. CASE l.front # NIL
    <3>1. hooked = Write(linked, l.front, "prev", i) /\ l.front \in 1..n
      BY <1>2, <2>2 DEF NIL
    <3> HIDE DEF hooked
    <3> QED BY <1>2, <1>6, <2>2, <3>1, WriteLink
  <2> QED BY <2>1, <2>2
<1> HIDE DEF hooked
<1>8. hooked \in Lists(n) /\ Solo(n, hooked.slots)
  BY <1>7 DEF Relinks
<1>9. /\ Relinks(n, hooked, whole) /\ whole.front = i /\ whole.back = hooked.back
      /\ \A j \in 1..n : /\ Neighbour(whole, j, "next") = Neighbour(hooked, j, "next")
                         /\ Neighbour(whole, j, "prev") = Neighbour(hooked, j, "prev")
  BY <1>2, <1>8, EndReads
<1> HIDE DEF whole
<1>10. Relinks(n, l, linked) /\ Relinks(n, l, hooked) /\ Relinks(n, l, whole)
  BY <1>3, <1>5, <1>7, <1>9, RelinksTrans
<1>11. \A j \in 1..n : l.slots[j] # {} => first.slots[j] # {} /\ linked.slots[j] # {}
  BY <1>3, <1>10 DEF Relinks
<1>12. ASSUME NEW j \in 1..n, l.slots[j] # {}
       PROVE  /\ Neighbour(whole, j, "next") = IF j = i THEN l.front ELSE Neighbour(l, j, "next")
              /\ Neighbour(whole, j, "prev") =
                   IF j = i THEN NIL ELSE IF j = l.front THEN i ELSE Neighbour(l, j, "prev")
  BY <1>3, <1>5, <1>7, <1>9, <1>11, <1>12
<1> QED BY <1>1, <1>3, <1>5, <1>7, <1>9, <1>10, <1>12

-----------------------------------------------------------------------------
\* The slots of the list, in its order.

\* The slot at place a of p, or NIL beyond its ends.
Place(p, a) == IF a \in 1..Len(p) THEN p[a] ELSE NIL

\* The list l runs through the slots of p, each occupied and met once.
Chained(n, l, p) ==
  /\ p \in Seq(1..n)
  /\ \A a, b \in 1..Len(p) : p[a] = p[b] => a = b
  /\ l.front = Place(p, 1) /\ l.back = Place(p, Len(p))
  /\ \A a \in 1..Len(p) :
       /\ l.slots[p[a]] # {}
       /\ Neighbour(l, p[a], "prev") = Place(p, a - 1)
       /\ Neighbour(l, p[a], "next") = Place(p, a + 1)

\* p without its place j, and p with i before it.
Cut(p, j) == [a \in 1..(Len(p) - 1) |-> IF a < j THEN p[a] ELSE p[a + 1]]
Led(p, i) == [a \in 1..(Len(p) + 1) |-> IF a = 1 THEN i ELSE p[a - 1]]

LEMMA CutSpec ==
  ASSUME NEW S, NEW p \in Seq(S), NEW j \in 1..Len(p), NEW q, q = Cut(p, j)
  PROVE  /\ q \in Seq(S) /\ Len(q) = Len(p) - 1
         /\ \A a \in 1..(Len(p) - 1) : q[a] = IF a < j THEN p[a] ELSE p[a + 1]
<1>1. Len(p) - 1 \in Nat /\ \A a \in 1..Len(p) : p[a] \in S
  OBVIOUS
<1>2. q \in [1..(Len(p) - 1) -> S]
  BY <1>1 DEF Cut
<1>3. q \in Seq(S) /\ Len(q) = Len(p) - 1
  BY <1>1, <1>2
<1> QED BY <1>3 DEF Cut

LEMMA LedSpec ==
  ASSUME NEW S, NEW p \in Seq(S), NEW i \in S, NEW q, q = Led(p, i)
  PROVE  /\ q \in Seq(S) /\ Len(q) = Len(p) + 1
         /\ \A a \in 1..(Len(p) + 1) : q[a] = IF a = 1 THEN i ELSE p[a - 1]
<1>1. Len(p) + 1 \in Nat /\ \A a \in 1..Len(p) : p[a] \in S
  OBVIOUS
<1>2. q \in [1..(Len(p) + 1) -> S]
  BY <1>1 DEF Led
<1>3. q \in Seq(S) /\ Len(q) = Len(p) + 1
  BY <1>1, <1>2
<1> QED BY <1>3 DEF Led

LEMMA LedLen ==
  ASSUME NEW S, NEW p \in Seq(S), NEW i \in S
  PROVE  Led(p, i) \in Seq(S) /\ Len(Led(p, i)) = Len(p) + 1
BY LedSpec

\* Detaching a slot of the list cuts it out of the list.
LEMMA DetachChained ==
  ASSUME NEW n \in Nat, NEW l \in Lists(n), Solo(n, l.slots), NEW p, Chained(n, l, p),
         NEW j \in 1..Len(p), NEW w, w = Detach(l, p[j])
  PROVE  Chained(n, w, Cut(p, j)) /\ Relinks(n, l, w)
<1> DEFINE i == p[j]
           q == Cut(p, j)
           m == Len(p)
           prev == Place(p, j - 1)
           next == Place(p, j + 1)
<1>1. /\ p \in Seq(1..n) /\ m \in Nat
      /\ \A a \in 1..m : p[a] \in 1..n
      /\ \A a, b \in 1..m : p[a] = p[b] => a = b
      /\ l.front = Place(p, 1) /\ l.back = Place(p, m)
      /\ \A a \in 1..m : /\ l.slots[p[a]] # {}
                         /\ Neighbour(l, p[a], "prev") = Place(p, a - 1)
                         /\ Neighbour(l, p[a], "next") = Place(p, a + 1)
  <2>1. p \in Seq(1..n)
    BY DEF Chained
  <2>2. m \in Nat /\ \A a \in 1..m : p[a] \in 1..n
    BY <2>1
  <2> QED BY <2>1, <2>2 DEF Chained
<1>2. i \in 1..n /\ prev = Neighbour(l, i, "prev") /\ next = Neighbour(l, i, "next") /\ w = Detach(l, i)
  BY <1>1
<1>3. /\ q \in Seq(1..n) /\ Len(q) = m - 1
      /\ \A a \in 1..(m - 1) : q[a] = IF a < j THEN p[a] ELSE p[a + 1]
  BY <1>1, CutSpec, SMTT(20)
<1>4. /\ prev = IF j = 1 THEN NIL ELSE p[j - 1]
      /\ next = IF j = m THEN NIL ELSE p[j + 1]
      /\ l.front = p[1] /\ l.back = p[m]
  <2>1. /\ j \in 1..m /\ 1 \in 1..m /\ m \in 1..m
        /\ j = 1 => j - 1 \notin 1..m
        /\ j # 1 => j - 1 \in 1..m
        /\ j = m => j + 1 \notin 1..m
        /\ j # m => j + 1 \in 1..m
    OBVIOUS
  <2>2. l.front = p[1] /\ l.back = p[m]
    BY <1>1, <2>1 DEF Place
  <2> QED BY <2>1, <2>2 DEF Place
<1>5. \A a \in 1..m : p[a] # NIL
  BY <1>1 DEF NIL
<1> HIDE DEF i, q, m, prev, next
<1>6. /\ Relinks(n, l, w)
      /\ w.front = IF prev = NIL THEN next ELSE l.front
      /\ w.back = IF next = NIL THEN prev ELSE l.back
      /\ \A s \in 1..n : l.slots[s] # {} =>
           /\ Neighbour(w, s, "next") = IF s = prev THEN next ELSE Neighbour(l, s, "next")
           /\ Neighbour(w, s, "prev") = IF s = next THEN prev ELSE Neighbour(l, s, "prev")
  BY <1>2, DetachReads
<1>7. \A a, b \in 1..(m - 1) : q[a] = q[b] => a = b
  <2> SUFFICES ASSUME NEW a \in 1..(m - 1), NEW b \in 1..(m - 1), q[a] = q[b]
               PROVE  a = b
    OBVIOUS
  <2> DEFINE at(c) == IF c < j THEN c ELSE c + 1
  <2>1. at(a) \in 1..m /\ at(b) \in 1..m
    <3> SUFFICES ASSUME NEW c \in 1..(m - 1) PROVE at(c) \in 1..m
      OBVIOUS
    <3>1. c \in 1..m /\ c + 1 \in 1..m
      BY <1>1
    <3> QED BY <3>1
  <2>a. q[a] = p[at(a)] /\ q[b] = p[at(b)]
    BY <1>3
  <2>2. at(a) = at(b)
    <3> HIDE DEF at
    <3> QED BY <1>1, <2>1, <2>a
  <2> QED BY <1>1, <2>2
<1>m. m \in Nat
  BY <1>1
<1>j. j \in 1..m
  BY DEF m
<1>e. ASSUME NEW c \in 1..m
      PROVE  (p[c] = prev <=> c = j - 1) /\ (p[c] = next <=> c = j + 1)
  <2>1. p[c] = prev <=> c = j - 1
    <3>1. CASE j = 1
      BY <1>4, <1>5, <3>1
    <3>2. CASE j # 1
      <4>1. prev = p[j - 1] /\ j - 1 \in 1..m
        BY <1>1, <1>4, <1>j, <3>2
      <4> QED BY <1>1, <4>1
    <3> QED BY <3>1, <3>2
  <2>2. p[c] = next <=> c = j + 1
    <3>1. CASE j = m
      <4>1. c # j + 1 /\ next = NIL
        BY <1>1, <1>4, <3>1
      <4> QED BY <1>5, <4>1
    <3>2. CASE j # m
      <4>1. next = p[j + 1] /\ j + 1 \in 1..m
        BY <1>1, <1>4, <1>j, <3>2
      <4> QED BY <1>1, <4>1
    <3> QED BY <3>1, <3>2
  <2> QED BY <2>1, <2>2
<1>8. w.front = Place(q, 1)
  <2>1. CASE j = 1
    <3>1. w.front = next
      BY <1>4, <1>6, <2>1
    <3>2. CASE m = 1
      BY <1>3, <1>4, <2>1, <3>1, <3>2 DEF Place
    <3>3. CASE m # 1
      BY <1>1, <1>3, <1>4, <2>1, <3>1, <3>3, <1>j DEF Place
    <3> QED BY <3>2, <3>3
  <2>2. CASE j # 1
    <3>1. prev # NIL
      BY <1>1, <1>4, <1>5, <1>j, <2>2
    <3>2. w.front = p[1]
      BY <1>4, <1>6, <3>1
    <3>3. 1 \in 1..(m - 1) /\ 1 < j
      BY <1>m, <1>j, <2>2
    <3> QED BY <1>3, <3>2, <3>3 DEF Place
  <2> QED BY <2>1, <2>2
<1>9. w.back = Place(q, m - 1)
  <2>1. CASE j = m
    <3>1. w.back = prev
      BY <1>4, <1>6, <2>1
    <3>2. CASE m = 1
      BY <1>3, <1>4, <2>1, <3>1, <3>2 DEF Place
    <3>3. CASE m # 1
      BY <1>1, <1>3, <1>4, <2>1, <3>1, <3>3, <1>j DEF Place
    <3> QED BY <3>2, <3>3
  <2>2. CASE j # m
    <3>1. next # NIL
      BY <1>1, <1>4, <1>5, <1>j, <2>2
    <3>2. w.back = p[m]
      BY <1>4, <1>6, <3>1
    <3>3. m - 1 \in 1..(m - 1) /\ ~ (m - 1 < j) /\ (m - 1) + 1 = m
      BY <1>m, <1>j, <2>2
    <3> QED BY <1>3, <3>2, <3>3 DEF Place
  <2> QED BY <2>1, <2>2
<1>10. ASSUME NEW a \in 1..(m - 1)
       PROVE  /\ w.slots[q[a]] # {}
              /\ Neighbour(w, q[a], "prev") = Place(q, a - 1)
              /\ Neighbour(w, q[a], "next") = Place(q, a + 1)
  <2> DEFINE b == IF a < j THEN a ELSE a + 1
  <2>1. b \in 1..m /\ b # j /\ q[a] = p[b]
    <3>1. b \in 1..m /\ b # j
      <4>1. CASE a < j
        BY <1>m, <1>j, <4>1
      <4>2. CASE ~ (a < j)
        <5>1. b = a + 1
          BY <4>2
        <5> QED BY <1>m, <1>j, <4>2, <5>1
      <4> QED BY <4>1, <4>2
    <3> QED BY <1>3, <3>1
  <2> HIDE DEF b
  <2>2. w.slots[q[a]] # {}
    <3>1. p[b] \in 1..n /\ l.slots[p[b]] # {}
      BY <1>1, <2>1
    <3> QED BY <1>6, <2>1, <3>1 DEF Relinks
  <2>b. (a < j => b = a) /\ (~ (a < j) => b = a + 1)
    BY DEF b
  <2>3. /\ Neighbour(w, p[b], "next") = IF p[b] = prev THEN next ELSE Place(p, b + 1)
        /\ Neighbour(w, p[b], "prev") = IF p[b] = next THEN prev ELSE Place(p, b - 1)
    BY <1>1, <1>6, <2>1
  <2>4. Neighbour(w, p[b], "next") = Place(q, a + 1)
    <3>1. CASE a + 1 < j
      <4>1. b = a /\ b # j - 1
        BY <1>m, <1>j, <2>b, <3>1
      <4>a. p[b] # prev
        BY <1>e, <2>1, <4>1
      <4>2. a + 1 \in 1..m /\ a + 1 \in 1..(m - 1)
        BY <1>m, <1>j, <3>1
      <4>3. Neighbour(w, p[b], "next") = Place(p, a + 1)
        BY <2>3, <4>1, <4>a
      <4>4. q[a + 1] = p[a + 1]
        BY <1>3, <3>1, <4>2
      <4> HIDE DEF q
      <4>5. a + 1 \in 1..Len(p) /\ a + 1 \in 1..Len(q)
        BY <1>3, <4>2 DEF m
      <4> QED BY <4>3, <4>4, <4>5 DEF Place
    <3>2. CASE a + 1 = j
      <4>0. b = a /\ b = j - 1
        BY <1>m, <1>j, <2>b, <3>2
      <4>1. b = a /\ p[b] = prev
        BY <1>e, <2>1, <4>0
      <4>2. CASE j = m
        <5>1. a + 1 \notin 1..(m - 1) /\ next = NIL
          BY <1>1, <1>4, <3>2, <4>2
        <5> QED BY <1>3, <2>3, <4>1, <5>1 DEF Place
      <4>3. CASE j # m
        <5>1. a + 1 \in 1..(m - 1) /\ ~ (a + 1 < j) /\ next = p[j + 1]
          <6>1. next = p[j + 1]
            BY <1>4, <4>3
          <6> QED BY <1>m, <1>j, <3>2, <4>3, <6>1
        <5>2. q[a + 1] = p[j + 1]
          BY <1>3, <3>2, <5>1
        <5> QED BY <1>3, <2>3, <4>1, <5>1, <5>2 DEF Place
      <4> QED BY <4>2, <4>3
    <3>3. CASE a >= j
      <4>1. b = a + 1 /\ b # j - 1
        BY <1>m, <1>j, <2>b, <3>3
      <4>a. p[b] # prev
        BY <1>e, <2>1, <4>1
      <4>2. Neighbour(w, p[b], "next") = Place(p, a + 2)
        BY <2>3, <4>1, <4>a
      <4>3. CASE a + 1 \in 1..(m - 1)
        <5>1. a + 2 \in 1..m /\ q[a + 1] = p[a + 2]
          BY <1>1, <1>3, <1>j, <3>3, <4>3
        <5> QED BY <1>3, <4>2, <4>3, <5>1 DEF Place, m
      <4>4. CASE a + 1 \notin 1..(m - 1)
        <5>1. a + 2 \notin 1..m
          BY <1>1, <4>4
        <5> QED BY <1>3, <4>2, <4>4, <5>1 DEF Place, m
      <4> QED BY <4>3, <4>4
    <3> QED BY <1>m, <1>j, <3>1, <3>2, <3>3
  <2>5. Neighbour(w, p[b], "prev") = Place(q, a - 1)
    <3>1. CASE a < j
      <4>1. b = a /\ b # j + 1
        BY <1>m, <1>j, <2>b, <3>1
      <4>a. p[b] # next
        BY <1>e, <2>1, <4>1
      <4>2. Neighbour(w, p[b], "prev") = Place(p, a - 1)
        BY <2>3, <4>1, <4>a
      <4>3. CASE a = 1
        <5>1. a - 1 \notin 1..m /\ a - 1 \notin 1..(m - 1)
          BY <4>3
        <5> QED BY <1>3, <4>2, <5>1 DEF Place, m
      <4>4. CASE a # 1
        <5>1. a - 1 \in 1..m /\ a - 1 \in 1..(m - 1) /\ q[a - 1] = p[a - 1]
          BY <1>1, <1>3, <1>j, <3>1, <4>4
        <5> QED BY <1>3, <4>2, <5>1 DEF Place, m
      <4> QED BY <4>3, <4>4
    <3>2. CASE a = j
      <4>1. b = a + 1 /\ j # m
        BY <1>m, <1>j, <2>b, <3>2
      <4>2. p[b] = next
        BY <1>e, <2>1, <3>2, <4>1
      <4>3. CASE j = 1
        <5>1. a - 1 \notin 1..(m - 1) /\ prev = NIL
          BY <1>4, <3>2, <4>3
        <5> QED BY <1>3, <2>3, <4>2, <5>1 DEF Place
      <4>4. CASE j # 1
        <5>1. a - 1 \in 1..(m - 1) /\ a - 1 < j /\ prev = p[j - 1]
          BY <1>1, <1>4, <1>j, <3>2, <4>4
        <5>2. q[a - 1] = p[j - 1]
          BY <1>3, <3>2, <5>1
        <5> QED BY <1>3, <2>3, <4>2, <5>1, <5>2 DEF Place
      <4> QED BY <4>3, <4>4
    <3>3. CASE a > j
      <4>1. b = a + 1 /\ b # j + 1
        BY <1>m, <1>j, <2>b, <3>3
      <4>a. p[b] # next
        BY <1>e, <2>1, <4>1
      <4>2. Neighbour(w, p[b], "prev") = Place(p, a)
        BY <2>3, <4>1, <4>a
      <4>3. a \in 1..m /\ a - 1 \in 1..(m - 1) /\ q[a - 1] = p[a]
        <5>1. a \in 1..m /\ a - 1 \in 1..(m - 1) /\ ~ (a - 1 < j) /\ (a - 1) + 1 = a
          BY <1>m, <1>j, <3>3
        <5> QED BY <1>3, <5>1
      <4> QED BY <1>3, <4>2, <4>3 DEF Place, m
    <3> QED BY <1>m, <1>j, <3>1, <3>2, <3>3
  <2> QED BY <2>1, <2>2, <2>4, <2>5
<1>11. Chained(n, w, q)
  BY <1>3, <1>7, <1>8, <1>9, <1>10 DEF Chained
<1> QED BY <1>6, <1>11 DEF q

\* Attaching an occupied slot that is not on the list puts it before the others.
LEMMA AttachChained ==
  ASSUME NEW n \in Nat, NEW l \in Lists(n), Solo(n, l.slots), NEW p, Chained(n, l, p),
         NEW i \in 1..n, l.slots[i] # {}, \A a \in 1..Len(p) : p[a] # i,
         NEW w, w = AttachFront(l, i)
  PROVE  Chained(n, w, Led(p, i)) /\ Relinks(n, l, w)
<1> DEFINE m == Len(p)
           q == Led(p, i)
<1>0. p \in Seq(1..n) /\ m \in Nat /\ \A a \in 1..m : p[a] \in 1..n
  <2>1. p \in Seq(1..n)
    BY DEF Chained
  <2> QED BY <2>1
<1>1. /\ \A a, b \in 1..m : p[a] = p[b] => a = b
      /\ l.front = Place(p, 1) /\ l.back = Place(p, m)
      /\ \A a \in 1..m : /\ l.slots[p[a]] # {}
                         /\ Neighbour(l, p[a], "prev") = Place(p, a - 1)
                         /\ Neighbour(l, p[a], "next") = Place(p, a + 1)
  BY DEF Chained
<1>2. /\ q \in Seq(1..n) /\ Len(q) = m + 1
      /\ \A a \in 1..(m + 1) : q[a] = IF a = 1 THEN i ELSE p[a - 1]
  <2>1. q \in Seq(1..n) /\ Len(q) = m + 1
    BY <1>0, LedSpec
  <2>2. \A a \in 1..(m + 1) : q[a] = IF a = 1 THEN i ELSE p[a - 1]
    BY <1>0 DEF Led
  <2> QED BY <2>1, <2>2
<1>3. \A a \in 1..m : p[a] # NIL /\ p[a] # i
  BY <1>0 DEF NIL
<1> HIDE DEF m, q
<1>4. l.front # i
  <2>1. CASE m = 0
    <3>1. l.front = NIL
      BY <1>1, <2>1 DEF Place, m
    <3> QED BY <3>1 DEF NIL
  <2>2. CASE m # 0
    <3>1. 1 \in 1..m
      BY <1>0, <2>2
    <3> QED BY <1>1, <1>3, <3>1 DEF Place, m
  <2> QED BY <2>1, <2>2
<1>5. /\ Relinks(n, l, w)
      /\ w.front = i
      /\ w.back = IF l.front = NIL THEN i ELSE l.back
      /\ \A s \in 1..n : l.slots[s] # {} =>
           /\ Neighbour(w, s, "next") = IF s = i THEN l.front ELSE Neighbour(l, s, "next")
           /\ Neighbour(w, s, "prev") =
                IF s = i THEN NIL ELSE IF s = l.front THEN i ELSE Neighbour(l, s, "prev")
  BY <1>4, AttachReads
<1>6. q[1] = i /\ \A a \in 1..m : q[a + 1] = p[a]
  <2>1. 1 \in 1..(m + 1)
    BY <1>0
  <2>2. ASSUME NEW a \in 1..m PROVE q[a + 1] = p[a]
    <3>1. a + 1 \in 1..(m + 1) /\ a + 1 # 1 /\ (a + 1) - 1 = a
      BY <1>0
    <3> QED BY <1>2, <3>1
  <2> QED BY <1>2, <2>1, <2>2
<1>7. ASSUME NEW a \in 1..(m + 1), NEW b \in 1..(m + 1), q[a] = q[b] PROVE a = b
  <2>1. CASE a = 1 \/ b = 1
    BY <1>0, <1>2, <1>3, <1>7, <2>1
  <2>2. CASE a # 1 /\ b # 1
    <3>1. a - 1 \in 1..m /\ b - 1 \in 1..m /\ p[a - 1] = p[b - 1]
      <4>1. a - 1 \in 1..m /\ b - 1 \in 1..m
        BY <1>0, <2>2
      <4>2. q[a] = p[a - 1] /\ q[b] = p[b - 1]
        BY <1>2, <2>2
      <4> QED BY <1>7, <4>1, <4>2
    <3>2. a - 1 = b - 1
      BY <1>1, <3>1
    <3> QED BY <3>2
  <2> QED BY <2>1, <2>2
<1>8. w.front = Place(q, 1)
  BY <1>0, <1>2, <1>5, <1>6 DEF Place
<1>9. w.back = Place(q, m + 1)
  <2>1. CASE m = 0
    <3>1. l.front = NIL
      BY <1>1, <2>1 DEF Place, m
    <3> QED BY <1>2, <1>5, <1>6, <2>1, <3>1 DEF Place
  <2>2. CASE m # 0
    <3>1. 1 \in 1..m /\ m \in 1..m /\ m + 1 \in 1..(m + 1)
      BY <1>0, <2>2
    <3>2. l.front = p[1] /\ l.back = p[m]
      BY <1>1, <3>1 DEF Place, m
    <3>3. w.back = p[m]
      BY <1>3, <1>5, <3>1, <3>2
    <3> QED BY <1>2, <1>6, <3>1, <3>3 DEF Place
  <2> QED BY <2>1, <2>2
<1>10. ASSUME NEW a \in 1..(m + 1)
       PROVE  /\ w.slots[q[a]] # {}
              /\ Neighbour(w, q[a], "prev") = Place(q, a - 1)
              /\ Neighbour(w, q[a], "next") = Place(q, a + 1)
  <2>1. CASE a = 1
    <3>1. q[a] = i /\ w.slots[i] # {}
      BY <1>5, <1>6, <2>1 DEF Relinks
    <3>2. Neighbour(w, i, "prev") = NIL /\ Neighbour(w, i, "next") = l.front
      BY <1>5
    <3>3. Place(q, a - 1) = NIL
      BY <2>1 DEF Place
    <3>4. Place(q, a + 1) = l.front
      <4>1. CASE m = 0
        <5>1. a + 1 \notin 1..(m + 1)
          BY <2>1, <4>1
        <5> QED BY <1>1, <1>2, <4>1, <5>1 DEF Place, m
      <4>2. CASE m # 0
        <5>1. 1 \in 1..m /\ a + 1 \in 1..(m + 1)
          BY <1>0, <2>1, <4>2
        <5> QED BY <1>1, <1>2, <1>6, <2>1, <5>1 DEF Place, m
      <4> QED BY <4>1, <4>2
    <3> QED BY <3>1, <3>2, <3>3, <3>4
  <2>2. CASE a # 1
    <3> DEFINE b == a - 1
    <3>1. b \in 1..m /\ a = b + 1
      BY <1>0, <2>2
    <3> HIDE DEF b
    <3>2. q[a] = p[b] /\ p[b] \in 1..n /\ p[b] # i /\ l.slots[p[b]] # {}
      BY <1>0, <1>1, <1>3, <1>6, <3>1
    <3>3. w.slots[q[a]] # {}
      BY <1>5, <3>2 DEF Relinks
    <3>4. /\ Neighbour(w, p[b], "next") = Place(p, b + 1)
          /\ Neighbour(w, p[b], "prev") = IF p[b] = l.front THEN i ELSE Place(p, b - 1)
      BY <1>1, <1>5, <3>1, <3>2
    <3>5. Place(p, b + 1) = Place(q, a + 1)
      <4>1. CASE b + 1 \in 1..m
        <5>1. a + 1 \in 1..(m + 1) /\ a = b + 1
          BY <1>0, <3>1, <4>1
        <5>2. q[a + 1] = p[b + 1]
          BY <1>6, <4>1, <5>1
        <5>3. a + 1 \in 1..Len(q) /\ b + 1 \in 1..Len(p)
          BY <1>2, <4>1, <5>1 DEF m
        <5> HIDE DEF q
        <5> QED BY <5>2, <5>3 DEF Place
      <4>2. CASE b + 1 \notin 1..m
        <5>1. a + 1 \notin 1..(m + 1)
          BY <1>0, <3>1, <4>2
        <5> QED BY <1>2, <4>2, <5>1 DEF Place, m
      <4> QED BY <4>1, <4>2
    <3>6. Place(q, a - 1) = IF p[b] = l.front THEN i ELSE Place(p, b - 1)
      <4>1. 1 \in 1..m /\ a - 1 = b /\ b \in 1..(m + 1)
        BY <1>0, <3>1
      <4>2. l.front = p[1] /\ Place(q, a - 1) = q[b]
        BY <1>1, <1>2, <4>1 DEF Place, m
      <4>3. CASE b = 1
        BY <1>6, <4>2, <4>3
      <4>4. CASE b # 1
        <5>1. p[b] # l.front
          BY <1>1, <3>1, <4>1, <4>2, <4>4
        <5>2. b - 1 \in 1..m /\ q[b] = p[b - 1]
          <6>1. b \in 1..(m + 1) /\ b - 1 \in 1..m
            BY <1>0, <3>1, <4>4
          <6> QED BY <1>2, <4>4, <6>1
        <5> QED BY <4>2, <5>1, <5>2 DEF Place, m
      <4> QED BY <4>3, <4>4
    <3> QED BY <3>2, <3>3, <3>4, <3>5, <3>6
  <2> QED BY <2>1, <2>2
<1>11. Chained(n, w, q)
  BY <1>2, <1>7, <1>8, <1>9, <1>10 DEF Chained
<1> QED BY <1>5, <1>11 DEF q

\* The list l runs through all occupied slots of the arena.
Thread(n, l, p) ==
  /\ l \in Lists(n) /\ Solo(n, l.slots) /\ Chained(n, l, p)
  /\ \A i \in 1..n : l.slots[i] # {} <=> \E a \in 1..Len(p) : p[a] = i

\* The entries on it.
Listing(s, p) == [a \in 1..Len(p) |-> Holding(s, p[a])]

\* The list m with value v at place j.
Revalued(m, j, v) ==
  [a \in 1..Len(m) |-> IF a = j THEN [key |-> m[a].key, val |-> v] ELSE m[a]]

\* p with its place j moved to the front.
Promoted(p, j) == Led(Cut(p, j), p[j])

\* How q then reads.
Moved(p, j, q) ==
  /\ Len(q) = Len(p) /\ q[1] = p[j]
  /\ \A a \in 2..Len(p) : (a <= j => q[a] = p[a - 1]) /\ (a > j => q[a] = p[a])

LEMMA PromotedSpec ==
  ASSUME NEW S, NEW p \in Seq(S), NEW j \in 1..Len(p), NEW q, q = Promoted(p, j)
  PROVE  q \in Seq(S) /\ Moved(p, j, q)
<1> DEFINE c == Cut(p, j)
           x == p[j]
<1>1. /\ c \in Seq(S) /\ Len(c) = Len(p) - 1 /\ x \in S /\ Len(p) \in Nat
  BY CutSpec
<1>2. \A a \in 1..(Len(p) - 1) : (a < j => c[a] = p[a]) /\ (a >= j => c[a] = p[a + 1])
  BY DEF Cut
<1>3. q = Led(c, x)
  BY DEF Promoted
<1> HIDE DEF c, x
<1>4. q \in Seq(S) /\ Len(q) = Len(p)
  BY <1>1, <1>3, LedSpec
<1>5. q[1] = x /\ \A a \in 2..Len(p) : q[a] = c[a - 1]
  BY <1>1, <1>3 DEF Led
<1>6. ASSUME NEW a \in 2..Len(p)
      PROVE  (a <= j => q[a] = p[a - 1]) /\ (a > j => q[a] = p[a])
  <2> DEFINE b == a - 1
  <2>1. b \in 1..(Len(p) - 1) /\ b + 1 = a /\ (a <= j <=> b < j) /\ (a > j <=> b >= j)
    BY <1>1
  <2>2. q[a] = c[b]
    BY <1>5
  <2> HIDE DEF b
  <2>3. (b < j => q[a] = p[b]) /\ (b >= j => q[a] = p[b + 1])
    BY <1>2, <2>1, <2>2
  <2>4. b = a - 1
    BY DEF b
  <2> QED BY <2>1, <2>3, <2>4
<1> QED BY <1>4, <1>5, <1>6 DEF x, Moved

\* p and q run through the same things.
SameRange(p, q) == \A x : (\E a \in 1..Len(q) : q[a] = x) <=> (\E a \in 1..Len(p) : p[a] = x)

\* It runs through the same things.
LEMMA PromotedSame ==
  ASSUME NEW S, NEW p \in Seq(S), NEW j \in 1..Len(p), NEW q, q = Promoted(p, j)
  PROVE  SameRange(p, q)
<1> SUFFICES ASSUME NEW x
             PROVE  (\E a \in 1..Len(q) : q[a] = x) <=> (\E a \in 1..Len(p) : p[a] = x)
  BY DEF SameRange
<1>a. Moved(p, j, q)
  BY PromotedSpec
<1>1. /\ Len(q) = Len(p) /\ q[1] = p[j] /\ Len(p) \in Nat
      /\ \A a \in 2..Len(p) : (a <= j => q[a] = p[a - 1]) /\ (a > j => q[a] = p[a])
  BY <1>a DEF Moved
<1>2. ASSUME NEW a \in 1..Len(q) PROVE \E b \in 1..Len(p) : p[b] = q[a]
  <2>1. CASE a = 1
    BY <1>1, <2>1
  <2>2. CASE a # 1 /\ a <= j
    <3>1. a \in 2..Len(p) /\ a - 1 \in 1..Len(p)
      BY <1>1, <2>2
    <3> QED BY <1>1, <2>2, <3>1
  <2>3. CASE a # 1 /\ a > j
    <3>1. a \in 2..Len(p) /\ a \in 1..Len(p)
      BY <1>1, <2>3
    <3> QED BY <1>1, <2>3, <3>1
  <2> QED BY <1>1, <2>1, <2>2, <2>3
<1>3. ASSUME NEW b \in 1..Len(p) PROVE \E a \in 1..Len(q) : q[a] = p[b]
  <2>1. CASE b = j
    <3>1. 1 \in 1..Len(q)
      BY <1>1
    <3> QED BY <1>1, <2>1, <3>1
  <2>2. CASE b < j
    <3>1. b + 1 \in 2..Len(p) /\ b + 1 <= j /\ (b + 1) - 1 = b /\ b + 1 \in 1..Len(q)
      BY <1>1, <2>2
    <3> QED BY <1>1, <3>1
  <2>3. CASE b > j
    <3>1. b \in 2..Len(p) /\ b \in 1..Len(q)
      BY <1>1, <2>3
    <3> QED BY <1>1, <2>3, <3>1
  <2> QED BY <2>1, <2>2, <2>3
<1>4. ASSUME NEW a \in 1..Len(q), q[a] = x PROVE \E b \in 1..Len(p) : p[b] = x
  BY <1>2, <1>4
<1>5. ASSUME NEW b \in 1..Len(p), p[b] = x PROVE \E a \in 1..Len(q) : q[a] = x
  BY <1>3, <1>5
<1> QED BY <1>4, <1>5

\* An entry of the list.
Pairs == [key: Keys, val: Vals]

\* The entries of a list.
LEMMA ListingSpec ==
  ASSUME NEW n \in Nat, NEW l, NEW p, Thread(n, l, p), NEW m, m = Listing(l.slots, p)
  PROVE  /\ m \in Seq(Pairs) /\ Len(m) = Len(p) /\ Len(p) \in Nat
         /\ p \in Seq(1..n)
         /\ \A a \in 1..Len(p) : m[a] = Holding(l.slots, p[a]) /\ p[a] \in 1..n
                                 /\ l.slots[p[a]] # {}
<1>1. p \in Seq(1..n) /\ \A a \in 1..Len(p) : l.slots[p[a]] # {}
  BY DEF Thread, Chained
<1>2. Len(p) \in Nat /\ \A a \in 1..Len(p) : p[a] \in 1..n
  BY <1>1
<1>3. ASSUME NEW a \in 1..Len(p) PROVE Holding(l.slots, p[a]) \in Pairs
  <2> DEFINE s == p[a]
  <2>1. PICK node \in Nodes(n) : l.slots[s] = {node}
    BY <1>1, <1>2 DEF Thread, Solo
  <2> HIDE DEF s
  <2>2. Holding(l.slots, s) = [key |-> node.key, val |-> node.val]
    <3>1. \A r \in l.slots[s] : r = node
      BY <2>1
    <3>2. (CHOOSE r \in l.slots[s] : TRUE) = node
      BY <2>1
    <3> QED BY <3>2 DEF Holding
  <2>3. Holding(l.slots, s) \in Pairs
    BY <2>2 DEF Nodes, Pairs
  <2> QED BY <2>3 DEF s
<1>4. m \in [1..Len(p) -> Pairs]
  BY <1>3 DEF Listing
<1>5. m \in Seq(Pairs) /\ Len(m) = Len(p)
  BY <1>2, <1>4
<1>6. \A a \in 1..Len(p) : m[a] = Holding(l.slots, p[a])
  BY DEF Listing
<1> QED BY <1>1, <1>2, <1>5, <1>6

\* m is what the slots of p hold.
Reads(n, l, p, m) ==
  /\ m \in Seq(Pairs) /\ Len(m) = Len(p) /\ Len(p) \in Nat /\ p \in Seq(1..n)
  /\ \A a \in 1..Len(p) : m[a] = Holding(l.slots, p[a]) /\ p[a] \in 1..n /\ l.slots[p[a]] # {}

LEMMA ListingReads ==
  ASSUME NEW n \in Nat, NEW l, NEW p, Thread(n, l, p)
  PROVE  Reads(n, l, p, Listing(l.slots, p))
<1> DEFINE m == Listing(l.slots, p)
<1>1. m = Listing(l.slots, p)
  OBVIOUS
<1> HIDE DEF m
<1>2. Reads(n, l, p, m)
  BY <1>1, ListingSpec DEF Reads
<1> QED BY <1>1, <1>2

\* Promotion moves one entry to the front.
LEMMA PromoteThread ==
  ASSUME NEW n \in Nat, NEW l, NEW p, Thread(n, l, p), NEW j \in 1..Len(p),
         NEW w, w = Promote(l, p[j]), NEW q, q = Promoted(p, j)
  PROVE  Thread(n, w, q) /\ Listing(w.slots, q) = Promoted(Listing(l.slots, p), j)
<1> DEFINE i == p[j]
           d == Detach(l, i)
           c == Cut(p, j)
           L == Listing(l.slots, p)
           M == Listing(w.slots, q)
           N == Promoted(L, j)
<1>0. L = Listing(l.slots, p) /\ M = Listing(w.slots, q) /\ N = Promoted(L, j)
  OBVIOUS
<1> HIDE DEF L, M, N
<1>1. /\ l \in Lists(n) /\ Solo(n, l.slots) /\ Chained(n, l, p)
      /\ \A s \in 1..n : l.slots[s] # {} <=> \E a \in 1..Len(p) : p[a] = s
  BY DEF Thread
<1>2. /\ L \in Seq(Pairs) /\ Len(L) = Len(p) /\ Len(p) \in Nat /\ p \in Seq(1..n)
      /\ \A a \in 1..Len(p) : L[a] = Holding(l.slots, p[a]) /\ p[a] \in 1..n /\ l.slots[p[a]] # {}
  BY <1>0, ListingSpec
<1>3. Chained(n, d, c) /\ Relinks(n, l, d)
  BY <1>1, DetachChained
<1>4. /\ Len(c) = Len(p) - 1
      /\ \A a \in 1..(Len(p) - 1) : (a < j => c[a] = p[a]) /\ (a >= j => c[a] = p[a + 1])
  <2>1. Len(c) = Len(p) - 1
    BY <1>2, CutSpec
  <2>2. \A a \in 1..(Len(p) - 1) : (a < j => c[a] = p[a]) /\ (a >= j => c[a] = p[a + 1])
    BY DEF Cut
  <2> QED BY <2>1, <2>2
<1>5. \A a, b \in 1..Len(p) : p[a] = p[b] => a = b
  BY <1>1 DEF Chained
<1>6. i \in 1..n /\ l.slots[i] # {} /\ w = AttachFront(d, i) /\ q = Led(c, i) /\ i = p[j]
  BY <1>2 DEF Promote, Promoted
<1> HIDE DEF i, d, c
<1>7. ASSUME NEW a \in 1..Len(c) PROVE c[a] # i
  <2>1. CASE a < j
    <3>1. a \in 1..(Len(p) - 1) /\ a \in 1..Len(p) /\ a # j
      BY <1>2, <1>4, <2>1
    <3> QED BY <1>4, <1>5, <1>6, <2>1, <3>1
  <2>2. CASE a >= j
    <3>1. a \in 1..(Len(p) - 1) /\ a + 1 \in 1..Len(p) /\ a + 1 # j
      BY <1>2, <1>4, <2>2
    <3> QED BY <1>4, <1>5, <1>6, <2>2, <3>1
  <2> QED BY <1>2, <1>4, <2>1, <2>2
<1>8. d \in Lists(n) /\ Solo(n, d.slots) /\ d.slots[i] # {}
  BY <1>3, <1>6 DEF Relinks
<1>9. Chained(n, w, q) /\ Relinks(n, d, w)
  BY <1>3, <1>6, <1>7, <1>8, AttachChained
<1>10. Relinks(n, l, w)
  BY <1>3, <1>9, RelinksTrans
<1>11. Thread(n, w, q)
  <2>1. SameRange(p, q)
    BY <1>2, PromotedSame
  <2> QED BY <1>1, <1>9, <1>10, <2>1 DEF Thread, Relinks, SameRange
<1>12. /\ M \in Seq(Pairs) /\ Len(M) = Len(q)
       /\ \A a \in 1..Len(q) : M[a] = Holding(w.slots, q[a])
  BY <1>0, <1>11, ListingSpec
<1>13. \A s \in 1..n : l.slots[s] # {} => Holding(w.slots, s) = Holding(l.slots, s)
  BY <1>10 DEF Relinks
<1>14. /\ Len(q) = Len(p) /\ q[1] = p[j]
       /\ \A a \in 2..Len(p) : (a <= j => q[a] = p[a - 1]) /\ (a > j => q[a] = p[a])
  <2>1. Moved(p, j, q)
    BY <1>2, PromotedSpec
  <2> QED BY <2>1 DEF Moved
<1>15. /\ N \in Seq(Pairs) /\ Len(N) = Len(p) /\ N[1] = L[j]
       /\ \A a \in 2..Len(p) : (a <= j => N[a] = L[a - 1]) /\ (a > j => N[a] = L[a])
  <2>1. j \in 1..Len(L)
    BY <1>2
  <2>2. N \in Seq(Pairs) /\ Moved(L, j, N)
    BY <1>0, <1>2, <2>1, PromotedSpec
  <2> QED BY <1>2, <2>2 DEF Moved
<1>16. ASSUME NEW a \in 1..Len(p) PROVE M[a] = N[a]
  <2>0. \A b \in 1..Len(p) : Holding(w.slots, p[b]) = L[b]
    BY <1>2, <1>13
  <2>1. CASE a = 1
    BY <1>12, <1>14, <1>15, <2>0, <2>1
  <2>2. CASE a # 1 /\ a <= j
    <3>1. a \in 2..Len(p) /\ a - 1 \in 1..Len(p)
      BY <1>2, <2>2
    <3> QED BY <1>12, <1>14, <1>15, <2>0, <2>2, <3>1
  <2>3. CASE a # 1 /\ a > j
    <3>1. a \in 2..Len(p)
      BY <1>2, <2>3
    <3> QED BY <1>12, <1>14, <1>15, <2>0, <2>3, <3>1
  <2> QED BY <1>2, <2>1, <2>2, <2>3
<1>17. M = N
  BY <1>12, <1>14, <1>15, <1>16, SeqEqual
<1> QED BY <1>0, <1>11, <1>17

LEMMA RevaluedSpec ==
  ASSUME NEW m \in Seq(Pairs), NEW j \in 1..Len(m), NEW v \in Vals, NEW r, r = Revalued(m, j, v)
  PROVE  /\ r \in Seq(Pairs) /\ Len(r) = Len(m)
         /\ r[j] = [key |-> m[j].key, val |-> v]
         /\ \A a \in 1..Len(m) : a # j => r[a] = m[a]
<1>1. Len(m) \in Nat /\ \A a \in 1..Len(m) : m[a] \in Pairs
  OBVIOUS
<1>2. \A a \in 1..Len(m) : [key |-> m[a].key, val |-> v] \in Pairs
  BY <1>1 DEF Pairs
<1>3. r \in [1..Len(m) -> Pairs]
  BY <1>1, <1>2 DEF Revalued
<1>4. r \in Seq(Pairs) /\ Len(r) = Len(m)
  BY <1>1, <1>3
<1> QED BY <1>4 DEF Revalued

LEMMA RevaluedLen ==
  ASSUME NEW m \in Seq(Pairs), NEW j \in 1..Len(m), NEW v \in Vals
  PROVE  Revalued(m, j, v) \in Seq(Pairs) /\ Len(Revalued(m, j, v)) = Len(m)
BY RevaluedSpec

\* Rewriting a value changes one entry and no place.
LEMMA RewriteThread ==
  ASSUME NEW n \in Nat, NEW l, NEW p, Thread(n, l, p), NEW j \in 1..Len(p), NEW v \in Vals,
         NEW w, w = Write(l, p[j], "val", v)
  PROVE  Thread(n, w, p) /\ Listing(w.slots, p) = Revalued(Listing(l.slots, p), j, v)
<1> DEFINE i == p[j]
           L == Listing(l.slots, p)
           M == Listing(w.slots, p)
           N == Revalued(L, j, v)
<1>0. L = Listing(l.slots, p) /\ M = Listing(w.slots, p) /\ N = Revalued(L, j, v) /\ i = p[j]
  OBVIOUS
<1> HIDE DEF L, M, N
<1>1. /\ l \in Lists(n) /\ Solo(n, l.slots) /\ Chained(n, l, p)
      /\ \A s \in 1..n : l.slots[s] # {} <=> \E a \in 1..Len(p) : p[a] = s
  BY DEF Thread
<1>2. /\ L \in Seq(Pairs) /\ Len(L) = Len(p) /\ Len(p) \in Nat /\ p \in Seq(1..n)
      /\ \A a \in 1..Len(p) : L[a] = Holding(l.slots, p[a]) /\ p[a] \in 1..n /\ l.slots[p[a]] # {}
  <2>1. Reads(n, l, p, L)
    BY <1>0, ListingReads
  <2> QED BY <2>1 DEF Reads
<1> HIDE DEF i
<1>3. i \in 1..n /\ l.slots[i] # {} /\ w = Write(l, i, "val", v)
  BY <1>0, <1>2
<1>4. /\ w \in Lists(n) /\ Solo(n, w.slots)
      /\ w.front = l.front /\ w.back = l.back
      /\ \A s \in 1..n : w.slots[s] = {} <=> l.slots[s] = {}
      /\ \A s \in 1..n : l.slots[s] # {} =>
           /\ Neighbour(w, s, "prev") = Neighbour(l, s, "prev")
           /\ Neighbour(w, s, "next") = Neighbour(l, s, "next")
           /\ s # i => Holding(w.slots, s) = Holding(l.slots, s)
      /\ Holding(w.slots, i) = [key |-> Holding(l.slots, i).key, val |-> v]
  <2>1. Rewrites(n, l, i, v, w)
    BY <1>1, <1>3, WriteVal
  <2> QED BY <2>1 DEF Rewrites
<1>5. Chained(n, w, p)
  <2>1. \A a \in 1..Len(p) : /\ w.slots[p[a]] # {}
                             /\ Neighbour(w, p[a], "prev") = Place(p, a - 1)
                             /\ Neighbour(w, p[a], "next") = Place(p, a + 1)
    BY <1>1, <1>2, <1>4 DEF Chained
  <2> QED BY <1>1, <1>4, <2>1 DEF Chained
<1>6. Thread(n, w, p)
  BY <1>1, <1>4, <1>5 DEF Thread
<1>7. /\ M \in Seq(Pairs) /\ Len(M) = Len(p)
      /\ \A a \in 1..Len(p) : M[a] = Holding(w.slots, p[a])
  <2>1. Reads(n, w, p, M)
    BY <1>0, <1>6, ListingReads
  <2> QED BY <2>1 DEF Reads
<1>8. /\ N \in Seq(Pairs) /\ Len(N) = Len(L)
      /\ N[j] = [key |-> L[j].key, val |-> v]
      /\ \A a \in 1..Len(L) : a # j => N[a] = L[a]
  BY <1>0, <1>2, RevaluedSpec
<1>9. ASSUME NEW a \in 1..Len(p) PROVE M[a] = N[a]
  <2>1. CASE a = j
    BY <1>0, <1>2, <1>4, <1>7, <1>8, <2>1
  <2>2. CASE a # j
    <3>1. p[a] # i
      BY <1>0, <1>1, <2>2 DEF Chained
    <3> QED BY <1>2, <1>4, <1>7, <1>8, <2>2, <3>1
  <2> QED BY <2>1, <2>2
<1>10. M = N
  <2>1. Len(M) = Len(N) /\ \A a \in 1..Len(M) : M[a] = N[a]
    BY <1>2, <1>7, <1>8, <1>9
  <2> QED BY <1>7, <1>8, <2>1, SeqEqual
<1> QED BY <1>0, <1>6, <1>10

\* l with slot i detached and vacated.
Freed(l, i) == [Detach(l, i) EXCEPT !.slots[i] = Vacant]

\* Releasing the slot of an entry takes the entry out.
LEMMA ReleaseThread ==
  ASSUME NEW n \in Nat, NEW l, NEW p, Thread(n, l, p), NEW j \in 1..Len(p),
         NEW w, w = Freed(l, p[j]), NEW q, q = Cut(p, j)
  PROVE  Thread(n, w, q) /\ Listing(w.slots, q) = Cut(Listing(l.slots, p), j)
<1> DEFINE i == p[j]
           d == Detach(l, i)
           L == Listing(l.slots, p)
           M == Listing(w.slots, q)
           N == Cut(L, j)
<1>0. L = Listing(l.slots, p) /\ M = Listing(w.slots, q) /\ N = Cut(L, j) /\ i = p[j]
  OBVIOUS
<1> HIDE DEF L, M, N
<1>1. /\ l \in Lists(n) /\ Solo(n, l.slots) /\ Chained(n, l, p)
      /\ \A s \in 1..n : l.slots[s] # {} <=> \E a \in 1..Len(p) : p[a] = s
  BY DEF Thread
<1>2. /\ L \in Seq(Pairs) /\ Len(L) = Len(p) /\ Len(p) \in Nat /\ p \in Seq(1..n)
      /\ \A a \in 1..Len(p) : L[a] = Holding(l.slots, p[a]) /\ p[a] \in 1..n /\ l.slots[p[a]] # {}
  BY <1>0, ListingSpec
<1>3. Chained(n, d, q) /\ Relinks(n, l, d) /\ w = [d EXCEPT !.slots[i] = {}]
  BY <1>1, DetachChained DEF Vacant, Freed
<1>4. /\ q \in Seq(1..n) /\ Len(q) = Len(p) - 1
      /\ \A a \in 1..(Len(p) - 1) : (a < j => q[a] = p[a]) /\ (a >= j => q[a] = p[a + 1])
  <2>1. q \in Seq(1..n) /\ Len(q) = Len(p) - 1
    BY <1>2, CutSpec
  <2>2. \A a \in 1..(Len(p) - 1) : (a < j => q[a] = p[a]) /\ (a >= j => q[a] = p[a + 1])
    BY DEF Cut
  <2> QED BY <2>1, <2>2
<1>5. \A a, b \in 1..Len(p) : p[a] = p[b] => a = b
  BY <1>1 DEF Chained
<1>6. i \in 1..n
  BY <1>0, <1>2
<1> HIDE DEF i, d
<1>7. ASSUME NEW a \in 1..Len(q) PROVE q[a] # i
  <2>1. CASE a < j
    <3>1. a \in 1..(Len(p) - 1) /\ a \in 1..Len(p) /\ a # j
      BY <1>2, <1>4, <2>1
    <3> QED BY <1>0, <1>4, <1>5, <2>1, <3>1
  <2>2. CASE a >= j
    <3>1. a \in 1..(Len(p) - 1) /\ a + 1 \in 1..Len(p) /\ a + 1 # j
      BY <1>2, <1>4, <2>2
    <3> QED BY <1>0, <1>4, <1>5, <2>2, <3>1
  <2> QED BY <1>2, <1>4, <2>1, <2>2
<1>8. d \in Lists(n) /\ Solo(n, d.slots)
  BY <1>3 DEF Relinks
<1>9. /\ w.slots = [d.slots EXCEPT ![i] = {}] /\ w.front = d.front /\ w.back = d.back
      /\ w = [slots |-> [d.slots EXCEPT ![i] = {}], front |-> d.front, back |-> d.back]
  BY <1>3, <1>8 DEF Lists
<1>10. d.slots \in [1..n -> SUBSET Nodes(n)] /\ d.front \in 0..n /\ d.back \in 0..n
  BY <1>8 DEF Lists
<1>11. w.slots[i] = {} /\ \A s \in 1..n : s # i => w.slots[s] = d.slots[s]
  BY <1>6, <1>9, <1>10
<1>12. w \in Lists(n)
  <2>1. [d.slots EXCEPT ![i] = {}] \in [1..n -> SUBSET Nodes(n)]
    BY <1>10
  <2> QED BY <1>9, <1>10, <2>1 DEF Lists
<1>13. Solo(n, w.slots)
  BY <1>8, <1>11 DEF Solo
<1>14. \A s \in 1..n : s # i => /\ Holding(w.slots, s) = Holding(d.slots, s)
                                /\ Neighbour(w, s, "prev") = Neighbour(d, s, "prev")
                                /\ Neighbour(w, s, "next") = Neighbour(d, s, "next")
  BY <1>11, SameSlot
<1>15. \A a \in 1..Len(q) : q[a] \in 1..n
  BY <1>4
<1>16. Chained(n, w, q)
  <2>1. \A a \in 1..Len(q) : /\ w.slots[q[a]] # {}
                             /\ Neighbour(w, q[a], "prev") = Place(q, a - 1)
                             /\ Neighbour(w, q[a], "next") = Place(q, a + 1)
    BY <1>3, <1>7, <1>11, <1>14, <1>15 DEF Chained
  <2> QED BY <1>3, <1>9, <2>1 DEF Chained
<1>17. \A s \in 1..n : w.slots[s] # {} <=> \E a \in 1..Len(q) : q[a] = s
  <2>1. ASSUME NEW a \in 1..Len(q) PROVE w.slots[q[a]] # {}
    BY <1>16 DEF Chained
  <2>2. ASSUME NEW s \in 1..n, w.slots[s] # {} PROVE \E a \in 1..Len(q) : q[a] = s
    <3>1. s # i /\ l.slots[s] # {}
      BY <1>3, <1>11, <2>2 DEF Relinks
    <3>2. PICK b \in 1..Len(p) : p[b] = s
      BY <1>1, <3>1
    <3>3. b # j
      BY <1>0, <3>1, <3>2
    <3>4. CASE b < j
      <4>1. b \in 1..(Len(p) - 1)
        BY <1>2, <3>4
      <4> QED BY <1>4, <3>2, <3>4, <4>1
    <3>5. CASE b > j
      <4>1. b - 1 \in 1..(Len(p) - 1) /\ b - 1 >= j /\ (b - 1) + 1 = b
        BY <1>2, <3>5
      <4>2. q[b - 1] = p[b]
        BY <1>4, <4>1
      <4> QED BY <1>4, <3>2, <4>1, <4>2
    <3> QED BY <3>3, <3>4, <3>5
  <2> QED BY <2>1, <2>2
<1>18. Thread(n, w, q)
  BY <1>12, <1>13, <1>16, <1>17 DEF Thread
<1>19. /\ M \in Seq(Pairs) /\ Len(M) = Len(q)
       /\ \A a \in 1..Len(q) : M[a] = Holding(w.slots, q[a])
  BY <1>0, <1>18, ListingSpec
<1>20. N \in Seq(Pairs) /\ Len(N) = Len(L) - 1
  BY <1>0, <1>2, CutSpec
<1>21. \A a \in 1..(Len(L) - 1) : (a < j => N[a] = L[a]) /\ (a >= j => N[a] = L[a + 1])
  BY <1>0 DEF Cut
<1>22. \A b \in 1..Len(p) : b # j => Holding(w.slots, p[b]) = L[b]
  <2> SUFFICES ASSUME NEW b \in 1..Len(p), b # j PROVE Holding(w.slots, p[b]) = L[b]
    OBVIOUS
  <2>1. p[b] # i /\ p[b] \in 1..n
    BY <1>0, <1>2, <1>5
  <2>2. Holding(d.slots, p[b]) = Holding(l.slots, p[b])
    BY <1>2, <1>3, <2>1 DEF Relinks
  <2> QED BY <1>2, <1>14, <2>1, <2>2
<1>23. ASSUME NEW a \in 1..Len(q) PROVE M[a] = N[a]
  <2>1. CASE a < j
    <3>1. a \in 1..(Len(p) - 1) /\ a \in 1..Len(p) /\ a # j
      BY <1>2, <1>4, <2>1
    <3>2. M[a] = Holding(w.slots, q[a]) /\ q[a] = p[a] /\ N[a] = L[a]
      BY <1>2, <1>4, <1>19, <1>21, <2>1, <3>1
    <3> QED BY <1>22, <3>1, <3>2
  <2>2. CASE a >= j
    <3>1. a \in 1..(Len(p) - 1) /\ a + 1 \in 1..Len(p) /\ a + 1 # j
      BY <1>2, <1>4, <2>2
    <3>2. M[a] = Holding(w.slots, q[a]) /\ q[a] = p[a + 1] /\ N[a] = L[a + 1]
      BY <1>2, <1>4, <1>19, <1>21, <2>2, <3>1
    <3> QED BY <1>22, <3>1, <3>2
  <2> QED BY <1>2, <1>4, <2>1, <2>2
<1>24. M = N
  <2>1. Len(M) = Len(N) /\ \A a \in 1..Len(M) : M[a] = N[a]
    BY <1>2, <1>4, <1>19, <1>20, <1>23
  <2> QED BY <1>19, <1>20, <2>1, SeqEqual
<1> QED BY <1>0, <1>18, <1>24

\* The entry in a node.
Entry(node) == [key |-> node.key, val |-> node.val]

\* The list h is the list l with a node in slot i of an arena of e slots, which
\* was vacant or is one more than there were.
Opened(n, l, e, i, node, h) ==
  /\ e \in Nat /\ n <= e /\ i \in 1..e /\ node \in Nodes(n)
  /\ i \in 1..n => l.slots[i] = {}
  /\ \A s \in 1..e : s \in 1..n \/ s = i
  /\ h \in Lists(e) /\ h.front = l.front /\ h.back = l.back
  /\ \A s \in 1..e : h.slots[s] = IF s = i THEN {node} ELSE l.slots[s]

\* Attaching the new node puts its entry before the others.
LEMMA AdmitThread ==
  ASSUME NEW n \in Nat, NEW l, NEW p, Thread(n, l, p),
         NEW e, NEW i, NEW node, NEW h, Opened(n, l, e, i, node, h),
         NEW w, w = AttachFront(h, i), NEW q, q = Led(p, i),
         NEW x, x = Entry(node)
  PROVE  Thread(e, w, q) /\ Listing(w.slots, q) = Led(Listing(l.slots, p), x)
<1> DEFINE L == Listing(l.slots, p)
           M == Listing(w.slots, q)
           N == Led(L, x)
<1>0. L = Listing(l.slots, p) /\ M = Listing(w.slots, q) /\ N = Led(L, x)
  OBVIOUS
<1> HIDE DEF L, M, N
<1>o. /\ e \in Nat /\ n <= e /\ i \in 1..e /\ node \in Nodes(n)
      /\ i \in 1..n => l.slots[i] = {}
      /\ \A s \in 1..e : s \in 1..n \/ s = i
      /\ h \in Lists(e) /\ h.front = l.front /\ h.back = l.back
      /\ \A s \in 1..e : h.slots[s] = IF s = i THEN {node} ELSE l.slots[s]
  BY DEF Opened
<1>1. /\ l \in Lists(n) /\ Solo(n, l.slots) /\ Chained(n, l, p)
      /\ \A s \in 1..n : l.slots[s] # {} <=> \E a \in 1..Len(p) : p[a] = s
  BY DEF Thread
<1>2. /\ L \in Seq(Pairs) /\ Len(L) = Len(p) /\ Len(p) \in Nat /\ p \in Seq(1..n)
      /\ \A a \in 1..Len(p) : L[a] = Holding(l.slots, p[a]) /\ p[a] \in 1..n /\ l.slots[p[a]] # {}
  BY <1>0, ListingSpec
<1>3. 1..n \subseteq 1..e /\ \A s \in 1..n : s \in 1..e
  BY <1>o
<1>4. \A a \in 1..Len(p) : p[a] # i
  BY <1>2, <1>o
<1>5. h.slots[i] = {node} /\ \A s \in 1..n : s # i => h.slots[s] = l.slots[s]
  BY <1>3, <1>o
<1>6. node \in Nodes(e) /\ Nodes(n) \subseteq Nodes(e)
  <2>1. 0..n \subseteq 0..e
    BY <1>o
  <2> QED BY <1>o, <2>1 DEF Nodes
<1>7. Solo(e, h.slots)
  <2> SUFFICES ASSUME NEW s \in 1..e, h.slots[s] # {}
               PROVE  \E m \in Nodes(e) : h.slots[s] = {m}
    BY DEF Solo
  <2>1. CASE s = i
    BY <1>5, <1>6, <2>1
  <2>2. CASE s # i
    <3>1. s \in 1..n /\ l.slots[s] # {} /\ h.slots[s] = l.slots[s]
      BY <1>5, <1>o, <2>2
    <3>2. PICK m \in Nodes(n) : l.slots[s] = {m}
      BY <1>1, <3>1 DEF Solo
    <3> QED BY <1>6, <3>1, <3>2
  <2> QED BY <2>1, <2>2
<1>8. \A s \in 1..n : s # i => /\ Holding(h.slots, s) = Holding(l.slots, s)
                               /\ Neighbour(h, s, "prev") = Neighbour(l, s, "prev")
                               /\ Neighbour(h, s, "next") = Neighbour(l, s, "next")
  BY <1>5, SameSlot
<1>9. p \in Seq(1..e)
  <2>1. Seq(1..n) \subseteq Seq(1..e)
    BY <1>3, <1>o
  <2> QED BY <1>2, <2>1
<1>10. Chained(e, h, p)
  <2>1. \A a \in 1..Len(p) : /\ h.slots[p[a]] # {}
                             /\ Neighbour(h, p[a], "prev") = Place(p, a - 1)
                             /\ Neighbour(h, p[a], "next") = Place(p, a + 1)
    BY <1>1, <1>2, <1>4, <1>5, <1>8 DEF Chained
  <2> QED BY <1>1, <1>9, <1>o, <2>1 DEF Chained
<1>11. Chained(e, w, q) /\ Relinks(e, h, w)
  BY <1>4, <1>5, <1>7, <1>10, <1>o, AttachChained
<1>12. Len(q) = Len(p) + 1 /\ q[1] = i /\ \A a \in 1..Len(p) : q[a + 1] = p[a]
  <2>1. q \in Seq(1..e) /\ Len(q) = Len(p) + 1
    BY <1>9, <1>o, LedSpec
  <2>2. \A a \in 1..(Len(p) + 1) : q[a] = IF a = 1 THEN i ELSE p[a - 1]
    BY DEF Led
  <2>3. 1 \in 1..(Len(p) + 1)
    BY <1>2
  <2>4. ASSUME NEW a \in 1..Len(p) PROVE q[a + 1] = p[a]
    <3>1. a + 1 \in 1..(Len(p) + 1) /\ a + 1 # 1 /\ (a + 1) - 1 = a
      BY <1>2
    <3> QED BY <2>2, <3>1
  <2> QED BY <2>1, <2>2, <2>3, <2>4
<1>13. \A s \in 1..e : w.slots[s] # {} <=> \E a \in 1..Len(q) : q[a] = s
  <2>1. ASSUME NEW a \in 1..Len(q) PROVE w.slots[q[a]] # {}
    BY <1>11 DEF Chained
  <2>2. ASSUME NEW s \in 1..e, w.slots[s] # {} PROVE \E a \in 1..Len(q) : q[a] = s
    <3>1. h.slots[s] # {}
      BY <1>11, <2>2 DEF Relinks
    <3>2. CASE s = i
      <4>1. 1 \in 1..Len(q)
        BY <1>2, <1>12
      <4> QED BY <1>12, <3>2, <4>1
    <3>3. CASE s # i
      <4>1. s \in 1..n /\ l.slots[s] # {}
        BY <1>5, <1>o, <3>1, <3>3
      <4>2. PICK b \in 1..Len(p) : p[b] = s
        BY <1>1, <4>1
      <4>3. b + 1 \in 1..Len(q) /\ q[b + 1] = s
        BY <1>2, <1>12, <4>2
      <4> QED BY <4>3
    <3> QED BY <3>2, <3>3
  <2> QED BY <2>1, <2>2
<1>14. Thread(e, w, q)
  BY <1>11, <1>13 DEF Thread, Relinks
<1>15. /\ M \in Seq(Pairs) /\ Len(M) = Len(q)
       /\ \A a \in 1..Len(q) : M[a] = Holding(w.slots, q[a])
  BY <1>0, <1>14, <1>o, ListingSpec
<1>16. x \in Pairs
  BY <1>o DEF Nodes, Pairs, Entry
<1>17. N \in Seq(Pairs) /\ Len(N) = Len(L) + 1
  BY <1>0, <1>2, <1>16, LedLen
<1>18. N[1] = x /\ \A a \in 2..(Len(L) + 1) : N[a] = L[a - 1]
  BY <1>0, <1>2 DEF Led
<1>19. Holding(w.slots, i) = x
  <2>1. Holding(h.slots, i) = x
    <3>1. (CHOOSE r \in h.slots[i] : TRUE) = node
      BY <1>5
    <3> QED BY <3>1 DEF Holding, Entry
  <2> QED BY <1>5, <1>11, <1>o, <2>1 DEF Relinks
<1>20. \A b \in 1..Len(p) : Holding(w.slots, p[b]) = L[b]
  <2> SUFFICES ASSUME NEW b \in 1..Len(p) PROVE Holding(w.slots, p[b]) = L[b]
    OBVIOUS
  <2>1. p[b] # i /\ p[b] \in 1..n /\ h.slots[p[b]] # {}
    BY <1>2, <1>4, <1>5
  <2> QED BY <1>2, <1>3, <1>8, <1>11, <2>1 DEF Relinks
<1>21. ASSUME NEW a \in 1..Len(q) PROVE M[a] = N[a]
  <2>1. CASE a = 1
    BY <1>12, <1>15, <1>18, <1>19, <2>1
  <2>2. CASE a # 1
    <3>1. PICK b \in 1..Len(p) : a = b + 1
      <4>1. a - 1 \in 1..Len(p) /\ a = (a - 1) + 1
        BY <1>2, <1>12, <2>2
      <4> QED BY <4>1
    <3>2. a \in 2..(Len(L) + 1) /\ a - 1 = b
      BY <1>2, <3>1
    <3>3. N[a] = L[b] /\ M[a] = Holding(w.slots, p[b])
      BY <1>12, <1>15, <1>18, <3>1, <3>2
    <3> QED BY <1>20, <3>3
  <2> QED BY <2>1, <2>2
<1>22. M = N
  <2>1. Len(M) = Len(N) /\ \A a \in 1..Len(M) : M[a] = N[a]
    BY <1>2, <1>12, <1>15, <1>17, <1>21
  <2> QED BY <1>15, <1>17, <2>1, SeqEqual
<1> QED BY <1>0, <1>14, <1>22

-----------------------------------------------------------------------------
\* What the operations do to the list that the variables hold.

\* The list runs through the slots of p.
Threads(p) == Thread(Len(slots), links, p)

\* After the step it runs through those of q, which hold M.
Goes(q, M) == Threads(q)' /\ Listing(slots', q) = M

LEMMA BecomesLinks ==
  ASSUME NEW n \in Nat, NEW l \in Lists(n), Becomes(l)
  PROVE  links' = l /\ slots' = l.slots /\ Len(slots') = n
<1>1. l = [slots |-> l.slots, front |-> l.front, back |-> l.back] /\ Len(l.slots) = n
  BY ListsLen DEF Lists
<1> QED BY <1>1 DEF Becomes, links

LEMMA PromotingList ==
  ASSUME StorageInv, NEW p, Threads(p), NEW j \in 1..Len(p), Becomes(Promote(links, p[j])),
         NEW L, L = Listing(slots, p)
  PROVE  \E q : Goes(q, Promoted(L, j))
<1> DEFINE n == Len(slots)
           w == Promote(links, p[j])
           q == Promoted(p, j)
<1>1. n \in Nat /\ links.slots = slots
  BY LinksSlots DEF StorageInv
<1>2. Thread(n, links, p) /\ w = Promote(links, p[j]) /\ q = Promoted(p, j) /\ Becomes(w)
  BY DEF Threads
<1> HIDE DEF n, w, q
<1>3. Thread(n, w, q) /\ Listing(w.slots, q) = Promoted(L, j)
  BY <1>1, <1>2, PromoteThread
<1>4. links' = w /\ slots' = w.slots /\ Len(slots') = n
  BY <1>1, <1>2, <1>3, BecomesLinks DEF Thread
<1> QED BY <1>3, <1>4 DEF Goes, Threads

LEMMA RewritingList ==
  ASSUME StorageInv, NEW p, Threads(p), NEW j \in 1..Len(p), NEW v \in Vals,
         Becomes(Write(links, p[j], "val", v)), NEW L, L = Listing(slots, p)
  PROVE  \E q : Goes(q, Revalued(L, j, v))
<1> DEFINE n == Len(slots)
           w == Write(links, p[j], "val", v)
<1>1. n \in Nat /\ links.slots = slots
  BY LinksSlots DEF StorageInv
<1>2. Thread(n, links, p) /\ w = Write(links, p[j], "val", v) /\ Becomes(w)
  BY DEF Threads
<1> HIDE DEF n, w
<1>3. Thread(n, w, p) /\ Listing(w.slots, p) = Revalued(L, j, v)
  BY <1>1, <1>2, RewriteThread
<1>4. links' = w /\ slots' = w.slots /\ Len(slots') = n
  BY <1>1, <1>2, <1>3, BecomesLinks DEF Thread
<1> QED BY <1>3, <1>4 DEF Goes, Threads

LEMMA RewritingFrontList ==
  ASSUME StorageInv, NEW p, Threads(p), NEW j \in 1..Len(p), NEW v \in Vals,
         Becomes(Promote(Write(links, p[j], "val", v), p[j])), NEW L, L = Listing(slots, p)
  PROVE  \E q : Goes(q, Promoted(Revalued(L, j, v), j))
<1> DEFINE n == Len(slots)
           u == Write(links, p[j], "val", v)
           w == Promote(u, p[j])
           q == Promoted(p, j)
<1>1. n \in Nat /\ links.slots = slots
  BY LinksSlots DEF StorageInv
<1>2. /\ Thread(n, links, p) /\ u = Write(links, p[j], "val", v) /\ w = Promote(u, p[j])
      /\ q = Promoted(p, j) /\ Becomes(w)
  BY DEF Threads
<1> HIDE DEF n, u, w, q
<1>3. Thread(n, u, p) /\ Listing(u.slots, p) = Revalued(L, j, v)
  BY <1>1, <1>2, RewriteThread
<1>4. Thread(n, w, q) /\ Listing(w.slots, q) = Promoted(Listing(u.slots, p), j)
  BY <1>1, <1>2, <1>3, PromoteThread
<1>5. links' = w /\ slots' = w.slots /\ Len(slots') = n
  BY <1>1, <1>2, <1>4, BecomesLinks DEF Thread
<1> QED BY <1>3, <1>4, <1>5 DEF Goes, Threads

LEMMA ReleasingList ==
  ASSUME StorageInv, NEW p, Threads(p), NEW j \in 1..Len(p), NEW k, Release(k, p[j]),
         NEW L, L = Listing(slots, p)
  PROVE  \E q : Goes(q, Cut(L, j))
<1> DEFINE n == Len(slots)
           w == Freed(links, p[j])
           q == Cut(p, j)
<1>1. n \in Nat /\ links.slots = slots
  BY LinksSlots DEF StorageInv
<1>2. Thread(n, links, p) /\ w = Freed(links, p[j]) /\ q = Cut(p, j) /\ Becomes(w)
  BY DEF Threads, Release, Freed
<1> HIDE DEF n, w, q
<1>3. Thread(n, w, q) /\ Listing(w.slots, q) = Cut(L, j)
  BY <1>1, <1>2, ReleaseThread
<1>4. links' = w /\ slots' = w.slots /\ Len(slots') = n
  BY <1>1, <1>2, <1>3, BecomesLinks DEF Thread
<1> QED BY <1>3, <1>4 DEF Goes, Threads

\* The slot a new entry is put in: vacant till now, or one more than there were.
Opens(e, i, node, h) ==
  /\ Opened(Len(slots), links, e, i, node, h)
  /\ Becomes(AttachFront(h, i))
  /\ e = Len(slots) \/ free = <<>>

LEMMA AdmitOpens ==
  ASSUME StorageInv, NEW k \in Keys, NEW v \in Vals, AdmitFront(k, v)
  PROVE  \E e, i, node, h : Opens(e, i, node, h) /\ Entry(node) = [key |-> k, val |-> v]
<1> DEFINE n == Len(slots)
           e == IF Recycles THEN n ELSE n + 1
           i == TakenSlot
           node == [key |-> k, val |-> v, prev |-> NIL, next |-> NIL]
           h == [links EXCEPT !.slots = Filled(node)]
<1>1. n \in Nat /\ links \in Lists(n) /\ Agree(n, slots, map, free)
  BY DEF StorageInv
<1>2. e \in Nat /\ n <= e
  BY <1>1
<1>3. node \in Nodes(n)
  BY <1>1 DEF Nodes, NIL
<1>4. /\ slots \in [1..n -> SUBSET Nodes(n)] /\ front \in 0..n /\ back \in 0..n
      /\ h.slots = Filled(node) /\ h.front = front /\ h.back = back
      /\ h = [slots |-> Filled(node), front |-> front, back |-> back]
  BY <1>1, LinksSlots DEF Lists, links
<1>5. /\ i = TakenSlot
      /\ (Recycles => e = n) /\ (~ Recycles => e = n + 1)
      /\ Becomes(AttachFront(h, i))
      /\ Entry(node) = [key |-> k, val |-> v]
  BY DEF AdmitFront, Entry
<1> HIDE DEF node, e, i, h
<1>6. free \in Seq(1..n)
  BY <1>1 DEF Agree
<1>7. /\ i \in 1..e
      /\ Filled(node) \in [1..e -> SUBSET Nodes(e)]
      /\ \A s \in 1..e : Filled(node)[s] = IF s = i THEN {node} ELSE slots[s]
      /\ \A s \in 1..e : s \in 1..n \/ s = i
      /\ i \in 1..n => slots[i] = {}
      /\ e = n \/ free = <<>>
  <2>1. CASE Recycles
    <3>1. free # <<>> /\ i = Last(free) /\ e = n
      BY <1>5, <2>1 DEF TakenSlot, Recycles
    <3>2. Len(free) \in DOMAIN free /\ i = free[Len(free)]
      BY <1>6, <3>1 DEF Last
    <3>3. i \in 1..n /\ KeysIn(slots, i) = {}
      BY <1>1, <1>6, <3>2 DEF Agree
    <3>4. slots[i] = {}
      BY <3>3 DEF KeysIn
    <3>5. Filled(node) = [slots EXCEPT ![i] = {node}]
      BY <2>1, <3>1 DEF Filled
    <3>6. /\ Filled(node) \in [1..n -> SUBSET Nodes(n)]
          /\ \A s \in 1..n : Filled(node)[s] = IF s = i THEN {node} ELSE slots[s]
      BY <1>3, <1>4, <3>3, <3>5
    <3> QED BY <3>1, <3>3, <3>4, <3>6
  <2>2. CASE ~ Recycles
    <3>1. free = <<>> /\ i = n + 1 /\ e = n + 1
      BY <1>5, <2>2 DEF TakenSlot, Recycles, n
    <3>2. Filled(node) = Append(slots, {node})
      BY <2>2 DEF Filled
    <3>3. Append(slots, {node}) \in [1..(n + 1) -> SUBSET Nodes(n + 1)]
      BY <1>1, <1>3, <1>4, ListsGrow
    <3>4. \A s \in 1..(n + 1) : Append(slots, {node})[s] = IF s = n + 1 THEN {node} ELSE slots[s]
      BY <1>1, <1>3, <1>4, ListsGrow
    <3>5. i \in 1..e /\ (\A s \in 1..e : s \in 1..n \/ s = i) /\ i \notin 1..n
      BY <1>1, <3>1
    <3> QED BY <3>1, <3>2, <3>3, <3>4, <3>5
  <2> QED BY <2>1, <2>2
<1>8. h \in Lists(e)
  <2>1. 0..n \subseteq 0..e
    BY <1>1, <1>2
  <2> QED BY <1>4, <1>7, <2>1 DEF Lists
<1>9. Opens(e, i, node, h)
  <2>1. \A s \in 1..e : h.slots[s] = IF s = i THEN {node} ELSE slots[s]
    BY <1>4, <1>7
  <2>2. n = Len(slots)
    BY DEF n
  <2> HIDE DEF n
  <2>3. Opened(n, links, e, i, node, h)
    BY <1>2, <1>3, <1>4, <1>7, <1>8, <2>1, LinksSlots DEF Opened
  <2> QED BY <1>5, <1>7, <2>2, <2>3 DEF Opens
<1> QED BY <1>5, <1>9

LEMMA AdmittingList ==
  ASSUME StorageInv, NEW p, Threads(p), NEW k \in Keys, NEW v \in Vals, AdmitFront(k, v),
         NEW L, L = Listing(slots, p), NEW x, x = [key |-> k, val |-> v]
  PROVE  \E q : Goes(q, Led(L, x))
<1> DEFINE n == Len(slots)
<1>1. PICK e, i, node, h : Opens(e, i, node, h) /\ Entry(node) = [key |-> k, val |-> v]
  BY AdmitOpens
<1> DEFINE w == AttachFront(h, i)
           q == Led(p, i)
<1>2. n \in Nat /\ links.slots = slots /\ links.front = front /\ links.back = back
  BY LinksSlots DEF StorageInv
<1>3. Thread(n, links, p) /\ w = AttachFront(h, i) /\ q = Led(p, i) /\ x = Entry(node)
  BY <1>1 DEF Threads
<1>4. Opened(n, links, e, i, node, h) /\ Becomes(w) /\ e \in Nat
  BY <1>1 DEF Opens, Opened
<1> HIDE DEF n, w, q
<1>5. Thread(e, w, q) /\ Listing(w.slots, q) = Led(Listing(links.slots, p), x)
  <2> DEFINE l == links
  <2>1. n \in Nat /\ Thread(n, l, p) /\ Opened(n, l, e, i, node, h)
    BY <1>2, <1>3, <1>4
  <2> HIDE DEF l
  <2>2. Thread(e, w, q) /\ Listing(w.slots, q) = Led(Listing(l.slots, p), x)
    BY <1>3, <2>1, AdmitThread
  <2> QED BY <2>2 DEF l
<1>6. links' = w /\ slots' = w.slots /\ Len(slots') = e
  BY <1>4, <1>5, BecomesLinks DEF Thread
<1> QED BY <1>2, <1>5, <1>6 DEF Goes, Threads

LEMMA KeptList ==
  ASSUME NEW p, Threads(p), UNCHANGED <<slots, front, back>>, NEW L, L = Listing(slots, p)
  PROVE  \E q : Goes(q, L)
<1>1. Goes(p, L)
  BY DEF Goes, Threads, links
<1> QED BY <1>1

\* An empty list.
LEMMA EmptyThread ==
  ASSUME NEW l, l = [slots |-> <<>>, front |-> NIL, back |-> NIL]
  PROVE  Thread(0, l, <<>>) /\ Listing(l.slots, <<>>) = <<>>
<1>1. l \in Lists(0) /\ Solo(0, l.slots)
  BY DEF Lists, Solo, NIL
<1>2. Chained(0, l, <<>>)
  BY DEF Chained, Place
<1>3. Listing(l.slots, <<>>) = <<>>
  BY DEF Listing
<1> QED BY <1>1, <1>2, <1>3 DEF Thread

LEMMA ClearedList ==
  ASSUME clear
  PROVE  \E q : Goes(q, <<>>)
<1>1. slots' = <<>> /\ Len(slots') = 0 /\ links' = [slots |-> <<>>, front |-> NIL, back |-> NIL]
  BY DEF clear, links
<1>2. Goes(<<>>, <<>>)
  BY <1>1, EmptyThread DEF Goes, Threads
<1> QED BY <1>2

\* The place of an indexed key, and the key at a place.
LEMMA PlaceOfKey ==
  ASSUME StorageInv, NEW p, Threads(p), NEW k \in DOMAIN map, NEW L, L = Listing(slots, p)
  PROVE  \E j \in 1..Len(p) : p[j] = map[k] /\ L[j].key = k /\ ValueIn(map[k]) = {L[j].val}
<1> DEFINE n == Len(slots)
           i == map[k]
<1>1. Agree(n, slots, map, free) /\ links.slots = slots
  BY LinksSlots DEF StorageInv
<1>2. i \in 1..n /\ k \in KeysIn(slots, i) /\ \A a, b \in KeysIn(slots, i) : a = b
  BY <1>1 DEF Agree
<1> HIDE DEF i
<1>3. slots[i] # {}
  BY <1>2 DEF KeysIn
<1>4. PICK j \in 1..Len(p) : p[j] = i
  BY <1>1, <1>2, <1>3 DEF Threads, Thread
<1>5. PICK node \in Nodes(n) : slots[i] = {node}
  BY <1>1, <1>2, <1>3 DEF Threads, Thread, Solo
<1>6. node.key = k
  BY <1>2, <1>5 DEF KeysIn
<1>7. (CHOOSE r \in slots[i] : TRUE) = node
  BY <1>5
<1>8. L[j].key = k /\ L[j].val = node.val
  BY <1>4, <1>6, <1>7 DEF Listing, Holding
<1>9. ValueIn(i) = {node.val}
  BY <1>5 DEF ValueIn
<1> QED BY <1>4, <1>8, <1>9 DEF i

LEMMA KeyAtPlace ==
  ASSUME StorageInv, NEW p, Threads(p), NEW j \in 1..Len(p), NEW L, L = Listing(slots, p)
  PROVE  /\ p[j] \in 1..Len(slots) /\ L[j].key \in KeysIn(slots, p[j])
         /\ L[j].key \in Unsupported \/ (L[j].key \in DOMAIN map /\ map[L[j].key] = p[j])
         /\ \E node \in Nodes(Len(slots)) : slots[p[j]] = {node} /\ L[j] = Entry(node)
<1> DEFINE n == Len(slots)
           i == p[j]
<1>1. Agree(n, slots, map, free) /\ links.slots = slots
  BY LinksSlots DEF StorageInv
<1>2. i \in 1..n /\ slots[i] # {}
  BY <1>1 DEF Threads, Thread, Chained
<1> HIDE DEF i
<1>3. PICK node \in Nodes(n) : slots[i] = {node}
  BY <1>1, <1>2 DEF Threads, Thread, Solo
<1>4. (CHOOSE r \in slots[i] : TRUE) = node
  BY <1>3
<1>5. L[j] = Entry(node)
  BY <1>4 DEF Listing, Holding, Entry, i
<1>6. node.key \in KeysIn(slots, i) /\ L[j].key = node.key
  BY <1>3, <1>5 DEF KeysIn, Entry
<1>7. L[j].key \in Unsupported \/ (L[j].key \in DOMAIN map /\ map[L[j].key] = i)
  BY <1>1, <1>2, <1>6 DEF Agree
<1> QED BY <1>2, <1>3, <1>5, <1>6, <1>7 DEF i

\* The back is the last of the list, and there is none if the list is empty.
LEMMA BackPlace ==
  ASSUME StorageInv, NEW p, Threads(p)
  PROVE  /\ Len(p) \in Nat
         /\ Len(p) = 0 => back = NIL
         /\ Len(p) # 0 => Len(p) \in 1..Len(p) /\ back = p[Len(p)] /\ back # NIL /\ slots[back] # {}
<1>1. links.slots = slots /\ links.back = back
  BY LinksSlots
<1>2. /\ p \in Seq(1..Len(slots)) /\ back = Place(p, Len(p))
      /\ \A a \in 1..Len(p) : slots[p[a]] # {}
  BY <1>1 DEF Threads, Thread, Chained
<1>3. Len(p) \in Nat /\ \A a \in 1..Len(p) : p[a] # NIL
  BY <1>2 DEF NIL
<1> QED BY <1>2, <1>3 DEF Place

-----------------------------------------------------------------------------
\* What a lookup finds.

\* Every entry under a supported key has that key's value in f.
AllLatest(L, f) == \A a \in 1..Len(L) : L[a].key \in Unsupported \/ L[a].val = f[L[a].key]

\* The list and what it holds, as the history of puts wants it.
Listed(p) == Threads(p) /\ AllLatest(Listing(slots, p), latest)

LatestInv == StorageInv /\ touch_on_get \in BOOLEAN /\ latest \in [Keys -> Vals] /\ \E p : Listed(p)

\* The entries of the list.
LEMMA EntriesOf ==
  ASSUME StorageInv, NEW p, Threads(p), NEW L, L = Listing(slots, p)
  PROVE  /\ L \in Seq(Pairs) /\ Len(L) = Len(p) /\ Len(p) \in Nat
         /\ \A a, b \in 1..Len(L) : L[a].key \notin Unsupported /\ L[a].key = L[b].key => a = b
<1>1. Len(slots) \in Nat /\ Thread(Len(slots), links, p) /\ L = Listing(links.slots, p)
  BY LinksSlots DEF StorageInv, Threads
<1>2. L \in Seq(Pairs) /\ Len(L) = Len(p) /\ Len(p) \in Nat
  BY <1>1, ListingSpec
<1>3. ASSUME NEW a \in 1..Len(L), NEW b \in 1..Len(L), L[a].key \notin Unsupported, L[a].key = L[b].key
      PROVE  a = b
  <2>1. p[a] = map[L[a].key] /\ p[b] = map[L[b].key]
    BY <1>2, <1>3, KeyAtPlace
  <2> QED BY <1>2, <1>3, <2>1 DEF Threads, Thread, Chained
<1> QED BY <1>2, <1>3

\* Promotion, and taking an entry out, leave no new entry.
LEMMA LatestPromoted ==
  ASSUME NEW L \in Seq(Pairs), NEW j \in 1..Len(L), NEW f, AllLatest(L, f), NEW M, M = Promoted(L, j)
  PROVE  AllLatest(M, f)
<1>1. SameRange(L, M)
  BY PromotedSame
<1>2. \A a \in 1..Len(M) : \E b \in 1..Len(L) : L[b] = M[a]
  BY <1>1 DEF SameRange
<1> QED BY <1>2 DEF AllLatest

LEMMA LatestCut ==
  ASSUME NEW L \in Seq(Pairs), NEW j \in 1..Len(L), NEW f, AllLatest(L, f), NEW M, M = Cut(L, j)
  PROVE  AllLatest(M, f)
<1>1. Len(M) = Len(L) - 1 /\ Len(L) \in Nat
  BY CutSpec
<1>2. \A a \in 1..(Len(L) - 1) : (a < j => M[a] = L[a]) /\ (a >= j => M[a] = L[a + 1])
  BY DEF Cut
<1>3. ASSUME NEW a \in 1..Len(M) PROVE \E b \in 1..Len(L) : L[b] = M[a]
  <2>1. CASE a < j
    BY <1>1, <1>2, <2>1
  <2>2. CASE a >= j
    <3>1. a + 1 \in 1..Len(L) /\ a \in 1..(Len(L) - 1)
      BY <1>1
    <3> QED BY <1>2, <2>2, <3>1
  <2> QED BY <1>1, <2>1, <2>2
<1> QED BY <1>3 DEF AllLatest

\* Rewriting the value of a key gives it the value put last, which was put
\* under that key alone.
LEMMA LatestRevalued ==
  ASSUME NEW L \in Seq(Pairs), NEW j \in 1..Len(L), NEW f \in [Keys -> Vals], AllLatest(L, f),
         \A a, b \in 1..Len(L) : L[a].key \notin Unsupported /\ L[a].key = L[b].key => a = b,
         NEW k \in Keys, k \notin Unsupported, L[j].key = k,
         NEW v \in Vals, NEW M, M = Revalued(L, j, v), NEW g, g = [f EXCEPT ![k] = v]
  PROVE  AllLatest(M, g)
<1>1. /\ M \in Seq(Pairs) /\ Len(M) = Len(L)
      /\ M[j] = [key |-> L[j].key, val |-> v]
      /\ \A a \in 1..Len(L) : a # j => M[a] = L[a]
  BY RevaluedSpec
<1>2. g[k] = v /\ \A x \in Keys : x # k => g[x] = f[x]
  OBVIOUS
<1>3. \A a \in 1..Len(L) : L[a].key \in Keys
  <2>1. \A a \in 1..Len(L) : L[a] \in Pairs
    OBVIOUS
  <2> QED BY <2>1 DEF Pairs
<1>4. ASSUME NEW a \in 1..Len(L), M[a].key \notin Unsupported
      PROVE  M[a].val = g[M[a].key]
  <2>1. CASE a = j
    <3>1. M[a].val = v /\ M[a].key = k
      BY <1>1, <2>1
    <3> QED BY <1>2, <3>1
  <2>2. CASE a # j
    <3>1. M[a] = L[a] /\ L[a].key # k
      BY <1>1, <1>4, <2>2
    <3>2. L[a].val = f[L[a].key]
      BY <1>4, <3>1 DEF AllLatest
    <3> QED BY <1>2, <1>3, <3>1, <3>2
  <2> QED BY <2>1, <2>2
<1> QED BY <1>1, <1>4 DEF AllLatest

\* A new entry has the value put last; under a supported key it is the only one.
LEMMA LatestLed ==
  ASSUME NEW L \in Seq(Pairs), NEW f \in [Keys -> Vals], AllLatest(L, f),
         NEW k \in Keys, NEW v \in Vals,
         k \in Unsupported \/ \A a \in 1..Len(L) : L[a].key # k,
         NEW x, x = [key |-> k, val |-> v], NEW M, M = Led(L, x), NEW g, g = [f EXCEPT ![k] = v]
  PROVE  AllLatest(M, g)
<1>1. x \in Pairs
  BY DEF Pairs
<1>2. Len(M) = Len(L) + 1 /\ Len(L) \in Nat
  BY <1>1, LedLen
<1>3. M[1] = x /\ \A a \in 2..(Len(L) + 1) : M[a] = L[a - 1]
  BY <1>2 DEF Led
<1>4. g[k] = v /\ \A y \in Keys : y # k => g[y] = f[y]
  OBVIOUS
<1>5. \A a \in 1..Len(L) : L[a].key \in Keys
  <2>1. \A a \in 1..Len(L) : L[a] \in Pairs
    OBVIOUS
  <2> QED BY <2>1 DEF Pairs
<1>6. ASSUME NEW a \in 1..Len(M), M[a].key \notin Unsupported
      PROVE  M[a].val = g[M[a].key]
  <2>1. CASE a = 1
    BY <1>3, <1>4, <2>1
  <2>2. CASE a # 1
    <3> DEFINE b == a - 1
    <3>1. b \in 1..Len(L) /\ M[a] = L[b]
      BY <1>2, <1>3, <2>2
    <3> HIDE DEF b
    <3>2. L[b].val = f[L[b].key]
      BY <1>6, <3>1 DEF AllLatest
    <3>3. L[b].key # k
      BY <1>6, <3>1
    <3> QED BY <1>4, <1>5, <3>1, <3>2, <3>3
  <2> QED BY <2>1, <2>2
<1> QED BY <1>6 DEF AllLatest

\* The steps keep LatestInv.
LEMMA GoesLatest ==
  ASSUME NEW M, \E q : Goes(q, M), AllLatest(M, latest')
  PROVE  \E q : Listed(q)'
<1>1. PICK q : Goes(q, M)
  OBVIOUS
<1>2. Listed(q)'
  BY <1>1 DEF Goes, Listed
<1> QED BY <1>2

LEMMA StaysLatest ==
  ASSUME NEW p, Listed(p), UNCHANGED <<slots, front, back, latest>>
  PROVE  \E q : Listed(q)'
<1>1. Listed(p)'
  BY DEF Listed, Threads, links
<1> QED BY <1>1

LEMMA LatestNext == LatestInv /\ [CNext]_<<vars, cvars>> => (\E p : Listed(p))'
<1> SUFFICES ASSUME LatestInv, [CNext]_<<vars, cvars>>
             PROVE  \E q : Listed(q)'
  OBVIOUS
<1>1. StorageInv /\ touch_on_get \in BOOLEAN /\ latest \in [Keys -> Vals]
  BY DEF LatestInv
<1>2. PICK p : Listed(p)
  BY DEF LatestInv
<1> DEFINE L == Listing(slots, p)
<1>3. Threads(p) /\ AllLatest(L, latest) /\ L = Listing(slots, p)
  BY <1>2 DEF Listed
<1> HIDE DEF L
<1>4. /\ L \in Seq(Pairs) /\ Len(L) = Len(p) /\ Len(p) \in Nat
      /\ \A a, b \in 1..Len(L) : L[a].key \notin Unsupported /\ L[a].key = L[b].key => a = b
  BY <1>1, <1>3, EntriesOf
<1>5. ASSUME UNCHANGED <<slots, front, back, latest>> PROVE \E q : Listed(q)'
  BY <1>2, <1>5, StaysLatest
<1>6. \A k \in DOMAIN map : k \notin Unsupported
  BY <1>1 DEF StorageInv, Agree
<1>7. CASE UNCHANGED <<vars, cvars>>
  BY <1>5, <1>7 DEF vars, cvars
<1>8. ASSUME NEW k \in Keys, Get(k) PROVE \E q : Listed(q)'
  <2>1. latest' = latest /\ Access(k, touch_on_get)
    BY <1>8 DEF Get, cvars
  <2>2. CASE Absent(k)
    BY <1>5, <2>1, <2>2 DEF Absent
  <2>3. CASE k \in DOMAIN map /\ Becomes(links)
    <3>1. UNCHANGED <<slots, front, back>>
      BY <2>3, LinksSlots DEF Becomes
    <3> QED BY <1>5, <2>1, <3>1
  <2>4. CASE k \in DOMAIN map /\ Becomes(Promote(links, map[k]))
    <3>1. PICK j \in 1..Len(p) : p[j] = map[k] /\ L[j].key = k
      BY <1>1, <1>3, <2>4, PlaceOfKey
    <3>2. \E q : Goes(q, Promoted(L, j))
      BY <1>1, <1>3, <2>4, <3>1, PromotingList
    <3>3. AllLatest(Promoted(L, j), latest')
      BY <1>3, <1>4, <2>1, LatestPromoted
    <3> QED BY <3>2, <3>3, GoesLatest
  <2> QED BY <1>1, <2>1, <2>2, <2>3, <2>4 DEF Access
<1>9. ASSUME NEW k \in Keys, NEW v \in Vals, PutLive(k, v) PROVE \E q : Listed(q)'
  <2>1. latest' = [latest EXCEPT ![k] = v] /\ k \in DOMAIN map
    BY <1>9 DEF PutLive
  <2>2. PICK j \in 1..Len(p) : p[j] = map[k] /\ L[j].key = k
    BY <1>1, <1>3, <2>1, PlaceOfKey
  <2> DEFINE M == Revalued(L, j, v)
  <2>3. M \in Seq(Pairs) /\ Len(M) = Len(L)
    BY <1>4, <2>2, RevaluedLen
  <2>4. AllLatest(M, latest')
    <3> DEFINE f == latest
               g == latest'
    <3>1. f \in [Keys -> Vals] /\ AllLatest(L, f) /\ g = [f EXCEPT ![k] = v] /\ k \notin Unsupported
      BY <1>1, <1>3, <1>6, <2>1
    <3> HIDE DEF f, g
    <3>2. AllLatest(M, g)
      BY <1>4, <2>2, <3>1, LatestRevalued
    <3> QED BY <3>2 DEF g
  <2>5. M = Revalued(L, j, v)
    OBVIOUS
  <2> HIDE DEF M
  <2>6. CASE Becomes(Write(links, map[k], "val", v))
    <3>1. \E q : Goes(q, M)
      BY <1>1, <1>3, <2>2, <2>5, <2>6, RewritingList
    <3> QED BY <2>4, <3>1, GoesLatest
  <2>7. CASE Becomes(Promote(Write(links, map[k], "val", v), map[k]))
    <3>1. \E q : Goes(q, Promoted(M, j))
      BY <1>1, <1>3, <2>2, <2>5, <2>7, RewritingFrontList
    <3>2. AllLatest(Promoted(M, j), latest')
      BY <1>4, <2>3, <2>4, LatestPromoted
    <3> QED BY <3>1, <3>2, GoesLatest
  <2> QED BY <1>9, <2>1, <2>6, <2>7 DEF PutLive, RewriteFront, update_value, Absent
<1>10. ASSUME NEW k \in Keys, NEW v \in Vals, PutNew(k, v) PROVE \E q : Listed(q)'
  <2>1. latest' = [latest EXCEPT ![k] = v] /\ AdmitFront(k, v) /\ k \notin DOMAIN map
    BY <1>10 DEF PutNew, AdmitFront
  <2> DEFINE x == [key |-> k, val |-> v]
  <2>2. \E q : Goes(q, Led(L, x))
    BY <1>1, <1>3, <2>1, AdmittingList
  <2>3. k \in Unsupported \/ \A a \in 1..Len(L) : L[a].key # k
    BY <1>1, <1>3, <1>4, <2>1, KeyAtPlace
  <2>4. AllLatest(Led(L, x), latest')
    <3> DEFINE f == latest
               g == latest'
               M == Led(L, x)
    <3>1. /\ f \in [Keys -> Vals] /\ AllLatest(L, f) /\ g = [f EXCEPT ![k] = v]
          /\ M = Led(L, x) /\ x = [key |-> k, val |-> v]
      BY <1>1, <1>3, <2>1
    <3> HIDE DEF f, g, x, M
    <3>2. AllLatest(M, g)
      BY <1>4, <2>3, <3>1, LatestLed
    <3> QED BY <3>2 DEF g, M
  <2> QED BY <2>2, <2>4, GoesLatest
<1>11. CASE PutPop
  <2>1. latest' = latest /\ pop_back
    BY <1>11 DEF PutPop
  <2>2. CASE UNCHANGED <<map, stray, slots, free, front, back>>
    BY <1>5, <2>1, <2>2
  <2>3. ASSUME back # NIL, NEW node \in slots[back], Release(node.key, back) PROVE \E q : Listed(q)'
    <3>1. Len(p) \in 1..Len(p) /\ back = p[Len(p)]
      BY <1>1, <1>3, <2>3, BackPlace
    <3>2. \E q : Goes(q, Cut(L, Len(p)))
      BY <1>1, <1>3, <2>3, <3>1, ReleasingList
    <3>3. AllLatest(Cut(L, Len(p)), latest')
      BY <1>3, <1>4, <2>1, <3>1, LatestCut
    <3> QED BY <3>2, <3>3, GoesLatest
  <2> QED BY <2>1, <2>2, <2>3 DEF pop_back
<1>12. CASE Clear
  <2>1. \E q : Goes(q, <<>>)
    BY <1>12, ClearedList DEF Clear
  <2>2. AllLatest(<<>>, latest')
    BY DEF AllLatest
  <2> QED BY <2>1, <2>2, GoesLatest
<1> QED BY <1>7, <1>8, <1>9, <1>10, <1>11, <1>12 DEF CNext

\* What is found under a key an LRU or FIFO cache still indexes is what was put
\* there last, for any keys, values and capacity, and however many slots were
\* recycled between the two, by supported or unsupported keys
\* (src/policy.rs:35-73, src/key.rs:64-68).
THEOREM FoundIsLatest == CSpec => []ServesLatest
<1>1. CInit => LatestInv
  <2> SUFFICES ASSUME CInit PROVE LatestInv
    OBVIOUS
  <2>1. Threads(<<>>) /\ Listing(slots, <<>>) = <<>>
    <3>1. links = [slots |-> <<>>, front |-> NIL, back |-> NIL] /\ slots = <<>> /\ Len(slots) = 0
      BY DEF CInit, Init, links
    <3> QED BY <3>1, EmptyThread DEF Threads
  <2>2. Listed(<<>>)
    BY <2>1 DEF Listed, AllLatest
  <2> QED BY <2>2, InitStorage DEF CInit, LatestInv
<1>2. LatestInv /\ [CNext]_<<vars, cvars>> => LatestInv'
  <2> SUFFICES ASSUME LatestInv, [CNext]_<<vars, cvars>> PROVE LatestInv'
    OBVIOUS
  <2>1. StorageInv' /\ touch_on_get' \in BOOLEAN
    BY CacheStep DEF LatestInv
  <2>2. latest' \in [Keys -> Vals]
    BY DEF LatestInv, CNext, Get, PutLive, PutNew, PutPop, Clear, cvars
  <2> QED BY <2>1, <2>2, LatestNext DEF LatestInv
<1>3. LatestInv => ServesLatest
  <2> SUFFICES ASSUME LatestInv, NEW k \in DOMAIN map PROVE ValueIn(map[k]) = {latest[k]}
    BY DEF ServesLatest
  <2>1. PICK p : Listed(p)
    BY DEF LatestInv
  <2> DEFINE L == Listing(slots, p)
  <2>2. StorageInv /\ Threads(p) /\ AllLatest(L, latest) /\ L = Listing(slots, p)
    BY <2>1 DEF LatestInv, Listed
  <2> HIDE DEF L
  <2>3. PICK j \in 1..Len(p) : L[j].key = k /\ ValueIn(map[k]) = {L[j].val}
    BY <2>2, PlaceOfKey
  <2>4. Len(L) = Len(p) /\ k \notin Unsupported
    BY <2>2, EntriesOf DEF StorageInv, Agree
  <2> QED BY <2>2, <2>3, <2>4 DEF AllLatest
<1> QED BY <1>1, <1>2, <1>3, PTL DEF CSpec

-----------------------------------------------------------------------------
\* How much is stored.

\* The list is no longer than the index thinks, nor than the cache may hold.
Bounded(p) ==
  /\ Threads(p)
  /\ Len(p) <= MapLen /\ Len(p) <= capacity + (IF over THEN 1 ELSE 0)

BoundInv ==
  /\ StorageInv /\ touch_on_get \in BOOLEAN /\ capacity \in Nat /\ over \in BOOLEAN
  /\ stray \in Nat /\ IsFiniteSet(DOMAIN map)
  /\ \E p : Bounded(p)
  /\ Len(slots) <= capacity + 1

LEMMA PromotedLen ==
  ASSUME NEW S, NEW p \in Seq(S), NEW j \in 1..Len(p)
  PROVE  Promoted(p, j) \in Seq(S) /\ Len(Promoted(p, j)) = Len(p)
BY PromotedSpec DEF Moved

LEMMA CutLen ==
  ASSUME NEW S, NEW p \in Seq(S), NEW j \in 1..Len(p)
  PROVE  Cut(p, j) \in Seq(S) /\ Len(Cut(p, j)) = Len(p) - 1
BY CutSpec

\* As many slots are occupied as the list is long.
LEMMA OccupiedCount ==
  ASSUME StorageInv, NEW p, Threads(p)
  PROVE  Cardinality(Occupied) = Len(p) /\ Len(p) \in Nat
<1>1. links.slots = slots /\ DOMAIN slots = 1..Len(slots)
  BY LinksSlots, LenProperties DEF StorageInv
<1>2. /\ p \in Seq(1..Len(slots)) /\ \A a, b \in 1..Len(p) : p[a] = p[b] => a = b
      /\ \A i \in 1..Len(slots) : slots[i] # {} <=> \E a \in 1..Len(p) : p[a] = i
  BY <1>1 DEF Threads, Thread, Chained
<1>3. DOMAIN p = 1..Len(p) /\ Len(p) \in Nat /\ \A a \in 1..Len(p) : p[a] \in 1..Len(slots)
  BY <1>2
<1>4. Occupied = ToSet(p)
  <2>1. \A i : i \in Occupied <=> i \in 1..Len(slots) /\ \E a \in 1..Len(p) : p[a] = i
    BY <1>1, <1>2 DEF Occupied, Vacant
  <2>2. \A i : i \in ToSet(p) <=> \E a \in 1..Len(p) : p[a] = i
    BY <1>3 DEF ToSet
  <2> QED BY <1>3, <2>1, <2>2
<1> QED BY <1>2, <1>3, <1>4, InjectiveSeqCardinality

LEMMA GoesLen ==
  ASSUME StorageInv', NEW q, NEW M, Goes(q, M)
  PROVE  Len(q) = Len(M)
<1>1. Len(slots') \in Nat
  BY DEF StorageInv
<1>2. Thread(Len(slots'), links', q) /\ M = Listing(slots', q) /\ links'.slots = slots'
  BY DEF Goes, Threads, links
<1> DEFINE n == Len(slots')
           l == links'
<1>3. n \in Nat /\ Thread(n, l, q) /\ M = Listing(l.slots, q)
  BY <1>1, <1>2
<1> HIDE DEF n, l
<1> QED BY <1>3, ListingSpec

LEMMA GoesBounded ==
  ASSUME StorageInv', NEW M, \E q : Goes(q, M), Len(M) <= MapLen',
         Len(M) <= capacity' + (IF over' THEN 1 ELSE 0)
  PROVE  \E q : Bounded(q)'
<1>1. PICK q : Goes(q, M)
  OBVIOUS
<1>2. Len(q) = Len(M)
  BY <1>1, GoesLen
<1>3. Bounded(q)'
  BY <1>1, <1>2 DEF Goes, Bounded
<1> QED BY <1>3

\* Nothing is vacant: the arena is as large as the list is long.
LEMMA FullArena ==
  ASSUME StorageInv, NEW p, Threads(p), free = <<>>
  PROVE  Len(slots) = Len(p)
<1>1. ToSet(free) = {} /\ ToSet(free) = DOMAIN slots \ Occupied
  BY StorageCoherent DEF ArenaCoherent, ToSet
<1>2. DOMAIN slots = 1..Len(slots) /\ Len(slots) \in Nat /\ Occupied \subseteq DOMAIN slots
  BY LenProperties DEF StorageInv, Occupied
<1>3. Occupied = 1..Len(slots)
  BY <1>1, <1>2
<1>4. Cardinality(1..Len(slots)) = Len(slots)
  BY <1>2, FS_Interval
<1> QED BY <1>3, <1>4, OccupiedCount

\* What admission and release do to the index.
LEMMA AdmitCounts ==
  ASSUME IsFiniteSet(DOMAIN map), stray \in Nat, NEW k, NEW i, Indexes(k, i), k \notin DOMAIN map
  PROVE  IsFiniteSet(DOMAIN map') /\ stray' \in Nat /\ MapLen \in Nat /\ MapLen' = MapLen + 1
<1>1. Cardinality(DOMAIN map) \in Nat
  BY FS_CardinalityType
<1>2. CASE map' = map /\ stray' = stray + 1
  BY <1>1, <1>2 DEF MapLen
<1>3. CASE /\ map' = [j \in DOMAIN map \cup {k} |-> IF j = k THEN i ELSE map[j]]
           /\ stray' = stray
  <2>1. DOMAIN map' = DOMAIN map \cup {k}
    BY <1>3
  <2>2. IsFiniteSet(DOMAIN map') /\ Cardinality(DOMAIN map') = Cardinality(DOMAIN map) + 1
    BY <2>1, FS_AddElement
  <2> QED BY <1>1, <1>3, <2>2 DEF MapLen
<1> QED BY <1>2, <1>3 DEF Indexes

LEMMA ReleaseCounts ==
  ASSUME IsFiniteSet(DOMAIN map), stray \in Nat, NEW k, NEW i, Release(k, i)
  PROVE  IsFiniteSet(DOMAIN map') /\ stray' \in Nat /\ MapLen \in Nat /\ MapLen' \in Nat
         /\ MapLen - 1 <= MapLen'
<1>1. DOMAIN map' = DOMAIN map \ {k} /\ stray' = stray
  BY DEF Release
<1>2. IsFiniteSet(DOMAIN map') /\ Cardinality(DOMAIN map) \in Nat /\ Cardinality(DOMAIN map') \in Nat
  BY <1>1, FS_RemoveElement, FS_CardinalityType
<1>3. CASE k \in DOMAIN map
  <2>1. Cardinality(DOMAIN map') = Cardinality(DOMAIN map) - 1
    BY <1>1, <1>3, FS_RemoveElement
  <2> QED BY <1>1, <1>2, <2>1 DEF MapLen
<1>4. CASE k \notin DOMAIN map
  <2>1. DOMAIN map' = DOMAIN map
    BY <1>1, <1>4
  <2> QED BY <1>1, <1>2, <2>1 DEF MapLen
<1> QED BY <1>3, <1>4

\* The steps keep BoundInv.
LEMMA BoundNext == BoundInv /\ [CNext]_<<vars, cvars>> => BoundInv'
<1> SUFFICES ASSUME BoundInv, [CNext]_<<vars, cvars>>
             PROVE  BoundInv'
  OBVIOUS
<1>1. /\ StorageInv /\ touch_on_get \in BOOLEAN /\ capacity \in Nat /\ over \in BOOLEAN
      /\ stray \in Nat /\ IsFiniteSet(DOMAIN map) /\ Len(slots) <= capacity + 1
  BY DEF BoundInv
<1>2. PICK p : Bounded(p)
  BY DEF BoundInv
<1> DEFINE L == Listing(slots, p)
<1>3. /\ Threads(p) /\ L = Listing(slots, p)
      /\ Len(p) <= MapLen /\ Len(p) <= capacity + (IF over THEN 1 ELSE 0)
  BY <1>2 DEF Bounded
<1> HIDE DEF L
<1>4. L \in Seq(Pairs) /\ Len(L) = Len(p) /\ Len(p) \in Nat
  BY <1>1, <1>3, EntriesOf
<1>5. StorageInv' /\ touch_on_get' \in BOOLEAN
  BY <1>1, CacheStep
<1>6. MapLen \in Nat /\ Len(slots) \in Nat
  BY <1>1, FS_CardinalityType DEF MapLen, StorageInv
<1> DEFINE Goal == BoundInv'
<1>7. capacity' = capacity
  BY DEF CNext, Get, PutLive, PutNew, PutPop, Clear, cvars
\* Steps that leave the index, the length of the list and the arena alone.
<1>8. ASSUME UNCHANGED <<map, stray, over>>, Len(slots') = Len(slots),
             NEW M, \E q : Goes(q, M), Len(M) = Len(L)
      PROVE  Goal
  <2>1. MapLen' = MapLen
    BY <1>8 DEF MapLen
  <2>2. \E q : Bounded(q)'
    BY <1>3, <1>4, <1>5, <1>7, <1>8, <2>1, GoesBounded
  <2> QED BY <1>1, <1>5, <1>7, <1>8, <2>2 DEF BoundInv
<1>9. ASSUME UNCHANGED <<map, stray, slots, front, back, over>> PROVE Goal
  <2>1. \E q : Goes(q, L)
    BY <1>3, <1>9, KeptList
  <2> QED BY <1>8, <1>9, <2>1
<1>10. ASSUME NEW l \in Lists(Len(slots)), Becomes(l) PROVE Len(slots') = Len(slots)
  BY <1>6, <1>10, BecomesLinks
<1>11. links \in Lists(Len(slots))
  BY <1>1 DEF StorageInv
<1>12. CASE UNCHANGED <<vars, cvars>>
  BY <1>9, <1>12 DEF vars, cvars
<1>13. ASSUME NEW k \in Keys, Get(k) PROVE Goal
  <2>1. over' = over /\ Access(k, touch_on_get)
    BY <1>13 DEF Get, cvars
  <2>2. CASE Absent(k)
    BY <1>9, <2>1, <2>2 DEF Absent
  <2>3. CASE k \in DOMAIN map /\ Becomes(links) /\ UNCHANGED <<map, stray, free>>
    <3>1. UNCHANGED <<slots, front, back>>
      BY <2>3, LinksSlots DEF Becomes
    <3> QED BY <1>9, <2>1, <2>3, <3>1
  <2>4. CASE k \in DOMAIN map /\ Becomes(Promote(links, map[k])) /\ UNCHANGED <<map, stray, free>>
    <3>1. PICK j \in 1..Len(p) : p[j] = map[k]
      BY <1>1, <1>3, <2>4, PlaceOfKey
    <3>2. \E q : Goes(q, Promoted(L, j))
      BY <1>1, <1>3, <2>4, <3>1, PromotingList
    <3>3. Len(Promoted(L, j)) = Len(L)
      BY <1>4, PromotedLen
    <3>4. Promote(links, map[k]) \in Lists(Len(slots))
      BY <1>1, <1>6, <1>11, <2>4, IndexedSlot, PromoteSpec
    <3> QED BY <1>8, <1>10, <2>1, <2>4, <3>2, <3>3, <3>4
  <2> QED BY <1>1, <2>1, <2>2, <2>3, <2>4 DEF Access
<1>14. ASSUME NEW k \in Keys, NEW v \in Vals, PutLive(k, v) PROVE Goal
  <2>1. k \in DOMAIN map /\ over' = over
    BY <1>14 DEF PutLive
  <2>2. PICK j \in 1..Len(p) : p[j] = map[k]
    BY <1>1, <1>3, <2>1, PlaceOfKey
  <2> DEFINE M == Revalued(L, j, v)
             w == Write(links, map[k], "val", v)
  <2>3. M \in Seq(Pairs) /\ Len(M) = Len(L) /\ M = Revalued(L, j, v)
    BY <1>4, RevaluedLen
  <2>4. w \in Lists(Len(slots)) /\ w = Write(links, map[k], "val", v)
    BY <1>1, <1>6, <1>11, <2>1, IndexedSlot, WriteSpec
  <2> HIDE DEF M, w
  <2>5. CASE Becomes(w) /\ UNCHANGED <<map, stray, free>>
    <3>1. \E q : Goes(q, M)
      BY <1>1, <1>3, <2>2, <2>3, <2>4, <2>5, RewritingList
    <3> QED BY <1>8, <1>10, <2>1, <2>3, <2>4, <2>5, <3>1
  <2>6. CASE Becomes(Promote(w, map[k])) /\ UNCHANGED <<map, stray, free>>
    <3>1. \E q : Goes(q, Promoted(M, j))
      BY <1>1, <1>3, <2>2, <2>3, <2>4, <2>6, RewritingFrontList
    <3>2. Len(Promoted(M, j)) = Len(L)
      BY <1>4, <2>3, PromotedLen
    <3>3. Promote(w, map[k]) \in Lists(Len(slots))
      BY <1>1, <1>6, <2>1, <2>4, IndexedSlot, PromoteSpec
    <3> QED BY <1>8, <1>10, <2>1, <2>6, <3>1, <3>2, <3>3
  <2> QED BY <1>14, <2>1, <2>4, <2>5, <2>6 DEF PutLive, RewriteFront, update_value, Absent
<1>15. ASSUME NEW k \in Keys, NEW v \in Vals, PutNew(k, v) PROVE Goal
  <2>1. AdmitFront(k, v) /\ k \notin DOMAIN map /\ ~ over /\ over' = (MapLen' > capacity)
    BY <1>15 DEF PutNew, AdmitFront
  <2>2. /\ IsFiniteSet(DOMAIN map') /\ stray' \in Nat /\ MapLen' = MapLen + 1
    BY <1>1, <2>1, AdmitCounts DEF AdmitFront
  <2> DEFINE x == [key |-> k, val |-> v]
             M == Led(L, x)
  <2>3. \E q : Goes(q, M)
    BY <1>1, <1>3, <2>1, AdmittingList
  <2>4. Len(M) = Len(L) + 1
    <3>1. x \in Pairs
      BY DEF Pairs
    <3> HIDE DEF x
    <3> QED BY <1>4, <3>1, LedLen
  <2> HIDE DEF M
  <2>5. Len(M) <= MapLen' /\ Len(M) <= capacity + 1
    BY <1>1, <1>3, <1>4, <1>6, <2>1, <2>2, <2>4
  <2>6. Len(M) <= capacity' + (IF over' THEN 1 ELSE 0)
    <3>1. CASE MapLen' > capacity
      BY <1>7, <2>1, <2>5, <3>1
    <3>2. CASE ~ (MapLen' > capacity)
      BY <1>1, <1>4, <1>6, <1>7, <2>1, <2>2, <2>4, <2>5, <3>2
    <3> QED BY <3>1, <3>2
  <2>7. \E q : Bounded(q)'
    BY <1>5, <2>3, <2>5, <2>6, GoesBounded
  <2>8. Len(slots') <= capacity + 1
    <3>1. PICK e, i, node, h : Opens(e, i, node, h)
      BY <1>1, <2>1, AdmitOpens
    <3>2. /\ e \in Nat /\ h \in Lists(e) /\ i \in 1..e /\ Becomes(AttachFront(h, i))
          /\ \A s \in 1..e : s \in 1..Len(slots) \/ s = i
          /\ Len(slots) <= e
          /\ e = Len(slots) \/ free = <<>>
      BY <3>1 DEF Opens, Opened
    <3>3. Len(slots') = e
      BY <3>2, AttachFrontSpec, BecomesLinks
    <3>4. CASE e = Len(slots)
      BY <1>1, <3>3, <3>4
    <3>5. CASE free = <<>>
      <4>1. Len(slots) = Len(p)
        BY <1>1, <1>3, <3>5, FullArena
      <4>2. Len(slots) <= capacity
        BY <1>1, <1>3, <1>4, <2>1, <4>1
      <4>3. e <= Len(slots) + 1
        <5> SUFFICES ASSUME e > Len(slots) + 1 PROVE FALSE
          BY <1>6, <3>2
        <5>1. Len(slots) + 1 \in 1..e /\ Len(slots) + 2 \in 1..e
          BY <1>6, <3>2
        <5>2. Len(slots) + 1 \notin 1..Len(slots) /\ Len(slots) + 2 \notin 1..Len(slots)
          BY <1>6
        <5> QED BY <1>6, <3>2, <5>1, <5>2
      <4> QED BY <1>1, <1>6, <3>2, <3>3, <4>2, <4>3
    <3> QED BY <3>2, <3>4, <3>5
  <2> QED BY <1>1, <1>5, <1>7, <2>1, <2>2, <2>7, <2>8 DEF BoundInv
<1>16. CASE PutPop
  <2>1. over /\ over' = FALSE /\ pop_back
    BY <1>16 DEF PutPop
  <2>2. CASE /\ back # NIL => slots[back] = Vacant
             /\ UNCHANGED <<map, stray, slots, free, front, back>>
    <3>1. Len(p) = 0
      BY <1>1, <1>3, <2>2, BackPlace DEF Vacant
    <3>2. \E q : Goes(q, L)
      BY <1>3, <2>2, KeptList
    <3>3. MapLen' = MapLen
      BY <2>2 DEF MapLen
    <3>4. \E q : Bounded(q)'
      BY <1>1, <1>3, <1>4, <1>5, <1>6, <1>7, <2>1, <3>1, <3>2, <3>3, GoesBounded
    <3> QED BY <1>1, <1>5, <1>7, <2>1, <2>2, <3>4 DEF BoundInv
  <2>3. ASSUME back # NIL, NEW node \in slots[back], Release(node.key, back) PROVE Goal
    <3>1. Len(p) \in 1..Len(p) /\ back = p[Len(p)]
      BY <1>1, <1>3, <2>3, BackPlace
    <3> DEFINE M == Cut(L, Len(p))
    <3>2. \E q : Goes(q, M)
      BY <1>1, <1>3, <2>3, <3>1, ReleasingList
    <3>3. Len(M) = Len(p) - 1
      BY <1>4, <3>1, CutLen
    <3> HIDE DEF M
    <3>4. IsFiniteSet(DOMAIN map') /\ stray' \in Nat /\ MapLen' \in Nat /\ MapLen - 1 <= MapLen'
      BY <1>1, <2>3, ReleaseCounts
    <3>5. Len(M) <= MapLen' /\ Len(M) <= capacity
      BY <1>1, <1>3, <1>4, <1>6, <2>1, <3>3, <3>4
    <3>6. \E q : Bounded(q)'
      BY <1>1, <1>5, <1>7, <2>1, <3>2, <3>5, GoesBounded
    <3>7. Len(slots') = Len(slots)
      <4>1. back \in 1..Len(slots) /\ node.key \in KeysIn(slots, back)
        BY <1>1, <1>3, <2>3, <3>1, KeyAtPlace DEF KeysIn
      <4>2. Freed(links, back) \in Lists(Len(slots)) /\ Becomes(Freed(links, back))
        <5>1. Becomes(Freed(links, back))
          BY <2>3 DEF Release, Freed
        <5> DEFINE n == Len(slots)
                   l == links
        <5>2. n \in Nat /\ Thread(n, l, p) /\ Freed(links, back) = Freed(l, p[Len(p)])
          BY <1>3, <1>6, <3>1 DEF Threads
        <5> HIDE DEF n, l
        <5>3. Thread(n, Freed(l, p[Len(p)]), Cut(p, Len(p)))
          BY <3>1, <5>2, ReleaseThread
        <5> QED BY <5>1, <5>2, <5>3 DEF Thread, n
      <4> QED BY <1>10, <4>2
    <3> QED BY <1>1, <1>5, <1>7, <2>1, <3>4, <3>6, <3>7 DEF BoundInv
  <2> QED BY <2>1, <2>2, <2>3 DEF pop_back
<1>17. CASE Clear
  <2>1. /\ clear /\ over' = over
        /\ map' = <<>> /\ stray' = 0 /\ slots' = <<>>
    BY <1>17 DEF Clear, clear, cvars
  <2>2. IsFiniteSet(DOMAIN map') /\ MapLen' = 0 /\ Len(slots') = 0
    <3>1. DOMAIN map' = {}
      BY <2>1
    <3> QED BY <2>1, <3>1, FS_EmptySet DEF MapLen
  <2>3. \E q : Goes(q, <<>>)
    BY <2>1, ClearedList
  <2>4. \E q : Bounded(q)'
    BY <1>1, <1>5, <1>7, <2>2, <2>3, GoesBounded
  <2> QED BY <1>1, <1>5, <1>7, <2>1, <2>2, <2>4 DEF BoundInv
<1> QED BY <1>12, <1>13, <1>14, <1>15, <1>16, <1>17 DEF CNext

\* An LRU or FIFO cache never stores more entries than its capacity, but for
\* the moment within a put between insert_front and pop_back, and its arena is
\* never larger than one slot more: not even puts under keys that no probe
\* finds, which inflate the index for good, make it hoard (src/stats.rs:38,
\* src/policy.rs:52-68).
THEOREM StorageAlwaysBounded == CSpec => []StorageBounded
<1>1. CInit => BoundInv
  <2> SUFFICES ASSUME CInit PROVE BoundInv
    OBVIOUS
  <2>1. /\ map = <<>> /\ stray = 0 /\ slots = <<>> /\ over = FALSE /\ capacity \in Nat
        /\ touch_on_get \in BOOLEAN /\ StorageInv
    BY InitStorage, CapacityAssumption DEF CInit, Init
  <2>2. Threads(<<>>)
    <3>1. links = [slots |-> <<>>, front |-> NIL, back |-> NIL] /\ Len(slots) = 0
      BY DEF CInit, Init, links
    <3> QED BY <3>1, EmptyThread DEF Threads
  <2>3. DOMAIN map = {} /\ IsFiniteSet(DOMAIN map) /\ MapLen = 0 /\ Len(slots) = 0
    <3>1. DOMAIN map = {}
      BY <2>1
    <3> QED BY <2>1, <3>1, FS_EmptySet DEF MapLen
  <2>4. Bounded(<<>>)
    BY <2>1, <2>2, <2>3 DEF Bounded
  <2>5. \E p : Bounded(p)
    BY <2>4
  <2>6. Len(slots) <= capacity + 1
    BY <2>1, <2>3
  <2> QED BY <2>1, <2>3, <2>5, <2>6 DEF BoundInv
<1>2. BoundInv => StorageBounded
  <2> SUFFICES ASSUME BoundInv PROVE StorageBounded
    OBVIOUS
  <2>1. PICK p : Bounded(p)
    BY DEF BoundInv
  <2>2. Cardinality(Occupied) = Len(p)
    BY <2>1, OccupiedCount DEF BoundInv, Bounded
  <2> QED BY <2>1, <2>2 DEF BoundInv, Bounded, StorageBounded
<1> QED BY <1>1, <1>2, BoundNext, PTL DEF CSpec

-----------------------------------------------------------------------------
\* The list as the specification of the order reads it: Walk follows the links
\* from the front on.  Walk is defined by recursion on a number, so what it
\* yields is shown by taking the least place where it would differ.

LEMMA LeastNat ==
  ASSUME NEW T, T \subseteq Nat, T # {}
  PROVE  \E m \in T : \A j \in T : m <= j
<1> DEFINE R == StrictSubsetOrdering(Nat)
           D == FiniteSubsetsOf(Nat)
           B(j) == 0..(j - 1)
           X == {B(j) : j \in T}
<1>1. IsWellFoundedOn(R, D)
  BY FS_StrictSubsetOrderingWellFounded
<1>2. \A j \in T : IsFiniteSet(B(j)) /\ B(j) \in SUBSET Nat
  BY FS_Interval
<1>3. X \subseteq D /\ X # {}
  BY <1>2 DEF FiniteSubsetsOf
<1>4. \A j, m \in T : j < m => <<B(j), B(m)>> \in R
  <2> SUFFICES ASSUME NEW j \in T, NEW m \in T, j < m
               PROVE  B(j) \in SUBSET Nat /\ B(m) \in SUBSET Nat /\ B(j) \subseteq B(m) /\ B(j) # B(m)
    BY DEF StrictSubsetOrdering
  <2>1. j \in Nat /\ m \in Nat /\ j \in B(m) /\ j \notin B(j)
    OBVIOUS
  <2> QED BY <1>2, <2>1
<1>5. X = {B(j) : j \in T}
  OBVIOUS
<1> HIDE DEF R, D, X
<1>6. PICK x \in X : \A y \in X : ~ (<<y, x>> \in R)
  BY <1>1, <1>3, WFMin
<1> HIDE DEF B
<1>7. PICK m \in T : x = B(m)
  BY <1>5, <1>6
<1>8. \A j \in T : ~ (j < m)
  BY <1>4, <1>5, <1>6, <1>7
<1> QED BY <1>8

\* A function that satisfies the equation of Walk shows that Walk does.
LEMMA WalkUnfolds ==
  ASSUME NEW g, g = [j \in 0..Len(slots) |->
                       IF j = 0 THEN front
                       ELSE IF g[j - 1] = NIL THEN NIL ELSE Neighbour(links, g[j - 1], "next")]
  PROVE  Walk = [j \in 0..Len(slots) |->
                   IF j = 0 THEN front
                   ELSE IF Walk[j - 1] = NIL THEN NIL ELSE Neighbour(links, Walk[j - 1], "next")]
<1>1. Walk = CHOOSE f : f = [j \in 0..Len(slots) |->
                               IF j = 0 THEN front
                               ELSE IF f[j - 1] = NIL THEN NIL ELSE Neighbour(links, f[j - 1], "next")]
  BY Zenon DEF Walk
<1> HIDE DEF Walk
<1> QED BY <1>1, Zenon

LEMMA WalkIs ==
  ASSUME StorageInv, NEW p, Threads(p)
  PROVE  /\ DOMAIN Walk = 0..Len(slots)
         /\ \A j \in 0..Len(slots) : Walk[j] = Place(p, j + 1)
<1> DEFINE n == Len(slots)
           g == [j \in 0..n |-> Place(p, j + 1)]
<1>1. n \in Nat /\ links.front = front
  BY LinksSlots DEF StorageInv
<1>2. /\ p \in Seq(1..n) /\ front = Place(p, 1)
      /\ \A a \in 1..Len(p) : Neighbour(links, p[a], "next") = Place(p, a + 1)
  BY <1>1 DEF Threads, Thread, Chained
<1>3. Len(p) \in Nat /\ \A a \in 1..Len(p) : p[a] # NIL
  BY <1>2 DEF NIL
\* What follows the slot at a place is the slot at the next.
<1>4. ASSUME NEW j \in 0..n, j # 0
      PROVE  Place(p, j + 1) =
               IF Place(p, j) = NIL THEN NIL ELSE Neighbour(links, Place(p, j), "next")
  <2>1. CASE j \in 1..Len(p)
    BY <1>2, <1>3, <2>1 DEF Place
  <2>2. CASE j \notin 1..Len(p)
    <3>1. j + 1 \notin 1..Len(p)
      BY <1>1, <1>3, <1>4, <2>2
    <3> QED BY <2>2, <3>1 DEF Place
  <2> QED BY <2>1, <2>2
<1>5. \A j \in 0..n : j # 0 => j - 1 \in 0..n /\ (j - 1) + 1 = j
  BY <1>1
<1>6. \A j \in 0..n : j # 0 => g[j - 1] = Place(p, j)
  BY <1>5
<1>7. g = [j \in 0..n |->
             IF j = 0 THEN front
             ELSE IF g[j - 1] = NIL THEN NIL ELSE Neighbour(links, g[j - 1], "next")]
  <2> DEFINE h == [j \in 0..n |->
                     IF j = 0 THEN front
                     ELSE IF g[j - 1] = NIL THEN NIL ELSE Neighbour(links, g[j - 1], "next")]
  <2>1. ASSUME NEW j \in 0..n PROVE g[j] = h[j]
    <3>1. CASE j = 0
      BY <1>1, <1>2, <3>1
    <3>2. CASE j # 0
      <4>1. g[j] = Place(p, j + 1) /\ g[j - 1] = Place(p, j)
        BY <1>6, <3>2
      <4>2. h[j] = IF g[j - 1] = NIL THEN NIL ELSE Neighbour(links, g[j - 1], "next")
        BY <3>2
      <4> QED BY <1>4, <3>2, <4>1, <4>2
    <3> QED BY <3>1, <3>2
  <2> QED BY <2>1
<1>8. Walk = [j \in 0..n |->
                IF j = 0 THEN front
                ELSE IF Walk[j - 1] = NIL THEN NIL ELSE Neighbour(links, Walk[j - 1], "next")]
  <2> HIDE DEF g
  <2> QED BY <1>7, WalkUnfolds
<1> HIDE DEF g, Walk, n
<1>9. /\ DOMAIN Walk = 0..n
      /\ 0 \in 0..n => Walk[0] = front
      /\ \A j \in 0..n : j # 0 =>
           Walk[j] = IF Walk[j - 1] = NIL THEN NIL ELSE Neighbour(links, Walk[j - 1], "next")
  <2>1. DOMAIN Walk = 0..n
    BY <1>8
  <2>2. ASSUME NEW j \in 0..n
        PROVE  Walk[j] = IF j = 0 THEN front
                         ELSE IF Walk[j - 1] = NIL THEN NIL ELSE Neighbour(links, Walk[j - 1], "next")
    BY <1>8
  <2> QED BY <2>1, <2>2
<1> DEFINE T == {j \in 0..n : Walk[j] # Place(p, j + 1)}
<1>10. T = {}
  <2> SUFFICES ASSUME T # {} PROVE FALSE
    OBVIOUS
  <2>1. T \subseteq Nat
    BY <1>1
  <2> HIDE DEF T
  <2>2. PICK j \in T : \A a \in T : j <= a
    BY <2>1, LeastNat
  <2>3. j \in 0..n /\ Walk[j] # Place(p, j + 1)
    BY DEF T
  <2>4. j # 0
    BY <1>2, <1>9, <2>3
  <2>5. j - 1 \in 0..n /\ j - 1 \notin T /\ (j - 1) + 1 = j
    BY <1>5, <2>1, <2>2, <2>3, <2>4
  <2>6. Walk[j - 1] = Place(p, j)
    BY <2>5 DEF T
  <2> QED BY <1>4, <1>9, <2>3, <2>4, <2>6
<1> QED BY <1>9, <1>10 DEF n

\* An injective sequence of slots is no longer than the arena.
LEMMA ShortEnough ==
  ASSUME StorageInv, NEW p, Threads(p)
  PROVE  Len(p) \in Nat /\ Len(slots) \in Nat /\ Len(p) <= Len(slots)
<1>1. Cardinality(Occupied) = Len(p) /\ Len(p) \in Nat
  BY OccupiedCount
<1>2. DOMAIN slots = 1..Len(slots) /\ Len(slots) \in Nat /\ Occupied \in SUBSET DOMAIN slots
  BY LenProperties DEF StorageInv, Occupied
<1>3. IsFiniteSet(1..Len(slots)) /\ Cardinality(1..Len(slots)) = Len(slots)
  BY <1>2, FS_Interval
<1>4. Cardinality(Occupied) <= Cardinality(1..Len(slots))
  BY <1>2, <1>3, FS_Subset
<1> QED BY <1>1, <1>2, <1>3, <1>4

\* So the entries met are those on the list.
ReadsAs == \A p : StorageInv /\ Threads(p) => AsList = Listing(slots, p)

LEMMA ListRead == ReadsAs
<1> SUFFICES ASSUME NEW p, StorageInv, Threads(p) PROVE AsList = Listing(slots, p)
  BY DEF ReadsAs
<1>1. /\ DOMAIN Walk = 0..Len(slots)
      /\ \A j \in 0..Len(slots) : Walk[j] = Place(p, j + 1)
  BY WalkIs
<1>2. Len(p) \in Nat /\ Len(slots) \in Nat /\ Len(p) <= Len(slots)
  BY ShortEnough
<1>3. p \in Seq(1..Len(slots)) /\ \A a \in 1..Len(p) : p[a] # NIL
  BY DEF Threads, Thread, Chained, NIL
<1> HIDE DEF Walk
<1>4. Linked = 0..(Len(p) - 1)
  <2>1. \A j : j \in Linked <=> j \in 0..Len(slots) /\ Place(p, j + 1) # NIL
    BY <1>1 DEF Linked
  <2>2. \A j \in 0..Len(slots) : Place(p, j + 1) # NIL <=> j + 1 \in 1..Len(p)
    BY <1>3 DEF Place
  <2>3. \A j : j \in 0..(Len(p) - 1) <=> j \in 0..Len(slots) /\ j + 1 \in 1..Len(p)
    BY <1>2
  <2> QED BY <2>1, <2>2, <2>3
<1>5. Cardinality(Linked) = Len(p)
  <2> DEFINE c == Len(p) - 1
  <2>1. c \in Int /\ 0 \in Int /\ (0 > c => Len(p) = 0) /\ (~ (0 > c) => c - 0 + 1 = Len(p))
    BY <1>2
  <2>2. Linked = 0..c
    BY <1>4
  <2> HIDE DEF c
  <2>3. Cardinality(0..c) = IF 0 > c THEN 0 ELSE c - 0 + 1
    BY <2>1, FS_Interval
  <2> QED BY <2>1, <2>2, <2>3
<1>6. \A j \in 1..Len(p) : Walk[j - 1] = p[j]
  <2> SUFFICES ASSUME NEW j \in 1..Len(p) PROVE Walk[j - 1] = p[j]
    OBVIOUS
  <2>1. j - 1 \in 0..Len(slots) /\ (j - 1) + 1 = j
    BY <1>2
  <2> QED BY <1>1, <2>1 DEF Place
<1>7. AsList = [j \in 1..Len(p) |-> Holding(slots, Walk[j - 1])]
  BY <1>5 DEF AsList, Holding
<1> QED BY <1>6, <1>7 DEF Listing

-----------------------------------------------------------------------------
\* The operations of the abstract list, in the terms used here.

UniqueKeys(m) == \A a, b \in 1..Len(m) : m[a].key = m[b].key => a = b

LEMMA RemoveAtCut ==
  ASSUME NEW S, NEW m \in Seq(S), NEW j \in 1..Len(m)
  PROVE  Order!RemoveAt(m, j) = Cut(m, j)
<1> DEFINE x == SubSeq(m, 1, j - 1)
           y == SubSeq(m, j + 1, Len(m))
           q == x \o y
<1>1. Len(m) \in Nat /\ j \in 1..Len(m)
  OBVIOUS
<1>2. x \in Seq(S) /\ Len(x) = j - 1 /\ \A a \in 1..(j - 1) : x[a] = m[a]
  BY <1>1, SubSeqProperties
<1>3. y \in Seq(S) /\ Len(y) = Len(m) - j /\ \A a \in 1..(Len(m) - j) : y[a] = m[j + a]
  BY <1>1, SubSeqProperties
<1> HIDE DEF x, y
<1>4. /\ q \in Seq(S) /\ Len(q) = Len(x) + Len(y)
      /\ \A a \in 1..(Len(x) + Len(y)) : q[a] = IF a <= Len(x) THEN x[a] ELSE y[a - Len(x)]
  BY <1>2, <1>3, ConcatProperties
<1> HIDE DEF q
<1>5. Cut(m, j) \in Seq(S) /\ Len(Cut(m, j)) = Len(m) - 1
  BY CutLen
<1>6. ASSUME NEW a \in 1..(Len(m) - 1) PROVE q[a] = Cut(m, j)[a]
  <2>1. CASE a < j
    <3>1. a \in 1..(j - 1) /\ a <= Len(x) /\ a \in 1..(Len(x) + Len(y))
      BY <1>1, <1>2, <1>3, <2>1
    <3>2. q[a] = m[a]
      BY <1>2, <1>4, <3>1
    <3> QED BY <2>1, <3>2 DEF Cut
  <2>2. CASE ~ (a < j)
    <3>1. /\ a - Len(x) \in 1..(Len(m) - j) /\ j + (a - Len(x)) = a + 1
          /\ ~ (a <= Len(x)) /\ a \in 1..(Len(x) + Len(y))
      BY <1>1, <1>2, <1>3, <2>2
    <3>2. q[a] = m[a + 1]
      BY <1>3, <1>4, <3>1
    <3> QED BY <2>2, <3>2 DEF Cut
  <2> QED BY <2>1, <2>2
<1>7. Len(q) = Len(m) - 1
  BY <1>1, <1>2, <1>3, <1>4
<1>8. q = Cut(m, j)
  <2>1. Len(q) = Len(Cut(m, j)) /\ \A a \in 1..Len(q) : q[a] = Cut(m, j)[a]
    BY <1>5, <1>6, <1>7
  <2> QED BY <1>4, <1>5, <2>1, SeqEqual
<1> QED BY <1>8 DEF q, x, y, Order!RemoveAt

LEMMA ConsLed ==
  ASSUME NEW S, NEW m \in Seq(S), NEW x \in S
  PROVE  Order!Cons(x, m) = Led(m, x)
<1> DEFINE q == <<x>> \o m
<1>1. <<x>> \in Seq(S) /\ Len(<<x>>) = 1 /\ Len(m) \in Nat
  OBVIOUS
<1>2. /\ q \in Seq(S) /\ Len(q) = Len(m) + 1 /\ q[1] = x
      /\ \A a \in 2..(Len(m) + 1) : q[a] = m[a - 1]
  BY <1>1, ConcatProperties
<1> HIDE DEF q
<1>3. Led(m, x) \in Seq(S) /\ Len(Led(m, x)) = Len(m) + 1
  BY LedLen
<1>4. \A a \in 1..(Len(m) + 1) : q[a] = Led(m, x)[a]
  BY <1>1, <1>2 DEF Led
<1>5. q = Led(m, x)
  BY <1>2, <1>3, <1>4, SeqEqual
<1> QED BY <1>5 DEF q, Order!Cons

\* The abstract list finds the key at its place.
LEMMA FoundPlace ==
  ASSUME NEW m \in Seq(Pairs), UniqueKeys(m), NEW j \in 1..Len(m), NEW k, m[j].key = k
  PROVE  /\ Order!Holds(m, k) /\ Order!Position(m, k) = j /\ m[j] \in Pairs
         /\ m[j] = [key |-> k, val |-> m[j].val]
         /\ Order!FoundIn(m, k) = {m[j].val}
<1>1. DOMAIN m = 1..Len(m) /\ m[j] \in Pairs
  OBVIOUS
<1>2. Order!Holds(m, k)
  BY <1>1 DEF Order!Holds
<1>3. Order!Position(m, k) = j
  <2>1. \A i \in DOMAIN m : m[i].key = k => i = j
    BY <1>1 DEF UniqueKeys
  <2> QED BY <1>1, <2>1 DEF Order!Position
<1>4. m[j] = [key |-> k, val |-> m[j].val]
  BY <1>1 DEF Pairs
<1> QED BY <1>1, <1>2, <1>3, <1>4 DEF Order!FoundIn, Order!ValueOf

LEMMA FoundIs ==
  ASSUME NEW m \in Seq(Pairs), UniqueKeys(m), NEW j \in 1..Len(m), NEW k, m[j].key = k
  PROVE  Order!FoundIn(m, k) = {m[j].val}
BY FoundPlace

LEMMA NotFound ==
  ASSUME NEW m \in Seq(Pairs), NEW k, \A a \in 1..Len(m) : m[a].key # k
  PROVE  ~ Order!Holds(m, k) /\ Order!FoundIn(m, k) = {}
BY DEF Order!Holds, Order!FoundIn

LEMMA OrderWithout ==
  ASSUME NEW m \in Seq(Pairs), UniqueKeys(m), NEW j \in 1..Len(m), NEW k, m[j].key = k
  PROVE  Order!Without(m, k) = Cut(m, j)
BY FoundPlace, RemoveAtCut DEF Order!Without

LEMMA OrderMove ==
  ASSUME NEW m \in Seq(Pairs), UniqueKeys(m), NEW j \in 1..Len(m), NEW k, m[j].key = k
  PROVE  Order!MoveToFront(m, k) = Promoted(m, j)
<1>1. Order!Holds(m, k) /\ Order!ValueOf(m, k) = m[j].val /\ m[j] \in Pairs
  BY FoundPlace DEF Order!ValueOf
<1>2. Order!Entry(k, m[j].val) = m[j]
  BY FoundPlace DEF Order!Entry
<1>3. Order!Cons(m[j], Cut(m, j)) = Led(Cut(m, j), m[j])
  BY <1>1, CutLen, ConsLed
<1> QED BY <1>1, <1>2, <1>3, OrderWithout DEF Order!MoveToFront, Order!InsertFront, Promoted

LEMMA OrderUpdate ==
  ASSUME NEW m \in Seq(Pairs), UniqueKeys(m), NEW j \in 1..Len(m), NEW k, m[j].key = k,
         NEW v \in Vals
  PROVE  Order!UpdateValue(m, k, v) = Revalued(m, j, v)
<1> DEFINE x == [key |-> k, val |-> v]
<1>1. Order!UpdateValue(m, k, v) = [m EXCEPT ![j] = x]
  BY FoundPlace DEF Order!UpdateValue, Order!ReplaceAt, Order!Entry
<1>2. m \in [1..Len(m) -> Pairs] /\ x = [key |-> m[j].key, val |-> v]
  BY LenProperties
<1> HIDE DEF x
<1>3. [m EXCEPT ![j] = x] = [a \in 1..Len(m) |-> IF a = j THEN x ELSE m[a]]
  BY <1>2
<1> QED BY <1>1, <1>2, <1>3 DEF Revalued

\* Taking out an entry whose value was rewritten takes out the entry.
LEMMA CutRevalued ==
  ASSUME NEW m \in Seq(Pairs), NEW j \in 1..Len(m), NEW v \in Vals
  PROVE  Cut(Revalued(m, j, v), j) = Cut(m, j)
<1> DEFINE r == Revalued(m, j, v)
<1>1. /\ r \in Seq(Pairs) /\ Len(r) = Len(m)
      /\ \A a \in 1..Len(m) : a # j => r[a] = m[a]
  <2>1. r \in Seq(Pairs) /\ Len(r) = Len(m)
    BY RevaluedLen
  <2> QED BY <2>1 DEF Revalued
<1> HIDE DEF r
<1>2. \A a \in 1..(Len(m) - 1) : (IF a < j THEN r[a] ELSE r[a + 1]) = (IF a < j THEN m[a] ELSE m[a + 1])
  BY <1>1
<1> QED BY <1>1, <1>2 DEF Cut, r

LEMMA OrderInsert ==
  ASSUME NEW m \in Seq(Pairs), UniqueKeys(m), NEW j \in 1..Len(m), NEW k \in Keys, m[j].key = k,
         NEW v \in Vals
  PROVE  Order!InsertFront(m, k, v) = Promoted(Revalued(m, j, v), j)
<1> DEFINE x == [key |-> k, val |-> v]
<1>1. x \in Pairs /\ Order!Entry(k, v) = x /\ x = [key |-> m[j].key, val |-> v]
  BY DEF Pairs, Order!Entry
<1>2. Revalued(m, j, v)[j] = x
  BY <1>1 DEF Revalued
<1> HIDE DEF x
<1>3. Order!Cons(x, Cut(m, j)) = Led(Cut(m, j), x)
  BY <1>1, CutLen, ConsLed
<1> QED BY <1>1, <1>2, <1>3, OrderWithout, CutRevalued DEF Order!InsertFront, Promoted

LEMMA OrderInsertNew ==
  ASSUME NEW m \in Seq(Pairs), NEW k \in Keys, \A a \in 1..Len(m) : m[a].key # k,
         NEW v \in Vals, NEW x, x = [key |-> k, val |-> v]
  PROVE  Order!InsertFront(m, k, v) = Led(m, x)
<1>1. Order!Without(m, k) = m
  BY NotFound DEF Order!Without
<1>2. x \in Pairs /\ Order!Entry(k, v) = x
  BY DEF Pairs, Order!Entry
<1>3. Order!Cons(x, m) = Led(m, x)
  BY <1>2, ConsLed
<1> QED BY <1>1, <1>2, <1>3 DEF Order!InsertFront

LEMMA FrontCut ==
  ASSUME NEW S, NEW m \in Seq(S), Len(m) # 0
  PROVE  Order!Front(m) = Cut(m, Len(m))
<1> DEFINE q == SubSeq(m, 1, Len(m) - 1)
<1>1. Len(m) \in Nat /\ Len(m) \in 1..Len(m)
  OBVIOUS
<1>2. /\ q \in Seq(S) /\ Len(q) = Len(m) - 1
      /\ \A a \in 1..(Len(m) - 1) : q[a] = m[a]
  <2> DEFINE c == Len(m) - 1
  <2>1. c \in Nat /\ \A a \in 1..c : m[a] \in S
    BY <1>1
  <2> HIDE DEF c
  <2>2. SubSeq(m, 1, c) \in Seq(S) /\ Len(SubSeq(m, 1, c)) = c
    BY <2>1
  <2>3. \A a \in 1..c : SubSeq(m, 1, c)[a] = m[a]
    BY <2>1
  <2> QED BY <2>2, <2>3 DEF c
<1> HIDE DEF q
<1>3. /\ Cut(m, Len(m)) \in Seq(S) /\ Len(Cut(m, Len(m))) = Len(m) - 1
  BY <1>1, CutLen
<1>4. \A a \in 1..(Len(m) - 1) : Cut(m, Len(m))[a] = m[a]
  BY <1>1 DEF Cut
<1>5. q = Cut(m, Len(m))
  BY <1>2, <1>3, <1>4, SeqEqual
<1> QED BY <1>5 DEF Order!Front, q

LEMMA OrderPop ==
  ASSUME NEW m \in Seq(Pairs), Len(m) # 0
  PROVE  Order!PopBack(m) = Cut(m, Len(m)) /\ Order!BackOf(m) = m[Len(m)] /\ m # <<>>
<1>1. m # <<>> /\ Order!Front(m) = Cut(m, Len(m))
  BY FrontCut
<1> QED BY <1>1 DEF Order!PopBack, Order!BackOf, Order!Last

-----------------------------------------------------------------------------
\* The storage implements the list.

ListInv == StorageInv /\ \E p : Threads(p)

LEMMA GoesList ==
  ASSUME StorageInv', ReadsAs', NEW M, \E q : Goes(q, M)
  PROVE  AsList' = M /\ (\E q : Threads(q))'
<1>1. PICK q : Goes(q, M)
  OBVIOUS
<1>2. AsList' = Listing(slots', q) /\ Listing(slots', q) = M
  BY <1>1 DEF ReadsAs, Goes
<1> QED BY <1>1, <1>2 DEF Goes

\* Every operation does to the list what the abstract operation does.
LEMMA OrderNext ==
  ASSUME Unsupported = {}, ListInv, [Next]_vars, ReadsAs, ReadsAs'
  PROVE  ListInv' /\ [Order!LNext]_(Order!lvars)
<1>1. StorageInv /\ StorageInv'
  BY NextStorage DEF ListInv, Kept
<1>2. PICK p : Threads(p)
  BY DEF ListInv
<1> DEFINE L == AsList
<1>3. L = Listing(slots, p)
  BY <1>1, <1>2 DEF ReadsAs
<1>4. L = AsList
  OBVIOUS
<1> HIDE DEF L
<1>5. L \in Seq(Pairs) /\ Len(L) = Len(p) /\ Len(p) \in Nat /\ UniqueKeys(L)
  BY <1>1, <1>2, <1>3, EntriesOf DEF UniqueKeys
<1> DEFINE Goal == ListInv' /\ [Order!LNext]_(Order!lvars)
\* What remains to be shown of a step that leads to the list M.
<1>6. ASSUME NEW M, \E q : Goes(q, M)
      PROVE  ListInv' /\ AsList' = M
  BY <1>1, <1>6, GoesList DEF ListInv
<1>7. ASSUME UNCHANGED <<slots, front, back>> PROVE ListInv' /\ AsList' = L
  <2>1. \E q : Goes(q, L)
    BY <1>2, <1>3, <1>7, KeptList
  <2> QED BY <1>6, <2>1
<1>8. ASSUME NEW k \in Keys, k \notin DOMAIN map
      PROVE  /\ \A a \in 1..Len(L) : L[a].key # k
             /\ ~ Order!Holds(L, k) /\ Order!FoundIn(L, k) = {}
  <2>1. \A a \in 1..Len(L) : L[a].key # k
    BY <1>1, <1>2, <1>3, <1>5, <1>8, KeyAtPlace
  <2> QED BY <1>5, <2>1, NotFound
<1>9. ASSUME NEW k \in DOMAIN map
      PROVE  \E j \in 1..Len(L) : /\ p[j] = map[k] /\ L[j].key = k
                                  /\ ValueIn(map[k]) = Order!FoundIn(L, k)
  <2>1. PICK j \in 1..Len(p) : p[j] = map[k] /\ L[j].key = k /\ ValueIn(map[k]) = {L[j].val}
    BY <1>1, <1>2, <1>3, <1>9, PlaceOfKey
  <2>2. Order!FoundIn(L, k) = {L[j].val}
    BY <1>5, <2>1, FoundIs
  <2> QED BY <1>5, <2>1, <2>2
<1>10. CASE UNCHANGED vars
  <2>1. ListInv' /\ AsList' = L /\ out' = out
    BY <1>7, <1>10 DEF vars
  <2> QED BY <1>4, <2>1 DEF Order!lvars
<1>11. ASSUME NEW k \in Keys, NEW promote \in BOOLEAN, Access(k, promote) PROVE Goal
  <2> SUFFICES ListInv' /\ Order!LAccess(k, promote)
    BY DEF Order!LNext
  <2>1. CASE Absent(k)
    <3>1. k \notin DOMAIN map /\ out' = {} /\ UNCHANGED <<slots, front, back>>
      BY <2>1 DEF Absent
    <3>2. ListInv' /\ AsList' = L
      BY <1>7, <3>1
    <3>3. ~ Order!Holds(L, k) /\ Order!FoundIn(L, k) = {}
      BY <1>8, <3>1
    <3> QED BY <1>4, <3>1, <3>2, <3>3 DEF Order!LAccess, Order!MoveToFront
  <2>2. CASE /\ k \in DOMAIN map
             /\ Becomes(IF promote THEN Promote(links, map[k]) ELSE links)
             /\ out' = ValueIn(map[k])
    <3>1. PICK j \in 1..Len(L) : /\ p[j] = map[k] /\ L[j].key = k
                                 /\ ValueIn(map[k]) = Order!FoundIn(L, k)
      BY <1>9, <2>2
    <3>2. out' = Order!FoundIn(L, k)
      BY <2>2, <3>1
    <3>3. CASE promote
      <4>1. \E q : Goes(q, Promoted(L, j))
        BY <1>1, <1>2, <1>3, <1>5, <2>2, <3>1, <3>3, PromotingList
      <4>2. ListInv' /\ AsList' = Promoted(L, j)
        BY <1>6, <4>1
      <4>3. Order!MoveToFront(L, k) = Promoted(L, j)
        BY <1>5, <3>1, OrderMove
      <4> QED BY <1>4, <3>2, <3>3, <4>2, <4>3 DEF Order!LAccess
    <3>4. CASE ~ promote
      <4>1. UNCHANGED <<slots, front, back>>
        BY <2>2, <3>4, LinksSlots DEF Becomes
      <4>2. ListInv' /\ AsList' = L
        BY <1>7, <4>1
      <4> QED BY <1>4, <3>2, <3>4, <4>2 DEF Order!LAccess
    <3> QED BY <3>3, <3>4
  <2> QED BY <1>11, <2>1, <2>2 DEF Access
<1>12. ASSUME NEW k \in Keys, NEW v \in Vals, update_value(k, v) PROVE Goal
  <2> SUFFICES ListInv' /\ Order!LUpdateValue(k, v)
    BY DEF Order!LNext
  <2>1. CASE Absent(k)
    <3>1. k \notin DOMAIN map /\ out' = {} /\ UNCHANGED <<slots, front, back>>
      BY <2>1 DEF Absent
    <3>2. ListInv' /\ AsList' = L
      BY <1>7, <3>1
    <3>3. ~ Order!Holds(L, k)
      BY <1>8, <3>1
    <3> QED BY <1>4, <3>1, <3>2, <3>3 DEF Order!LUpdateValue, Order!UpdateValue
  <2>2. CASE k \in DOMAIN map /\ Becomes(Write(links, map[k], "val", v)) /\ out' = {}
    <3>1. PICK j \in 1..Len(L) : p[j] = map[k] /\ L[j].key = k
      BY <1>9, <2>2
    <3>2. \E q : Goes(q, Revalued(L, j, v))
      BY <1>1, <1>2, <1>3, <1>5, <2>2, <3>1, RewritingList
    <3>3. ListInv' /\ AsList' = Revalued(L, j, v)
      BY <1>6, <3>2
    <3>4. Order!UpdateValue(L, k, v) = Revalued(L, j, v)
      BY <1>5, <3>1, OrderUpdate
    <3> QED BY <1>4, <2>2, <3>3, <3>4 DEF Order!LUpdateValue
  <2> QED BY <1>12, <2>1, <2>2 DEF update_value
<1>13. ASSUME NEW k \in Keys, NEW v \in Vals, insert_front(k, v) PROVE Goal
  <2> SUFFICES ListInv' /\ Order!LInsertFront(k, v)
    BY DEF Order!LNext
  <2>0. out' = {}
    BY <1>13 DEF insert_front
  <2>1. CASE RewriteFront(k, v)
    <3>0. k \in DOMAIN map /\ Becomes(Promote(Write(links, map[k], "val", v), map[k]))
      BY <2>1 DEF RewriteFront
    <3>1. PICK j \in 1..Len(L) : p[j] = map[k] /\ L[j].key = k
      BY <1>9, <3>0
    <3>2. \E q : Goes(q, Promoted(Revalued(L, j, v), j))
      BY <1>1, <1>2, <1>3, <1>5, <3>0, <3>1, RewritingFrontList
    <3>3. ListInv' /\ AsList' = Promoted(Revalued(L, j, v), j)
      BY <1>6, <3>2
    <3>4. Order!InsertFront(L, k, v) = Promoted(Revalued(L, j, v), j)
      BY <1>5, <3>1, OrderInsert
    <3> QED BY <1>4, <2>0, <3>3, <3>4 DEF Order!LInsertFront
  <2>2. CASE AdmitFront(k, v)
    <3> DEFINE x == [key |-> k, val |-> v]
    <3>1. k \notin DOMAIN map
      BY <2>2 DEF AdmitFront
    <3>2. \E q : Goes(q, Led(L, x))
      BY <1>1, <1>2, <1>3, <2>2, AdmittingList
    <3>3. ListInv' /\ AsList' = Led(L, x)
      BY <1>6, <3>2
    <3>4. Order!InsertFront(L, k, v) = Led(L, x)
      BY <1>5, <1>8, <3>1, OrderInsertNew
    <3> QED BY <1>4, <2>0, <3>3, <3>4 DEF Order!LInsertFront
  <2> QED BY <1>13, <2>1, <2>2 DEF insert_front
<1>14. ASSUME NEW k \in Keys, move_to_front(k) PROVE Goal
  <2> SUFFICES ListInv' /\ Order!LMoveToFront(k)
    BY DEF Order!LNext
  <2>1. CASE Absent(k)
    <3>1. k \notin DOMAIN map /\ out' = {} /\ UNCHANGED <<slots, front, back>>
      BY <2>1 DEF Absent
    <3>2. ListInv' /\ AsList' = L
      BY <1>7, <3>1
    <3>3. ~ Order!Holds(L, k)
      BY <1>8, <3>1
    <3> QED BY <1>4, <3>1, <3>2, <3>3 DEF Order!LMoveToFront, Order!MoveToFront
  <2>2. CASE k \in DOMAIN map /\ Becomes(Promote(links, map[k])) /\ out' = {}
    <3>1. PICK j \in 1..Len(L) : p[j] = map[k] /\ L[j].key = k
      BY <1>9, <2>2
    <3>2. \E q : Goes(q, Promoted(L, j))
      BY <1>1, <1>2, <1>3, <1>5, <2>2, <3>1, PromotingList
    <3>3. ListInv' /\ AsList' = Promoted(L, j)
      BY <1>6, <3>2
    <3>4. Order!MoveToFront(L, k) = Promoted(L, j)
      BY <1>5, <3>1, OrderMove
    <3> QED BY <1>4, <2>2, <3>3, <3>4 DEF Order!LMoveToFront
  <2> QED BY <1>14, <2>1, <2>2 DEF move_to_front
<1>15. ASSUME NEW k \in Keys, remove(k) PROVE Goal
  <2> SUFFICES ListInv' /\ Order!LRemove(k)
    BY DEF Order!LNext
  <2>1. CASE Absent(k)
    <3>1. k \notin DOMAIN map /\ out' = {} /\ UNCHANGED <<slots, front, back>>
      BY <2>1 DEF Absent
    <3>2. ListInv' /\ AsList' = L
      BY <1>7, <3>1
    <3>3. ~ Order!Holds(L, k) /\ Order!FoundIn(L, k) = {}
      BY <1>8, <3>1
    <3> QED BY <1>4, <3>1, <3>2, <3>3 DEF Order!LRemove, Order!Without
  <2>2. CASE k \in DOMAIN map /\ Release(k, map[k]) /\ out' = ValueIn(map[k])
    <3>1. PICK j \in 1..Len(L) : /\ p[j] = map[k] /\ L[j].key = k
                                 /\ ValueIn(map[k]) = Order!FoundIn(L, k)
      BY <1>9, <2>2
    <3>2. \E q : Goes(q, Cut(L, j))
      BY <1>1, <1>2, <1>3, <1>5, <2>2, <3>1, ReleasingList
    <3>3. ListInv' /\ AsList' = Cut(L, j)
      BY <1>6, <3>2
    <3>4. Order!Without(L, k) = Cut(L, j)
      BY <1>5, <3>1, OrderWithout
    <3> QED BY <1>4, <2>2, <3>1, <3>3, <3>4 DEF Order!LRemove
  <2> QED BY <1>15, <2>1, <2>2 DEF remove
<1>16. CASE pop_back
  <2> SUFFICES ListInv' /\ Order!LPopBack
    BY DEF Order!LNext
  <2>1. CASE /\ back # NIL => slots[back] = Vacant
             /\ out' = {}
             /\ UNCHANGED <<map, stray, slots, free, front, back>>
    <3>1. Len(p) = 0
      BY <1>1, <1>2, <2>1, BackPlace DEF Vacant
    <3>2. L = <<>>
      BY <1>5, <3>1
    <3>3. ListInv' /\ AsList' = L
      BY <1>7, <2>1
    <3> QED BY <1>4, <2>1, <3>2, <3>3 DEF Order!LPopBack, Order!PopBack
  <2>2. ASSUME back # NIL, NEW node \in slots[back], Release(node.key, back),
               out' = {[key |-> node.key, val |-> node.val]}
        PROVE  ListInv' /\ Order!LPopBack
    <3>1. Len(p) \in 1..Len(p) /\ back = p[Len(p)] /\ Len(p) # 0
      BY <1>1, <1>2, <2>2, BackPlace
    <3>2. \E q : Goes(q, Cut(L, Len(L)))
      BY <1>1, <1>2, <1>3, <1>5, <2>2, <3>1, ReleasingList
    <3>3. ListInv' /\ AsList' = Cut(L, Len(L))
      BY <1>6, <3>2
    <3>4. Order!PopBack(L) = Cut(L, Len(L)) /\ Order!BackOf(L) = L[Len(L)] /\ L # <<>>
      BY <1>5, <3>1, OrderPop
    <3>5. out' = {L[Len(L)]}
      <4>1. PICK mode \in Nodes(Len(slots)) : slots[back] = {mode} /\ L[Len(p)] = Entry(mode)
        BY <1>1, <1>2, <1>3, <3>1, KeyAtPlace
      <4>2. node = mode
        BY <2>2, <4>1
      <4> QED BY <1>5, <2>2, <4>1, <4>2 DEF Entry
    <3> QED BY <1>4, <3>3, <3>4, <3>5 DEF Order!LPopBack
  <2> QED BY <1>16, <2>1, <2>2 DEF pop_back
<1>17. CASE clear
  <2>1. \E q : Goes(q, <<>>)
    BY <1>17, ClearedList
  <2>2. ListInv' /\ AsList' = <<>> /\ out' = {}
    BY <1>6, <1>17, <2>1 DEF clear
  <2> QED BY <2>2 DEF Order!LNext, Order!LClear
<1> QED BY <1>10, <1>11, <1>12, <1>13, <1>14, <1>15, <1>16, <1>17 DEF Next

LEMMA OrderInit == Init => ListInv /\ Order!LInit
<1> SUFFICES ASSUME Init PROVE ListInv /\ Order!LInit
  OBVIOUS
<1>1. Threads(<<>>) /\ Listing(slots, <<>>) = <<>>
  <2>1. links = [slots |-> <<>>, front |-> NIL, back |-> NIL] /\ slots = <<>> /\ Len(slots) = 0
    BY DEF Init, links
  <2> QED BY <2>1, EmptyThread DEF Threads
<1>2. StorageInv
  BY InitStorage
<1>3. AsList = <<>>
  BY <1>1, <1>2, ListRead DEF ReadsAs
<1> QED BY <1>1, <1>2, <1>3 DEF ListInv, Order!LInit, Init

\* The hash index, the arena, its links and its free list implement the list of
\* entries that the eviction policies rely on: if keys equal themselves, every
\* operation of OrderedMap does to that list, and returns, what the operation
\* of that name should, for any keys and values and any sequence of operations
\* (src/ordered.rs:1-14).
THEOREM StorageImplementsOrder ==
  ASSUME Unsupported = {}
  PROVE  Spec => ImplementsRecencyOrder
<1>1. ListInv /\ [Next]_vars /\ ReadsAs /\ ReadsAs' => ListInv' /\ [Order!LNext]_(Order!lvars)
  BY OrderNext
<1> QED BY <1>1, OrderInit, ListRead, PTL DEF Spec, ImplementsRecencyOrder, Order!LSpec
==============================================================================
