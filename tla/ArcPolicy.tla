------------------------------ MODULE ArcPolicy ------------------------------
(***************************************************************************)
(* ArcCache of src/policy.rs: live lists t1 (seen once) and t2 (seen       *)
(* again), ghost lists b1 and b2 of the keys evicted from each, and the    *)
(* target size p of t1.                                                    *)
(***************************************************************************)
EXTENDS RecencyList

ArcNew(capacity) ==
  [kind |-> "Arc", t1 |-> <<>>, t2 |-> <<>>, b1 |-> <<>>, b2 |-> <<>>,
   p |-> 0, capacity |-> capacity]

\* Mutant of ReplacesT1: t1 is not drained below two entries.
ReplacesT1Late(a, inB2) ==
  /\ Size(a.t1) > 1
  /\ Size(a.t1) > a.p \/ (inB2 /\ Size(a.t1) = a.p)

\* Whether replace takes its victim from t1: t1 is over its target.
ReplacesT1(a, inB2) ==
  /\ Size(a.t1) >= 1
  /\ Size(a.t1) > a.p \/ (inB2 /\ Size(a.t1) = a.p)

DemoteT1(a) ==
  [a EXCEPT !.t1 = PopBack(@), !.b1 = InsertFront(@, BackOf(a.t1).key, Unit)]
DemoteT2(a) ==
  [a EXCEPT !.t2 = PopBack(@), !.b2 = InsertFront(@, BackOf(a.t2).key, Unit)]

\* Mutant of Replace: a demotion from t2 is not reported.
ReplaceUncounted(a, inB2) ==
  IF ReplacesT1(a, inB2) THEN PutResult(DemoteT1(a), TRUE)
  ELSE PutResult(IF a.t2 = <<>> THEN a ELSE DemoteT2(a), FALSE)

\* Demotes one live entry to a ghost; FALSE when there was none to demote.
Replace(a, inB2) ==
  CASE ReplacesT1(a, inB2)                    -> PutResult(DemoteT1(a), TRUE)
    [] ~ ReplacesT1(a, inB2) /\ a.t2 # <<>> -> PutResult(DemoteT2(a), TRUE)
    [] ~ ReplacesT1(a, inB2) /\ a.t2 = <<>> -> PutResult(a, FALSE)

\* A key found in t1 moves to t2; one found in t2 is refreshed there.
ArcGet(a, k) ==
  IF Holds(a.t1, k)
  THEN GetResult([a EXCEPT !.t1 = Without(@, k),
                           !.t2 = InsertFront(@, k, ValueOf(a.t1, k))],
                 {ValueOf(a.t1, k)})
  ELSE GetResult([a EXCEPT !.t2 = MoveToFront(@, k)], FoundIn(a.t2, k))

\* How far a ghost hit moves p: the ratio of the ghost lists, at least 1.
Delta(other, own) == Max({Size(other) \div Max({Size(own), 1}), 1})

\* Mutant of GrowP: p is not capped at the capacity.
GrowPUncapped(a) == a.p + Delta(a.b2, a.b1)

\* Ghost hit in b1: lean toward recency.
GrowP(a) == Min({a.p + Delta(a.b2, a.b1), a.capacity})
ArcHitB1(a, k, v) ==
  LET r == Replace([a EXCEPT !.p = GrowP(a)], FALSE)
  IN  PutResult([r.cache EXCEPT !.b1 = Without(@, k), !.t2 = InsertFront(@, k, v)],
                r.evicted)

\* Mutant of ArcHitB2: the key stays on the ghost list it was found on.
ArcHitB2KeepsGhost(a, k, v) ==
  LET r == Replace([a EXCEPT !.p = Max({@ - Delta(a.b1, a.b2), 0})], TRUE)
  IN  PutResult([r.cache EXCEPT !.t2 = InsertFront(@, k, v)], r.evicted)

\* Ghost hit in b2: lean toward frequency (saturating_sub).
ShrinkP(a) == Max({a.p - Delta(a.b1, a.b2), 0})
ArcHitB2(a, k, v) ==
  LET r == Replace([a EXCEPT !.p = ShrinkP(a)], TRUE)
  IN  PutResult([r.cache EXCEPT !.b2 = Without(@, k), !.t2 = InsertFront(@, k, v)],
                r.evicted)

ArcTotal(a) == Size(a.t1) + Size(a.t2) + Size(a.b1) + Size(a.b2)

\* Mutant of TrimmedB2: the oldest ghost is never dropped.
TrimmedB2Never(a) == a.b2

\* b2 without its oldest ghost if the four lists hold 2c keys.
TrimmedB2(a) == IF ArcTotal(a) = 2 * a.capacity THEN PopBack(a.b2) ELSE a.b2

\* The room made before a key that is on neither ghost list is admitted.  The
\* code takes this branch for a key that is still live as well.
ArcMakeRoom(a) ==
  CASE Size(a.t1) + Size(a.b1) = a.capacity /\ Size(a.t1) < a.capacity ->
         Replace([a EXCEPT !.b1 = PopBack(@)], FALSE)
    [] Size(a.t1) + Size(a.b1) = a.capacity /\ Size(a.t1) >= a.capacity ->
         PutResult([a EXCEPT !.t1 = PopBack(@)], a.t1 # <<>>)
    [] Size(a.t1) + Size(a.b1) # a.capacity /\ ArcTotal(a) < a.capacity ->
         PutResult(a, FALSE)
    [] Size(a.t1) + Size(a.b1) # a.capacity /\ ArcTotal(a) >= a.capacity ->
         Replace([a EXCEPT !.b2 = TrimmedB2(a)], FALSE)

ArcMiss(a, k, v) ==
  LET r == ArcMakeRoom(a)
  IN  PutResult([r.cache EXCEPT !.t1 = InsertFront(@, k, v)], r.evicted)

ArcPut(a, k, v) ==
  CASE a.capacity = 0 -> PutResult(a, FALSE)
    [] a.capacity > 0 /\ Holds(a.b1, k) -> ArcHitB1(a, k, v)
    [] a.capacity > 0 /\ ~ Holds(a.b1, k) /\ Holds(a.b2, k) -> ArcHitB2(a, k, v)
    [] a.capacity > 0 /\ ~ Holds(a.b1, k) /\ ~ Holds(a.b2, k) -> ArcMiss(a, k, v)

ArcClear(a) ==
  [a EXCEPT !.t1 = <<>>, !.t2 = <<>>, !.b1 = <<>>, !.b2 = <<>>, !.p = 0]

ArcLen(a) == Size(a.t1) + Size(a.t2)

ArcEntries(a) == ToSet(a.t1) \cup ToSet(a.t2)

ArcType(a, K, V) ==
  /\ a \in [kind: {"Arc"},
            t1: Seq([key: K, val: V]), t2: Seq([key: K, val: V]),
            b1: Seq([key: K, val: {Unit}]), b2: Seq([key: K, val: {Unit}]),
            p: Nat, capacity: Nat]
  /\ Distinct(a.t1) /\ Distinct(a.t2) /\ Distinct(a.b1) /\ Distinct(a.b2)
  /\ a.p <= a.capacity

\* The live lists hold at most c entries, the recency side with its ghosts at
\* most c, and all four lists at most 2c.
ArcBounds(a) ==
  /\ ArcLen(a) <= a.capacity
  /\ Size(a.t1) + Size(a.b1) <= a.capacity
  /\ ArcTotal(a) <= 2 * a.capacity

\* The four lists share no key, and there are ghosts only beside a full cache:
\* nothing was given up for want of room that was there.
ArcApart(a) ==
  /\ KeysOf(a.t1) \cap KeysOf(a.t2) = {}
  /\ (KeysOf(a.t1) \cup KeysOf(a.t2)) \cap (KeysOf(a.b1) \cup KeysOf(a.b2)) = {}
  /\ KeysOf(a.b1) \cap KeysOf(a.b2) = {}
  /\ a.b1 # <<>> \/ a.b2 # <<>> => ArcLen(a) = a.capacity
==============================================================================
