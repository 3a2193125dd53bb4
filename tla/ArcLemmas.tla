------------------------------ MODULE ArcLemmas ------------------------------
(***************************************************************************)
(* What get and put of ArcCache return and preserve, for every capacity    *)
(* and all sets of keys and values: the type, the live entries, and the    *)
(* bounds on the four lists, with no assumption on which keys are put.     *)
(***************************************************************************)
EXTENDS ArcPolicy, RecencyListLemmas

\* Sets of live entries S and of ghosts B over the same keys.
GhostsOf(S, B) == EntrySet(S) /\ EntrySet(B) /\ \A e \in S : Entry(e.key, Unit) \in B

\* ArcType, with the sets of entries left opaque.
ArcShape(a, S, B) ==
  /\ a \in [kind: {"Arc"}, t1: Seq(S), t2: Seq(S), b1: Seq(B), b2: Seq(B),
            p: Nat, capacity: Nat]
  /\ Distinct(a.t1) /\ Distinct(a.t2) /\ Distinct(a.b1) /\ Distinct(a.b2)
  /\ a.p <= a.capacity

\* ArcType is ArcShape over the records of the keys and values.
LEMMA ArcTypeShape ==
  ASSUME NEW K, NEW V, NEW a
  PROVE  /\ ArcType(a, K, V) <=> ArcShape(a, [key: K, val: V], [key: K, val: {Unit}])
         /\ GhostsOf([key: K, val: V], [key: K, val: {Unit}])
BY EntriesAreEntries DEF ArcType, ArcShape, GhostsOf

\* The sizes of the four lists, p and the capacity are numbers, and p is within c.
LEMMA ArcLens ==
  ASSUME NEW S, NEW B, NEW a, ArcShape(a, S, B)
  PROVE  /\ Size(a.t1) \in Nat /\ Size(a.t2) \in Nat /\ Size(a.b1) \in Nat /\ Size(a.b2) \in Nat
         /\ a.p \in Nat /\ a.capacity \in Nat /\ a.p <= a.capacity
BY DEF ArcShape, Size

\* A demotion moves the back of a live list to the front of its ghost list.
LEMMA DemoteSpec ==
  ASSUME NEW S, NEW B, GhostsOf(S, B),
         NEW t \in Seq(S), Distinct(t), t # <<>>, NEW b \in Seq(B), Distinct(b)
  PROVE  LET g == InsertFront(b, BackOf(t).key, Unit)
         IN  /\ PopBack(t) \in Seq(S) /\ Distinct(PopBack(t)) /\ g \in Seq(B) /\ Distinct(g)
             /\ ToSet(PopBack(t)) \subseteq ToSet(t)
             /\ Size(PopBack(t)) = Size(t) - 1
             /\ Size(g) <= Size(b) + 1
             /\ KeysOf(b) \subseteq KeysOf(g)
<1>1. BackOf(t) \in S
  BY PopBackSpec
<1>2. Entry(BackOf(t).key, Unit) \in B
  BY <1>1 DEF GhostsOf
<1>3. /\ PopBack(t) \in Seq(S) /\ Distinct(PopBack(t))
      /\ ToSet(PopBack(t)) \subseteq ToSet(t) /\ Size(PopBack(t)) = Size(t) - 1
  BY PopBackSpec DEF Size
<1> DEFINE g == InsertFront(b, BackOf(t).key, Unit)
<1>4. /\ g \in Seq(B) /\ Distinct(g)
      /\ Size(g) = (IF Holds(b, BackOf(t).key) THEN Size(b) ELSE Size(b) + 1)
      /\ KeysOf(g) = KeysOf(b) \cup {BackOf(t).key}
  BY <1>2, InsertFrontSpec DEF Size
<1>5. Size(g) <= Size(b) + 1
  BY <1>4 DEF Size
<1> QED BY <1>3, <1>4, <1>5

\* replace's first branch: the oldest entry of t1 becomes a ghost of b1.
LEMMA DemoteT1Spec ==
  ASSUME NEW S, NEW B, GhostsOf(S, B), NEW a, ArcShape(a, S, B), a.t1 # <<>>
  PROVE  LET r == DemoteT1(a)
         IN  /\ ArcShape(r, S, B) /\ r.capacity = a.capacity /\ r.p = a.p
             /\ ArcEntries(r) \subseteq ArcEntries(a)
             /\ Size(r.t1) = Size(a.t1) - 1 /\ Size(r.b1) <= Size(a.b1) + 1
             /\ r.t2 = a.t2 /\ r.b2 = a.b2
             /\ KeysOf(a.b1) \subseteq KeysOf(r.b1)
<1> DEFINE t == PopBack(a.t1)
           g == InsertFront(a.b1, BackOf(a.t1).key, Unit)
           r == DemoteT1(a)
<1>1. /\ a.t1 \in Seq(S) /\ Distinct(a.t1) /\ a.b1 \in Seq(B) /\ Distinct(a.b1)
  BY DEF ArcShape
<1>2. /\ t \in Seq(S) /\ Distinct(t) /\ g \in Seq(B) /\ Distinct(g)
      /\ ToSet(t) \subseteq ToSet(a.t1) /\ Size(t) = Size(a.t1) - 1
      /\ Size(g) <= Size(a.b1) + 1 /\ KeysOf(a.b1) \subseteq KeysOf(g)
  BY <1>1, DemoteSpec
<1>3. r = [a EXCEPT !.t1 = t, !.b1 = g]
  BY DEF DemoteT1
<1> HIDE DEF t, g, r
<1>4. /\ ArcShape(r, S, B) /\ r.capacity = a.capacity /\ r.p = a.p
      /\ r.t1 = t /\ r.b1 = g /\ r.t2 = a.t2 /\ r.b2 = a.b2
  BY <1>2, <1>3 DEF ArcShape
<1>5. ArcEntries(r) \subseteq ArcEntries(a)
  BY <1>2, <1>4 DEF ArcEntries
<1> QED BY <1>2, <1>4, <1>5 DEF r

\* replace's second branch: the oldest entry of t2 becomes a ghost of b2.
LEMMA DemoteT2Spec ==
  ASSUME NEW S, NEW B, GhostsOf(S, B), NEW a, ArcShape(a, S, B), a.t2 # <<>>
  PROVE  LET r == DemoteT2(a)
         IN  /\ ArcShape(r, S, B) /\ r.capacity = a.capacity /\ r.p = a.p
             /\ ArcEntries(r) \subseteq ArcEntries(a)
             /\ Size(r.t2) = Size(a.t2) - 1 /\ Size(r.b2) <= Size(a.b2) + 1
             /\ r.t1 = a.t1 /\ r.b1 = a.b1
             /\ KeysOf(a.b2) \subseteq KeysOf(r.b2)
<1> DEFINE t == PopBack(a.t2)
           g == InsertFront(a.b2, BackOf(a.t2).key, Unit)
           r == DemoteT2(a)
<1>1. /\ a.t2 \in Seq(S) /\ Distinct(a.t2) /\ a.b2 \in Seq(B) /\ Distinct(a.b2)
  BY DEF ArcShape
<1>2. /\ t \in Seq(S) /\ Distinct(t) /\ g \in Seq(B) /\ Distinct(g)
      /\ ToSet(t) \subseteq ToSet(a.t2) /\ Size(t) = Size(a.t2) - 1
      /\ Size(g) <= Size(a.b2) + 1 /\ KeysOf(a.b2) \subseteq KeysOf(g)
  BY <1>1, DemoteSpec
<1>3. r = [a EXCEPT !.t2 = t, !.b2 = g]
  BY DEF DemoteT2
<1> HIDE DEF t, g, r
<1>4. /\ ArcShape(r, S, B) /\ r.capacity = a.capacity /\ r.p = a.p
      /\ r.t2 = t /\ r.b2 = g /\ r.t1 = a.t1 /\ r.b1 = a.b1
  BY <1>2, <1>3 DEF ArcShape
<1>5. ArcEntries(r) \subseteq ArcEntries(a)
  BY <1>2, <1>4 DEF ArcEntries
<1> QED BY <1>2, <1>4, <1>5 DEF r

\* replace demotes one entry or, when it must spare t1 and t2 is empty, none;
\* no list sum grows and no ghost is lost.
LEMMA ReplaceSpec ==
  ASSUME NEW S, NEW B, GhostsOf(S, B), NEW a, ArcShape(a, S, B), NEW x,
         NEW r, r = Replace(a, x).cache
  PROVE      /\ ArcShape(r, S, B) /\ r.capacity = a.capacity /\ r.p = a.p
             /\ ArcEntries(r) \subseteq ArcEntries(a)
             /\ Size(r.t1) + Size(r.b1) <= Size(a.t1) + Size(a.b1)
             /\ ArcTotal(r) <= ArcTotal(a)
             /\ \/ ArcLen(r) = ArcLen(a) - 1
                \/ r = a /\ Size(a.t2) = 0 /\ ~ ReplacesT1(a, x)
             /\ KeysOf(a.b1) \subseteq KeysOf(r.b1) /\ KeysOf(a.b2) \subseteq KeysOf(r.b2)
<1>1. CASE ReplacesT1(a, x)
  <2>1. r = DemoteT1(a)
    BY <1>1 DEF Replace, PutResult
  <2>2. a.t1 # <<>>
    BY <1>1 DEF ReplacesT1, ArcShape, Size
  <2>3. /\ ArcShape(r, S, B) /\ r.capacity = a.capacity /\ r.p = a.p
        /\ ArcEntries(r) \subseteq ArcEntries(a)
        /\ Size(r.t1) = Size(a.t1) - 1 /\ Size(r.b1) <= Size(a.b1) + 1
        /\ r.t2 = a.t2 /\ r.b2 = a.b2
        /\ KeysOf(a.b1) \subseteq KeysOf(r.b1)
    BY <2>1, <2>2, DemoteT1Spec
  <2>4. /\ Size(r.t1) \in Nat /\ Size(r.t2) \in Nat /\ Size(r.b1) \in Nat /\ Size(r.b2) \in Nat
        /\ Size(r.t1) = Size(a.t1) - 1 /\ Size(r.b1) <= Size(a.b1) + 1
        /\ Size(r.t2) = Size(a.t2) /\ Size(r.b2) = Size(a.b2)
        /\ Size(a.t1) \in Nat /\ Size(a.t2) \in Nat /\ Size(a.b1) \in Nat /\ Size(a.b2) \in Nat
    BY <2>3, ArcLens
  <2>5. /\ Size(r.t1) + Size(r.b1) <= Size(a.t1) + Size(a.b1)
        /\ ArcTotal(r) <= ArcTotal(a) /\ ArcLen(r) = ArcLen(a) - 1
    BY <2>4 DEF ArcTotal, ArcLen
  <2> QED BY <2>3, <2>5
<1>2. CASE ~ ReplacesT1(a, x) /\ a.t2 # <<>>
  <2>1. r = DemoteT2(a)
    BY <1>2 DEF Replace, PutResult
  <2>3. /\ ArcShape(r, S, B) /\ r.capacity = a.capacity /\ r.p = a.p
        /\ ArcEntries(r) \subseteq ArcEntries(a)
        /\ Size(r.t2) = Size(a.t2) - 1 /\ Size(r.b2) <= Size(a.b2) + 1
        /\ r.t1 = a.t1 /\ r.b1 = a.b1
        /\ KeysOf(a.b2) \subseteq KeysOf(r.b2)
    BY <1>2, <2>1, DemoteT2Spec
  <2>4. /\ Size(r.t1) \in Nat /\ Size(r.t2) \in Nat /\ Size(r.b1) \in Nat /\ Size(r.b2) \in Nat
        /\ Size(r.t2) = Size(a.t2) - 1 /\ Size(r.b2) <= Size(a.b2) + 1
        /\ Size(r.t1) = Size(a.t1) /\ Size(r.b1) = Size(a.b1)
        /\ Size(a.t1) \in Nat /\ Size(a.t2) \in Nat /\ Size(a.b1) \in Nat /\ Size(a.b2) \in Nat
    BY <2>3, ArcLens
  <2>5. /\ Size(r.t1) + Size(r.b1) <= Size(a.t1) + Size(a.b1)
        /\ ArcTotal(r) <= ArcTotal(a) /\ ArcLen(r) = ArcLen(a) - 1
    BY <2>4 DEF ArcTotal, ArcLen
  <2> QED BY <2>3, <2>5
<1>3. CASE ~ ReplacesT1(a, x) /\ a.t2 = <<>>
  <2>1. r = a
    BY <1>3 DEF Replace, PutResult
  <2>2. Size(a.t2) = 0
    BY <1>3 DEF Size
  <2>3. /\ Size(a.t1) \in Nat /\ Size(a.t2) \in Nat /\ Size(a.b1) \in Nat /\ Size(a.b2) \in Nat
    BY ArcLens
  <2>4. Size(r.t1) + Size(r.b1) <= Size(a.t1) + Size(a.b1) /\ ArcTotal(r) <= ArcTotal(a)
    BY <2>1, <2>3 DEF ArcTotal
  <2> QED BY <2>1, <2>2, <2>4, <1>3
<1> QED BY <1>1, <1>2, <1>3

-----------------------------------------------------------------------------
\* The lists after a put are the lists before it, one of them without its key
\* or its back.

\* A live list that takes in an entry grows by one place at most.
LEMMA PushSpec ==
  ASSUME NEW S, NEW t \in Seq(S), Distinct(t), NEW k, NEW v, Entry(k, v) \in S
  PROVE  LET g == InsertFront(t, k, v)
         IN  /\ g \in Seq(S) /\ Distinct(g) /\ Size(g) \in Nat /\ Size(g) <= Size(t) + 1
             /\ ToSet(g) \subseteq ToSet(t) \cup {Entry(k, v)}
<1>1. /\ InsertFront(t, k, v) \in Seq(S) /\ Distinct(InsertFront(t, k, v))
      /\ Len(InsertFront(t, k, v)) <= Len(t) + 1
      /\ ToSet(InsertFront(t, k, v)) \subseteq ToSet(t) \cup {Entry(k, v)}
  BY InsertFrontSpec
<1> QED BY <1>1 DEF Size

\* A list that gives up a key it holds shrinks by one place.
LEMMA DropSpec ==
  ASSUME NEW S, NEW t \in Seq(S), Distinct(t), NEW k
  PROVE  LET g == Without(t, k)
         IN  /\ g \in Seq(S) /\ Distinct(g) /\ Size(g) \in Nat /\ Size(g) <= Size(t)
             /\ Holds(t, k) => Size(g) = Size(t) - 1
             /\ ToSet(g) \subseteq ToSet(t)
<1>1. /\ Without(t, k) \in Seq(S) /\ Distinct(Without(t, k))
      /\ Len(Without(t, k)) = (IF Holds(t, k) THEN Len(t) - 1 ELSE Len(t))
      /\ ToSet(Without(t, k)) \subseteq ToSet(t)
  BY WithoutSpec, WithoutEntries, WithoutDistinct
<1> QED BY <1>1 DEF Size

\* A list that gives up its back shrinks by one place, unless it was empty.
LEMMA TrimSpec ==
  ASSUME NEW S, NEW t \in Seq(S), Distinct(t)
  PROVE  LET g == PopBack(t)
         IN  /\ g \in Seq(S) /\ Distinct(g) /\ Size(g) \in Nat /\ Size(g) <= Size(t)
             /\ Size(t) > 0 => Size(g) = Size(t) - 1
             /\ ToSet(g) \subseteq ToSet(t)
<1>1. /\ PopBack(t) \in Seq(S) /\ Distinct(PopBack(t))
      /\ Len(PopBack(t)) = (IF t = <<>> THEN 0 ELSE Len(t) - 1)
      /\ ToSet(PopBack(t)) \subseteq ToSet(t)
  BY PopBackSpec
<1> QED BY <1>1 DEF Size

\* Max and Min of two numbers, as the larger and the smaller one.
LEMMA MaxOfTwo ==
  ASSUME NEW x \in Int, NEW y \in Int
  PROVE  Max({x, y}) = IF x >= y THEN x ELSE y
<1> DEFINE m == IF x >= y THEN x ELSE y
<1>1. m \in {x, y} /\ \A z \in {x, y} : m >= z
  OBVIOUS
<1>2. ASSUME NEW n \in {x, y}, \A z \in {x, y} : n >= z PROVE n = m
  BY <1>2
<1> HIDE DEF m
<1>3. (CHOOSE n \in {x, y} : \A z \in {x, y} : n >= z) = m
  BY <1>1, <1>2
<1> QED BY <1>3 DEF Max, m

\* Likewise for the smaller one.
LEMMA MinOfTwo ==
  ASSUME NEW x \in Int, NEW y \in Int
  PROVE  Min({x, y}) = IF x <= y THEN x ELSE y
<1> DEFINE m == IF x <= y THEN x ELSE y
<1>1. m \in {x, y} /\ \A z \in {x, y} : m <= z
  OBVIOUS
<1>2. ASSUME NEW n \in {x, y}, \A z \in {x, y} : n <= z PROVE n = m
  BY <1>2
<1> HIDE DEF m
<1>3. (CHOOSE n \in {x, y} : \A z \in {x, y} : n <= z) = m
  BY <1>1, <1>2
<1> QED BY <1>3 DEF Min, m

\* The adaptation of p keeps it within 0..c.
LEMMA TargetSpec ==
  ASSUME NEW S, NEW B, NEW a, ArcShape(a, S, B)
  PROVE  /\ GrowP(a) \in Nat /\ GrowP(a) <= a.capacity
         /\ ShrinkP(a) \in Nat /\ ShrinkP(a) <= a.capacity
<1>1. ASSUME NEW x, NEW y, Size(x) \in Nat, Size(y) \in Nat
      PROVE  Delta(x, y) \in Nat
  <2> DEFINE d == IF Size(y) >= 1 THEN Size(y) ELSE 1
             q == Size(x) \div d
  <2>1. Max({Size(y), 1}) = d
    BY <1>1, MaxOfTwo
  <2>2. d \in Nat /\ d > 0
    BY <1>1
  <2> HIDE DEF d
  <2>3. q \in Int
    BY <1>1, <2>2
  <2> HIDE DEF q
  <2>4. Max({q, 1}) = IF q >= 1 THEN q ELSE 1
    BY <2>3, MaxOfTwo
  <2>5. Delta(x, y) = Max({q, 1})
    BY <2>1 DEF Delta, q
  <2> QED BY <2>3, <2>4, <2>5
<1>2. /\ Size(a.b1) \in Nat /\ Size(a.b2) \in Nat
      /\ a.p \in Nat /\ a.capacity \in Nat /\ a.p <= a.capacity
  BY ArcLens
<1> DEFINE p == a.p
           c == a.capacity
           g == Delta(a.b2, a.b1)
           s == Delta(a.b1, a.b2)
<1>3. g \in Nat /\ s \in Nat /\ p \in Nat /\ c \in Nat /\ p <= c
  BY <1>1, <1>2
<1>4. GrowP(a) = Min({p + g, c}) /\ ShrinkP(a) = Max({p - s, 0})
  BY DEF GrowP, ShrinkP
<1> HIDE DEF p, c, g, s
<1>5. Min({p + g, c}) = IF p + g <= c THEN p + g ELSE c
  BY <1>3, MinOfTwo
<1>6. Max({p - s, 0}) = IF p - s >= 0 THEN p - s ELSE 0
  BY <1>3, MaxOfTwo
<1>7. /\ Min({p + g, c}) \in Nat /\ Min({p + g, c}) <= c
      /\ Max({p - s, 0}) \in Nat /\ Max({p - s, 0}) <= c
  BY <1>3, <1>5, <1>6
<1> QED BY <1>4, <1>7 DEF c

\* ARC's get keeps the live entries and moves one of them at most.
LEMMA ArcGetSpec ==
  ASSUME NEW S, NEW B, GhostsOf(S, B), NEW a, ArcShape(a, S, B), NEW k
  PROVE  LET r == ArcGet(a, k)
         IN  /\ ArcShape(r.cache, S, B) /\ r.cache.capacity = a.capacity
             /\ ArcEntries(r.cache) \subseteq ArcEntries(a)
             /\ ArcBounds(a) => ArcBounds(r.cache)
             /\ \A v \in r.found : Entry(k, v) \in ArcEntries(a)
<1> DEFINE r == ArcGet(a, k)
           q == r.cache
<1>1. /\ a.t1 \in Seq(S) /\ Distinct(a.t1) /\ a.t2 \in Seq(S) /\ Distinct(a.t2)
      /\ EntrySet(S)
  BY DEF ArcShape, GhostsOf
<1>2. /\ Size(a.t1) \in Nat /\ Size(a.t2) \in Nat /\ Size(a.b1) \in Nat /\ Size(a.b2) \in Nat
      /\ a.capacity \in Nat
  BY ArcLens
<1>3. CASE Holds(a.t1, k)
  <2> DEFINE w == Without(a.t1, k)
             v == ValueOf(a.t1, k)
             g == InsertFront(a.t2, k, v)
  <2>1. Entry(k, v) \in S /\ Entry(k, v) \in ToSet(a.t1)
    BY <1>1, <1>3, ValueOfSpec
  <2>2. q = [a EXCEPT !.t1 = w, !.t2 = g] /\ r.found = {v}
    BY <1>3 DEF ArcGet, GetResult
  <2> HIDE DEF v
  <2>3. /\ w \in Seq(S) /\ Distinct(w) /\ Size(w) \in Nat /\ Size(w) = Size(a.t1) - 1
        /\ ToSet(w) \subseteq ToSet(a.t1)
    BY <1>1, <1>3, DropSpec
  <2>4. /\ g \in Seq(S) /\ Distinct(g) /\ Size(g) \in Nat /\ Size(g) <= Size(a.t2) + 1
        /\ ToSet(g) \subseteq ToSet(a.t2) \cup {Entry(k, v)}
    BY <1>1, <2>1, PushSpec
  <2> HIDE DEF r, q, w, g
  <2>5. /\ ArcShape(q, S, B) /\ q.capacity = a.capacity
        /\ q.t1 = w /\ q.t2 = g /\ q.b1 = a.b1 /\ q.b2 = a.b2
    BY <2>2, <2>3, <2>4 DEF ArcShape
  <2>6. ArcEntries(q) \subseteq ArcEntries(a)
    BY <2>1, <2>3, <2>4, <2>5 DEF ArcEntries
  <2>7. ArcBounds(a) => ArcBounds(q)
    <3>1. /\ Size(q.t1) \in Nat /\ Size(q.t2) \in Nat
          /\ Size(q.t1) = Size(a.t1) - 1 /\ Size(q.t2) <= Size(a.t2) + 1
          /\ Size(q.b1) = Size(a.b1) /\ Size(q.b2) = Size(a.b2)
      BY <2>3, <2>4, <2>5
    <3> QED BY <1>2, <2>5, <3>1 DEF ArcBounds, ArcLen, ArcTotal
  <2>8. \A u \in r.found : Entry(k, u) \in ArcEntries(a)
    BY <2>1, <2>2 DEF ArcEntries
  <2> QED BY <2>5, <2>6, <2>7, <2>8 DEF q, r
<1>4. CASE ~ Holds(a.t1, k)
  <2> DEFINE g == MoveToFront(a.t2, k)
  <2>1. q = [a EXCEPT !.t2 = g] /\ r.found = FoundIn(a.t2, k)
    BY <1>4 DEF ArcGet, GetResult
  <2>2. /\ g \in Seq(S) /\ Distinct(g) /\ Size(g) = Size(a.t2) /\ ToSet(g) \subseteq ToSet(a.t2)
    BY <1>1, MoveToFrontSpec DEF Size
  <2> HIDE DEF r, q, g
  <2>3. /\ ArcShape(q, S, B) /\ q.capacity = a.capacity
        /\ q.t1 = a.t1 /\ q.t2 = g /\ q.b1 = a.b1 /\ q.b2 = a.b2
    BY <2>1, <2>2 DEF ArcShape
  <2>4. ArcEntries(q) \subseteq ArcEntries(a)
    BY <2>2, <2>3 DEF ArcEntries
  <2>5. ArcBounds(a) => ArcBounds(q)
    <3>1. /\ Size(q.t1) = Size(a.t1) /\ Size(q.t2) = Size(a.t2)
          /\ Size(q.b1) = Size(a.b1) /\ Size(q.b2) = Size(a.b2)
      BY <2>2, <2>3
    <3> QED BY <1>2, <2>3, <3>1 DEF ArcBounds, ArcLen, ArcTotal
  <2>6. \A u \in r.found : Entry(k, u) \in ArcEntries(a)
    BY <1>1, <2>1, ValueOfSpec DEF FoundIn, ArcEntries
  <2> QED BY <2>3, <2>4, <2>5, <2>6 DEF q, r
<1> QED BY <1>3, <1>4

\* A put of v under k, with the cache q it leaves: the type and the capacity
\* stay, the live entries are old ones or the new one, and so do the bounds.
PutKeeps(a, q, S, B, k, v) ==
  /\ ArcShape(q, S, B) /\ q.capacity = a.capacity
  /\ ArcEntries(q) \subseteq ArcEntries(a) \cup {Entry(k, v)}
  /\ ArcBounds(a) => ArcBounds(q)

\* Moving p changes no list.
LEMMA RetargetSpec ==
  ASSUME NEW S, NEW B, NEW a, ArcShape(a, S, B), NEW x \in Nat, x <= a.capacity
  PROVE  LET n == [a EXCEPT !.p = x]
         IN  /\ ArcShape(n, S, B) /\ n.capacity = a.capacity /\ n.p = x
             /\ n.t1 = a.t1 /\ n.t2 = a.t2 /\ n.b1 = a.b1 /\ n.b2 = a.b2
BY DEF ArcShape

\* How a ghost hit ends: the key leaves its ghost list and its value is put at
\* the front of t2.
FromB1(r, k, v) == [r EXCEPT !.b1 = Without(@, k), !.t2 = InsertFront(@, k, v)]
FromB2(r, k, v) == [r EXCEPT !.b2 = Without(@, k), !.t2 = InsertFront(@, k, v)]

\* The lists it changes, by how much.
LEMMA ReviveSpec ==
  ASSUME NEW S, NEW B, NEW r, ArcShape(r, S, B), NEW k, NEW v, Entry(k, v) \in S
  PROVE  /\ LET q == FromB1(r, k, v)
            IN  /\ ArcShape(q, S, B) /\ q.capacity = r.capacity
                /\ ArcEntries(q) \subseteq ArcEntries(r) \cup {Entry(k, v)}
                /\ Size(q.t1) = Size(r.t1) /\ Size(q.t2) <= Size(r.t2) + 1
                /\ Size(q.b1) <= Size(r.b1) /\ Size(q.b2) = Size(r.b2)
                /\ Holds(r.b1, k) => Size(q.b1) = Size(r.b1) - 1
         /\ LET q == FromB2(r, k, v)
            IN  /\ ArcShape(q, S, B) /\ q.capacity = r.capacity
                /\ ArcEntries(q) \subseteq ArcEntries(r) \cup {Entry(k, v)}
                /\ Size(q.t1) = Size(r.t1) /\ Size(q.t2) <= Size(r.t2) + 1
                /\ Size(q.b1) = Size(r.b1) /\ Size(q.b2) <= Size(r.b2)
                /\ Holds(r.b2, k) => Size(q.b2) = Size(r.b2) - 1
<1> DEFINE g == InsertFront(r.t2, k, v)
           w1 == Without(r.b1, k)
           w2 == Without(r.b2, k)
           q1 == [r EXCEPT !.b1 = w1, !.t2 = g]
           q2 == [r EXCEPT !.b2 = w2, !.t2 = g]
<1>1. /\ r.t2 \in Seq(S) /\ Distinct(r.t2) /\ r.b1 \in Seq(B) /\ Distinct(r.b1)
      /\ r.b2 \in Seq(B) /\ Distinct(r.b2)
  BY DEF ArcShape
<1>2. /\ g \in Seq(S) /\ Distinct(g) /\ Size(g) <= Size(r.t2) + 1
      /\ ToSet(g) \subseteq ToSet(r.t2) \cup {Entry(k, v)}
  BY <1>1, PushSpec
<1>3. /\ w1 \in Seq(B) /\ Distinct(w1) /\ Size(w1) <= Size(r.b1)
      /\ Holds(r.b1, k) => Size(w1) = Size(r.b1) - 1
  BY <1>1, DropSpec
<1>4. /\ w2 \in Seq(B) /\ Distinct(w2) /\ Size(w2) <= Size(r.b2)
      /\ Holds(r.b2, k) => Size(w2) = Size(r.b2) - 1
  BY <1>1, DropSpec
<1> HIDE DEF g, w1, w2
<1>5. /\ ArcShape(q1, S, B) /\ q1.capacity = r.capacity
      /\ q1.t1 = r.t1 /\ q1.t2 = g /\ q1.b1 = w1 /\ q1.b2 = r.b2
  BY <1>2, <1>3 DEF ArcShape
<1>6. /\ ArcShape(q2, S, B) /\ q2.capacity = r.capacity
      /\ q2.t1 = r.t1 /\ q2.t2 = g /\ q2.b1 = r.b1 /\ q2.b2 = w2
  BY <1>2, <1>4 DEF ArcShape
<1> HIDE DEF q1, q2
<1>7. /\ ArcEntries(q1) \subseteq ArcEntries(r) \cup {Entry(k, v)}
      /\ ArcEntries(q2) \subseteq ArcEntries(r) \cup {Entry(k, v)}
  BY <1>2, <1>5, <1>6 DEF ArcEntries
<1> QED BY <1>2, <1>3, <1>4, <1>5, <1>6, <1>7 DEF q1, q2, w1, w2, g, FromB1, FromB2

\* A ghost hit in b1: the list it shortens makes up for the one it lengthens,
\* and if replace had nothing to demote there was room.
LEMMA ArcHitB1Spec ==
  ASSUME NEW S, NEW B, GhostsOf(S, B), NEW a, ArcShape(a, S, B),
         NEW k, NEW v, Entry(k, v) \in S, Holds(a.b1, k)
  PROVE  PutKeeps(a, ArcHitB1(a, k, v).cache, S, B, k, v)
<1> DEFINE n == [a EXCEPT !.p = GrowP(a)]
           inB2 == FALSE
           r == Replace(n, inB2).cache
           q == FromB1(r, k, v)
<1>1. ArcHitB1(a, k, v).cache = q
  BY DEF ArcHitB1, FromB1, PutResult
<1>2. /\ ArcShape(n, S, B) /\ n.capacity = a.capacity
      /\ n.t1 = a.t1 /\ n.t2 = a.t2 /\ n.b1 = a.b1 /\ n.b2 = a.b2
  BY TargetSpec, RetargetSpec
<1> HIDE DEF n, q, inB2
<1>3. /\ ArcShape(r, S, B) /\ r.capacity = n.capacity
      /\ ArcEntries(r) \subseteq ArcEntries(n)
      /\ Size(r.t1) + Size(r.b1) <= Size(n.t1) + Size(n.b1)
      /\ ArcTotal(r) <= ArcTotal(n)
      /\ ArcLen(r) = ArcLen(n) - 1 \/ (r = n /\ Size(n.t2) = 0)
      /\ KeysOf(n.b1) \subseteq KeysOf(r.b1)
  BY <1>2, ReplaceSpec DEF r
<1> HIDE DEF r
<1>4. Holds(r.b1, k)
  <2>1. k \in KeysOf(n.b1)
    BY <1>2 DEF Holds, KeysOf
  <2> QED BY <2>1, <1>3 DEF Holds, KeysOf
<1>5. /\ ArcShape(q, S, B) /\ q.capacity = r.capacity
      /\ ArcEntries(q) \subseteq ArcEntries(r) \cup {Entry(k, v)}
      /\ Size(q.t1) = Size(r.t1) /\ Size(q.t2) <= Size(r.t2) + 1
      /\ Size(q.b1) = Size(r.b1) - 1 /\ Size(q.b2) = Size(r.b2)
  BY <1>3, <1>4, ReviveSpec DEF q
<1>6. ArcEntries(q) \subseteq ArcEntries(a) \cup {Entry(k, v)}
  BY <1>2, <1>3, <1>5 DEF ArcEntries
<1>7. ASSUME ArcBounds(a) PROVE ArcBounds(q)
  <2>1. /\ Size(a.t1) \in Nat /\ Size(a.t2) \in Nat /\ Size(a.b1) \in Nat /\ Size(a.b2) \in Nat
        /\ a.capacity \in Nat
    BY ArcLens
  <2>2. /\ Size(r.t1) \in Nat /\ Size(r.t2) \in Nat /\ Size(r.b1) \in Nat /\ Size(r.b2) \in Nat
    BY <1>3, ArcLens
  <2>3. /\ Size(q.t1) \in Nat /\ Size(q.t2) \in Nat /\ Size(q.b1) \in Nat /\ Size(q.b2) \in Nat
    BY <1>5, ArcLens
  <2>4. Size(a.t1) + Size(a.b1) <= a.capacity /\ Size(a.t1) + Size(a.t2) <= a.capacity
        /\ Size(a.t1) + Size(a.t2) + Size(a.b1) + Size(a.b2) <= 2 * a.capacity
    BY <1>7 DEF ArcBounds, ArcLen, ArcTotal
  <2>5. /\ Size(r.t1) + Size(r.b1) <= Size(a.t1) + Size(a.b1)
        /\ Size(r.t1) + Size(r.t2) + Size(r.b1) + Size(r.b2)
             <= Size(a.t1) + Size(a.t2) + Size(a.b1) + Size(a.b2)
        /\ \/ Size(r.t1) + Size(r.t2) = Size(a.t1) + Size(a.t2) - 1
           \/ Size(r.t1) = Size(a.t1) /\ Size(r.t2) = 0 /\ Size(r.b1) = Size(a.b1)
    <3>1. /\ Size(n.t1) + Size(n.b1) = Size(a.t1) + Size(a.b1)
          /\ ArcTotal(n) = ArcTotal(a) /\ ArcLen(n) = ArcLen(a) /\ Size(n.t2) = Size(a.t2)
      BY <1>2 DEF ArcTotal, ArcLen
    <3>2. r = n => Size(r.t1) = Size(a.t1) /\ Size(r.t2) = Size(a.t2) /\ Size(r.b1) = Size(a.b1)
      BY <1>2
    <3> QED BY <1>3, <2>1, <2>2, <3>1, <3>2 DEF ArcTotal, ArcLen
  <2>6. /\ Size(q.t1) + Size(q.b1) <= a.capacity
        /\ Size(q.t1) + Size(q.t2) <= a.capacity
        /\ Size(q.t1) + Size(q.t2) + Size(q.b1) + Size(q.b2) <= 2 * a.capacity
    BY <1>5, <2>1, <2>2, <2>3, <2>4, <2>5
  <2> QED BY <2>6, <1>2, <1>3, <1>5 DEF ArcBounds, ArcLen, ArcTotal
<1> QED BY <1>1, <1>2, <1>3, <1>5, <1>6, <1>7 DEF PutKeeps

\* A ghost hit in b2: likewise, except that t1 may be spared at its target.
LEMMA ArcHitB2Spec ==
  ASSUME NEW S, NEW B, GhostsOf(S, B), NEW a, ArcShape(a, S, B),
         NEW k, NEW v, Entry(k, v) \in S, Holds(a.b2, k), a.capacity > 0
  PROVE  PutKeeps(a, ArcHitB2(a, k, v).cache, S, B, k, v)
<1> DEFINE n == [a EXCEPT !.p = ShrinkP(a)]
           inB2 == TRUE
           r == Replace(n, inB2).cache
           q == FromB2(r, k, v)
<1>1. ArcHitB2(a, k, v).cache = q
  BY DEF ArcHitB2, ShrinkP, FromB2, PutResult
<1>2. /\ ArcShape(n, S, B) /\ n.capacity = a.capacity
      /\ n.t1 = a.t1 /\ n.t2 = a.t2 /\ n.b1 = a.b1 /\ n.b2 = a.b2
  BY TargetSpec, RetargetSpec
<1> HIDE DEF n, q, inB2
<1>3. /\ ArcShape(r, S, B) /\ r.capacity = n.capacity
      /\ ArcEntries(r) \subseteq ArcEntries(n)
      /\ Size(r.t1) + Size(r.b1) <= Size(n.t1) + Size(n.b1)
      /\ ArcTotal(r) <= ArcTotal(n)
      /\ ArcLen(r) = ArcLen(n) - 1 \/ (r = n /\ Size(n.t2) = 0 /\ ~ ReplacesT1(n, inB2))
      /\ KeysOf(n.b2) \subseteq KeysOf(r.b2)
  BY <1>2, ReplaceSpec DEF r
<1> HIDE DEF r
<1>4. Holds(r.b2, k)
  <2>1. k \in KeysOf(n.b2)
    BY <1>2 DEF Holds, KeysOf
  <2> QED BY <2>1, <1>3 DEF Holds, KeysOf
<1>5. /\ ArcShape(q, S, B) /\ q.capacity = r.capacity
      /\ ArcEntries(q) \subseteq ArcEntries(r) \cup {Entry(k, v)}
      /\ Size(q.t1) = Size(r.t1) /\ Size(q.t2) <= Size(r.t2) + 1
      /\ Size(q.b1) = Size(r.b1) /\ Size(q.b2) = Size(r.b2) - 1
  BY <1>3, <1>4, ReviveSpec DEF q
<1>6. ArcEntries(q) \subseteq ArcEntries(a) \cup {Entry(k, v)}
  BY <1>2, <1>3, <1>5 DEF ArcEntries
<1>7. ASSUME ArcBounds(a) PROVE ArcBounds(q)
  <2>1. /\ Size(a.t1) \in Nat /\ Size(a.t2) \in Nat /\ Size(a.b1) \in Nat /\ Size(a.b2) \in Nat
        /\ a.capacity \in Nat /\ n.p \in Nat /\ n.p <= a.capacity
    BY <1>2, ArcLens
  <2>2. /\ Size(r.t1) \in Nat /\ Size(r.t2) \in Nat /\ Size(r.b1) \in Nat /\ Size(r.b2) \in Nat
    BY <1>3, ArcLens
  <2>3. /\ Size(q.t1) \in Nat /\ Size(q.t2) \in Nat /\ Size(q.b1) \in Nat /\ Size(q.b2) \in Nat
    BY <1>5, ArcLens
  <2>4. Size(a.t1) + Size(a.b1) <= a.capacity /\ Size(a.t1) + Size(a.t2) <= a.capacity
        /\ Size(a.t1) + Size(a.t2) + Size(a.b1) + Size(a.b2) <= 2 * a.capacity
    BY <1>7 DEF ArcBounds, ArcLen, ArcTotal
  <2>5. ~ ReplacesT1(n, inB2) => Size(a.t1) = 0 \/ Size(a.t1) < n.p
    BY <1>2, <2>1 DEF ReplacesT1, inB2
  <2>6. /\ Size(r.t1) + Size(r.b1) <= Size(a.t1) + Size(a.b1)
        /\ Size(r.t1) + Size(r.t2) + Size(r.b1) + Size(r.b2)
             <= Size(a.t1) + Size(a.t2) + Size(a.b1) + Size(a.b2)
        /\ \/ Size(r.t1) + Size(r.t2) = Size(a.t1) + Size(a.t2) - 1
           \/ Size(r.t1) < a.capacity /\ Size(r.t2) = 0
    <3>0. /\ Size(n.t1) + Size(n.b1) = Size(a.t1) + Size(a.b1)
          /\ ArcTotal(n) = ArcTotal(a) /\ ArcLen(n) = ArcLen(a)
      BY <1>2 DEF ArcTotal, ArcLen
    <3>1. CASE ArcLen(r) = ArcLen(n) - 1
      BY <3>0, <3>1, <1>3, <2>1, <2>2 DEF ArcTotal, ArcLen
    <3>2. CASE r = n /\ Size(n.t2) = 0 /\ ~ ReplacesT1(n, inB2)
      <4>1. Size(a.t1) < a.capacity
        BY <3>2, <2>1, <2>5
      <4>2. Size(r.t1) = Size(a.t1) /\ Size(r.t2) = 0
        BY <3>2, <1>2
      <4> QED BY <4>1, <4>2, <3>0, <1>3, <2>1, <2>2 DEF ArcTotal, ArcLen
    <3> QED BY <3>1, <3>2, <1>3
  <2>7. /\ Size(q.t1) + Size(q.b1) <= a.capacity
        /\ Size(q.t1) + Size(q.t2) <= a.capacity
        /\ Size(q.t1) + Size(q.t2) + Size(q.b1) + Size(q.b2) <= 2 * a.capacity
    BY <1>5, <2>1, <2>2, <2>3, <2>4, <2>6
  <2> QED BY <2>7, <1>2, <1>3, <1>5 DEF ArcBounds, ArcLen, ArcTotal
<1> QED BY <1>1, <1>2, <1>3, <1>5, <1>6, <1>7 DEF PutKeeps

\* The cache with the back of a list dropped; of b2, only where put does it.
DropT1(a) == [a EXCEPT !.t1 = PopBack(@)]
DropB1(a) == [a EXCEPT !.b1 = PopBack(@)]
DropB2(a) == [a EXCEPT !.b2 = TrimmedB2(a)]

\* What that leaves.
LEMMA TrimmedSpec ==
  ASSUME NEW S, NEW B, NEW a, ArcShape(a, S, B)
  PROVE  /\ LET q == DropT1(a)
            IN  /\ ArcShape(q, S, B) /\ q.capacity = a.capacity
                /\ q.t1 = PopBack(a.t1) /\ q.t2 = a.t2 /\ q.b1 = a.b1 /\ q.b2 = a.b2
         /\ LET q == DropB1(a)
            IN  /\ ArcShape(q, S, B) /\ q.capacity = a.capacity
                /\ q.t1 = a.t1 /\ q.t2 = a.t2 /\ q.b1 = PopBack(a.b1) /\ q.b2 = a.b2
         /\ LET q == DropB2(a)
            IN  /\ ArcShape(q, S, B) /\ q.capacity = a.capacity
                /\ q.t1 = a.t1 /\ q.t2 = a.t2 /\ q.b1 = a.b1 /\ q.b2 = TrimmedB2(a)
<1> DEFINE x == PopBack(a.t1)
           y == PopBack(a.b1)
           z == TrimmedB2(a)
<1>1. /\ a.t1 \in Seq(S) /\ Distinct(a.t1) /\ a.b1 \in Seq(B) /\ Distinct(a.b1)
      /\ a.b2 \in Seq(B) /\ Distinct(a.b2)
  BY DEF ArcShape
<1>2. /\ x \in Seq(S) /\ Distinct(x) /\ y \in Seq(B) /\ Distinct(y)
  BY <1>1, TrimSpec
<1>3. z \in Seq(B) /\ Distinct(z)
  BY <1>1, TrimSpec DEF TrimmedB2
<1> HIDE DEF x, y, z
<1>4. LET q == [a EXCEPT !.t1 = x]
      IN  /\ ArcShape(q, S, B) /\ q.capacity = a.capacity
          /\ q.t1 = x /\ q.t2 = a.t2 /\ q.b1 = a.b1 /\ q.b2 = a.b2
  BY <1>2 DEF ArcShape
<1>5. LET q == [a EXCEPT !.b1 = y]
      IN  /\ ArcShape(q, S, B) /\ q.capacity = a.capacity
          /\ q.t1 = a.t1 /\ q.t2 = a.t2 /\ q.b1 = y /\ q.b2 = a.b2
  BY <1>2 DEF ArcShape
<1>6. LET q == [a EXCEPT !.b2 = z]
      IN  /\ ArcShape(q, S, B) /\ q.capacity = a.capacity
          /\ q.t1 = a.t1 /\ q.t2 = a.t2 /\ q.b1 = a.b1 /\ q.b2 = z
  BY <1>3 DEF ArcShape
<1> QED BY <1>4, <1>5, <1>6 DEF x, y, z, DropT1, DropB1, DropB2

\* There is room for one more entry within every bound.
ArcHasRoom(q) ==
  /\ Size(q.t1) + Size(q.t2) < q.capacity
  /\ Size(q.t1) + Size(q.b1) < q.capacity
  /\ Size(q.t1) + Size(q.t2) + Size(q.b1) + Size(q.b2) < 2 * q.capacity

\* replace makes that room in lists n whose sums leave it, if they are within
\* capacity and t1 alone is below it.
LEMMA ReplaceMakesRoom ==
  ASSUME NEW S, NEW B, GhostsOf(S, B), NEW n, ArcShape(n, S, B),
         Size(n.t1) + Size(n.t2) <= n.capacity,
         Size(n.t1) + Size(n.b1) < n.capacity,
         Size(n.t1) + Size(n.t2) + Size(n.b1) + Size(n.b2) < 2 * n.capacity,
         NEW x, NEW r, r = Replace(n, x).cache
  PROVE  ArcHasRoom(r)
<1>1. /\ ArcShape(r, S, B) /\ r.capacity = n.capacity
      /\ Size(r.t1) + Size(r.b1) <= Size(n.t1) + Size(n.b1)
      /\ ArcTotal(r) <= ArcTotal(n)
      /\ ArcLen(r) = ArcLen(n) - 1 \/ (r = n /\ Size(n.t2) = 0)
  BY ReplaceSpec
<1>2. /\ Size(n.t1) \in Nat /\ Size(n.t2) \in Nat /\ Size(n.b1) \in Nat /\ Size(n.b2) \in Nat
      /\ n.capacity \in Nat
  BY ArcLens
<1>3. /\ Size(r.t1) \in Nat /\ Size(r.t2) \in Nat /\ Size(r.b1) \in Nat /\ Size(r.b2) \in Nat
  BY <1>1, ArcLens
<1>4. CASE ArcLen(r) = ArcLen(n) - 1
  BY <1>1, <1>2, <1>3, <1>4 DEF ArcHasRoom, ArcLen, ArcTotal
<1>5. CASE r = n /\ Size(n.t2) = 0
  BY <1>2, <1>5 DEF ArcHasRoom
<1> QED BY <1>1, <1>4, <1>5

\* Before a total miss is admitted, room is made for it: if b1 gives up its
\* oldest ghost it has one, and if b2 does it has one as well.
LEMMA ArcMakeRoomSpec ==
  ASSUME NEW S, NEW B, GhostsOf(S, B), NEW a, ArcShape(a, S, B), a.capacity > 0
  PROVE  LET r == ArcMakeRoom(a).cache
         IN  /\ ArcShape(r, S, B) /\ r.capacity = a.capacity
             /\ ArcEntries(r) \subseteq ArcEntries(a)
             /\ ArcBounds(a) => ArcHasRoom(r)
<1> DEFINE inB2 == FALSE
           r == ArcMakeRoom(a).cache
           Good(q) == /\ ArcShape(q, S, B) /\ q.capacity = a.capacity
                      /\ ArcEntries(q) \subseteq ArcEntries(a)
                      /\ ArcBounds(a) => ArcHasRoom(q)
<1>1. /\ Size(a.t1) \in Nat /\ Size(a.t2) \in Nat /\ Size(a.b1) \in Nat /\ Size(a.b2) \in Nat
      /\ a.capacity \in Nat
  BY ArcLens
<1>2. /\ a.t1 \in Seq(S) /\ Distinct(a.t1) /\ a.b1 \in Seq(B) /\ Distinct(a.b1)
      /\ a.b2 \in Seq(B) /\ Distinct(a.b2)
  BY DEF ArcShape
<1>3. ArcBounds(a) =>
        /\ Size(a.t1) + Size(a.t2) <= a.capacity
        /\ Size(a.t1) + Size(a.b1) <= a.capacity
        /\ Size(a.t1) + Size(a.t2) + Size(a.b1) + Size(a.b2) <= 2 * a.capacity
  BY DEF ArcBounds, ArcLen, ArcTotal
<1>4. CASE Size(a.t1) + Size(a.b1) = a.capacity /\ Size(a.t1) < a.capacity
  <2> DEFINE n == DropB1(a)
  <2>1. r = Replace(n, inB2).cache
    <3>1. ~ (Size(a.t1) >= a.capacity)
      BY <1>1, <1>4
    <3> QED BY <1>4, <3>1 DEF ArcMakeRoom, DropB1
  <2>2. /\ ArcShape(n, S, B) /\ n.capacity = a.capacity
        /\ n.t1 = a.t1 /\ n.t2 = a.t2 /\ n.b1 = PopBack(a.b1) /\ n.b2 = a.b2
    BY TrimmedSpec
  <2> HIDE DEF n, inB2, r, Good
  <2>3. Size(PopBack(a.b1)) = Size(a.b1) - 1
    BY <1>1, <1>2, <1>4, TrimSpec
  <2>4. /\ Size(n.t1) = Size(a.t1) /\ Size(n.t2) = Size(a.t2)
        /\ Size(n.b1) = Size(a.b1) - 1 /\ Size(n.b2) = Size(a.b2)
    BY <2>2, <2>3
  <2>5. ArcBounds(a) =>
          /\ Size(n.t1) + Size(n.t2) <= n.capacity
          /\ Size(n.t1) + Size(n.b1) < n.capacity
          /\ Size(n.t1) + Size(n.t2) + Size(n.b1) + Size(n.b2) < 2 * n.capacity
    BY <1>1, <1>3, <1>4, <2>2, <2>4
  <2>6. ArcBounds(a) => ArcHasRoom(r)
    BY <2>1, <2>2, <2>5, ReplaceMakesRoom
  <2>7. /\ ArcShape(r, S, B) /\ r.capacity = n.capacity /\ ArcEntries(r) \subseteq ArcEntries(n)
    BY <2>1, <2>2, ReplaceSpec
  <2>8. ArcEntries(n) = ArcEntries(a)
    BY <2>2 DEF ArcEntries
  <2> QED BY <2>2, <2>6, <2>7, <2>8 DEF r
<1>5. CASE Size(a.t1) + Size(a.b1) = a.capacity /\ Size(a.t1) >= a.capacity
  <2> DEFINE n == DropT1(a)
  <2>1. r = n
    <3>1. ~ (Size(a.t1) < a.capacity)
      BY <1>1, <1>5
    <3> QED BY <1>5, <3>1 DEF ArcMakeRoom, DropT1, PutResult
  <2>2. /\ ArcShape(n, S, B) /\ n.capacity = a.capacity
        /\ n.t1 = PopBack(a.t1) /\ n.t2 = a.t2 /\ n.b1 = a.b1 /\ n.b2 = a.b2
    BY TrimmedSpec
  <2> HIDE DEF n, inB2, r, Good
  <2>3. Size(PopBack(a.t1)) = Size(a.t1) - 1 /\ ToSet(PopBack(a.t1)) \subseteq ToSet(a.t1)
    BY <1>1, <1>2, <1>5, TrimSpec
  <2>4. /\ Size(n.t1) = Size(a.t1) - 1 /\ Size(n.t2) = Size(a.t2)
        /\ Size(n.b1) = Size(a.b1) /\ Size(n.b2) = Size(a.b2)
    BY <2>2, <2>3
  <2>5. ArcBounds(a) => ArcHasRoom(n)
    BY <1>1, <1>3, <1>5, <2>2, <2>4 DEF ArcHasRoom
  <2>6. ArcEntries(n) \subseteq ArcEntries(a)
    BY <2>2, <2>3 DEF ArcEntries
  <2> QED BY <2>1, <2>2, <2>5, <2>6 DEF r
<1>6. CASE Size(a.t1) + Size(a.b1) # a.capacity /\ ArcTotal(a) < a.capacity
  <2>1. r = a
    <3>1. ~ (ArcTotal(a) >= a.capacity)
      BY <1>1, <1>6 DEF ArcTotal
    <3> QED BY <1>6, <3>1 DEF ArcMakeRoom, PutResult
  <2> HIDE DEF inB2, r, Good
  <2>2. ArcBounds(a) => ArcHasRoom(a)
    BY <1>1, <1>3, <1>6 DEF ArcHasRoom, ArcTotal
  <2> QED BY <2>1, <2>2 DEF r
<1>7. CASE Size(a.t1) + Size(a.b1) # a.capacity /\ ArcTotal(a) >= a.capacity
  <2> DEFINE n == DropB2(a)
  <2>1. r = Replace(n, inB2).cache
    <3>1. ~ (ArcTotal(a) < a.capacity)
      BY <1>1, <1>7 DEF ArcTotal
    <3> QED BY <1>7, <3>1 DEF ArcMakeRoom, DropB2
  <2>2. /\ ArcShape(n, S, B) /\ n.capacity = a.capacity
        /\ n.t1 = a.t1 /\ n.t2 = a.t2 /\ n.b1 = a.b1 /\ n.b2 = TrimmedB2(a)
    BY TrimmedSpec
  <2> HIDE DEF n, inB2, r, Good
  <2>3. /\ Size(TrimmedB2(a)) \in Nat /\ Size(TrimmedB2(a)) <= Size(a.b2)
        /\ ArcTotal(a) = 2 * a.capacity /\ Size(a.b2) > 0 => Size(TrimmedB2(a)) = Size(a.b2) - 1
    BY <1>1, <1>2, TrimSpec DEF TrimmedB2
  <2>4. /\ Size(n.t1) = Size(a.t1) /\ Size(n.t2) = Size(a.t2) /\ Size(n.b1) = Size(a.b1)
        /\ Size(n.b2) \in Nat /\ Size(n.b2) <= Size(a.b2)
        /\ ArcTotal(a) = 2 * a.capacity /\ Size(a.b2) > 0 => Size(n.b2) = Size(a.b2) - 1
    BY <2>2, <2>3
  <2>5. ArcBounds(a) =>
          /\ Size(n.t1) + Size(n.t2) <= n.capacity
          /\ Size(n.t1) + Size(n.b1) < n.capacity
          /\ Size(n.t1) + Size(n.t2) + Size(n.b1) + Size(n.b2) < 2 * n.capacity
    BY <1>1, <1>3, <1>7, <2>2, <2>4 DEF ArcTotal
  <2>6. ArcBounds(a) => ArcHasRoom(r)
    BY <2>1, <2>2, <2>5, ReplaceMakesRoom
  <2>7. /\ ArcShape(r, S, B) /\ r.capacity = n.capacity /\ ArcEntries(r) \subseteq ArcEntries(n)
    BY <2>1, <2>2, ReplaceSpec
  <2>8. ArcEntries(n) = ArcEntries(a)
    BY <2>2 DEF ArcEntries
  <2> QED BY <2>2, <2>6, <2>7, <2>8 DEF r
<1> QED BY <1>1, <1>4, <1>5, <1>6, <1>7 DEF ArcTotal

\* A total miss, or a put of a live key, which takes the same branch.
LEMMA ArcMissSpec ==
  ASSUME NEW S, NEW B, GhostsOf(S, B), NEW a, ArcShape(a, S, B),
         NEW k, NEW v, Entry(k, v) \in S, a.capacity > 0
  PROVE  PutKeeps(a, ArcMiss(a, k, v).cache, S, B, k, v)
<1> DEFINE r == ArcMakeRoom(a).cache
           g == InsertFront(r.t1, k, v)
           q == [r EXCEPT !.t1 = g]
<1>1. ArcMiss(a, k, v).cache = q
  BY DEF ArcMiss, PutResult
<1>2. /\ ArcShape(r, S, B) /\ r.capacity = a.capacity
      /\ ArcEntries(r) \subseteq ArcEntries(a)
      /\ ArcBounds(a) => ArcHasRoom(r)
  BY ArcMakeRoomSpec
<1> HIDE DEF r
<1>3. r.t1 \in Seq(S) /\ Distinct(r.t1)
  BY <1>2 DEF ArcShape
<1>4. /\ g \in Seq(S) /\ Distinct(g) /\ Size(g) \in Nat /\ Size(g) <= Size(r.t1) + 1
      /\ ToSet(g) \subseteq ToSet(r.t1) \cup {Entry(k, v)}
  BY <1>3, PushSpec
<1> HIDE DEF g
<1>5. /\ ArcShape(q, S, B) /\ q.capacity = r.capacity
      /\ q.t1 = g /\ q.t2 = r.t2 /\ q.b1 = r.b1 /\ q.b2 = r.b2
  BY <1>2, <1>4 DEF ArcShape
<1> HIDE DEF q
<1>6. ArcEntries(q) \subseteq ArcEntries(a) \cup {Entry(k, v)}
  BY <1>2, <1>4, <1>5 DEF ArcEntries
<1>7. /\ Size(r.t1) \in Nat /\ Size(r.t2) \in Nat /\ Size(r.b1) \in Nat /\ Size(r.b2) \in Nat
      /\ r.capacity \in Nat
  BY <1>2, ArcLens
<1>8. /\ Size(q.t1) \in Nat /\ Size(q.t1) <= Size(r.t1) + 1 /\ Size(q.t2) = Size(r.t2)
      /\ Size(q.b1) = Size(r.b1) /\ Size(q.b2) = Size(r.b2)
  BY <1>4, <1>5
<1>9. ArcHasRoom(r) => ArcBounds(q)
  BY <1>5, <1>7, <1>8 DEF ArcHasRoom, ArcBounds, ArcLen, ArcTotal
<1> QED BY <1>1, <1>2, <1>5, <1>6, <1>9 DEF PutKeeps

\* ARC's put, whatever the key: live, a ghost or neither.
LEMMA ArcPutSpec ==
  ASSUME NEW S, NEW B, GhostsOf(S, B), NEW a, ArcShape(a, S, B),
         NEW k, NEW v, Entry(k, v) \in S
  PROVE  PutKeeps(a, ArcPut(a, k, v).cache, S, B, k, v)
<1>1. a.capacity \in Nat
  BY ArcLens
<1>2. a.capacity > 0 => ~ (a.capacity = 0)
  BY <1>1
<1>3. CASE a.capacity = 0
  <2>1. ArcPut(a, k, v).cache = a
    BY <1>3 DEF ArcPut, PutResult
  <2> QED BY <2>1 DEF PutKeeps
<1>4. CASE a.capacity > 0 /\ Holds(a.b1, k)
  <2>1. ArcPut(a, k, v) = ArcHitB1(a, k, v)
    BY <1>2, <1>4 DEF ArcPut
  <2> QED BY <1>4, <2>1, ArcHitB1Spec
<1>5. CASE a.capacity > 0 /\ ~ Holds(a.b1, k) /\ Holds(a.b2, k)
  <2>1. ArcPut(a, k, v) = ArcHitB2(a, k, v)
    BY <1>2, <1>5 DEF ArcPut
  <2> QED BY <1>5, <2>1, ArcHitB2Spec
<1>6. CASE a.capacity > 0 /\ ~ Holds(a.b1, k) /\ ~ Holds(a.b2, k)
  <2>1. ArcPut(a, k, v) = ArcMiss(a, k, v)
    BY <1>2, <1>6 DEF ArcPut
  <2> QED BY <1>6, <2>1, ArcMissSpec
<1> QED BY <1>1, <1>3, <1>4, <1>5, <1>6

\* A cache with four empty lists has the type and respects the bounds.
LEMMA ArcEmptySpec ==
  ASSUME NEW S, NEW B, NEW a, NEW c \in Nat, a = ArcNew(c)
  PROVE  ArcShape(a, S, B) /\ a.capacity = c /\ ArcEntries(a) = {} /\ ArcBounds(a)
<1>1. <<>> \in Seq(S) /\ <<>> \in Seq(B) /\ Distinct(<<>>) /\ Size(<<>>) = 0 /\ ToSet(<<>>) = {}
  BY DEF Distinct, Size, ToSet
<1>2. /\ ArcShape(a, S, B) /\ a.capacity = c
      /\ a.t1 = <<>> /\ a.t2 = <<>> /\ a.b1 = <<>> /\ a.b2 = <<>>
  BY <1>1 DEF ArcShape, ArcNew
<1> QED BY <1>1, <1>2 DEF ArcEntries, ArcBounds, ArcLen, ArcTotal

\* Clearing is starting afresh.
LEMMA ArcClearSpec ==
  ASSUME NEW S, NEW B, NEW a, ArcShape(a, S, B)
  PROVE  ArcClear(a) = ArcNew(a.capacity)
<1> DEFINE f == ArcClear(a)
           g == ArcNew(a.capacity)
           R == [kind: {"Arc"}, t1: {<<>>}, t2: {<<>>}, b1: {<<>>}, b2: {<<>>},
                 p: {0}, capacity: {a.capacity}]
<1>1. f \in R /\ g \in R
  BY DEF ArcClear, ArcNew, ArcShape
<1> QED BY <1>1

-----------------------------------------------------------------------------
\* What an operation reports against what it does to the live lists.

\* replace reports an eviction only if a live list gave up an entry.
LEMMA ReplaceCounts ==
  ASSUME NEW S, NEW B, GhostsOf(S, B), NEW a, ArcShape(a, S, B), NEW x,
         NEW r, r = Replace(a, x)
  PROVE  /\ ArcLen(r.cache) \in Nat /\ ArcLen(r.cache) <= ArcLen(a)
         /\ r.evicted => ArcLen(r.cache) <= ArcLen(a) - 1
<1>1. /\ ArcShape(r.cache, S, B)
      /\ \/ ArcLen(r.cache) = ArcLen(a) - 1
         \/ r.cache = a /\ Size(a.t2) = 0 /\ ~ ReplacesT1(a, x)
  BY ReplaceSpec
<1>2. ArcLen(r.cache) \in Nat /\ ArcLen(a) \in Nat
  BY <1>1, ArcLens DEF ArcLen
<1>3. ~ ReplacesT1(a, x) /\ Size(a.t2) = 0 => ~ r.evicted
  <2>1. Size(a.t2) = 0 => a.t2 = <<>>
    BY DEF ArcShape, Size
  <2> QED BY <2>1 DEF Replace, PutResult
<1> QED BY <1>1, <1>2, <1>3

\* A ghost hit puts back the one entry replace may have taken.
LEMMA ArcGhostHitCounts ==
  ASSUME NEW S, NEW B, GhostsOf(S, B), NEW a, ArcShape(a, S, B),
         NEW k, NEW v, Entry(k, v) \in S,
         NEW q, q \in {ArcHitB1(a, k, v), ArcHitB2(a, k, v)}
  PROVE  /\ ArcLen(q.cache) <= ArcLen(a) + 1
         /\ q.evicted => ArcLen(q.cache) <= ArcLen(a)
<1>1. ASSUME NEW x \in Nat, x <= a.capacity, NEW y, NEW r, r = Replace([a EXCEPT !.p = x], y)
      PROVE  /\ ArcShape(r.cache, S, B)
             /\ ArcLen(r.cache) <= ArcLen(a)
             /\ r.evicted => ArcLen(r.cache) <= ArcLen(a) - 1
  <2> DEFINE n == [a EXCEPT !.p = x]
  <2>1. ArcShape(n, S, B) /\ n.t1 = a.t1 /\ n.t2 = a.t2
    BY <1>1, RetargetSpec
  <2>2. r = Replace(n, y)
    BY <1>1
  <2> HIDE DEF n
  <2>3. ArcShape(r.cache, S, B)
    <3> DEFINE c == r.cache
    <3>1. c = Replace(n, y).cache
      BY <2>2
    <3> HIDE DEF c
    <3>2. ArcShape(c, S, B)
      BY <2>1, <3>1, ReplaceSpec
    <3> QED BY <3>2 DEF c
  <2>4. /\ ArcLen(r.cache) <= ArcLen(n)
        /\ r.evicted => ArcLen(r.cache) <= ArcLen(n) - 1
    BY <2>1, <2>2, ReplaceCounts
  <2>5. ArcLen(n) = ArcLen(a)
    BY <2>1 DEF ArcLen
  <2> QED BY <2>3, <2>4, <2>5
<1>2. ASSUME NEW r, ArcShape(r, S, B), NEW c, c \in {FromB1(r, k, v), FromB2(r, k, v)}
      PROVE  ArcLen(c) \in Nat /\ ArcLen(r) \in Nat /\ ArcLen(c) <= ArcLen(r) + 1
  <2>1. /\ ArcShape(c, S, B)
        /\ Size(c.t1) = Size(r.t1) /\ Size(c.t2) <= Size(r.t2) + 1
    BY <1>2, ReviveSpec
  <2> QED BY <1>2, <2>1, ArcLens DEF ArcLen
<1>3. GrowP(a) \in Nat /\ GrowP(a) <= a.capacity /\ ShrinkP(a) \in Nat /\ ShrinkP(a) <= a.capacity
  BY TargetSpec
<1>4. ArcLen(a) \in Nat
  BY ArcLens DEF ArcLen
<1>5. CASE q = ArcHitB1(a, k, v)
  <2> DEFINE r == Replace([a EXCEPT !.p = GrowP(a)], FALSE)
             c == FromB1(r.cache, k, v)
  <2>1. q.cache = c /\ q.evicted = r.evicted
    BY <1>5 DEF ArcHitB1, FromB1, PutResult
  <2>2. /\ ArcShape(r.cache, S, B) /\ ArcLen(r.cache) <= ArcLen(a)
        /\ r.evicted => ArcLen(r.cache) <= ArcLen(a) - 1
    BY <1>1, <1>3
  <2> HIDE DEF r
  <2>3. ArcLen(c) \in Nat /\ ArcLen(r.cache) \in Nat /\ ArcLen(c) <= ArcLen(r.cache) + 1
    BY <1>2, <2>2
  <2> HIDE DEF c
  <2> QED BY <1>4, <2>1, <2>2, <2>3
<1>6. CASE q = ArcHitB2(a, k, v)
  <2> DEFINE r == Replace([a EXCEPT !.p = ShrinkP(a)], TRUE)
             c == FromB2(r.cache, k, v)
  <2>1. q.cache = c /\ q.evicted = r.evicted
    BY <1>6 DEF ArcHitB2, FromB2, PutResult
  <2>2. /\ ArcShape(r.cache, S, B) /\ ArcLen(r.cache) <= ArcLen(a)
        /\ r.evicted => ArcLen(r.cache) <= ArcLen(a) - 1
    BY <1>1, <1>3
  <2> HIDE DEF r
  <2>3. ArcLen(c) \in Nat /\ ArcLen(r.cache) \in Nat /\ ArcLen(c) <= ArcLen(r.cache) + 1
    BY <1>2, <2>2
  <2> HIDE DEF c
  <2> QED BY <1>4, <2>1, <2>2, <2>3
<1> QED BY <1>5, <1>6

\* Making room reports an eviction only if a live entry went.
LEMMA ArcMakeRoomCounts ==
  ASSUME NEW S, NEW B, GhostsOf(S, B), NEW a, ArcShape(a, S, B),
         NEW r, r = ArcMakeRoom(a)
  PROVE  /\ ArcLen(r.cache) <= ArcLen(a)
         /\ r.evicted => ArcLen(r.cache) <= ArcLen(a) - 1
<1> DEFINE full == Size(a.t1) + Size(a.b1) = a.capacity
           over == Size(a.t1) >= a.capacity
           rich == ArcTotal(a) >= a.capacity
<1>1. (over <=> ~ (Size(a.t1) < a.capacity)) /\ (rich <=> ~ (ArcTotal(a) < a.capacity))
  BY ArcLens DEF ArcTotal
<1>2. Size(a.t1) \in Nat /\ Size(a.t2) \in Nat
  BY ArcLens
<1>3. ASSUME NEW n, ArcShape(n, S, B), n.t1 = a.t1, n.t2 = a.t2, NEW x, r = Replace(n, x)
      PROVE  /\ ArcLen(r.cache) <= ArcLen(a)
             /\ r.evicted => ArcLen(r.cache) <= ArcLen(a) - 1
  <2>1. ArcLen(n) = ArcLen(a)
    BY <1>3 DEF ArcLen
  <2> QED BY <1>3, <2>1, ReplaceCounts
<1>4. CASE full /\ ~ over
  <2> DEFINE n == DropB1(a)
  <2>1. r = Replace(n, FALSE)
    BY <1>1, <1>4 DEF ArcMakeRoom, DropB1
  <2>2. ArcShape(n, S, B) /\ n.t1 = a.t1 /\ n.t2 = a.t2
    BY TrimmedSpec
  <2> HIDE DEF n
  <2> QED BY <1>3, <2>1, <2>2
<1>5. CASE full /\ over
  <2> DEFINE n == DropT1(a)
  <2>1. r.cache = n /\ (r.evicted <=> a.t1 # <<>>)
    BY <1>1, <1>5 DEF ArcMakeRoom, DropT1, PutResult
  <2>2. ArcShape(n, S, B) /\ n.t1 = PopBack(a.t1) /\ n.t2 = a.t2
    BY TrimmedSpec
  <2> HIDE DEF n
  <2>3. /\ Size(PopBack(a.t1)) \in Nat /\ Size(PopBack(a.t1)) <= Size(a.t1)
        /\ Size(a.t1) > 0 => Size(PopBack(a.t1)) = Size(a.t1) - 1
    BY TrimSpec DEF ArcShape
  <2>4. a.t1 # <<>> => Size(a.t1) > 0
    BY DEF ArcShape, Size
  <2> QED BY <1>2, <2>1, <2>2, <2>3, <2>4 DEF ArcLen
<1>6. CASE ~ full /\ ~ rich
  <2>1. r.cache = a /\ ~ r.evicted
    BY <1>1, <1>6 DEF ArcMakeRoom, PutResult
  <2> QED BY <1>2, <2>1 DEF ArcLen
<1>7. CASE ~ full /\ rich
  <2> DEFINE n == DropB2(a)
  <2>1. r = Replace(n, FALSE)
    BY <1>1, <1>7 DEF ArcMakeRoom, DropB2
  <2>2. ArcShape(n, S, B) /\ n.t1 = a.t1 /\ n.t2 = a.t2
    BY TrimmedSpec
  <2> HIDE DEF n
  <2> QED BY <1>3, <2>1, <2>2
<1> QED BY <1>4, <1>5, <1>6, <1>7

\* A put adds at most one live entry, and none if it reports an eviction.
LEMMA ArcPutCounts ==
  ASSUME NEW S, NEW B, GhostsOf(S, B), NEW a, ArcShape(a, S, B),
         NEW k, NEW v, Entry(k, v) \in S, NEW q, q = ArcPut(a, k, v)
  PROVE  /\ ArcLen(q.cache) <= ArcLen(a) + 1
         /\ q.evicted => ArcLen(q.cache) <= ArcLen(a)
<1>1. a.capacity \in Nat /\ ArcLen(a) \in Nat
  BY ArcLens DEF ArcLen
<1>2. a.capacity > 0 => ~ (a.capacity = 0)
  BY <1>1
<1>3. CASE a.capacity = 0
  <2>1. q.cache = a /\ ~ q.evicted
    BY <1>2, <1>3 DEF ArcPut, PutResult
  <2> QED BY <1>1, <2>1
<1>4. CASE a.capacity > 0 /\ Holds(a.b1, k)
  <2>1. q = ArcHitB1(a, k, v)
    BY <1>2, <1>4 DEF ArcPut
  <2> QED BY <2>1, ArcGhostHitCounts
<1>5. CASE a.capacity > 0 /\ ~ Holds(a.b1, k) /\ Holds(a.b2, k)
  <2>1. q = ArcHitB2(a, k, v)
    BY <1>2, <1>5 DEF ArcPut
  <2> QED BY <2>1, ArcGhostHitCounts
<1>6. CASE a.capacity > 0 /\ ~ Holds(a.b1, k) /\ ~ Holds(a.b2, k)
  <2> DEFINE r == ArcMakeRoom(a)
             n == r.cache
             g == InsertFront(n.t1, k, v)
             c == [n EXCEPT !.t1 = g]
  <2>1. q = ArcMiss(a, k, v)
    BY <1>2, <1>6 DEF ArcPut
  <2>2. q.cache = c /\ q.evicted = r.evicted
    BY <2>1 DEF ArcMiss, PutResult
  <2>3. ArcShape(n, S, B)
    BY <1>6, ArcMakeRoomSpec
  <2>4. /\ ArcLen(n) <= ArcLen(a)
        /\ r.evicted => ArcLen(n) <= ArcLen(a) - 1
    BY ArcMakeRoomCounts
  <2> HIDE DEF r
  <2> HIDE DEF n
  <2>5. Size(g) \in Nat /\ Size(g) <= Size(n.t1) + 1
    BY <2>3, PushSpec DEF ArcShape
  <2> HIDE DEF g
  <2>6. c.t1 = g /\ c.t2 = n.t2
    BY <2>3 DEF ArcShape
  <2> HIDE DEF c
  <2>7. ArcLen(c) <= ArcLen(n) + 1 /\ ArcLen(c) \in Nat /\ ArcLen(n) \in Nat
    BY <2>3, <2>5, <2>6, ArcLens DEF ArcLen
  <2> QED BY <1>1, <2>2, <2>4, <2>7
<1> QED BY <1>1, <1>3, <1>4, <1>5, <1>6

\* A get promotes a key and leaves as many live entries.
LEMMA ArcGetCounts ==
  ASSUME NEW S, NEW B, GhostsOf(S, B), NEW a, ArcShape(a, S, B), NEW k,
         NEW q, q = ArcGet(a, k).cache
  PROVE  ArcLen(q) <= ArcLen(a)
<1>1. /\ a.t1 \in Seq(S) /\ Distinct(a.t1) /\ a.t2 \in Seq(S) /\ Distinct(a.t2)
      /\ EntrySet(S) /\ Size(a.t1) \in Nat /\ Size(a.t2) \in Nat
  BY ArcLens DEF ArcShape, GhostsOf
<1>2. CASE Holds(a.t1, k)
  <2> DEFINE w == Without(a.t1, k)
             g == InsertFront(a.t2, k, ValueOf(a.t1, k))
  <2>1. q = [a EXCEPT !.t1 = w, !.t2 = g]
    BY <1>2 DEF ArcGet, GetResult
  <2>2. Size(w) = Size(a.t1) - 1
    BY <1>1, <1>2, DropSpec
  <2>3. Size(g) \in Nat /\ Size(g) <= Size(a.t2) + 1
    BY <1>1, <1>2, ValueOfSpec, PushSpec
  <2> HIDE DEF w, g
  <2>4. q.t1 = w /\ q.t2 = g
    BY <2>1 DEF ArcShape
  <2> QED BY <1>1, <2>2, <2>3, <2>4 DEF ArcLen
<1>3. CASE ~ Holds(a.t1, k)
  <2> DEFINE g == MoveToFront(a.t2, k)
  <2>1. q = [a EXCEPT !.t2 = g]
    BY <1>3 DEF ArcGet, GetResult
  <2>2. Size(g) = Size(a.t2)
    BY <1>1, MoveToFrontSpec DEF Size
  <2> HIDE DEF g
  <2>3. q.t1 = a.t1 /\ q.t2 = g
    BY <2>1 DEF ArcShape
  <2> QED BY <1>1, <2>2, <2>3 DEF ArcLen
<1> QED BY <1>2, <1>3

-----------------------------------------------------------------------------
\* The four lists stay apart when only keys that are not live are put.

LiveOf(a) == KeysOf(a.t1) \cup KeysOf(a.t2)
GhostOf(a) == KeysOf(a.b1) \cup KeysOf(a.b2)

\* The first half of ArcApart.
Disjoint(a) ==
  /\ KeysOf(a.t1) \cap KeysOf(a.t2) = {}
  /\ LiveOf(a) \cap GhostOf(a) = {}
  /\ KeysOf(a.b1) \cap KeysOf(a.b2) = {}

\* The second half.
FullIfGhosts(a) == a.b1 # <<>> \/ a.b2 # <<>> => ArcLen(a) = a.capacity

\* ArcApart, in two halves.
LEMMA ArcApartParts ==
  ASSUME NEW a
  PROVE  ArcApart(a) <=> Disjoint(a) /\ FullIfGhosts(a)
BY DEF ArcApart, Disjoint, FullIfGhosts, LiveOf, GhostOf

\* A list holds the keys it has.
LEMMA HoldsKeys ==
  ASSUME NEW m, NEW k
  PROVE  Holds(m, k) <=> k \in KeysOf(m)
BY DEF Holds, KeysOf

\* A demotion moves one key.
LEMMA DemoteKeys ==
  ASSUME NEW S, NEW B, GhostsOf(S, B),
         NEW t \in Seq(S), Distinct(t), t # <<>>, NEW b \in Seq(B), Distinct(b)
  PROVE  LET x == BackOf(t).key
         IN  /\ x \in KeysOf(t)
             /\ KeysOf(PopBack(t)) = KeysOf(t) \ {x}
             /\ KeysOf(InsertFront(b, x, Unit)) = KeysOf(b) \cup {x}
<1> DEFINE x == BackOf(t).key
<1>1. x \in KeysOf(t) /\ KeysOf(PopBack(t)) = KeysOf(t) \ {x}
  BY PopBackKeys
<1>2. Entry(x, Unit) \in B
  BY PopBackSpec DEF GhostsOf
<1> HIDE DEF x
<1>3. KeysOf(InsertFront(b, x, Unit)) = KeysOf(b) \cup {x}
  BY <1>2, InsertFrontSpec
<1> QED BY <1>1, <1>3 DEF x

\* replace keeps the lists apart, makes no key live and brings in none.
LEMMA ReplaceKeys ==
  ASSUME NEW S, NEW B, GhostsOf(S, B), NEW a, ArcShape(a, S, B), Disjoint(a), NEW x,
         NEW r, r = Replace(a, x).cache
  PROVE  /\ Disjoint(r) /\ LiveOf(r) \subseteq LiveOf(a)
         /\ LiveOf(r) \cup GhostOf(r) \subseteq LiveOf(a) \cup GhostOf(a)
<1>1. /\ a.t1 \in Seq(S) /\ Distinct(a.t1) /\ a.b1 \in Seq(B) /\ Distinct(a.b1)
      /\ a.t2 \in Seq(S) /\ Distinct(a.t2) /\ a.b2 \in Seq(B) /\ Distinct(a.b2)
  BY DEF ArcShape
<1>2. CASE ReplacesT1(a, x)
  <2> DEFINE t == PopBack(a.t1)
             y == BackOf(a.t1).key
             g == InsertFront(a.b1, y, Unit)
  <2>1. r = [a EXCEPT !.t1 = t, !.b1 = g]
    BY <1>2 DEF Replace, DemoteT1, PutResult
  <2>2. a.t1 # <<>>
    BY <1>2 DEF ReplacesT1, ArcShape, Size
  <2>3. /\ y \in KeysOf(a.t1) /\ KeysOf(t) = KeysOf(a.t1) \ {y}
        /\ KeysOf(g) = KeysOf(a.b1) \cup {y}
    BY <1>1, <2>2, DemoteKeys
  <2> HIDE DEF t, y, g
  <2>4. r.t1 = t /\ r.b1 = g /\ r.t2 = a.t2 /\ r.b2 = a.b2
    BY <2>1 DEF ArcShape
  <2> QED BY <2>3, <2>4 DEF Disjoint, LiveOf, GhostOf
<1>3. CASE ~ ReplacesT1(a, x) /\ a.t2 # <<>>
  <2> DEFINE t == PopBack(a.t2)
             y == BackOf(a.t2).key
             g == InsertFront(a.b2, y, Unit)
  <2>1. r = [a EXCEPT !.t2 = t, !.b2 = g]
    BY <1>3 DEF Replace, DemoteT2, PutResult
  <2>3. /\ y \in KeysOf(a.t2) /\ KeysOf(t) = KeysOf(a.t2) \ {y}
        /\ KeysOf(g) = KeysOf(a.b2) \cup {y}
    BY <1>1, <1>3, DemoteKeys
  <2> HIDE DEF t, y, g
  <2>4. r.t2 = t /\ r.b2 = g /\ r.t1 = a.t1 /\ r.b1 = a.b1
    BY <2>1 DEF ArcShape
  <2> QED BY <2>3, <2>4 DEF Disjoint, LiveOf, GhostOf
<1>4. CASE ~ ReplacesT1(a, x) /\ a.t2 = <<>>
  <2>1. r = a
    BY <1>4 DEF Replace, PutResult
  <2> QED BY <2>1
<1> QED BY <1>2, <1>3, <1>4

\* From a full cache replace demotes an entry, unless t2 is empty and t1 is
\* within its target.
LEMMA ReplaceDemotes ==
  ASSUME NEW S, NEW B, GhostsOf(S, B), NEW a, ArcShape(a, S, B),
         ArcLen(a) = a.capacity, a.capacity > 0, NEW x \in BOOLEAN,
         Size(a.t1) < a.capacity \/ x,
         NEW r, r = Replace(a, x).cache
  PROVE  ArcLen(r) = a.capacity - 1
<1>1. \/ ArcLen(r) = ArcLen(a) - 1
      \/ Size(a.t2) = 0 /\ ~ ReplacesT1(a, x)
  BY ReplaceSpec
<1>2. /\ Size(a.t1) \in Nat /\ Size(a.t2) \in Nat /\ a.p \in Nat /\ a.capacity \in Nat
      /\ a.p <= a.capacity
  BY ArcLens
<1>3. Size(a.t1) + Size(a.t2) = a.capacity
  BY DEF ArcLen
<1>4. ASSUME Size(a.t2) = 0, ~ ReplacesT1(a, x) PROVE FALSE
  <2>1. Size(a.t1) = a.capacity /\ x
    BY <1>2, <1>3, <1>4
  <2>2. ~ (Size(a.t1) > a.p \/ Size(a.t1) = a.p)
    BY <1>2, <1>4, <2>1 DEF ReplacesT1
  <2> QED BY <1>2, <2>1, <2>2
<1> QED BY <1>1, <1>4

\* A get moves a key from t1 to t2 at most.
LEMMA ArcGetApart ==
  ASSUME NEW S, NEW B, GhostsOf(S, B), NEW a, ArcShape(a, S, B), ArcApart(a), NEW k,
         NEW q, q = ArcGet(a, k).cache
  PROVE  ArcApart(q)
<1>1. /\ a.t1 \in Seq(S) /\ Distinct(a.t1) /\ a.t2 \in Seq(S) /\ Distinct(a.t2)
      /\ EntrySet(S) /\ Size(a.t1) \in Nat /\ Size(a.t2) \in Nat
  BY ArcLens DEF ArcShape, GhostsOf
<1>2. Disjoint(a) /\ FullIfGhosts(a)
  BY ArcApartParts
<1>3. CASE Holds(a.t1, k)
  <2> DEFINE w == Without(a.t1, k)
             g == InsertFront(a.t2, k, ValueOf(a.t1, k))
  <2>1. q = [a EXCEPT !.t1 = w, !.t2 = g]
    BY <1>3 DEF ArcGet, GetResult
  <2>2. Entry(k, ValueOf(a.t1, k)) \in S
    BY <1>1, <1>3, ValueOfSpec
  <2>3. ~ Holds(a.t2, k)
    BY <1>2, <1>3, HoldsKeys DEF Disjoint
  <2>4. KeysOf(w) = KeysOf(a.t1) \ {k} /\ Size(w) = Size(a.t1) - 1
    BY <1>1, <1>3, WithoutDistinct, WithoutSpec DEF Size
  <2>5. KeysOf(g) = KeysOf(a.t2) \cup {k} /\ Size(g) = Size(a.t2) + 1
    BY <1>1, <2>2, <2>3, InsertFrontSpec DEF Size
  <2> HIDE DEF w, g
  <2>6. q.t1 = w /\ q.t2 = g /\ q.b1 = a.b1 /\ q.b2 = a.b2 /\ q.capacity = a.capacity
    BY <2>1 DEF ArcShape
  <2>7. k \in KeysOf(a.t1)
    BY <1>3, HoldsKeys
  <2>8. Disjoint(q)
    BY <1>2, <2>4, <2>5, <2>6, <2>7 DEF Disjoint, LiveOf, GhostOf
  <2>9. ArcLen(q) = ArcLen(a)
    BY <1>1, <2>4, <2>5, <2>6 DEF ArcLen
  <2> QED BY <1>2, <2>6, <2>8, <2>9, ArcApartParts DEF FullIfGhosts
<1>4. CASE ~ Holds(a.t1, k)
  <2> DEFINE g == MoveToFront(a.t2, k)
  <2>1. q = [a EXCEPT !.t2 = g]
    BY <1>4 DEF ArcGet, GetResult
  <2>2. Size(g) = Size(a.t2) /\ KeysOf(g) = KeysOf(a.t2)
    BY <1>1, MoveToFrontSpec DEF Size
  <2> HIDE DEF g
  <2>3. q.t1 = a.t1 /\ q.t2 = g /\ q.b1 = a.b1 /\ q.b2 = a.b2 /\ q.capacity = a.capacity
    BY <2>1 DEF ArcShape
  <2> QED BY <1>2, <2>2, <2>3, ArcApartParts DEF Disjoint, LiveOf, GhostOf, FullIfGhosts, ArcLen
<1> QED BY <1>3, <1>4

\* A ghost hit in b1: replace demotes an entry, since the ghost's place keeps
\* t1 below the capacity, and the key takes its place.
LEMMA ArcHitB1Apart ==
  ASSUME NEW S, NEW B, GhostsOf(S, B), NEW a, ArcShape(a, S, B), ArcApart(a), ArcBounds(a),
         a.capacity > 0, NEW k, NEW v, Entry(k, v) \in S, Holds(a.b1, k),
         NEW q, q = ArcHitB1(a, k, v).cache
  PROVE  ArcApart(q)
<1> DEFINE n == [a EXCEPT !.p = GrowP(a)]
           x == FALSE
           r == Replace(n, x).cache
           w == Without(r.b1, k)
           g == InsertFront(r.t2, k, v)
<1>1. q = [r EXCEPT !.b1 = w, !.t2 = g]
  BY DEF ArcHitB1, PutResult
<1>2. /\ ArcShape(n, S, B) /\ n.capacity = a.capacity
      /\ n.t1 = a.t1 /\ n.t2 = a.t2 /\ n.b1 = a.b1 /\ n.b2 = a.b2
  BY TargetSpec, RetargetSpec
<1>3. Disjoint(a) /\ FullIfGhosts(a) /\ k \in KeysOf(a.b1)
  BY ArcApartParts, HoldsKeys
<1> HIDE DEF n, x
<1>4. Disjoint(n)
  BY <1>2, <1>3 DEF Disjoint, LiveOf, GhostOf
<1>5. /\ ArcShape(r, S, B) /\ r.capacity = a.capacity /\ KeysOf(n.b1) \subseteq KeysOf(r.b1)
      /\ Disjoint(r)
  BY <1>2, <1>4, ReplaceSpec, ReplaceKeys DEF r
<1>6. ArcLen(r) = a.capacity - 1
  <2>1. a.b1 # <<>>
    BY <1>3 DEF KeysOf
  <2>2. ArcLen(n) = n.capacity
    BY <1>2, <1>3, <2>1 DEF FullIfGhosts, ArcLen
  <2>3. Size(a.b1) > 0
    BY <2>1 DEF ArcShape, Size
  <2>4. Size(n.t1) < n.capacity
    BY <1>2, <2>3, ArcLens DEF ArcBounds
  <2>5. n.capacity > 0 /\ r = Replace(n, x).cache /\ x \in BOOLEAN
    BY <1>2 DEF r, x
  <2>6. ArcLen(r) = n.capacity - 1
    BY <1>2, <2>2, <2>4, <2>5, ReplaceDemotes
  <2> QED BY <1>2, <2>6
<1> HIDE DEF r
<1>7. k \in KeysOf(r.b1) /\ k \notin LiveOf(r) /\ k \notin KeysOf(r.b2)
  BY <1>2, <1>3, <1>5 DEF Disjoint, GhostOf
<1>8. KeysOf(w) = KeysOf(r.b1) \ {k}
  BY <1>5, WithoutDistinct DEF ArcShape
<1>9. KeysOf(g) = KeysOf(r.t2) \cup {k} /\ Size(g) = Size(r.t2) + 1
  <2>1. ~ Holds(r.t2, k)
    BY <1>7, HoldsKeys DEF LiveOf
  <2> QED BY <1>5, <2>1, InsertFrontSpec DEF ArcShape, Size
<1> HIDE DEF w, g
<1>10. q.t1 = r.t1 /\ q.t2 = g /\ q.b1 = w /\ q.b2 = r.b2 /\ q.capacity = a.capacity
  BY <1>1, <1>5 DEF ArcShape
<1>11. Disjoint(q)
  BY <1>5, <1>7, <1>8, <1>9, <1>10 DEF Disjoint, LiveOf, GhostOf
<1>12. ArcLen(q) = a.capacity
  BY <1>5, <1>6, <1>9, <1>10, ArcLens DEF ArcLen
<1> QED BY <1>10, <1>11, <1>12, ArcApartParts DEF FullIfGhosts

\* A ghost hit in b2: t1 is not spared at its target, which is within the
\* capacity.
LEMMA ArcHitB2Apart ==
  ASSUME NEW S, NEW B, GhostsOf(S, B), NEW a, ArcShape(a, S, B), ArcApart(a),
         a.capacity > 0, NEW k, NEW v, Entry(k, v) \in S, Holds(a.b2, k),
         NEW q, q = ArcHitB2(a, k, v).cache
  PROVE  ArcApart(q)
<1> DEFINE n == [a EXCEPT !.p = ShrinkP(a)]
           x == TRUE
           r == Replace(n, x).cache
           w == Without(r.b2, k)
           g == InsertFront(r.t2, k, v)
<1>1. q = [r EXCEPT !.b2 = w, !.t2 = g]
  BY DEF ArcHitB2, PutResult
<1>2. /\ ArcShape(n, S, B) /\ n.capacity = a.capacity
      /\ n.t1 = a.t1 /\ n.t2 = a.t2 /\ n.b1 = a.b1 /\ n.b2 = a.b2
  BY TargetSpec, RetargetSpec
<1>3. Disjoint(a) /\ FullIfGhosts(a) /\ k \in KeysOf(a.b2)
  BY ArcApartParts, HoldsKeys
<1> HIDE DEF n, x
<1>4. Disjoint(n)
  BY <1>2, <1>3 DEF Disjoint, LiveOf, GhostOf
<1>5. /\ ArcShape(r, S, B) /\ r.capacity = a.capacity /\ KeysOf(n.b2) \subseteq KeysOf(r.b2)
      /\ Disjoint(r)
  BY <1>2, <1>4, ReplaceSpec, ReplaceKeys DEF r
<1>6. ArcLen(r) = a.capacity - 1
  <2>1. a.b2 # <<>>
    BY <1>3 DEF KeysOf
  <2>2. ArcLen(n) = n.capacity
    BY <1>2, <1>3, <2>1 DEF FullIfGhosts, ArcLen
  <2>3. n.capacity > 0 /\ r = Replace(n, x).cache /\ x \in BOOLEAN /\ x
    BY <1>2 DEF r, x
  <2>4. ArcLen(r) = n.capacity - 1
    BY <1>2, <2>2, <2>3, ReplaceDemotes
  <2> QED BY <1>2, <2>4
<1> HIDE DEF r
<1>7. k \in KeysOf(r.b2) /\ k \notin LiveOf(r) /\ k \notin KeysOf(r.b1)
  BY <1>2, <1>3, <1>5 DEF Disjoint, GhostOf
<1>8. KeysOf(w) = KeysOf(r.b2) \ {k}
  BY <1>5, WithoutDistinct DEF ArcShape
<1>9. KeysOf(g) = KeysOf(r.t2) \cup {k} /\ Size(g) = Size(r.t2) + 1
  <2>1. ~ Holds(r.t2, k)
    BY <1>7, HoldsKeys DEF LiveOf
  <2> QED BY <1>5, <2>1, InsertFrontSpec DEF ArcShape, Size
<1> HIDE DEF w, g
<1>10. q.t1 = r.t1 /\ q.t2 = g /\ q.b1 = r.b1 /\ q.b2 = w /\ q.capacity = a.capacity
  BY <1>1, <1>5 DEF ArcShape
<1>11. Disjoint(q)
  BY <1>5, <1>7, <1>8, <1>9, <1>10 DEF Disjoint, LiveOf, GhostOf
<1>12. ArcLen(q) = a.capacity
  BY <1>5, <1>6, <1>9, <1>10, ArcLens DEF ArcLen
<1> QED BY <1>10, <1>11, <1>12, ArcApartParts DEF FullIfGhosts

\* The room made for a key on no list: one place in a full cache, none where
\* there are no ghosts yet.
LEMMA ArcMakeRoomApart ==
  ASSUME NEW S, NEW B, GhostsOf(S, B), NEW a, ArcShape(a, S, B), ArcApart(a), ArcBounds(a),
         a.capacity > 0, NEW r, r = ArcMakeRoom(a).cache
  PROVE  /\ Disjoint(r)
         /\ LiveOf(r) \cup GhostOf(r) \subseteq LiveOf(a) \cup GhostOf(a)
         /\ r.b1 # <<>> \/ r.b2 # <<>> => ArcLen(r) = a.capacity - 1
<1> DEFINE full == Size(a.t1) + Size(a.b1) = a.capacity
           over == Size(a.t1) >= a.capacity
           rich == ArcTotal(a) >= a.capacity
           Good(c) == /\ Disjoint(c)
                      /\ LiveOf(c) \cup GhostOf(c) \subseteq LiveOf(a) \cup GhostOf(a)
                      /\ c.b1 # <<>> \/ c.b2 # <<>> => ArcLen(c) = a.capacity - 1
<1>1. (over <=> ~ (Size(a.t1) < a.capacity)) /\ (rich <=> ~ (ArcTotal(a) < a.capacity))
  BY ArcLens DEF ArcTotal
<1>2. /\ Size(a.t1) \in Nat /\ Size(a.t2) \in Nat /\ Size(a.b1) \in Nat /\ Size(a.b2) \in Nat
      /\ a.capacity \in Nat
  BY ArcLens
<1>3. Disjoint(a) /\ FullIfGhosts(a)
  BY ArcApartParts
<1>4. /\ a.t1 \in Seq(S) /\ Distinct(a.t1) /\ a.b1 \in Seq(B) /\ Distinct(a.b1)
      /\ a.b2 \in Seq(B) /\ Distinct(a.b2)
  BY DEF ArcShape
<1>5. ASSUME NEW n, ArcShape(n, S, B), n.capacity = a.capacity, n.t1 = a.t1, n.t2 = a.t2,
             KeysOf(n.b1) \subseteq KeysOf(a.b1), KeysOf(n.b2) \subseteq KeysOf(a.b2),
             Size(a.t1) < a.capacity, ArcLen(a) = a.capacity, r = Replace(n, FALSE).cache
      PROVE  Good(r)
  <2>1. Disjoint(n)
    BY <1>3, <1>5 DEF Disjoint, LiveOf, GhostOf
  <2>2. Disjoint(r) /\ LiveOf(r) \cup GhostOf(r) \subseteq LiveOf(n) \cup GhostOf(n)
    BY <1>5, <2>1, ReplaceKeys
  <2>3. LiveOf(n) \cup GhostOf(n) \subseteq LiveOf(a) \cup GhostOf(a)
    BY <1>5 DEF LiveOf, GhostOf
  <2>4. ArcLen(n) = n.capacity
    BY <1>5 DEF ArcLen
  <2>5. ArcLen(r) = n.capacity - 1
    <3> DEFINE x == FALSE
    <3>1. r = Replace(n, x).cache /\ x \in BOOLEAN /\ n.capacity > 0 /\ Size(n.t1) < n.capacity
      BY <1>5
    <3> HIDE DEF x
    <3> QED BY <1>5, <2>4, <3>1, ReplaceDemotes
  <2> QED BY <1>5, <2>2, <2>3, <2>5
<1>6. ASSUME NEW m, NEW Z, m \in Seq(Z) PROVE KeysOf(PopBack(m)) \subseteq KeysOf(m)
  BY <1>6, PopBackSpec
<1>7. CASE full /\ ~ over
  <2> DEFINE n == DropB1(a)
  <2>1. r = Replace(n, FALSE).cache
    BY <1>1, <1>7 DEF ArcMakeRoom, DropB1
  <2>2. /\ ArcShape(n, S, B) /\ n.capacity = a.capacity
        /\ n.t1 = a.t1 /\ n.t2 = a.t2 /\ n.b1 = PopBack(a.b1) /\ n.b2 = a.b2
    BY TrimmedSpec
  <2>3. a.b1 # <<>>
    <3>1. a.b1 = <<>> => Size(a.b1) = 0
      BY DEF Size
    <3>2. Size(a.b1) # 0
      BY <1>1, <1>2, <1>7
    <3> QED BY <3>1, <3>2
  <2>4. ArcLen(a) = a.capacity /\ Size(a.t1) < a.capacity
    BY <1>1, <1>3, <1>7, <2>3 DEF FullIfGhosts
  <2>5. KeysOf(n.b1) \subseteq KeysOf(a.b1) /\ KeysOf(n.b2) \subseteq KeysOf(a.b2)
    BY <1>4, <1>6, <2>2
  <2> HIDE DEF n
  <2>6. Good(r)
    BY <1>5, <2>1, <2>2, <2>4, <2>5
  <2> QED BY <2>6
<1>8. CASE full /\ over
  <2> DEFINE n == DropT1(a)
  <2>1. r = n
    BY <1>1, <1>8 DEF ArcMakeRoom, DropT1, PutResult
  <2>2. /\ n.t1 = PopBack(a.t1) /\ n.t2 = a.t2 /\ n.b1 = a.b1 /\ n.b2 = a.b2
    BY TrimmedSpec
  <2>3. KeysOf(n.t1) \subseteq KeysOf(a.t1)
    BY <1>4, <1>6, <2>2
  <2>4. Size(n.t1) = Size(a.t1) - 1
    BY <1>2, <1>4, <1>8, <2>2, TrimSpec
  <2> HIDE DEF n
  <2>5. Disjoint(r) /\ LiveOf(r) \cup GhostOf(r) \subseteq LiveOf(a) \cup GhostOf(a)
    BY <1>3, <2>1, <2>2, <2>3 DEF Disjoint, LiveOf, GhostOf
  <2>6. ArcLen(r) = ArcLen(a) - 1
    BY <1>2, <2>1, <2>2, <2>4 DEF ArcLen
  <2> QED BY <1>3, <2>1, <2>2, <2>5, <2>6 DEF FullIfGhosts
<1>9. CASE ~ full /\ ~ rich
  <2>1. r = a
    BY <1>1, <1>9 DEF ArcMakeRoom, PutResult
  <2>2. ArcLen(a) # a.capacity
    BY <1>2, <1>9 DEF ArcLen, ArcTotal
  <2> QED BY <1>3, <2>1, <2>2 DEF FullIfGhosts
<1>10. CASE ~ full /\ rich
  <2> DEFINE n == DropB2(a)
  <2>1. r = Replace(n, FALSE).cache
    BY <1>1, <1>10 DEF ArcMakeRoom, DropB2
  <2>2. /\ ArcShape(n, S, B) /\ n.capacity = a.capacity
        /\ n.t1 = a.t1 /\ n.t2 = a.t2 /\ n.b1 = a.b1 /\ n.b2 = TrimmedB2(a)
    BY TrimmedSpec
  <2>3. ArcLen(a) = a.capacity
    <3>1. CASE a.b1 # <<>> \/ a.b2 # <<>>
      BY <1>3, <3>1 DEF FullIfGhosts
    <3>2. CASE a.b1 = <<>> /\ a.b2 = <<>>
      <4>1. Size(a.b1) = 0 /\ Size(a.b2) = 0
        BY <3>2 DEF Size
      <4> QED BY <1>2, <1>10, <4>1 DEF ArcBounds, ArcLen, ArcTotal
    <3> QED BY <3>1, <3>2
  <2>4. Size(a.t1) < a.capacity
    BY <1>2, <1>10 DEF ArcBounds
  <2>5. KeysOf(n.b1) \subseteq KeysOf(a.b1) /\ KeysOf(n.b2) \subseteq KeysOf(a.b2)
    <3>1. KeysOf(PopBack(a.b2)) \subseteq KeysOf(a.b2)
      BY <1>4, <1>6
    <3> QED BY <2>2, <3>1 DEF TrimmedB2
  <2> HIDE DEF n
  <2>6. Good(r)
    BY <1>5, <2>1, <2>2, <2>3, <2>4, <2>5
  <2> QED BY <2>6
<1> QED BY <1>7, <1>8, <1>9, <1>10

\* A put of a key that is not live keeps the lists apart.
LEMMA ArcPutApart ==
  ASSUME NEW S, NEW B, GhostsOf(S, B), NEW a, ArcShape(a, S, B), ArcApart(a), ArcBounds(a),
         NEW k, NEW v, Entry(k, v) \in S, k \notin LiveOf(a),
         NEW q, q = ArcPut(a, k, v).cache
  PROVE  ArcApart(q)
<1>1. a.capacity \in Nat
  BY ArcLens
<1>2. a.capacity > 0 => ~ (a.capacity = 0)
  BY <1>1
<1>3. CASE a.capacity = 0
  <2>1. q = a
    BY <1>3 DEF ArcPut, PutResult
  <2> QED BY <2>1
<1>4. CASE a.capacity > 0 /\ Holds(a.b1, k)
  <2>1. q = ArcHitB1(a, k, v).cache
    BY <1>2, <1>4 DEF ArcPut
  <2> QED BY <1>4, <2>1, ArcHitB1Apart
<1>5. CASE a.capacity > 0 /\ ~ Holds(a.b1, k) /\ Holds(a.b2, k)
  <2>1. q = ArcHitB2(a, k, v).cache
    BY <1>2, <1>5 DEF ArcPut
  <2> QED BY <1>5, <2>1, ArcHitB2Apart
<1>6. CASE a.capacity > 0 /\ ~ Holds(a.b1, k) /\ ~ Holds(a.b2, k)
  <2> DEFINE r == ArcMakeRoom(a).cache
             g == InsertFront(r.t1, k, v)
  <2>1. q = [r EXCEPT !.t1 = g]
    BY <1>2, <1>6 DEF ArcPut, ArcMiss, PutResult
  <2>2. /\ Disjoint(r)
        /\ LiveOf(r) \cup GhostOf(r) \subseteq LiveOf(a) \cup GhostOf(a)
        /\ r.b1 # <<>> \/ r.b2 # <<>> => ArcLen(r) = a.capacity - 1
    BY <1>6, ArcMakeRoomApart
  <2>3. ArcShape(r, S, B) /\ r.capacity = a.capacity
    BY <1>6, ArcMakeRoomSpec
  <2> HIDE DEF r
  <2>4. k \notin LiveOf(r) \cup GhostOf(r)
    BY <1>6, <2>2, HoldsKeys DEF GhostOf
  <2>5. KeysOf(g) = KeysOf(r.t1) \cup {k} /\ Size(g) = Size(r.t1) + 1
    <3>1. ~ Holds(r.t1, k)
      BY <2>4, HoldsKeys DEF LiveOf
    <3> QED BY <2>3, <3>1, InsertFrontSpec DEF ArcShape, Size
  <2> HIDE DEF g
  <2>6. q.t1 = g /\ q.t2 = r.t2 /\ q.b1 = r.b1 /\ q.b2 = r.b2 /\ q.capacity = a.capacity
    BY <2>1, <2>3 DEF ArcShape
  <2>7. Disjoint(q)
    BY <2>2, <2>4, <2>5, <2>6 DEF Disjoint, LiveOf, GhostOf
  <2>8. ArcLen(q) = ArcLen(r) + 1 /\ ArcLen(r) \in Nat
    BY <2>3, <2>5, <2>6, ArcLens DEF ArcLen
  <2>9. FullIfGhosts(q)
    BY <1>1, <2>2, <2>6, <2>8 DEF FullIfGhosts
  <2> QED BY <2>7, <2>9, ArcApartParts
<1> QED BY <1>1, <1>3, <1>4, <1>5, <1>6

\* Empty lists are apart.
LEMMA ArcEmptyApart ==
  ASSUME NEW a, NEW c, a = ArcNew(c)
  PROVE  ArcApart(a)
<1>1. a.t1 = <<>> /\ a.t2 = <<>> /\ a.b1 = <<>> /\ a.b2 = <<>>
  BY DEF ArcNew
<1>2. KeysOf(<<>>) = {}
  BY DEF KeysOf
<1> QED BY <1>1, <1>2 DEF ArcApart

-----------------------------------------------------------------------------
\* Which live keys a put leaves, exactly.

\* One live key made way, and that was reported.
MadeWay(a, r) ==
  /\ r.evicted = TRUE
  /\ \E y \in LiveOf(a) : LiveOf(r.cache) = LiveOf(a) \ {y}

\* If replace shortens the live lists, one key has made way.
LEMMA ReplaceVictim ==
  ASSUME NEW S, NEW B, GhostsOf(S, B), NEW a, ArcShape(a, S, B), Disjoint(a), NEW x,
         NEW r, r = Replace(a, x), ArcLen(r.cache) # ArcLen(a)
  PROVE  MadeWay(a, r)
<1>1. /\ a.t1 \in Seq(S) /\ Distinct(a.t1) /\ a.b1 \in Seq(B) /\ Distinct(a.b1)
      /\ a.t2 \in Seq(S) /\ Distinct(a.t2) /\ a.b2 \in Seq(B) /\ Distinct(a.b2)
  BY DEF ArcShape
<1>2. CASE ReplacesT1(a, x)
  <2> DEFINE t == PopBack(a.t1)
             y == BackOf(a.t1).key
  <2>1. r.evicted = TRUE /\ r.cache = DemoteT1(a)
    BY <1>2 DEF Replace, PutResult
  <2>2. a.t1 # <<>>
    BY <1>2 DEF ReplacesT1, ArcShape, Size
  <2>3. y \in KeysOf(a.t1) /\ KeysOf(t) = KeysOf(a.t1) \ {y}
    BY <1>1, <2>2, DemoteKeys
  <2>4. r.cache.t1 = t /\ r.cache.t2 = a.t2
    BY <2>1 DEF ArcShape, DemoteT1
  <2> HIDE DEF t, y
  <2>5. y \in LiveOf(a) /\ LiveOf(r.cache) = LiveOf(a) \ {y}
    BY <2>3, <2>4 DEF Disjoint, LiveOf
  <2> QED BY <2>1, <2>5 DEF MadeWay
<1>3. CASE ~ ReplacesT1(a, x) /\ a.t2 # <<>>
  <2> DEFINE t == PopBack(a.t2)
             y == BackOf(a.t2).key
  <2>1. r.evicted = TRUE /\ r.cache = DemoteT2(a)
    BY <1>3 DEF Replace, PutResult
  <2>3. y \in KeysOf(a.t2) /\ KeysOf(t) = KeysOf(a.t2) \ {y}
    BY <1>1, <1>3, DemoteKeys
  <2>4. r.cache.t2 = t /\ r.cache.t1 = a.t1
    BY <2>1 DEF ArcShape, DemoteT2
  <2> HIDE DEF t, y
  <2>5. y \in LiveOf(a) /\ LiveOf(r.cache) = LiveOf(a) \ {y}
    BY <2>3, <2>4 DEF Disjoint, LiveOf
  <2> QED BY <2>1, <2>5 DEF MadeWay
<1>4. CASE ~ ReplacesT1(a, x) /\ a.t2 = <<>>
  <2>1. r.cache = a
    BY <1>4 DEF Replace, PutResult
  <2> QED BY <2>1
<1> QED BY <1>2, <1>3, <1>4

\* From a full cache, with t1 below the capacity or the hit in b2, replace
\* always makes a key give way; a has the lists of n, but for p and ghosts.
LEMMA FullReplaceVictim ==
  ASSUME NEW S, NEW B, GhostsOf(S, B), NEW a, NEW n, ArcShape(n, S, B), Disjoint(n),
         n.t1 = a.t1, n.t2 = a.t2, n.capacity = a.capacity,
         ArcLen(a) = a.capacity, a.capacity > 0, NEW x \in BOOLEAN,
         Size(a.t1) < a.capacity \/ x, NEW r, r = Replace(n, x)
  PROVE  MadeWay(a, r)
<1>1. ArcLen(n) = n.capacity /\ n.capacity > 0 /\ (Size(n.t1) < n.capacity \/ x)
  BY DEF ArcLen
<1> DEFINE q == r.cache
<1>2. q = Replace(n, x).cache
  OBVIOUS
<1> HIDE DEF q
<1>3. ArcLen(q) = n.capacity - 1
  BY <1>1, <1>2, ReplaceDemotes
<1>4. ArcLen(r.cache) # ArcLen(n)
  BY <1>1, <1>3, ArcLens DEF q
<1>5. MadeWay(n, r)
  BY <1>4, ReplaceVictim
<1>6. LiveOf(n) = LiveOf(a)
  BY DEF LiveOf
<1> QED BY <1>5, <1>6 DEF MadeWay

\* The room made for a key on no list: none while there is a free place, and
\* one live key when there is not.
LEMMA ArcMakeRoomExact ==
  ASSUME NEW S, NEW B, GhostsOf(S, B), NEW a, ArcShape(a, S, B), ArcApart(a), ArcBounds(a),
         a.capacity > 0, NEW r, r = ArcMakeRoom(a)
  PROVE  /\ ArcLen(a) < a.capacity => r.cache = a /\ r.evicted = FALSE
         /\ ArcLen(a) = a.capacity => MadeWay(a, r)
<1> DEFINE full == Size(a.t1) + Size(a.b1) = a.capacity
           over == Size(a.t1) >= a.capacity
           rich == ArcTotal(a) >= a.capacity
<1>1. (over <=> ~ (Size(a.t1) < a.capacity)) /\ (rich <=> ~ (ArcTotal(a) < a.capacity))
  BY ArcLens DEF ArcTotal
<1>2. /\ Size(a.t1) \in Nat /\ Size(a.t2) \in Nat /\ Size(a.b1) \in Nat /\ Size(a.b2) \in Nat
      /\ a.capacity \in Nat
  BY ArcLens
<1>3. Disjoint(a) /\ FullIfGhosts(a)
  BY ArcApartParts
<1>4. /\ a.t1 \in Seq(S) /\ Distinct(a.t1) /\ a.b1 \in Seq(B) /\ Distinct(a.b1)
      /\ a.b2 \in Seq(B) /\ Distinct(a.b2)
  BY DEF ArcShape
<1>5. CASE ArcLen(a) < a.capacity
  <2>1. a.b1 = <<>> /\ a.b2 = <<>>
    BY <1>2, <1>3, <1>5 DEF FullIfGhosts, ArcLen
  <2>2. Size(a.b1) = 0 /\ Size(a.b2) = 0
    BY <2>1 DEF Size
  <2>3. ~ full /\ ~ rich
    BY <1>2, <1>5, <2>2 DEF ArcLen, ArcTotal
  <2>4. r.cache = a /\ r.evicted = FALSE
    BY <1>1, <2>3 DEF ArcMakeRoom, PutResult
  <2> QED BY <1>2, <1>5, <2>4 DEF ArcLen
<1>6. ASSUME ArcLen(a) = a.capacity PROVE MadeWay(a, r)
  <2>1. ASSUME NEW m, NEW Z, m \in Seq(Z) PROVE KeysOf(PopBack(m)) \subseteq KeysOf(m)
    BY <2>1, PopBackSpec
  <2>2. ASSUME NEW n, ArcShape(n, S, B), n.capacity = a.capacity, n.t1 = a.t1, n.t2 = a.t2,
               KeysOf(n.b1) \subseteq KeysOf(a.b1), KeysOf(n.b2) \subseteq KeysOf(a.b2),
               Size(a.t1) < a.capacity, r = Replace(n, FALSE)
        PROVE  MadeWay(a, r)
    <3> DEFINE x == FALSE
    <3>1. Disjoint(n)
      BY <1>3, <2>2 DEF Disjoint, LiveOf, GhostOf
    <3>2. r = Replace(n, x) /\ x \in BOOLEAN /\ (Size(a.t1) < a.capacity \/ x)
      BY <2>2
    <3> HIDE DEF x
    <3> QED BY <1>6, <2>2, <3>1, <3>2, FullReplaceVictim
  <2>3. CASE full /\ ~ over
    <3> DEFINE n == DropB1(a)
    <3>1. r = Replace(n, FALSE)
      BY <1>1, <2>3 DEF ArcMakeRoom, DropB1
    <3>2. /\ ArcShape(n, S, B) /\ n.capacity = a.capacity
          /\ n.t1 = a.t1 /\ n.t2 = a.t2 /\ n.b1 = PopBack(a.b1) /\ n.b2 = a.b2
      BY TrimmedSpec
    <3>3. KeysOf(n.b1) \subseteq KeysOf(a.b1) /\ KeysOf(n.b2) \subseteq KeysOf(a.b2)
      BY <1>4, <2>1, <3>2
    <3> HIDE DEF n
    <3> QED BY <1>1, <2>2, <2>3, <3>1, <3>2, <3>3
  <2>4. CASE full /\ over
    <3> DEFINE n == DropT1(a)
               y == BackOf(a.t1).key
    <3>1. a.t1 # <<>>
      BY <1>2, <2>4 DEF Size
    <3>2. r.cache = n /\ r.evicted = TRUE
      BY <1>1, <2>4, <3>1 DEF ArcMakeRoom, DropT1, PutResult
    <3>3. n.t1 = PopBack(a.t1) /\ n.t2 = a.t2
      BY TrimmedSpec
    <3>4. y \in KeysOf(a.t1) /\ KeysOf(PopBack(a.t1)) = KeysOf(a.t1) \ {y}
      BY <1>4, <3>1, PopBackKeys
    <3> HIDE DEF n, y
    <3>5. y \in LiveOf(a) /\ LiveOf(r.cache) = LiveOf(a) \ {y}
      BY <1>3, <3>2, <3>3, <3>4 DEF Disjoint, LiveOf
    <3> QED BY <3>2, <3>5 DEF MadeWay
  <2>5. CASE ~ full
    <3> DEFINE n == DropB2(a)
    <3>1. rich /\ Size(a.t1) < a.capacity
      BY <1>2, <1>6, <2>5 DEF ArcLen, ArcTotal, ArcBounds
    <3>2. r = Replace(n, FALSE)
      BY <1>1, <2>5, <3>1 DEF ArcMakeRoom, DropB2
    <3>3. /\ ArcShape(n, S, B) /\ n.capacity = a.capacity
          /\ n.t1 = a.t1 /\ n.t2 = a.t2 /\ n.b1 = a.b1 /\ n.b2 = TrimmedB2(a)
      BY TrimmedSpec
    <3>4. KeysOf(n.b1) \subseteq KeysOf(a.b1) /\ KeysOf(n.b2) \subseteq KeysOf(a.b2)
      <4>1. KeysOf(PopBack(a.b2)) \subseteq KeysOf(a.b2)
        BY <1>4, <2>1
      <4> QED BY <3>3, <4>1 DEF TrimmedB2
    <3> HIDE DEF n
    <3> QED BY <2>2, <3>1, <3>2, <3>3, <3>4
  <2> QED BY <2>3, <2>4, <2>5
<1> QED BY <1>2, <1>5, <1>6 DEF ArcLen

\* A key that comes back from a ghost list is live, with the value put.
LEMMA ReviveExact ==
  ASSUME NEW S, NEW B, NEW r, ArcShape(r, S, B), NEW k, NEW v, Entry(k, v) \in S,
         NEW q, q \in {FromB1(r, k, v), FromB2(r, k, v)}
  PROVE  LiveOf(q) = LiveOf(r) \cup {k} /\ Entry(k, v) \in ArcEntries(q)
<1> DEFINE g == InsertFront(r.t2, k, v)
<1>1. r.t2 \in Seq(S) /\ Distinct(r.t2)
  BY DEF ArcShape
<1>2. KeysOf(g) = KeysOf(r.t2) \cup {k} /\ Entry(k, v) \in ToSet(g)
  BY <1>1, InsertFrontSpec, InsertFrontHas
<1>3. FromB1(r, k, v).t1 = r.t1 /\ FromB1(r, k, v).t2 = g
  BY DEF FromB1, ArcShape
<1>4. FromB2(r, k, v).t1 = r.t1 /\ FromB2(r, k, v).t2 = g
  BY DEF FromB2, ArcShape
<1> HIDE DEF g
<1>5. q.t1 = r.t1 /\ q.t2 = g
  BY <1>3, <1>4
<1> QED BY <1>2, <1>5 DEF LiveOf, ArcEntries

\* What a put of a key that is not live does to the live keys: a key makes way
\* for it exactly if the cache is full.
Admitted(a, k, v, r) ==
  /\ Entry(k, v) \in ArcEntries(r.cache)
  /\ ArcLen(a) < a.capacity => r.evicted = FALSE /\ LiveOf(r.cache) = LiveOf(a) \cup {k}
  /\ ArcLen(a) = a.capacity =>
       /\ r.evicted = TRUE
       /\ \E y \in LiveOf(a) : LiveOf(r.cache) = (LiveOf(a) \ {y}) \cup {k}

\* A ghost hit finds the cache full, and the key takes the place of another.
LEMMA GhostHitExact ==
  ASSUME NEW S, NEW B, GhostsOf(S, B), NEW a, ArcShape(a, S, B), ArcApart(a), ArcBounds(a),
         a.capacity > 0, NEW k, NEW v, Entry(k, v) \in S
  PROVE  /\ Holds(a.b1, k) => Admitted(a, k, v, ArcHitB1(a, k, v))
         /\ Holds(a.b2, k) => Admitted(a, k, v, ArcHitB2(a, k, v))
<1>1. Disjoint(a) /\ FullIfGhosts(a)
  BY ArcApartParts
<1>2. /\ Size(a.t1) \in Nat /\ Size(a.t2) \in Nat /\ Size(a.b1) \in Nat /\ a.capacity \in Nat
  BY ArcLens
<1>3. ASSUME NEW n, ArcShape(n, S, B), n.capacity = a.capacity,
             n.t1 = a.t1, n.t2 = a.t2, n.b1 = a.b1, n.b2 = a.b2,
             NEW x \in BOOLEAN, Size(a.t1) < a.capacity \/ x,
             ArcLen(a) = a.capacity, NEW r, r = Replace(n, x),
             NEW q, q.evicted = r.evicted,
             q.cache \in {FromB1(r.cache, k, v), FromB2(r.cache, k, v)}
      PROVE  Admitted(a, k, v, q)
  <2>1. Disjoint(n)
    BY <1>1, <1>3 DEF Disjoint, LiveOf, GhostOf
  <2>2. MadeWay(a, r)
    BY <1>3, <2>1, FullReplaceVictim
  <2> DEFINE d == r.cache
  <2>3. d = Replace(n, x).cache
    BY <1>3
  <2>4. q.cache \in {FromB1(d, k, v), FromB2(d, k, v)}
    BY <1>3
  <2>5. PICK y \in LiveOf(a) : LiveOf(d) = LiveOf(a) \ {y}
    BY <2>2 DEF MadeWay
  <2> HIDE DEF d
  <2>6. ArcShape(d, S, B)
    BY <1>3, <2>3, ReplaceSpec
  <2>7. LiveOf(q.cache) = LiveOf(d) \cup {k} /\ Entry(k, v) \in ArcEntries(q.cache)
    BY <2>4, <2>6, ReviveExact
  <2>8. q.evicted = TRUE
    BY <1>3, <2>2 DEF MadeWay
  <2>9. ~ (ArcLen(a) < a.capacity)
    BY <1>2, <1>3
  <2> QED BY <2>5, <2>7, <2>8, <2>9 DEF Admitted
<1>4. ASSUME Holds(a.b1, k) PROVE Admitted(a, k, v, ArcHitB1(a, k, v))
  <2> DEFINE n == [a EXCEPT !.p = GrowP(a)]
             x == FALSE
             r == Replace(n, x)
             q == ArcHitB1(a, k, v)
  <2>1. q.evicted = r.evicted /\ q.cache = FromB1(r.cache, k, v)
    BY DEF ArcHitB1, PutResult, FromB1
  <2>2. /\ ArcShape(n, S, B) /\ n.capacity = a.capacity
        /\ n.t1 = a.t1 /\ n.t2 = a.t2 /\ n.b1 = a.b1 /\ n.b2 = a.b2
    BY TargetSpec, RetargetSpec
  <2>3. a.b1 # <<>> /\ Size(a.b1) > 0
    BY <1>4 DEF Holds, ArcShape, Size
  <2>4. ArcLen(a) = a.capacity /\ Size(a.t1) < a.capacity
    BY <1>1, <1>2, <2>3 DEF FullIfGhosts, ArcBounds
  <2>5. r = Replace(n, x) /\ x \in BOOLEAN
    OBVIOUS
  <2> HIDE DEF n, x, r, q
  <2>6. Admitted(a, k, v, q)
    BY <1>3, <2>1, <2>2, <2>4, <2>5
  <2> QED BY <2>6 DEF q
<1>5. ASSUME Holds(a.b2, k) PROVE Admitted(a, k, v, ArcHitB2(a, k, v))
  <2> DEFINE n == [a EXCEPT !.p = ShrinkP(a)]
             x == TRUE
             r == Replace(n, x)
             q == ArcHitB2(a, k, v)
  <2>1. q.evicted = r.evicted /\ q.cache = FromB2(r.cache, k, v)
    BY DEF ArcHitB2, PutResult, FromB2
  <2>2. /\ ArcShape(n, S, B) /\ n.capacity = a.capacity
        /\ n.t1 = a.t1 /\ n.t2 = a.t2 /\ n.b1 = a.b1 /\ n.b2 = a.b2
    BY TargetSpec, RetargetSpec
  <2>3. a.b2 # <<>>
    BY <1>5 DEF Holds, ArcShape
  <2>4. ArcLen(a) = a.capacity
    BY <1>1, <2>3 DEF FullIfGhosts
  <2>5. r = Replace(n, x) /\ x \in BOOLEAN /\ x
    OBVIOUS
  <2> HIDE DEF n, x, r, q
  <2>6. Admitted(a, k, v, q)
    BY <1>3, <2>1, <2>2, <2>4, <2>5
  <2> QED BY <2>6 DEF q
<1> QED BY <1>4, <1>5

\* So does every put of a key that is not live.
LEMMA ArcPutExact ==
  ASSUME NEW S, NEW B, GhostsOf(S, B), NEW a, ArcShape(a, S, B), ArcApart(a), ArcBounds(a),
         a.capacity > 0, NEW k, NEW v, Entry(k, v) \in S,
         NEW q, q = ArcPut(a, k, v)
  PROVE  Admitted(a, k, v, q)
<1>1. ~ (a.capacity = 0) /\ (ArcLen(a) < a.capacity => ArcLen(a) # a.capacity)
  BY ArcLens DEF ArcLen
<1>2. CASE Holds(a.b1, k)
  <2>1. q = ArcHitB1(a, k, v)
    BY <1>1, <1>2 DEF ArcPut
  <2> QED BY <1>2, <2>1, GhostHitExact
<1>3. CASE ~ Holds(a.b1, k) /\ Holds(a.b2, k)
  <2>1. q = ArcHitB2(a, k, v)
    BY <1>1, <1>3 DEF ArcPut
  <2> QED BY <1>3, <2>1, GhostHitExact
<1>4. CASE ~ Holds(a.b1, k) /\ ~ Holds(a.b2, k)
  <2> DEFINE r == ArcMakeRoom(a)
             d == r.cache
             g == InsertFront(d.t1, k, v)
  <2>1. q.cache = [d EXCEPT !.t1 = g] /\ q.evicted = r.evicted
    BY <1>1, <1>4 DEF ArcPut, ArcMiss, PutResult
  <2>2. /\ ArcLen(a) < a.capacity => d = a /\ r.evicted = FALSE
        /\ ArcLen(a) = a.capacity => MadeWay(a, r)
    BY ArcMakeRoomExact
  <2>3. ArcShape(d, S, B)
    BY ArcMakeRoomSpec
  <2>4. ArcLen(a) = a.capacity => r.evicted = TRUE /\ \E y \in LiveOf(a) : LiveOf(d) = LiveOf(a) \ {y}
    BY <2>2 DEF MadeWay
  <2> HIDE DEF r, d
  <2>5. KeysOf(g) = KeysOf(d.t1) \cup {k} /\ Entry(k, v) \in ToSet(g)
    BY <2>3, InsertFrontSpec, InsertFrontHas DEF ArcShape
  <2> HIDE DEF g
  <2>6. q.cache.t1 = g /\ q.cache.t2 = d.t2
    BY <2>1, <2>3 DEF ArcShape
  <2>7. LiveOf(q.cache) = LiveOf(d) \cup {k} /\ Entry(k, v) \in ArcEntries(q.cache)
    BY <2>5, <2>6 DEF LiveOf, ArcEntries
  <2>8. ArcLen(a) < a.capacity => q.evicted = FALSE /\ LiveOf(q.cache) = LiveOf(a) \cup {k}
    BY <2>1, <2>2, <2>7
  <2>9. ArcLen(a) = a.capacity =>
          /\ q.evicted = TRUE
          /\ \E y \in LiveOf(a) : LiveOf(q.cache) = (LiveOf(a) \ {y}) \cup {k}
    BY <2>1, <2>4, <2>7
  <2> QED BY <2>7, <2>8, <2>9 DEF Admitted
<1> QED BY <1>2, <1>3, <1>4

\* Under a get the live keys stay.
LEMMA ArcGetExact ==
  ASSUME NEW S, NEW B, GhostsOf(S, B), NEW a, ArcShape(a, S, B), NEW k,
         NEW q, q = ArcGet(a, k).cache
  PROVE  LiveOf(q) = LiveOf(a)
<1>1. /\ a.t1 \in Seq(S) /\ Distinct(a.t1) /\ a.t2 \in Seq(S) /\ Distinct(a.t2) /\ EntrySet(S)
  BY DEF ArcShape, GhostsOf
<1>2. CASE Holds(a.t1, k)
  <2> DEFINE w == Without(a.t1, k)
             g == InsertFront(a.t2, k, ValueOf(a.t1, k))
  <2>1. q = [a EXCEPT !.t1 = w, !.t2 = g]
    BY <1>2 DEF ArcGet, GetResult
  <2>2. Entry(k, ValueOf(a.t1, k)) \in S
    BY <1>1, <1>2, ValueOfSpec
  <2>3. KeysOf(w) = KeysOf(a.t1) \ {k} /\ KeysOf(g) = KeysOf(a.t2) \cup {k}
    BY <1>1, <2>2, WithoutDistinct, InsertFrontSpec
  <2>4. k \in KeysOf(a.t1)
    BY <1>2, HoldsKeys
  <2> HIDE DEF w, g
  <2>5. q.t1 = w /\ q.t2 = g
    BY <2>1 DEF ArcShape
  <2> QED BY <2>3, <2>4, <2>5 DEF LiveOf
<1>3. CASE ~ Holds(a.t1, k)
  <2> DEFINE g == MoveToFront(a.t2, k)
  <2>1. q = [a EXCEPT !.t2 = g]
    BY <1>3 DEF ArcGet, GetResult
  <2>2. KeysOf(g) = KeysOf(a.t2)
    BY <1>1, MoveToFrontSpec
  <2> HIDE DEF g
  <2>3. q.t1 = a.t1 /\ q.t2 = g
    BY <2>1 DEF ArcShape
  <2> QED BY <2>2, <2>3 DEF LiveOf
<1> QED BY <1>2, <1>3

\* Lists apart hold one value for each live key, and as many live keys as
\* their lengths add up to.
LEMMA ArcApartMap ==
  ASSUME NEW S, NEW B, NEW a, ArcShape(a, S, B), ArcApart(a)
  PROVE  /\ OneValueEach(ArcEntries(a))
         /\ IsFiniteSet(LiveOf(a)) /\ Cardinality(LiveOf(a)) = ArcLen(a)
<1>1. /\ a.t1 \in Seq(S) /\ Distinct(a.t1) /\ a.t2 \in Seq(S) /\ Distinct(a.t2)
  BY DEF ArcShape
<1>2. KeysOf(a.t1) \cap KeysOf(a.t2) = {}
  BY DEF ArcApart
<1>3. OneValueEach(ArcEntries(a))
  <2> DEFINE X == ToSet(a.t1)
             Y == ToSet(a.t2)
  <2>1. OneValueEach(X) /\ OneValueEach(Y)
    BY <1>1, DistinctOneValueEach
  <2>2. \A e \in X : e.key \in KeysOf(a.t1)
    BY KeysOfEntries
  <2>3. \A e \in Y : e.key \in KeysOf(a.t2)
    BY KeysOfEntries
  <2>4. ArcEntries(a) = X \cup Y
    BY DEF ArcEntries
  <2> HIDE DEF X, Y
  <2> QED BY <1>2, <2>1, <2>2, <2>3, <2>4 DEF OneValueEach
<1>4. /\ IsFiniteSet(KeysOf(a.t1)) /\ Cardinality(KeysOf(a.t1)) = Len(a.t1)
      /\ IsFiniteSet(KeysOf(a.t2)) /\ Cardinality(KeysOf(a.t2)) = Len(a.t2)
  BY <1>1, KeysCount
<1>5. /\ IsFiniteSet(LiveOf(a))
      /\ Cardinality(LiveOf(a)) = Cardinality(KeysOf(a.t1)) + Cardinality(KeysOf(a.t2))
                                  - Cardinality(KeysOf(a.t1) \cap KeysOf(a.t2))
  BY <1>4, FS_Union DEF LiveOf
<1>6. Cardinality(KeysOf(a.t1) \cap KeysOf(a.t2)) = 0
  BY <1>2, FS_EmptySet
<1> QED BY <1>1, <1>3, <1>4, <1>5, <1>6 DEF ArcLen, Size
==============================================================================
