------------------------- MODULE WrappedExampleProofs -------------------------
(***************************************************************************)
(* Theorems about the wrapper around a FlatIndex or a DocStub, for any     *)
(* ids, vectors, dimensions, policies and capacities: what the indexes     *)
(* hold, that every cached result is the index's own answer, errors and    *)
(* half-applied batches included, and that no reply misleads the caller.   *)
(***************************************************************************)
EXTENDS ExampleCaller, PolicyCacheLemmas

Flats == [kind: {"flat"}, dim: Nat, rows: Seq(Items)]
Stubs == [kind: {"stub"}, ids: Seq(Ids)]

\* The rows a FlatIndex may hold: of its dimension, no id twice.
RowsSound(rows, dim) ==
  /\ \A i \in DOMAIN rows : Len(rows[i].vector) = dim
  /\ \A i, j \in DOMAIN rows : rows[i].id = rows[j].id => i = j

FlatSound(x) == x \in Flats /\ RowsSound(x.rows, x.dim)
IndexSound(x) == FlatSound(x) \/ x \in Stubs

\* What a mutator promises: a sound index, the same one if it fails.
Mutated(x, done) ==
  /\ IndexSound(done.index)
  /\ done.result # "Ok" => done.index = x

\* A step of a batch.
OneMore(done, item) ==
  IF done.result = "Ok" THEN IndexInsert(done.index, item.id, item.vector) ELSE done

-----------------------------------------------------------------------------
\* The indexes.

\* Nothing is both.
LEMMA IndexKinds ==
  ASSUME NEW x, IndexSound(x)
  PROVE  /\ x.kind \in {"flat", "stub"}
         /\ x.kind = "flat" <=> FlatSound(x)
         /\ x.kind = "stub" <=> x \in Stubs
BY DEF IndexSound, FlatSound, Flats, Stubs

\* An index is created sound.
LEMMA CreatedSound ==
  /\ \A dim \in Dims : \A x \in FlatCreated(dim) : IndexSound(x)
  /\ \A id \in Ids : IndexSound(StubNew(id))
<1>1. ASSUME NEW dim \in Dims, NEW x \in FlatCreated(dim) PROVE FlatSound(x)
  <2>1. x = [kind |-> "flat", dim |-> dim, rows |-> <<>>] /\ dim \in Nat
    BY <1>1, ExampleAssumption DEF FlatCreated, FlatNew
  <2>2. <<>> \in Seq(Items) /\ DOMAIN <<>> = {}
    OBVIOUS
  <2> QED BY <2>1, <2>2 DEF FlatSound, Flats, RowsSound
<1>2. ASSUME NEW id \in Ids PROVE StubNew(id) \in Stubs
  BY DEF StubNew, Stubs
<1> QED BY <1>1, <1>2 DEF IndexSound

\* A FlatIndex with other rows.
WithRows(x, rows) == [x EXCEPT !.rows = rows]

LEMMA WithRowsSound ==
  ASSUME NEW x, FlatSound(x), NEW rows \in Seq(Items), RowsSound(rows, x.dim)
  PROVE  FlatSound(WithRows(x, rows))
BY DEF FlatSound, Flats, WithRows

\* A row is pushed only if it fits and its id is new.
LEMMA FlatInsertSound ==
  ASSUME NEW x, FlatSound(x), NEW id \in Ids, NEW v \in Vectors
  PROVE  Mutated(x, FlatInsert(x, id, v))
<1>1. CASE Len(v) # x.dim \/ FlatHolds(x, id)
  <2>1. FlatInsert(x, id, v).index = x
    BY <1>1 DEF FlatInsert, Failed
  <2> QED BY <2>1 DEF Mutated, IndexSound
<1>2. CASE Len(v) = x.dim /\ ~ FlatHolds(x, id)
  <2> DEFINE row == [id |-> id, vector |-> v]
             rows == Append(x.rows, row)
  <2>1. row \in Items /\ row.id = id /\ row.vector = v
    BY DEF Items
  <2>2. x.rows \in Seq(Items)
    BY DEF FlatSound, Flats
  <2>3. /\ rows \in Seq(Items) /\ DOMAIN rows = 1 .. Len(x.rows) + 1
        /\ \A i \in 1 .. Len(x.rows) : rows[i] = x.rows[i]
        /\ rows[Len(x.rows) + 1] = row
        /\ DOMAIN x.rows = 1 .. Len(x.rows) /\ Len(x.rows) \in Nat
    BY <2>1, <2>2, AppendProperties
  <2>4. FlatInsert(x, id, v) = Done(WithRows(x, rows))
    BY <1>2 DEF FlatInsert, WithRows
  <2> HIDE DEF rows, row
  <2>5. RowsSound(rows, x.dim)
    <3>1. \A i \in DOMAIN rows : i = Len(x.rows) + 1 \/ i \in DOMAIN x.rows
      BY <2>3
    <3>2. ASSUME NEW i \in DOMAIN rows PROVE Len(rows[i].vector) = x.dim
      BY <1>2, <2>1, <2>3, <3>1 DEF RowsSound, FlatSound
    <3>3. ASSUME NEW i \in DOMAIN rows, NEW j \in DOMAIN rows, rows[i].id = rows[j].id
          PROVE  i = j
      BY <1>2, <2>1, <2>3, <3>1, <3>3 DEF RowsSound, FlatSound, FlatHolds
    <3> QED BY <3>2, <3>3 DEF RowsSound
  <2>6. FlatSound(WithRows(x, rows))
    BY <2>3, <2>5, WithRowsSound
  <2> QED BY <2>4, <2>6 DEF Done, Mutated, IndexSound
<1> QED BY <1>1, <1>2

\* A DocStub takes any id.
LEMMA StubInsertSound ==
  ASSUME NEW x \in Stubs, NEW id \in Ids
  PROVE  Mutated(x, StubInsert(x, id))
<1>1. Append(x.ids, id) \in Seq(Ids)
  BY AppendProperties DEF Stubs
<1>2. [x EXCEPT !.ids = Append(@, id)] \in Stubs
  BY <1>1 DEF Stubs
<1> QED BY <1>2 DEF StubInsert, Done, Mutated, IndexSound

\* The trait's insert.
LEMMA InsertSound ==
  ASSUME NEW x, IndexSound(x), NEW id \in Ids, NEW v \in Vectors
  PROVE  Mutated(x, IndexInsert(x, id, v))
BY IndexKinds, FlatInsertSound, StubInsertSound DEF IndexInsert

-----------------------------------------------------------------------------
\* Finite sets in order.  Where a definition recurses over a finite set, or
\* picks from one by an order, the smallest set for which it would go wrong is
\* what the argument takes instead of an induction.

Smallest(X, F) == X \in F /\ \A Y \in F : Y \subseteq X => Y = X

\* A collection of subsets of a finite set has a smallest member.
LEMMA SmallestSubset ==
  ASSUME NEW S, IsFiniteSet(S), NEW F, F \subseteq SUBSET S, F # {}
  PROVE  \E X : Smallest(X, F)
<1> DEFINE R == StrictSubsetOrdering(S)
           D == FiniteSubsetsOf(S)
<1>1. IsWellFoundedOn(R, D)
  BY FS_StrictSubsetOrderingWellFounded
<1>2. F \subseteq D
  BY FS_Subset DEF FiniteSubsetsOf
<1>3. \A X, Y \in SUBSET S : Y \subseteq X /\ Y # X => <<Y, X>> \in R
  BY DEF StrictSubsetOrdering
<1> HIDE DEF R, D
<1>4. PICK X \in F : \A Y \in F : ~ (<<Y, X>> \in R)
  BY <1>1, <1>2, WFMin
<1>5. \A Y \in F : Y \subseteq X => Y = X
  BY <1>3, <1>4
<1> QED BY <1>5 DEF Smallest

\* r orders S strictly and totally.
Orders(r, S) ==
  /\ \A x, y, z \in S : <<x, y>> \in r /\ <<y, z>> \in r => <<x, z>> \in r
  /\ \A x, y \in S : x # y => <<x, y>> \in r \/ <<y, x>> \in r

Greatest(m, S, r) == m \in S /\ \A x \in S : x = m \/ <<x, m>> \in r

\* A finite set that is ordered has a greatest member.
LEMMA GreatestExists ==
  ASSUME NEW S, IsFiniteSet(S), NEW r, Orders(r, S), S # {}
  PROVE  \E m : Greatest(m, S, r)
<1> DEFINE F == {X \in SUBSET S : X # {} /\ ~ \E m : Greatest(m, X, r)}
<1>1. SUFFICES ASSUME F # {} PROVE FALSE
  OBVIOUS
<1>2. /\ F \subseteq SUBSET S
      /\ \A X \in SUBSET S : X \in F <=> X # {} /\ ~ \E m : Greatest(m, X, r)
  OBVIOUS
<1> HIDE DEF F
<1>3. PICK X \in F : \A Y \in F : Y \subseteq X => Y = X
  BY <1>1, <1>2, SmallestSubset DEF Smallest
<1>4. PICK a : a \in X
  BY <1>2, <1>3
<1>5. X \ {a} # {}
  <2>1. SUFFICES ASSUME X \ {a} = {} PROVE Greatest(a, X, r)
    BY <1>2, <1>3
  <2> QED BY <1>4, <2>1 DEF Greatest
<1>6. X \ {a} \notin F /\ X \ {a} \in SUBSET S
  BY <1>2, <1>3, <1>4
<1>7. PICK m : Greatest(m, X \ {a}, r)
  BY <1>2, <1>5, <1>6
<1>8. m \in X /\ m \in S /\ a \in S /\ X \subseteq S /\ a # m
  BY <1>2, <1>3, <1>4, <1>7 DEF Greatest
<1>9. CASE <<a, m>> \in r
  <2>1. Greatest(m, X, r)
    BY <1>7, <1>8, <1>9 DEF Greatest
  <2> QED BY <1>2, <1>3, <2>1
<1>10. CASE <<m, a>> \in r
  <2>1. \A x \in X : x = a \/ x = m \/ <<x, m>> \in r
    BY <1>7 DEF Greatest
  <2>2. Greatest(a, X, r)
    BY <1>4, <1>8, <1>10, <2>1 DEF Greatest, Orders
  <2> QED BY <1>2, <1>3, <2>2
<1> QED BY <1>8, <1>9, <1>10 DEF Orders

\* What the folds take from a finite set of integers, and what SelectInSeq.
LEMMA MaxMin ==
  ASSUME NEW S, IsFiniteSet(S), S \subseteq Int, S # {}
  PROVE  /\ Max(S) \in S /\ \A x \in S : x <= Max(S)
         /\ Min(S) \in S /\ \A x \in S : Min(S) <= x
<1> DEFINE up == {p \in S \X S : p[1] < p[2]}
           down == {p \in S \X S : p[1] > p[2]}
<1>1. \A x, y \in S : (<<x, y>> \in up <=> x < y) /\ (<<x, y>> \in down <=> x > y)
  OBVIOUS
<1> HIDE DEF up, down
<1>2. Orders(up, S) /\ Orders(down, S)
  BY <1>1 DEF Orders
<1>3. PICK m : Greatest(m, S, up)
  BY <1>2, GreatestExists
<1>4. m \in S /\ \A y \in S : m >= y
  <2>1. m \in S /\ \A y \in S : y = m \/ y < m
    BY <1>1, <1>3 DEF Greatest
  <2> QED BY <2>1
<1>5. PICK n : Greatest(n, S, down)
  BY <1>2, GreatestExists
<1>6. n \in S /\ \A y \in S : n <= y
  <2>1. n \in S /\ \A y \in S : y = n \/ y > n
    BY <1>1, <1>5 DEF Greatest
  <2> QED BY <2>1
<1>7. Max(S) \in S /\ \A y \in S : Max(S) >= y
  BY <1>4 DEF Max
<1>8. Min(S) \in S /\ \A y \in S : Min(S) <= y
  BY <1>6 DEF Min
<1> QED BY <1>7, <1>8

-----------------------------------------------------------------------------
\* Deletion, and batches.

\* The first position of an id, if there is one.
LEMMA FirstPosition ==
  ASSUME NEW n \in Nat, NEW I, I \subseteq 1 .. n,
         NEW pos, pos = IF I # {} THEN Min(I) ELSE 0
  PROVE  IF I = {} THEN pos = 0 ELSE pos \in I /\ pos # 0
<1>1. CASE I # {}
  <2>1. IsFiniteSet(1 .. n) /\ I \in SUBSET (1 .. n) /\ I \subseteq Int
    BY FS_Interval
  <2>2. IsFiniteSet(I)
    BY <2>1, FS_Subset
  <2>3. pos \in I
    BY <1>1, <2>1, <2>2, MaxMin
  <2> QED BY <1>1, <2>3
<1> QED BY <1>1

\* Without one row, the others are still of the dimension and one per id.
LEMMA RowsWithout ==
  ASSUME NEW rows \in Seq(Items), NEW dim, RowsSound(rows, dim), NEW p \in 1 .. Len(rows)
  PROVE  RemoveAt(rows, p) \in Seq(Items) /\ RowsSound(RemoveAt(rows, p), dim)
<1> DEFINE less == RemoveAt(rows, p)
           was(i) == IF i < p THEN i ELSE i + 1
<1>1. /\ less \in Seq(Items) /\ Len(less) = Len(rows) - 1
      /\ \A i \in 1 .. Len(rows) - 1 : less[i] = IF i < p THEN rows[i] ELSE rows[i + 1]
  BY RemoveAtSpec
<1>2. DOMAIN rows = 1 .. Len(rows) /\ Len(rows) \in Nat /\ DOMAIN less = 1 .. Len(rows) - 1
  BY <1>1
<1> HIDE DEF less
<1>3. ASSUME NEW i \in DOMAIN less PROVE was(i) \in DOMAIN rows /\ less[i] = rows[was(i)]
  BY <1>1, <1>2
<1>4. ASSUME NEW i \in DOMAIN less, NEW j \in DOMAIN less, was(i) = was(j) PROVE i = j
  BY <1>2, <1>4
<1>5. \A i \in DOMAIN less : Len(less[i].vector) = dim
  BY <1>3 DEF RowsSound
<1>6. ASSUME NEW i \in DOMAIN less, NEW j \in DOMAIN less, less[i].id = less[j].id
      PROVE  i = j
  <2>1. was(i) = was(j)
    BY <1>3, <1>6 DEF RowsSound
  <2> QED BY <1>4, <2>1
<1>7. RowsSound(less, dim)
  BY <1>5, <1>6 DEF RowsSound
<1> QED BY <1>1, <1>7 DEF less

\* The row of the id goes, if there is one.
LEMMA FlatDeleteSound ==
  ASSUME NEW x, FlatSound(x), NEW id
  PROVE  Mutated(x, FlatDelete(x, id))
<1> DEFINE I == {i \in 1 .. Len(x.rows) : x.rows[i].id = id}
           pos == IF I # {} THEN Min(I) ELSE 0
<1>1. /\ x.rows \in Seq(Items) /\ Len(x.rows) \in Nat /\ RowsSound(x.rows, x.dim)
      /\ I \subseteq 1 .. Len(x.rows)
  BY DEF FlatSound, Flats
<1>2. FlatDelete(x, id) = IF pos = 0 THEN Failed(x, "NotFound")
                          ELSE Done(WithRows(x, RemoveAt(x.rows, pos)))
  BY DEF FlatDelete, SelectInSeq, WithRows
<1>3. pos = 0 \/ pos \in I
  <2> HIDE DEF I
  <2> QED BY <1>1, FirstPosition
<1>4. pos = 0 \/ pos \in 1 .. Len(x.rows)
  BY <1>1, <1>3
<1> HIDE DEF pos, I
<1>5. CASE pos = 0
  BY <1>2, <1>5 DEF Failed, Mutated, IndexSound
<1>6. CASE pos # 0
  <2>1. FlatSound(WithRows(x, RemoveAt(x.rows, pos)))
    BY <1>1, <1>4, <1>6, RowsWithout, WithRowsSound
  <2> QED BY <1>2, <1>6, <2>1 DEF Done, Mutated, IndexSound
<1> QED BY <1>5, <1>6

\* So does the first of its ids in a DocStub.
LEMMA StubDeleteSound ==
  ASSUME NEW x \in Stubs, NEW id
  PROVE  Mutated(x, StubDelete(x, id))
<1> DEFINE I == {i \in 1 .. Len(x.ids) : x.ids[i] = id}
           pos == IF I # {} THEN Min(I) ELSE 0
           y == [x EXCEPT !.ids = RemoveAt(@, pos)]
<1>1. x.ids \in Seq(Ids) /\ Len(x.ids) \in Nat /\ I \subseteq 1 .. Len(x.ids)
  BY DEF Stubs
<1>2. StubDelete(x, id) = IF pos = 0 THEN Failed(x, "NotFound") ELSE Done(y)
  BY DEF StubDelete, SelectInSeq
<1>3. pos = 0 \/ pos \in I
  <2> HIDE DEF I
  <2> QED BY <1>1, FirstPosition
<1>4. pos = 0 \/ pos \in 1 .. Len(x.ids)
  BY <1>1, <1>3
<1> HIDE DEF pos, I
<1>5. CASE pos = 0
  BY <1>2, <1>5 DEF Failed, Mutated, IndexSound
<1>6. CASE pos # 0
  <2>1. RemoveAt(x.ids, pos) \in Seq(Ids)
    BY <1>1, <1>4, <1>6, RemoveAtSpec
  <2>2. y \in Stubs
    BY <2>1 DEF Stubs
  <2> HIDE DEF y
  <2> QED BY <1>2, <1>6, <2>2 DEF Done, Mutated, IndexSound
<1> QED BY <1>5, <1>6

\* The trait's delete.
LEMMA DeleteSound ==
  ASSUME NEW x, IndexSound(x), NEW id
  PROVE  Mutated(x, IndexDelete(x, id))
BY IndexKinds, FlatDeleteSound, StubDeleteSound DEF IndexDelete

\* What satisfies the equation of the fold over a pair.
FoldsPair(f, x, items) ==
  f = [s \in SUBSET (DOMAIN items) |->
         IF s = {} THEN Done(x) ELSE OneMore(f[s \ {Max(s)}], items[Max(s)])]

\* A batch of two is one insert after the other.
LEMMA BatchOfTwo ==
  ASSUME NEW x, NEW a, NEW b
  PROVE  IndexInsertBatch(x, <<a, b>>) = OneMore(OneMore(Done(x), a), b)
<1> DEFINE items == <<a, b>>
           one == OneMore(Done(x), a)
           w(s) == CASE s = {}     -> Done(x)
                     [] s = {1}    -> one
                     [] s = {2}    -> OneMore(Done(x), b)
                     [] s = {1, 2} -> OneMore(one, b)
           g == [s \in SUBSET (DOMAIN items) |-> w(s)]
<1>1. IndexInsertBatch(x, items) = (CHOOSE f : FoldsPair(f, x, items))[DOMAIN items]
  BY Zenon DEF IndexInsertBatch, FoldLeft, MapThenFoldSet, FoldsPair, OneMore
<1>2. DOMAIN items = {1, 2} /\ items[1] = a /\ items[2] = b
  OBVIOUS
<1>3. SUBSET {1, 2} = {{}, {1}, {2}, {1, 2}}
  OBVIOUS
<1>4. Max({1}) = 1 /\ Max({2}) = 2 /\ Max({1, 2}) = 2
  <2>1. ASSUME NEW n \in Int PROVE Max({n}) = n
    <3>1. IsFiniteSet({n}) /\ {n} \subseteq Int /\ {n} # {}
      BY FS_Singleton
    <3> QED BY <3>1, MaxMin
  <2>2. IsFiniteSet({1, 2})
    <3>1. {1, 2} = {1} \cup {2} /\ IsFiniteSet({1})
      BY FS_Singleton
    <3> QED BY <3>1, FS_AddElement
  <2>3. Max({1, 2}) \in {1, 2} /\ 2 <= Max({1, 2})
    BY <2>2, MaxMin
  <2> QED BY <2>1, <2>3
<1> HIDE DEF items, one
<1>5. FoldsPair(g, x, items)
  <2>1. /\ g[{}] = Done(x) /\ g[{1}] = one /\ g[{2}] = OneMore(Done(x), b)
        /\ g[{1, 2}] = OneMore(one, b)
    BY <1>2, <1>3
  <2>2. {1} \ {1} = {} /\ {2} \ {2} = {} /\ {1, 2} \ {2} = {1} /\ one = OneMore(Done(x), a)
    BY DEF one
  <2> HIDE DEF w
  <2>3. g = [s \in SUBSET (DOMAIN items) |-> g[s]]
    OBVIOUS
  <2> HIDE DEF g
  <2>4. ASSUME NEW s \in SUBSET (DOMAIN items)
        PROVE  g[s] = IF s = {} THEN Done(x) ELSE OneMore(g[s \ {Max(s)}], items[Max(s)])
    <3>1. s = {} \/ s = {1} \/ s = {2} \/ s = {1, 2}
      BY <1>2, <1>3
    <3>2. CASE s = {}
      BY <2>1, <3>2
    <3>3. CASE s = {1}
      BY <1>2, <1>4, <2>1, <2>2, <3>3
    <3>4. CASE s = {2}
      BY <1>2, <1>4, <2>1, <2>2, <3>4
    <3>5. CASE s = {1, 2}
      BY <1>2, <1>4, <2>1, <2>2, <3>5
    <3> QED BY <3>1, <3>2, <3>3, <3>4, <3>5
  <2> QED BY <2>3, <2>4 DEF FoldsPair
<1> HIDE DEF g
<1> DEFINE f == CHOOSE f : FoldsPair(f, x, items)
<1>6. FoldsPair(f, x, items)
  BY <1>5
<1> HIDE DEF f
<1>7. ASSUME NEW s \in SUBSET {1, 2}
      PROVE  f[s] = IF s = {} THEN Done(x) ELSE OneMore(f[s \ {Max(s)}], items[Max(s)])
  BY <1>2, <1>6 DEF FoldsPair
<1>8. f[{}] = Done(x)
  BY <1>7
<1>9. f[{1}] = OneMore(f[{}], a)
  <2>1. {1} \ {1} = {} /\ {1} # {}
    OBVIOUS
  <2> QED BY <1>2, <1>4, <1>7, <2>1
<1>10. f[{1, 2}] = OneMore(f[{1}], b)
  <2>1. {1, 2} \ {2} = {1} /\ {1, 2} # {}
    OBVIOUS
  <2> QED BY <1>2, <1>4, <1>7, <2>1
<1> QED BY <1>1, <1>2, <1>8, <1>9, <1>10 DEF f, items

\* The trait's insert_batch leaves a sound index, however far it gets.
LEMMA BatchSound ==
  ASSUME NEW x, IndexSound(x), NEW a \in Items, NEW b \in Items
  PROVE  IndexSound(IndexInsertBatch(x, <<a, b>>).index)
<1>1. ASSUME NEW done, IndexSound(done.index), NEW item \in Items
      PROVE  IndexSound(OneMore(done, item).index)
  <2>1. item.id \in Ids /\ item.vector \in Vectors
    BY DEF Items
  <2> QED BY <1>1, <2>1, InsertSound DEF OneMore, Mutated
<1>2. IndexSound(Done(x).index)
  BY DEF Done
<1> QED BY <1>1, <1>2, BatchOfTwo

-----------------------------------------------------------------------------
\* The wrapper.

\* The answers any sound index could give.
Results ==
  UNION {IndexSearch(x, q, k) : x \in Flats \cup Stubs, q \in Vectors, k \in Ks}

\* The inductive invariant: sound index, typed cache, and nothing in the cache
\* but what the index would answer.
WInv ==
  /\ IndexSound(inner)
  /\ PolicyType(cache, SearchKeys, Results)
  /\ Fresh

\* Of every entry its value is the answer of index x.
AllAnswersOf(x, entries) ==
  \A e \in entries : IndexSearch(x, e.key[1], e.key[2]) = {e.val}

\* A search has one answer or none.
LEMMA OneAnswer ==
  ASSUME NEW x, NEW q, NEW k
  PROVE  IndexSearch(x, q, k) = {} \/ \E hits : IndexSearch(x, q, k) = {hits}
BY DEF IndexSearch, FlatSearch, StubSearch

\* Its answers are results, and its key is one.
LEMMA SearchTyped ==
  ASSUME NEW x, IndexSound(x), NEW q \in Vectors, NEW k \in Ks
  PROVE  /\ IndexSearch(x, q, k) \subseteq Results
         /\ KeyOf(q, k) \in SearchKeys
         /\ KeyOf(q, k)[1] = q /\ KeyOf(q, k)[2] = k
<1>1. x \in Flats \cup Stubs
  BY DEF IndexSound, FlatSound
<1> QED BY <1>1 DEF Results, KeyOf, SearchKeys

\* A new wrapper has an empty cache.
LEMMA InitWInv == Init => WInv
<1> SUFFICES ASSUME Init PROVE WInv
  OBVIOUS
<1>1. IndexSound(inner)
  <2>1. \/ \E dim \in Dims : inner \in FlatCreated(dim)
        \/ \E id \in Ids : inner = StubNew(id)
    BY DEF Init
  <2> QED BY <2>1, CreatedSound
<1>2. PICK p \in Policies, n \in Capacities : cache = PolicyNew(p, n)
  BY DEF Init
<1>3. p \in EvictionPolicy /\ n \in Nat
  BY ExampleAssumption
<1>4. PolicyType(cache, SearchKeys, Results) /\ Entries(cache) = {}
  BY <1>2, <1>3, PolicyNewSpec
<1> QED BY <1>1, <1>4 DEF WInv, Fresh

\* After a mutator: the cache is cleared, or neither index nor cache changed.
LEMMA MutatedFresh ==
  ASSUME WInv, NEW done, Mutated(inner, done), inner' = done.index, InvalidateIfOk(done)
  PROVE  WInv'
<1>1. /\ IndexSound(inner)
      /\ PolicyType(cache, SearchKeys, Results)
      /\ AllAnswersOf(inner, Entries(cache))
  BY DEF WInv, Fresh, AllAnswersOf
<1> DEFINE nc == cache'
           ni == inner'
<1>2. IndexSound(ni)
  BY DEF Mutated
<1>3. PolicyType(nc, SearchKeys, Results) /\ AllAnswersOf(ni, Entries(nc))
  <2>1. CASE done.result = "Ok"
    <3>1. nc = PolicyClear(cache)
      BY <2>1 DEF InvalidateIfOk
    <3> QED BY <1>1, <3>1, PolicyClearSpec DEF Keeps, AllAnswersOf
  <2>2. CASE done.result # "Ok"
    <3>1. nc = cache /\ ni = inner
      BY <2>2 DEF InvalidateIfOk, Mutated
    <3> QED BY <1>1, <3>1
  <2> QED BY <2>1, <2>2
<1> QED BY <1>2, <1>3 DEF WInv, Fresh, AllAnswersOf

\* After a clear, whatever became of the index.
LEMMA ClearedFresh ==
  ASSUME WInv, IndexSound(inner'), cache' = PolicyClear(cache)
  PROVE  WInv'
<1>1. PolicyType(cache, SearchKeys, Results)
  BY DEF WInv
<1> DEFINE nc == cache'
<1>2. PolicyType(nc, SearchKeys, Results) /\ Entries(nc) = {}
  BY <1>1, PolicyClearSpec DEF Keeps
<1> QED BY <1>2 DEF WInv, Fresh

\* What a lookup finds is the index's answer.
LEMMA CachedIsAnswer ==
  ASSUME WInv, NEW q \in Vectors, NEW k \in Ks, Cached(q, k) # {}
  PROVE  Cached(q, k) = IndexSearch(inner, q, k)
<1>1. PolicyType(cache, SearchKeys, Results) /\ IndexSound(inner)
  BY DEF WInv
<1>2. \A v \in Cached(q, k) : Entry(KeyOf(q, k), v) \in Entries(cache)
  BY <1>1, PolicyGetSpec DEF Cached
<1>3. \A v \in Cached(q, k) : IndexSearch(inner, q, k) = {v}
  BY <1>1, <1>2, KeyOfEntry, SearchTyped DEF WInv, Fresh
<1> QED BY <1>3

\* What a lookup, and the put after a miss, leave in the cache.
LEMMA AfterMissFresh ==
  ASSUME WInv, NEW q \in Vectors, NEW k \in Ks,
         NEW c, c = PolicyGet(cache, KeyOf(q, k)).cache \/ c = AfterMiss(q, k)
  PROVE  PolicyType(c, SearchKeys, Results) /\ AllAnswersOf(inner, Entries(c))
<1> DEFINE key == KeyOf(q, k)
           found == IndexSearch(inner, q, k)
           probed == PolicyGet(cache, key).cache
           hits == CHOOSE hits \in found : TRUE
<1>1. /\ IndexSound(inner) /\ PolicyType(cache, SearchKeys, Results)
      /\ AllAnswersOf(inner, Entries(cache))
  BY DEF WInv, Fresh, AllAnswersOf
<1>2. key \in SearchKeys /\ key[1] = q /\ key[2] = k /\ found \subseteq Results
  BY <1>1, SearchTyped
<1>3. PolicyType(probed, SearchKeys, Results) /\ Entries(probed) \subseteq Entries(cache)
  BY <1>1, PolicyGetSpec DEF Keeps
<1>4. AllAnswersOf(inner, Entries(probed))
  BY <1>1, <1>3 DEF AllAnswersOf
<1>5. CASE c = probed
  BY <1>3, <1>4, <1>5
<1>6. CASE found # {} /\ c = PolicyPut(probed, key, hits).cache
  <2>1. found = {hits} /\ hits \in Results
    BY <1>2, <1>6, OneAnswer
  <2> HIDE DEF key, found, probed, hits
  <2>2. PolicyType(c, SearchKeys, Results)
    BY <1>2, <1>3, <1>6, <2>1, PolicyPutSpec DEF Keeps
  <2>3. Entries(c) \subseteq Entries(probed) \cup {Entry(key, hits)}
    BY <1>2, <1>3, <1>6, <2>1, PolicyPutSpec
  <2>4. Entry(key, hits).key = key /\ Entry(key, hits).val = hits
    BY KeyOfEntry
  <2>5. IndexSearch(inner, key[1], key[2]) = {hits}
    BY <1>2, <2>1 DEF found
  <2> QED BY <1>4, <2>2, <2>3, <2>4, <2>5 DEF AllAnswersOf
<1>7. c = probed \/ (found # {} /\ c = PolicyPut(probed, key, hits).cache)
  BY DEF AfterMiss
<1> QED BY <1>5, <1>6, <1>7

\* Every step keeps the invariant.
LEMMA NextWInv == WInv /\ [Next]_wvars => WInv'
<1> SUFFICES ASSUME WInv, [Next]_wvars PROVE WInv'
  OBVIOUS
<1>1. IndexSound(inner)
  BY DEF WInv
<1>2. ASSUME NEW id \in Ids, NEW v \in Vectors, Insert(id, v) PROVE WInv'
  BY <1>1, <1>2, InsertSound, MutatedFresh DEF Insert
<1>3. ASSUME NEW id \in Ids, Delete(id) PROVE WInv'
  BY <1>1, <1>3, DeleteSound, MutatedFresh DEF Delete
<1>4. ASSUME NEW a \in Items, NEW b \in Items, InsertBatch(<<a, b>>) PROVE WInv'
  BY <1>1, <1>4, BatchSound, ClearedFresh DEF InsertBatch
<1>5. ASSUME NEW q \in Vectors, NEW k \in Ks, SearchHit(q, k) \/ SearchMiss(q, k) PROVE WInv'
  <2> DEFINE nc == cache'
  <2>1. inner' = inner /\ (nc = PolicyGet(cache, KeyOf(q, k)).cache \/ nc = AfterMiss(q, k))
    BY <1>5 DEF SearchHit, SearchMiss
  <2> HIDE DEF nc
  <2>2. PolicyType(nc, SearchKeys, Results) /\ AllAnswersOf(inner, Entries(nc))
    BY <2>1, AfterMissFresh
  <2> QED BY <1>1, <2>1, <2>2 DEF nc, WInv, Fresh, AllAnswersOf
<1>6. ASSUME ClearCache PROVE WInv'
  BY <1>1, <1>6, ClearedFresh DEF ClearCache
<1>7. ASSUME UNCHANGED wvars PROVE WInv'
  BY <1>7 DEF WInv, wvars, Fresh
<1> QED BY <1>2, <1>3, <1>4, <1>5, <1>6, <1>7 DEF Next

\* In every behaviour, for any ids, vectors, dimensions, policies and
\* capacities, the FlatIndex holds no id twice and only rows of its dimension,
\* however a batch ended (examples/support/flat_index.rs:38-61), and the cache
\* only keys of searches.
THEOREM WrappedTypeCorrect == ExampleSpec => []TypeOK
<1>1. WInv => TypeOK
  <2> SUFFICES ASSUME WInv PROVE TypeOK
    OBVIOUS
  <2>1. LiveKeys(cache) \subseteq SearchKeys
    BY EntriesTyped DEF WInv, LiveKeys
  <2>2. inner.kind = "flat" => RowsSound(inner.rows, inner.dim)
    BY IndexKinds DEF WInv, FlatSound
  <2> QED BY <2>1, <2>2 DEF TypeOK, RowsSound
<1> QED BY <1>1, InitWInv, NextWInv, PTL DEF ExampleSpec

\* In every behaviour each cached result is what the wrapped index would
\* answer now: a call that fails leaves the index as it was, unless it is a
\* batch, and that clears the cache (src/cached.rs:323-359).
THEOREM NeverOutdated == ExampleSpec => []Fresh
<1>1. WInv => Fresh
  BY DEF WInv
<1> QED BY <1>1, InitWInv, NextWInv, PTL DEF ExampleSpec

-----------------------------------------------------------------------------
\* Distances.

\* What satisfies the equation of the sum of s over the subsets of D.
Sums(f, D, s) ==
  f = [t \in SUBSET D |-> IF t = {} THEN 0 ELSE f[t \ {Max(t)}] + s[Max(t)]]

\* There is such a function, one more position at a time.
LEMMA SumsExist ==
  ASSUME NEW D, IsFiniteSet(D), D \subseteq Int, NEW s
  PROVE  \E f : Sums(f, D, s)
<1> DEFINE F == {T \in SUBSET D : ~ \E f : Sums(f, T, s)}
<1>1. /\ F \subseteq SUBSET D
      /\ \A T \in SUBSET D : T \in F <=> ~ \E f : Sums(f, T, s)
  OBVIOUS
<1> HIDE DEF F
<1>2. SUFFICES ASSUME F # {} PROVE FALSE
  BY <1>1
<1>3. PICK X \in F : \A Y \in F : Y \subseteq X => Y = X
  <2>1. F \subseteq SUBSET D /\ F # {}
    BY <1>1, <1>2
  <2>2. PICK X : Smallest(X, F)
    BY Zenon, <2>1, SmallestSubset
  <2> QED BY <2>2 DEF Smallest
<1>4. X \subseteq D /\ X \subseteq Int
  BY <1>1, <1>3
<1>5. \A t \in SUBSET X : t # {} => Max(t) \in t /\ \A x \in t : x <= Max(t)
  <2> SUFFICES ASSUME NEW t \in SUBSET X, t # {}
               PROVE  Max(t) \in t /\ \A x \in t : x <= Max(t)
    OBVIOUS
  <2>1. t \in SUBSET D
    BY <1>4
  <2>2. IsFiniteSet(t) /\ t \subseteq Int
    BY <2>1, FS_Subset
  <2> QED BY <2>2, MaxMin
<1>6. CASE X = {}
  <2> DEFINE f == [t \in SUBSET X |-> 0]
  <2>1. \A t \in SUBSET X : t = {}
    BY <1>6
  <2>2. Sums(f, X, s)
    BY <2>1 DEF Sums
  <2> QED BY <1>1, <1>3, <2>2
<1>7. CASE X # {}
  <2> DEFINE m == Max(X)
             W == X \ {m}
  <2>1. m \in X
    BY <1>5, <1>7
  <2>2. W \in SUBSET D /\ W # X
    BY <1>4, <2>1
  <2>3. W \notin F
    BY <1>3, <2>2
  <2>4. PICK g : Sums(g, W, s)
    BY <1>1, <2>2, <2>3
  <2> DEFINE w(t) == IF m \in t THEN g[t \ {m}] + s[m] ELSE g[t]
             f == [t \in SUBSET X |-> w(t)]
  <2>5. \A t \in SUBSET W : g[t] = IF t = {} THEN 0 ELSE g[t \ {Max(t)}] + s[Max(t)]
    BY <2>4 DEF Sums
  <2>6. \A t \in SUBSET X : f[t] = IF m \in t THEN g[t \ {m}] + s[m] ELSE g[t]
    OBVIOUS
  <2> HIDE DEF w
  <2>7. f = [t \in SUBSET X |-> f[t]]
    OBVIOUS
  <2> HIDE DEF f
  <2>8. ASSUME NEW t \in SUBSET X
        PROVE  f[t] = IF t = {} THEN 0 ELSE f[t \ {Max(t)}] + s[Max(t)]
    <3>1. CASE m \in t
      <4>1. Max(t) = m
        <5>1. Max(t) \in t /\ Max(t) \in X /\ m <= Max(t) /\ Max(t) <= m
          BY <1>5, <2>1, <3>1
        <5>2. Max(t) \in Int /\ m \in Int
          BY <1>4, <2>1, <5>1
        <5> HIDE DEF m
        <5> QED BY <5>1, <5>2
      <4>2. t \ {m} \in SUBSET X /\ m \notin t \ {m} /\ t # {}
        BY <3>1
      <4>3. f[t] = g[t \ {m}] + s[m] /\ f[t \ {m}] = g[t \ {m}]
        BY <2>6, <3>1, <4>2
      <4> QED BY <4>1, <4>2, <4>3
    <3>2. CASE m \notin t /\ t # {}
      <4>1. t \in SUBSET W /\ t \ {Max(t)} \in SUBSET X /\ m \notin t \ {Max(t)}
        BY <3>2
      <4>2. f[t] = g[t] /\ f[t \ {Max(t)}] = g[t \ {Max(t)}]
        BY <2>6, <3>2, <4>1
      <4> QED BY <2>5, <3>2, <4>1, <4>2
    <3>3. CASE t = {}
      <4>1. t \in SUBSET W /\ m \notin t
        BY <3>3
      <4> QED BY <2>5, <2>6, <3>3, <4>1
    <3> QED BY <3>1, <3>2, <3>3
  <2>9. Sums(f, X, s)
    BY <2>7, <2>8 DEF Sums
  <2> QED BY <1>1, <1>3, <2>9
<1> QED BY <1>6, <1>7

\* The sum of integers is one.
LEMMA SumsInt ==
  ASSUME NEW D, IsFiniteSet(D), D \subseteq Int, NEW s, \A i \in D : s[i] \in Int,
         NEW f, Sums(f, D, s)
  PROVE  f[D] \in Int
<1> DEFINE F == {T \in SUBSET D : f[T] \notin Int}
<1>1. /\ F \subseteq SUBSET D
      /\ \A T \in SUBSET D : T \in F <=> f[T] \notin Int
  OBVIOUS
<1> HIDE DEF F
<1>2. SUFFICES ASSUME F # {} PROVE FALSE
  BY <1>1
<1>3. PICK X \in F : \A Y \in F : Y \subseteq X => Y = X
  <2>1. F \subseteq SUBSET D /\ F # {}
    BY <1>1, <1>2
  <2>2. PICK X : Smallest(X, F)
    BY Zenon, <2>1, SmallestSubset
  <2> QED BY <2>2 DEF Smallest
<1>4. X \in SUBSET D /\ f[X] \notin Int
  BY <1>1, <1>3
<1>5. f[X] = IF X = {} THEN 0 ELSE f[X \ {Max(X)}] + s[Max(X)]
  BY <1>4 DEF Sums
<1>6. X # {}
  BY <1>4, <1>5
<1>7. Max(X) \in X
  <2>1. IsFiniteSet(X) /\ X \subseteq Int
    BY <1>4, FS_Subset
  <2> QED BY <1>6, <2>1, MaxMin
<1>8. f[X \ {Max(X)}] \in Int
  <2>1. X \ {Max(X)} \in SUBSET D /\ X \ {Max(X)} # X
    BY <1>4, <1>7
  <2> QED BY <1>1, <1>3, <2>1
<1>9. s[Max(X)] \in Int
  BY <1>4, <1>7
<1> QED BY <1>4, <1>5, <1>6, <1>8, <1>9

\* Distances are integers.
LEMMA DistanceInt ==
  ASSUME NEW a \in Seq(Int), NEW b \in Seq(Int)
  PROVE  euclidean(a, b) \in Int
<1> DEFINE s == [i \in DOMAIN a \cap DOMAIN b |-> (a[i] - b[i]) * (a[i] - b[i])]
           D == DOMAIN s
<1>1. euclidean(a, b) = (CHOOSE f : Sums(f, D, s))[D]
  BY Zenon DEF euclidean, FoldLeft, MapThenFoldSet, Sums
<1>2. /\ D \in SUBSET (1 .. Len(a)) /\ Len(a) \in Nat
      /\ \A i \in D : a[i] \in Int /\ b[i] \in Int
  OBVIOUS
<1>3. \A i \in D : s[i] \in Int
  BY <1>2
<1>4. IsFiniteSet(D) /\ D \subseteq Int
  <2>1. IsFiniteSet(1 .. Len(a))
    BY <1>2, FS_Interval
  <2> QED BY <1>2, <2>1, FS_Subset
<1> HIDE DEF s, D
<1> DEFINE f == CHOOSE f : Sums(f, D, s)
<1>5. Sums(f, D, s)
  BY <1>4, SumsExist
<1> HIDE DEF f
<1>6. f[D] \in Int
  BY <1>3, <1>4, <1>5, SumsInt
<1> QED BY <1>1, <1>6 DEF f

-----------------------------------------------------------------------------
\* The sort.

\* p lists S in the order r.
Lists(p, n, S, r) ==
  /\ p \in [1 .. n -> S]
  /\ \A i, j \in 1 .. n : i < j => <<p[i], p[j]>> \in r

\* A finite set that is ordered can be listed.
LEMMA ListExists ==
  ASSUME NEW S, IsFiniteSet(S), NEW r, Orders(r, S)
  PROVE  \E p : Lists(p, Cardinality(S), S, r)
<1> DEFINE F == {X \in SUBSET S : ~ \E p : Lists(p, Cardinality(X), X, r)}
<1>1. F \subseteq SUBSET S
  OBVIOUS
<1>2. \A X \in SUBSET S : X \in F <=> ~ \E p : Lists(p, Cardinality(X), X, r)
  OBVIOUS
<1> HIDE DEF F
<1>3. SUFFICES ASSUME F # {} PROVE FALSE
  BY <1>2
<1>4. PICK X : Smallest(X, F)
  BY Zenon, <1>1, <1>3, SmallestSubset
<1>5. X \in SUBSET S /\ ~ \E p : Lists(p, Cardinality(X), X, r)
  BY <1>1, <1>2, <1>4 DEF Smallest
<1>6. IsFiniteSet(X) /\ Cardinality(X) \in Nat /\ Orders(r, X)
  BY <1>5, FS_Subset, FS_CardinalityType DEF Orders
<1>7. X # {}
  <2>1. SUFFICES ASSUME X = {} PROVE \E p : Lists(p, Cardinality(X), X, r)
    BY <1>5
  <2>2. Cardinality(X) = 0 /\ 1 .. 0 = {}
    BY <2>1, FS_EmptySet
  <2>3. Lists([i \in 1 .. 0 |-> i], 0, X, r)
    BY <2>2 DEF Lists
  <2> QED BY <2>2, <2>3
<1>8. PICK m : Greatest(m, X, r)
  BY <1>6, <1>7, GreatestExists
<1> DEFINE W == X \ {m}
           n == Cardinality(W)
<1>9. m \in X /\ \A x \in W : <<x, m>> \in r
  BY <1>8 DEF Greatest
<1>10. n \in Nat /\ Cardinality(X) = n + 1
  <2>1. IsFiniteSet(W) /\ n = Cardinality(X) - 1
    BY <1>6, <1>9, FS_RemoveElement
  <2>2. n \in Nat
    BY <2>1, FS_CardinalityType
  <2> HIDE DEF n
  <2> QED BY <1>6, <2>1, <2>2
<1>11. PICK p : Lists(p, n, W, r)
  <2>1. W \in SUBSET S /\ W # X /\ W \subseteq X
    BY <1>5, <1>9
  <2>2. W \notin F
    BY <1>4, <2>1 DEF Smallest
  <2> QED BY <1>2, <2>1, <2>2
<1> HIDE DEF n
<1> DEFINE q == [i \in 1 .. n + 1 |-> IF i = n + 1 THEN m ELSE p[i]]
<1>12. Lists(q, n + 1, X, r)
  <2>1. \A i \in 1 .. n + 1 : i = n + 1 \/ i \in 1 .. n
    BY <1>10
  <2>2. p \in [1 .. n -> W] /\ \A i, j \in 1 .. n : i < j => <<p[i], p[j]>> \in r
    BY <1>11 DEF Lists
  <2>3. q \in [1 .. n + 1 -> X]
    BY <1>9, <2>1, <2>2
  <2>4. ASSUME NEW i \in 1 .. n + 1, NEW j \in 1 .. n + 1, i < j
        PROVE  <<q[i], q[j]>> \in r
    <3>1. i \in 1 .. n /\ i # n + 1 /\ q[i] = p[i] /\ p[i] \in W
      BY <1>10, <2>1, <2>2, <2>4
    <3>2. CASE j = n + 1
      BY <1>9, <3>1, <3>2
    <3>3. CASE j # n + 1
      BY <2>1, <2>2, <2>4, <3>1, <3>3
    <3> QED BY <3>2, <3>3
  <2> QED BY <2>3, <2>4 DEF Lists
<1> QED BY <1>5, <1>10, <1>12

\* The order of the rows, as a relation.
BeforeOf(x, q) ==
  {p \in (DOMAIN x.rows) \X (DOMAIN x.rows) : Before(x, q, p[1], p[2])}

\* Row n's distance.
Away(x, q, n) == euclidean(q, x.rows[n].vector)

\* It is a number.
LEMMA AwayInt ==
  ASSUME NEW x, FlatSound(x), NEW q \in Vectors
  PROVE  \A n \in DOMAIN x.rows : Away(x, q, n) \in Int
<1> SUFFICES ASSUME NEW n \in DOMAIN x.rows PROVE Away(x, q, n) \in Int
  OBVIOUS
<1>1. x.rows[n] \in Items
  BY DEF FlatSound, Flats
<1>2. x.rows[n].vector \in Seq(Int) /\ q \in Seq(Int)
  BY <1>1, ExampleAssumption DEF Items
<1> QED BY <1>2, DistanceInt DEF Away

\* The rows are ordered: a position decides between equal distances.
LEMMA RowsOrdered ==
  ASSUME NEW x, FlatSound(x), NEW q \in Vectors
  PROVE  /\ Orders(BeforeOf(x, q), DOMAIN x.rows)
         /\ \A i, j \in DOMAIN x.rows :
              <<i, j>> \in BeforeOf(x, q) <=> Before(x, q, i, j)
<1> DEFINE r == BeforeOf(x, q)
<1>1. \A n \in DOMAIN x.rows : n \in Nat /\ Away(x, q, n) \in Int
  <2>1. x.rows \in Seq(Items)
    BY DEF FlatSound, Flats
  <2> QED BY <2>1, AwayInt
<1>2. \A i, j \in DOMAIN x.rows : <<i, j>> \in r <=> Before(x, q, i, j)
  BY DEF BeforeOf
<1>3. \A i, j \in DOMAIN x.rows :
        <<i, j>> \in r <=>
          \/ Away(x, q, i) < Away(x, q, j)
          \/ Away(x, q, i) = Away(x, q, j) /\ i < j
  BY <1>2 DEF Before, Away
<1> HIDE DEF r
<1>4. ASSUME NEW i \in DOMAIN x.rows, NEW j \in DOMAIN x.rows, NEW n \in DOMAIN x.rows,
             <<i, j>> \in r, <<j, n>> \in r
      PROVE  <<i, n>> \in r
  BY <1>1, <1>3, <1>4
<1>5. ASSUME NEW i \in DOMAIN x.rows, NEW j \in DOMAIN x.rows, i # j
      PROVE  <<i, j>> \in r \/ <<j, i>> \in r
  BY <1>1, <1>3, <1>5
<1> QED BY <1>2, <1>4, <1>5 DEF Orders, r

\* The rows are ranked: each once, and from the nearest on.
LEMMA RankedSpec ==
  ASSUME NEW x, FlatSound(x), NEW q \in Vectors, NEW p, p = Ranked(x, q)
  PROVE  /\ p \in [DOMAIN x.rows -> DOMAIN x.rows]
         /\ \A m, n \in DOMAIN x.rows : m < n =>
              Away(x, q, p[m]) <= Away(x, q, p[n]) /\ p[m] # p[n]
         /\ \A i \in DOMAIN x.rows : \E n \in DOMAIN x.rows : p[n] = i
<1> DEFINE D == DOMAIN x.rows
           r == BeforeOf(x, q)
           Sorted(f) == \A m, n \in D : m < n => Before(x, q, f[m], f[n])
<1>1. D = 1 .. Len(x.rows) /\ Len(x.rows) \in Nat
  BY DEF FlatSound, Flats
<1>2. IsFiniteSet(D) /\ Cardinality(D) = Len(x.rows)
  BY <1>1, FS_Interval
<1>3. PICK f : Lists(f, Len(x.rows), D, r)
  BY <1>2, RowsOrdered, ListExists
<1>4. f \in [D -> D] /\ Sorted(f)
  BY <1>1, <1>3, RowsOrdered DEF Lists
<1>5. p = CHOOSE g \in [D -> D] : Sorted(g)
  BY DEF Ranked
<1> HIDE DEF Sorted
<1>6. p \in [D -> D] /\ Sorted(p)
  BY <1>4, <1>5
<1>7. \A n \in D : n \in Nat /\ Away(x, q, n) \in Int
  BY <1>1, AwayInt
<1>8. ASSUME NEW m \in D, NEW n \in D, m < n
      PROVE  Away(x, q, p[m]) <= Away(x, q, p[n]) /\ p[m] # p[n]
  <2>1. Before(x, q, p[m], p[n]) /\ p[m] \in D /\ p[n] \in D
    BY <1>6, <1>8 DEF Sorted
  <2>2. \/ Away(x, q, p[m]) < Away(x, q, p[n])
        \/ Away(x, q, p[m]) = Away(x, q, p[n]) /\ p[m] < p[n]
    BY <2>1 DEF Before, Away
  <2> QED BY <1>7, <2>1, <2>2
<1>9. \A i \in D : \E n \in D : p[n] = i
  <2>1. \A m, n \in D : p[m] = p[n] => m = n
    <3> SUFFICES ASSUME NEW m \in D, NEW n \in D, m # n PROVE p[m] # p[n]
      OBVIOUS
    <3>1. m < n \/ n < m
      BY <1>7
    <3> QED BY <1>8, <3>1
  <2>2. p \in Injection(D, D)
    BY <1>6, <2>1 DEF Injection, IsInjective
  <2>3. p \in Surjection(D, D)
    BY <1>2, <2>2, FS_Injection
  <2> QED BY <2>3 DEF Surjection
<1> QED BY <1>6, <1>8, <1>9

\* In every behaviour a FlatIndex answers with the k nearest of its rows, or all
\* if they are fewer, nearest first and no id twice
\* (examples/support/flat_index.rs:6, 63-78).
THEOREM NearestAlwaysFirst == ExampleSpec => []NearestFirst
<1>1. ASSUME WInv, inner.kind = "flat", NEW q \in Vectors, NEW k \in Ks,
             NEW hits \in FlatSearch(inner, q, k)
      PROVE  /\ Len(hits) = IF k < Len(inner.rows) THEN k ELSE Len(inner.rows)
             /\ \A i, j \in DOMAIN hits : i < j =>
                  hits[i].distance <= hits[j].distance /\ hits[i].id # hits[j].id
             /\ \A r \in DOMAIN inner.rows, i \in DOMAIN hits :
                  inner.rows[r].id \notin {hits[j].id : j \in DOMAIN hits} =>
                    hits[i].distance <= euclidean(q, inner.rows[r].vector)
  <2> DEFINE rows == inner.rows
             D == DOMAIN rows
             E == {i \in D : i <= k}
             p == Ranked(inner, q)
  <2>1. FlatSound(inner) /\ RowsSound(rows, inner.dim)
    BY <1>1, IndexKinds DEF WInv, FlatSound
  <2>2. /\ D = 1 .. Len(rows) /\ Len(rows) \in Nat /\ k \in Nat
    BY <2>1, ExampleAssumption DEF FlatSound, Flats
  <2>3. E = 1 .. (IF k < Len(rows) THEN k ELSE Len(rows))
    BY <2>2
  <2>4. /\ p \in [D -> D]
        /\ \A m, n \in D : m < n => Away(inner, q, p[m]) <= Away(inner, q, p[n]) /\ p[m] # p[n]
        /\ \A i \in D : \E n \in D : p[n] = i
    BY <2>1, RankedSpec
  <2>5. hits = [n \in E |-> Hit(rows[p[n]].id, euclidean(q, rows[p[n]].vector))]
    BY <1>1 DEF FlatSearch, FlatHits
  <2>6. DOMAIN hits = E /\ E \subseteq D
    BY <2>5
  <2>7. \A n \in E : hits[n].id = rows[p[n]].id /\ hits[n].distance = Away(inner, q, p[n])
    BY <2>5 DEF Hit, Away
  <2>8. Len(hits) = IF k < Len(rows) THEN k ELSE Len(rows)
    <3> DEFINE l == IF k < Len(rows) THEN k ELSE Len(rows)
    <3>1. l \in Nat /\ DOMAIN hits = 1 .. l
      BY <2>2, <2>3, <2>6
    <3> HIDE DEF l
    <3>2. hits \in Seq({hits[n] : n \in 1 .. l})
      BY <2>5, <2>6, <3>1
    <3> QED BY <3>1, <3>2 DEF l
  <2> HIDE DEF E, p
  <2>9. ASSUME NEW i \in E, NEW j \in E, i < j
        PROVE  hits[i].distance <= hits[j].distance /\ hits[i].id # hits[j].id
    <3>1. /\ i \in D /\ j \in D /\ p[i] \in D /\ p[j] \in D
          /\ Away(inner, q, p[i]) <= Away(inner, q, p[j]) /\ p[i] # p[j]
      BY <2>4, <2>6, <2>9
    <3>2. rows[p[i]].id # rows[p[j]].id
      BY <2>1, <3>1 DEF RowsSound
    <3> QED BY <2>7, <3>1, <3>2
  <2>10. ASSUME NEW r \in D, NEW i \in E, rows[r].id \notin {hits[j].id : j \in E}
         PROVE  hits[i].distance <= Away(inner, q, r)
    <3>1. PICK n \in D : p[n] = r
      BY <2>4
    <3>2. n \notin E
      BY <2>7, <2>10, <3>1
    <3>3. i < n
      BY <2>2, <2>6, <3>1, <3>2 DEF E
    <3> QED BY <2>4, <2>6, <2>7, <3>1, <3>3
  <2> QED BY <2>6, <2>8, <2>9, <2>10 DEF Away
<1>2. WInv => NearestFirst
  BY <1>1 DEF NearestFirst
<1> QED BY <1>2, InitWInv, NextWInv, PTL DEF ExampleSpec

-----------------------------------------------------------------------------
\* What the indexes' replies mean for the ids they hold.

Inserted(x, done, id) ==
  /\ done.result = "Ok" => Held(done.index) = Held(x) \cup {id}
  /\ done.result = "Ok" /\ x.kind = "flat" => id \notin Held(x)
  /\ done.result = "Duplicate" => id \in Held(x)
  /\ done.index.kind = x.kind

Removed(x, done, id) ==
  /\ done.result = "Ok" =>
       /\ id \in Held(x)
       /\ Held(x) \ {id} \subseteq Held(done.index) /\ Held(done.index) \subseteq Held(x)
       /\ x.kind = "flat" => id \notin Held(done.index)
  /\ done.result # "Ok" => id \notin Held(x)

\* One element more, or one less.
LEMMA AppendHeld ==
  ASSUME NEW S, NEW s \in Seq(S), NEW e \in S, NEW t, t = Append(s, e)
  PROVE  DOMAIN t = DOMAIN s \cup {Len(s) + 1} /\ t[Len(s) + 1] = e
         /\ \A i \in DOMAIN s : t[i] = s[i]
BY AppendProperties

\* t has what s has but for position p.
OneLess(t, s, p) ==
  /\ \A j \in DOMAIN t : \E i \in DOMAIN s : i # p /\ t[j] = s[i]
  /\ \A i \in DOMAIN s : i # p => \E j \in DOMAIN t : t[j] = s[i]

\* RemoveAt leaves that.
LEMMA RemoveHeld ==
  ASSUME NEW S, NEW s \in Seq(S), NEW p \in 1 .. Len(s)
  PROVE  OneLess(RemoveAt(s, p), s, p)
<1> DEFINE t == RemoveAt(s, p)
<1>1. /\ t \in Seq(S) /\ Len(t) = Len(s) - 1
      /\ \A j \in 1 .. Len(s) - 1 : t[j] = IF j < p THEN s[j] ELSE s[j + 1]
  BY RemoveAtSpec
<1>2. DOMAIN s = 1 .. Len(s) /\ Len(s) \in Nat /\ DOMAIN t = 1 .. Len(s) - 1
  BY <1>1
<1> HIDE DEF t
<1>3. ASSUME NEW j \in DOMAIN t PROVE \E i \in DOMAIN s : i # p /\ t[j] = s[i]
  <2>1. CASE j < p
    BY <1>1, <1>2, <2>1
  <2>2. CASE ~ j < p
    <3>1. j + 1 \in DOMAIN s /\ j + 1 # p
      BY <1>2, <2>2
    <3> QED BY <1>1, <1>2, <2>2, <3>1
  <2> QED BY <2>1, <2>2
<1>4. ASSUME NEW i \in DOMAIN s, i # p PROVE \E j \in DOMAIN t : t[j] = s[i]
  <2>1. CASE i < p
    BY <1>1, <1>2, <2>1
  <2>2. CASE ~ i < p
    <3>1. i - 1 \in DOMAIN t /\ ~ i - 1 < p /\ (i - 1) + 1 = i
      BY <1>2, <1>4, <2>2
    <3> QED BY <1>1, <1>2, <3>1
  <2> QED BY <2>1, <2>2
<1>5. OneLess(t, s, p)
  BY <1>3, <1>4 DEF OneLess
<1> QED BY <1>5 DEF t

\* A FlatIndex takes the id unless it has it.
LEMMA FlatInserted ==
  ASSUME NEW x, FlatSound(x), NEW id \in Ids, NEW v \in Vectors
  PROVE  Inserted(x, FlatInsert(x, id, v), id)
<1> DEFINE row == [id |-> id, vector |-> v]
           t == Append(x.rows, row)
<1>1. x.kind = "flat" /\ x.rows \in Seq(Items) /\ row \in Items /\ row.id = id
  BY DEF FlatSound, Flats, Items
<1>2. FlatHolds(x, id) <=> id \in Held(x)
  BY <1>1 DEF FlatHolds, Held, IdsOf
<1>3. CASE Len(v) # x.dim
  BY <1>3 DEF FlatInsert, Failed, Inserted
<1>4. CASE Len(v) = x.dim /\ FlatHolds(x, id)
  BY <1>2, <1>4 DEF FlatInsert, Failed, Inserted
<1>5. CASE Len(v) = x.dim /\ ~ FlatHolds(x, id)
  <2>1. /\ DOMAIN t = DOMAIN x.rows \cup {Len(x.rows) + 1} /\ t[Len(x.rows) + 1] = row
        /\ \A i \in DOMAIN x.rows : t[i] = x.rows[i]
    BY <1>1, AppendHeld
  <2>2. FlatInsert(x, id, v) = Done(WithRows(x, t))
    BY <1>5 DEF FlatInsert, WithRows
  <2>3. WithRows(x, t).rows = t /\ WithRows(x, t).kind = "flat"
    BY <1>1 DEF WithRows, FlatSound, Flats
  <2> HIDE DEF t, row
  <2>4. IdsOf(t) = IdsOf(x.rows) \cup {id}
    BY <1>1, <2>1 DEF IdsOf
  <2> QED BY <1>1, <1>2, <1>5, <2>2, <2>3, <2>4 DEF Done, Inserted, Held
<1> QED BY <1>3, <1>4, <1>5

\* A DocStub takes any.
LEMMA StubInserted ==
  ASSUME NEW x \in Stubs, NEW id \in Ids
  PROVE  Inserted(x, StubInsert(x, id), id)
<1> DEFINE t == Append(x.ids, id)
           y == [x EXCEPT !.ids = t]
<1>1. x.kind = "stub" /\ x.ids \in Seq(Ids) /\ y.kind = "stub" /\ y.ids = t
  BY DEF Stubs
<1>2. /\ DOMAIN t = DOMAIN x.ids \cup {Len(x.ids) + 1} /\ t[Len(x.ids) + 1] = id
      /\ \A i \in DOMAIN x.ids : t[i] = x.ids[i]
  BY <1>1, AppendHeld
<1>3. StubInsert(x, id) = Done(y)
  BY DEF StubInsert
<1> HIDE DEF t, y
<1>4. ToSet(t) = ToSet(x.ids) \cup {id}
  BY <1>2 DEF ToSet
<1> QED BY <1>1, <1>3, <1>4 DEF Done, Inserted, Held

\* The trait's insert.
LEMMA IndexInserted ==
  ASSUME NEW x, IndexSound(x), NEW id \in Ids, NEW v \in Vectors
  PROVE  Inserted(x, IndexInsert(x, id, v), id)
BY IndexKinds, FlatInserted, StubInserted DEF IndexInsert

\* A FlatIndex removes the row of the id.
LEMMA FlatRemoved ==
  ASSUME NEW x, FlatSound(x), NEW id
  PROVE  Removed(x, FlatDelete(x, id), id)
<1> DEFINE I == {i \in 1 .. Len(x.rows) : x.rows[i].id = id}
           pos == IF I # {} THEN Min(I) ELSE 0
           t == RemoveAt(x.rows, pos)
<1>1. /\ x.kind = "flat" /\ x.rows \in Seq(Items) /\ Len(x.rows) \in Nat
      /\ DOMAIN x.rows = 1 .. Len(x.rows)
      /\ \A i, j \in DOMAIN x.rows : x.rows[i].id = x.rows[j].id => i = j
      /\ I \subseteq 1 .. Len(x.rows)
  BY DEF FlatSound, Flats, RowsSound
<1>2. FlatDelete(x, id) = IF pos = 0 THEN Failed(x, "NotFound") ELSE Done(WithRows(x, t))
  BY DEF FlatDelete, SelectInSeq, WithRows
<1>3. I = {} <=> id \notin Held(x)
  BY <1>1 DEF Held, IdsOf
<1>4. IF I = {} THEN pos = 0 ELSE pos \in I /\ pos # 0
  <2> HIDE DEF I
  <2> QED BY <1>1, FirstPosition
<1>5. CASE I = {}
  <2> HIDE DEF I, pos
  <2> QED BY <1>2, <1>3, <1>4, <1>5 DEF Failed, Removed
<1>6. CASE I # {}
  <2>1. pos \in 1 .. Len(x.rows) /\ x.rows[pos].id = id /\ pos # 0
    <3> HIDE DEF pos
    <3> QED BY <1>4, <1>6
  <2>2. WithRows(x, t).rows = t /\ WithRows(x, t).kind = "flat"
    BY <1>1 DEF WithRows, FlatSound, Flats
  <2> HIDE DEF I, pos
  <2>3. OneLess(t, x.rows, pos)
    <3>1. x.rows \in Seq(Items) /\ pos \in 1 .. Len(x.rows)
      BY <1>1, <2>1
    <3> QED BY Zenon, <3>1, RemoveHeld
  <2> HIDE DEF t
  <2>4. IdsOf(t) \subseteq IdsOf(x.rows) \ {id}
    BY <1>1, <2>1, <2>3 DEF IdsOf, OneLess
  <2>5. IdsOf(x.rows) \ {id} \subseteq IdsOf(t)
    BY <2>1, <2>3 DEF IdsOf, OneLess
  <2>6. FlatDelete(x, id) = Done(WithRows(x, t))
    BY <1>2, <2>1
  <2>7. Held(x) = IdsOf(x.rows) /\ Held(WithRows(x, t)) = IdsOf(t)
    BY <1>1, <2>2 DEF Held
  <2> QED BY <1>3, <1>6, <2>4, <2>5, <2>6, <2>7 DEF Done, Removed
<1> QED BY <1>5, <1>6

\* A DocStub removes one of the id.
LEMMA StubRemoved ==
  ASSUME NEW x \in Stubs, NEW id
  PROVE  Removed(x, StubDelete(x, id), id)
<1> DEFINE I == {i \in 1 .. Len(x.ids) : x.ids[i] = id}
           pos == IF I # {} THEN Min(I) ELSE 0
           t == RemoveAt(x.ids, pos)
           y == [x EXCEPT !.ids = t]
<1>1. /\ x.kind = "stub" /\ x.ids \in Seq(Ids) /\ Len(x.ids) \in Nat
      /\ DOMAIN x.ids = 1 .. Len(x.ids) /\ I \subseteq 1 .. Len(x.ids)
      /\ y.kind = "stub" /\ y.ids = t
  BY DEF Stubs
<1>2. StubDelete(x, id) = IF pos = 0 THEN Failed(x, "NotFound") ELSE Done(y)
  BY DEF StubDelete, SelectInSeq
<1>3. I = {} <=> id \notin Held(x)
  BY <1>1 DEF Held, ToSet
<1>4. IF I = {} THEN pos = 0 ELSE pos \in I /\ pos # 0
  <2> HIDE DEF I
  <2> QED BY <1>1, FirstPosition
<1> HIDE DEF y
<1>5. CASE I = {}
  <2> HIDE DEF I, pos
  <2> QED BY <1>2, <1>3, <1>4, <1>5 DEF Failed, Removed
<1>6. CASE I # {}
  <2>1. pos \in 1 .. Len(x.ids) /\ x.ids[pos] = id /\ pos # 0
    <3> HIDE DEF pos
    <3> QED BY <1>4, <1>6
  <2> HIDE DEF I, pos
  <2>2. OneLess(t, x.ids, pos)
    <3>1. x.ids \in Seq(Ids) /\ pos \in 1 .. Len(x.ids)
      BY <1>1, <2>1
    <3> QED BY Zenon, <3>1, RemoveHeld
  <2> HIDE DEF t
  <2>3. ToSet(t) \subseteq ToSet(x.ids) /\ ToSet(x.ids) \ {id} \subseteq ToSet(t)
    BY <2>1, <2>2 DEF ToSet, OneLess
  <2>4. StubDelete(x, id) = Done(y)
    BY <1>2, <2>1
  <2>5. Held(x) = ToSet(x.ids) /\ Held(y) = ToSet(t)
    BY <1>1 DEF Held
  <2>6. x.kind # "flat" /\ id \in Held(x)
    BY <1>1, <1>3, <1>6
  <2>7. Held(y) \subseteq Held(x) /\ Held(x) \ {id} \subseteq Held(y)
    BY <2>3, <2>5
  <2> QED BY <2>4, <2>6, <2>7 DEF Done, Removed
<1> QED BY <1>5, <1>6

\* The trait's delete.
LEMMA IndexRemoved ==
  ASSUME NEW x, IndexSound(x), NEW id
  PROVE  Removed(x, IndexDelete(x, id), id)
BY IndexKinds, FlatRemoved, StubRemoved DEF IndexDelete

\* After a batch of two that ended well both are in; after one that did not, the
\* first may be.
BatchTold(x, done, a, b) ==
  /\ done.result = "Ok" => Held(done.index) = Held(x) \cup {a, b}
  /\ done.result = "Ok" /\ x.kind = "flat" => a \notin Held(x) /\ b \notin Held(x)
  /\ done.result # "Ok" =>
       Held(x) \subseteq Held(done.index) /\ Held(done.index) \subseteq Held(x) \cup {a}
  /\ done.result = "Duplicate" => a \in Held(x) \/ b \in Held(x) \/ a = b

\* The trait's insert_batch.
LEMMA BatchInserted ==
  ASSUME NEW x, IndexSound(x), NEW a \in Items, NEW b \in Items
  PROVE  BatchTold(x, IndexInsertBatch(x, <<a, b>>), a.id, b.id)
<1> DEFINE one == IndexInsert(x, a.id, a.vector)
           two == IndexInsert(one.index, b.id, b.vector)
<1>1. a.id \in Ids /\ a.vector \in Vectors /\ b.id \in Ids /\ b.vector \in Vectors
  BY DEF Items
<1>2. OneMore(Done(x), a) = one
  BY DEF OneMore, Done
<1>3. Mutated(x, one) /\ Inserted(x, one, a.id)
  BY <1>1, InsertSound, IndexInserted
<1>4. Mutated(one.index, two) /\ Inserted(one.index, two, b.id)
  BY <1>1, <1>3, InsertSound, IndexInserted DEF Mutated
<1>5. IndexInsertBatch(x, <<a, b>>) = IF one.result = "Ok" THEN two ELSE one
  BY <1>2, BatchOfTwo DEF OneMore
<1> HIDE DEF one, two
<1>6. CASE one.result # "Ok"
  <2>1. one.index = x
    BY <1>3, <1>6 DEF Mutated
  <2> QED BY <1>3, <1>5, <1>6, <2>1 DEF Inserted, BatchTold
<1>7. CASE one.result = "Ok" /\ two.result # "Ok"
  <2>1. two.index = one.index
    BY <1>4, <1>7 DEF Mutated
  <2> QED BY <1>3, <1>4, <1>5, <1>7, <2>1 DEF Inserted, BatchTold
<1>8. CASE one.result = "Ok" /\ two.result = "Ok"
  BY <1>3, <1>4, <1>5, <1>8 DEF Inserted, BatchTold
<1> QED BY <1>6, <1>7, <1>8

\* A list has only ids that are held, and all of them if it is shorter than asked.
ListTold(x, hits, k) ==
  /\ IdsOf(hits) \subseteq Held(x)
  /\ Len(hits) < k => Held(x) \subseteq IdsOf(hits)

\* A function on the positions up to k has the length it should.
LEMMA PrefixLength ==
  ASSUME NEW n \in Nat, NEW k \in Nat, NEW f,
         f = [i \in {j \in 1 .. n : j <= k} |-> f[i]]
  PROVE  /\ DOMAIN f = {j \in 1 .. n : j <= k}
         /\ Len(f) < k => DOMAIN f = 1 .. n
<1> DEFINE l == IF k < n THEN k ELSE n
<1>1. l \in Nat /\ {j \in 1 .. n : j <= k} = 1 .. l
  OBVIOUS
<1>2. DOMAIN f = 1 .. l
  BY <1>1
<1> HIDE DEF l
<1>3. f \in Seq({f[i] : i \in 1 .. l})
  BY <1>1, <1>2
<1>4. Len(f) = l
  BY <1>1, <1>2, <1>3
<1>5. l < k => l = n
  BY DEF l
<1> QED BY <1>1, <1>2, <1>4, <1>5

\* A FlatIndex ranks each row once, so k positions list k of the ids, or all.
LEMMA FlatListed ==
  ASSUME NEW x, FlatSound(x), NEW q \in Vectors, NEW k \in Ks,
         NEW hits \in FlatSearch(x, q, k)
  PROVE  ListTold(x, hits, k)
<1> DEFINE p == Ranked(x, q)
           n == Len(x.rows)
<1>1. x.kind = "flat" /\ n \in Nat /\ DOMAIN x.rows = 1 .. n /\ k \in Nat
  BY ExampleAssumption DEF FlatSound, Flats
<1>2. hits = [i \in {j \in DOMAIN x.rows : j <= k} |->
                Hit(x.rows[p[i]].id, euclidean(q, x.rows[p[i]].vector))]
  BY DEF FlatSearch, FlatHits
<1>3. /\ p \in [DOMAIN x.rows -> DOMAIN x.rows]
      /\ \A i \in DOMAIN x.rows : \E m \in DOMAIN x.rows : p[m] = i
  BY RankedSpec
<1> HIDE DEF p, n
<1>4. hits = [i \in {j \in 1 .. n : j <= k} |-> hits[i]]
  BY <1>1, <1>2
<1>5. /\ DOMAIN hits = {j \in 1 .. n : j <= k}
      /\ Len(hits) < k => DOMAIN hits = 1 .. n
  BY <1>1, <1>4, PrefixLength
<1>6. \A i \in DOMAIN hits : i \in DOMAIN x.rows /\ hits[i].id = x.rows[p[i]].id
  BY <1>1, <1>2, <1>5 DEF Hit
<1>7. IdsOf(hits) \subseteq IdsOf(x.rows)
  BY <1>3, <1>6 DEF IdsOf
<1>8. Len(hits) < k => IdsOf(x.rows) \subseteq IdsOf(hits)
  <2> SUFFICES ASSUME Len(hits) < k, NEW i \in DOMAIN x.rows
               PROVE  x.rows[i].id \in IdsOf(hits)
    BY DEF IdsOf
  <2>1. PICK m \in DOMAIN x.rows : p[m] = i
    BY <1>3
  <2>2. m \in DOMAIN hits /\ hits[m].id = x.rows[i].id
    BY <1>1, <1>5, <1>6, <2>1
  <2> QED BY <2>2 DEF IdsOf
<1> QED BY <1>1, <1>7, <1>8 DEF ListTold, Held

\* A DocStub lists its first k ids.
LEMMA StubListed ==
  ASSUME NEW x \in Stubs, NEW k \in Ks, NEW hits \in StubSearch(x, k)
  PROVE  ListTold(x, hits, k)
<1> DEFINE n == Len(x.ids)
<1>1. x.kind = "stub" /\ n \in Nat /\ DOMAIN x.ids = 1 .. n /\ k \in Nat
  BY ExampleAssumption DEF Stubs
<1>2. hits = [i \in {j \in DOMAIN x.ids : j <= k} |-> Hit(x.ids[i], 0)]
  BY DEF StubSearch
<1> HIDE DEF n
<1>3. hits = [i \in {j \in 1 .. n : j <= k} |-> hits[i]]
  BY <1>1, <1>2
<1>4. /\ DOMAIN hits = {j \in 1 .. n : j <= k}
      /\ Len(hits) < k => DOMAIN hits = 1 .. n
  BY <1>1, <1>3, PrefixLength
<1>5. \A i \in DOMAIN hits : i \in DOMAIN x.ids /\ hits[i].id = x.ids[i]
  BY <1>1, <1>2, <1>4 DEF Hit
<1>6. IdsOf(hits) \subseteq ToSet(x.ids)
  BY <1>5 DEF IdsOf, ToSet
<1>7. Len(hits) < k => ToSet(x.ids) \subseteq IdsOf(hits)
  BY <1>1, <1>4, <1>5 DEF IdsOf, ToSet
<1> QED BY <1>1, <1>6, <1>7 DEF ListTold, Held

\* The trait's search.
LEMMA IndexListed ==
  ASSUME NEW x, IndexSound(x), NEW q \in Vectors, NEW k \in Ks,
         NEW hits \in IndexSearch(x, q, k)
  PROVE  ListTold(x, hits, k)
BY IndexKinds, FlatListed, StubListed DEF IndexSearch

-----------------------------------------------------------------------------
\* The caller.

\* What the caller knows is true.
KnowsTruth(x, in, out) == in \subseteq Held(x) /\ out \cap Held(x) = {}

CInv == WInv /\ KnowsTruth(inner, stored, gone)

\* The ids of two items, and of those before the last.
LEMMA IdsOfItems ==
  ASSUME NEW a, NEW b
  PROVE  /\ IdsOf(<<a, b>>) = {a.id, b.id} /\ IdsOf(<<a>>) = {a.id}
         /\ IdsOf(Front(<<a, b>>)) = {a.id} /\ IdsOf(Front(<<a>>)) = {}
<1>1. DOMAIN <<a, b>> = {1, 2} /\ DOMAIN <<a>> = {1} /\ DOMAIN <<>> = {}
  OBVIOUS
<1> DEFINE two == <<a, b>>
           one == <<a>>
<1>2. Front(two) = SubSeq(two, 1, 1) /\ Front(one) = SubSeq(one, 1, 0)
  BY DEF Front
<1>3. two[1] = a
  OBVIOUS
<1> HIDE DEF two, one
<1>4. Front(one) = <<>>
  BY <1>2, SubSeqEmpty
<1>5. DOMAIN Front(two) = {1} /\ Front(two)[1] = a
  <2>1. \A i \in 1 .. 1 : two[i] \in {a}
    BY <1>3
  <2>2. /\ SubSeq(two, 1, 1) \in Seq({a}) /\ Len(SubSeq(two, 1, 1)) = 1
        /\ SubSeq(two, 1, 1)[1] = a
    BY <1>3, <2>1, SubSeqProperties
  <2> QED BY <1>2, <2>2
<1>6. IdsOf(two) = {a.id, b.id} /\ IdsOf(one) = {a.id}
  BY <1>1 DEF IdsOf, two, one
<1>7. IdsOf(Front(two)) = {a.id} /\ IdsOf(Front(one)) = {}
  BY <1>1, <1>4, <1>5 DEF IdsOf
<1> QED BY <1>6, <1>7 DEF two, one
\* The reply to an insert, whatever batch it is of.
LEMMA TrustInserted ==
  ASSUME CInv, NEW items, NEW done, inner' = done.index, reply' = Replied(done.result),
         TellInserted(items),
         done.result = "Ok" => Held(done.index) = Held(inner) \cup IdsOf(items),
         done.result # "Ok" =>
           /\ Held(inner) \subseteq Held(done.index)
           /\ Held(done.index) \subseteq Held(inner) \cup IdsOf(Front(items))
  PROVE  KnowsTruth(inner', stored', gone')
<1>1. stored \subseteq Held(inner) /\ gone \cap Held(inner) = {}
  BY DEF CInv, KnowsTruth
<1>2. reply'.result = done.result
  BY DEF Replied
<1>3. CASE done.result = "Ok"
  <2>1. stored' = stored \cup IdsOf(items) /\ gone' = gone \ IdsOf(items)
    BY <1>2, <1>3 DEF TellInserted
  <2> QED BY <1>1, <1>3, <2>1 DEF KnowsTruth
<1>4. CASE done.result # "Ok"
  <2>1. stored' = stored /\ gone' = gone \ IdsOf(Front(items))
    BY <1>2, <1>4 DEF TellInserted
  <2> QED BY <1>1, <1>4, <2>1 DEF KnowsTruth
<1> QED BY <1>3, <1>4

\* A caller's step is one of the wrapper.
LEMMA StepsAsExample == [CallerNext]_callerVars => [Next]_wvars
BY DEF CallerNext, callerVars, wvars, Next, CallInsert, CallDelete, CallInsertBatch,
       CallSearch, CallClearCache

\* So what every behaviour of the wrapper satisfies, it satisfies with a caller.
LEMMA CallerIsExample == CallerSpec => ExampleSpec
<1>1. CallerInit => Init
  BY DEF CallerInit
<1> QED BY <1>1, StepsAsExample, PTL DEF CallerSpec, ExampleSpec

\* What a search returns is a list of the index's, cached or not.
LEMMA RepliesAreLists ==
  ASSUME WInv, NEW q \in Vectors, NEW k \in Ks,
         SearchHit(q, k) \/ SearchMiss(q, k), NEW hits \in reply'.hits
  PROVE  ListTold(inner, hits, k)
<1>1. reply' = Answered(IndexSearch(inner, q, k))
  BY CachedIsAnswer DEF SearchHit, SearchMiss
<1>2. hits \in IndexSearch(inner, q, k)
  BY <1>1 DEF Answered
<1> QED BY <1>2, IndexListed DEF WInv

\* What the caller learns from any call is true again.
LEMMA NextCInv == CInv /\ [CallerNext]_callerVars => CInv'
<1> SUFFICES ASSUME CInv, [CallerNext]_callerVars PROVE CInv'
  OBVIOUS
<1>1. WInv /\ IndexSound(inner) /\ KnowsTruth(inner, stored, gone)
  BY DEF CInv, WInv
<1>2. [CallerNext]_callerVars => [Next]_wvars
  BY StepsAsExample
<1>3. WInv'
  BY <1>1, <1>2, NextWInv
<1>4. ASSUME NEW id \in Ids, NEW v \in Vectors, CallInsert(id, v)
      PROVE  KnowsTruth(inner', stored', gone')
  <2> DEFINE done == IndexInsert(inner, id, v)
  <2>1. inner' = done.index /\ reply' = Replied(done.result) /\ TellInserted(One(id, v))
    BY <1>4 DEF CallInsert, Insert
  <2>2. Mutated(inner, done) /\ Inserted(inner, done, id)
    BY <1>1, InsertSound, IndexInserted
  <2> HIDE DEF done
  <2>3. IdsOf(One(id, v)) = {id} /\ IdsOf(Front(One(id, v))) = {}
    BY IdsOfItems DEF One
  <2> QED BY <2>1, <2>2, <2>3, TrustInserted DEF Mutated, Inserted
<1>5. ASSUME NEW a \in Items, NEW b \in Items, CallInsertBatch(<<a, b>>)
      PROVE  KnowsTruth(inner', stored', gone')
  <2> DEFINE done == IndexInsertBatch(inner, <<a, b>>)
             items == <<a, b>>
  <2>1. inner' = done.index /\ reply' = Replied(done.result) /\ TellInserted(items)
    BY <1>5 DEF CallInsertBatch, InsertBatch
  <2>2. BatchTold(inner, done, a.id, b.id)
    BY <1>1, BatchInserted
  <2>3. IdsOf(items) = {a.id, b.id} /\ IdsOf(Front(items)) = {a.id}
    BY IdsOfItems
  <2> HIDE DEF done, items
  <2> QED BY <2>1, <2>2, <2>3, TrustInserted DEF BatchTold
<1>6. ASSUME NEW id \in Ids, CallDelete(id) PROVE KnowsTruth(inner', stored', gone')
  <2> DEFINE done == IndexDelete(inner, id)
  <2>1. inner' = done.index /\ reply'.result = done.result /\ TellDeleted(id)
    BY <1>6 DEF CallDelete, Delete, Replied
  <2>2. Mutated(inner, done) /\ Removed(inner, done, id)
    BY <1>1, DeleteSound, IndexRemoved
  <2> HIDE DEF done
  <2>3. CASE done.result = "Ok"
    BY <1>1, <2>1, <2>2, <2>3 DEF TellDeleted, Removed, KnowsTruth
  <2>4. CASE done.result # "Ok"
    BY <1>1, <2>1, <2>2, <2>4 DEF TellDeleted, Mutated, Removed, KnowsTruth
  <2> QED BY <2>3, <2>4
<1>7. ASSUME NEW q \in Vectors, NEW k \in Ks, CallSearch(q, k)
      PROVE  KnowsTruth(inner', stored', gone')
  <2>1. inner' = inner
    BY <1>7 DEF CallSearch, SearchHit, SearchMiss
  <2>2. CASE reply'.hits = {}
    BY <1>1, <1>7, <2>1, <2>2 DEF CallSearch, known
  <2>3. CASE reply'.hits # {}
    <3>1. PICK hits \in reply'.hits : TellListed(hits, k)
      BY <1>7, <2>3 DEF CallSearch
    <3>2. ListTold(inner, hits, k)
      BY <1>1, <1>7, RepliesAreLists DEF CallSearch
    <3> QED BY <1>1, <2>1, <3>1, <3>2 DEF TellListed, ListTold, KnowsTruth
  <2> QED BY <2>2, <2>3
<1>8. ASSUME CallClearCache PROVE KnowsTruth(inner', stored', gone')
  BY <1>1, <1>8 DEF CallClearCache, ClearCache, known
<1>9. ASSUME UNCHANGED callerVars PROVE KnowsTruth(inner', stored', gone')
  BY <1>1, <1>9 DEF callerVars
<1>10. KnowsTruth(inner', stored', gone')
  BY <1>4, <1>5, <1>6, <1>7, <1>8, <1>9 DEF CallerNext
<1> QED BY <1>3, <1>10 DEF CInv

\* The caller made the index, and so knows it.
LEMMA InitCInv == CallerInit => CInv
BY InitWInv DEF CallerInit, CInv, KnowsTruth

\* No step of a caller who knows the truth misleads it.
LEMMA NotMisled == CInv /\ [CallerNext]_callerVars => ~ Misled
<1> SUFFICES ASSUME CInv PROVE ~ Misled
  OBVIOUS
<1>1. WInv /\ IndexSound(inner) /\ KnowsTruth(inner, stored, gone)
  BY DEF CInv, WInv
<1>2. ASSUME NEW id \in Ids, NEW v \in Vectors, CallInsert(id, v)
      PROVE  InsertBelievable(One(id, v))
  <2> DEFINE done == IndexInsert(inner, id, v)
  <2>1. reply'.result = done.result
    BY <1>2 DEF CallInsert, Insert, Replied
  <2>2. Inserted(inner, done, id)
    BY <1>1, IndexInserted
  <2> HIDE DEF done
  <2>3. DOMAIN One(id, v) = {1} /\ One(id, v)[1].id = id
    BY DEF One
  <2>4. IdsOf(One(id, v)) = {id}
    BY IdsOfItems DEF One
  <2> QED BY <1>1, <2>1, <2>2, <2>3, <2>4 DEF Inserted, InsertBelievable, KnowsTruth
<1>3. ASSUME NEW a \in Items, NEW b \in Items, CallInsertBatch(<<a, b>>)
      PROVE  InsertBelievable(<<a, b>>)
  <2> DEFINE done == IndexInsertBatch(inner, <<a, b>>)
             items == <<a, b>>
  <2>1. reply'.result = done.result
    BY <1>3 DEF CallInsertBatch, InsertBatch, Replied
  <2>2. BatchTold(inner, done, a.id, b.id)
    BY <1>1, BatchInserted
  <2>3. DOMAIN items = {1, 2} /\ items[1] = a /\ items[2] = b
    OBVIOUS
  <2>4. IdsOf(items) = {a.id, b.id}
    BY IdsOfItems
  <2> HIDE DEF done, items
  <2>5. inner.kind = "flat" /\ reply'.result = "Ok" => stored \cap IdsOf(items) = {}
    BY <1>1, <2>1, <2>2, <2>4 DEF BatchTold, KnowsTruth
  <2>6. ASSUME reply'.result = "Duplicate"
        PROVE  \E i \in DOMAIN items :
                 items[i].id \notin gone \/ \E j \in 1 .. i - 1 : items[j].id = items[i].id
    <3>1. a.id \notin gone \/ b.id \notin gone \/ a.id = b.id
      BY <1>1, <2>1, <2>2, <2>6 DEF BatchTold, KnowsTruth
    <3>2. 1 \in 1 .. 2 - 1
      OBVIOUS
    <3> QED BY <2>3, <3>1, <3>2
  <2> QED BY <2>5, <2>6 DEF InsertBelievable, items
<1>4. ASSUME NEW id \in Ids, CallDelete(id) PROVE DeleteBelievable(id)
  <2> DEFINE done == IndexDelete(inner, id)
  <2>1. reply'.result = done.result
    BY <1>4 DEF CallDelete, Delete, Replied
  <2>2. Removed(inner, done, id)
    BY <1>1, IndexRemoved
  <2> HIDE DEF done
  <2> QED BY <1>1, <2>1, <2>2 DEF Removed, DeleteBelievable, KnowsTruth
<1>5. ASSUME NEW q \in Vectors, NEW k \in Ks, CallSearch(q, k), NEW hits \in reply'.hits
      PROVE  ListBelievable(hits, k)
  <2>1. ListTold(inner, hits, k)
    BY <1>1, <1>5, RepliesAreLists DEF CallSearch
  <2> QED BY <1>1, <2>1 DEF ListTold, ListBelievable, KnowsTruth
<1> QED BY <1>2, <1>3, <1>4, <1>5 DEF Misled

\* In every behaviour, for any ids, vectors, dimensions, policies and
\* capacities, no reply contradicts what the replies before it have told
\* (src/cached.rs:323-382).
THEOREM NeverMisledByReplies == CallerSpec => NeverMisled
<1>1. CInv /\ [CallerNext]_callerVars => [~ Misled]_callerVars
  BY NotMisled
<1> QED BY <1>1, InitCInv, NextCInv, PTL DEF CallerSpec, NeverMisled
==============================================================================
