---------------------------- MODULE ExampleIndex ----------------------------
(***************************************************************************)
(* The two indexes of this repository that a CachedIndex wraps: FlatIndex  *)
(* of examples/support/flat_index.rs, exhaustive search by distance, and   *)
(* DocStub of src/lib.rs, which lists its ids.  Both are records; an       *)
(* operation that changes one returns it with the Result.                  *)
(***************************************************************************)
EXTENDS Integers, SequencesExt

Done(x) == [index |-> x, result |-> "Ok"]
Failed(x, error) == [index |-> x, result |-> error]

Hit(id, distance) == [id |-> id, distance |-> distance]

-----------------------------------------------------------------------------
FlatNew(dim) == [kind |-> "flat", dim |-> dim, rows |-> <<>>]

\* Index::new refuses a dimension of 0: no index comes of it.
FlatCreated(dim) == IF dim = 0 THEN {} ELSE {FlatNew(dim)}

\* The distance squared, which orders rows as the distance does.
euclidean(a, b) ==
  FoldLeft(+, 0, [i \in DOMAIN a \cap DOMAIN b |-> (a[i] - b[i]) * (a[i] - b[i])])

FlatHolds(x, id) == \E i \in DOMAIN x.rows : x.rows[i].id = id

\* Mutant of FlatInsert: a duplicate is noticed when the row is in.
FlatInsertThenCheck(x, id, v) ==
  LET y == [x EXCEPT !.rows = Append(@, [id |-> id, vector |-> v])]
  IN  IF Len(v) # x.dim THEN Failed(x, "DimensionMismatch")
      ELSE IF FlatHolds(x, id) THEN Failed(y, "Duplicate") ELSE Done(y)

\* The dimension is checked first, then the id; only then is the row pushed.
FlatInsert(x, id, v) ==
  CASE Len(v) # x.dim                     -> Failed(x, "DimensionMismatch")
    [] Len(v) = x.dim /\ FlatHolds(x, id) -> Failed(x, "Duplicate")
    [] OTHER -> Done([x EXCEPT !.rows = Append(@, [id |-> id, vector |-> v])])

FlatDelete(x, id) ==
  LET pos == SelectInSeq(x.rows, LAMBDA row : row.id = id)
  IN  IF pos = 0 THEN Failed(x, "NotFound")
                 ELSE Done([x EXCEPT !.rows = RemoveAt(@, pos)])

\* Row i is listed before row j: the sort is stable.
Before(x, q, i, j) ==
  LET d(n) == euclidean(q, x.rows[n].vector)
  IN  d(i) < d(j) \/ (d(i) = d(j) /\ i < j)

\* The rows' positions from the nearest on.
Ranked(x, q) ==
  CHOOSE p \in [DOMAIN x.rows -> DOMAIN x.rows] :
    \A m, n \in DOMAIN x.rows : m < n => Before(x, q, p[m], p[n])

\* Mutant of FlatHits: the rows are truncated before they are sorted.
FlatHitsTruncatedFirst(x, q, k) ==
  LET y == [x EXCEPT !.rows = SubSeq(@, 1, k)]
      ranked == Ranked(IF k < Len(x.rows) THEN y ELSE x, q)
  IN  [n \in DOMAIN ranked |->
         Hit(x.rows[ranked[n]].id, euclidean(q, x.rows[ranked[n]].vector))]

FlatHits(x, q, k) ==
  [n \in {i \in DOMAIN x.rows : i <= k} |->
     LET row == x.rows[Ranked(x, q)[n]] IN Hit(row.id, euclidean(q, row.vector))]

\* An answer is an option: none is the error, a DimensionMismatch.
FlatSearch(x, q, k) == IF Len(q) # x.dim THEN {} ELSE {FlatHits(x, q, k)}

-----------------------------------------------------------------------------
\* stub_index: one id is there from the start.
StubNew(id) == [kind |-> "stub", ids |-> <<id>>]

StubInsert(x, id) == Done([x EXCEPT !.ids = Append(@, id)])

StubDelete(x, id) ==
  LET pos == SelectInSeq(x.ids, LAMBDA other : other = id)
  IN  IF pos = 0 THEN Failed(x, "NotFound")
                 ELSE Done([x EXCEPT !.ids = RemoveAt(@, pos)])

StubSearch(x, k) == {[n \in {i \in DOMAIN x.ids : i <= k} |-> Hit(x.ids[n], 0)]}

-----------------------------------------------------------------------------
\* The trait they implement.
IndexInsert(x, id, v) ==
  IF x.kind = "flat" THEN FlatInsert(x, id, v) ELSE StubInsert(x, id)
IndexDelete(x, id) ==
  IF x.kind = "flat" THEN FlatDelete(x, id) ELSE StubDelete(x, id)
IndexSearch(x, q, k) ==
  IF x.kind = "flat" THEN FlatSearch(x, q, k) ELSE StubSearch(x, k)
IndexLen(x) == IF x.kind = "flat" THEN Len(x.rows) ELSE Len(x.ids)

\* The trait's insert_batch inserts one item after the other until one fails.
IndexInsertBatch(x, items) ==
  FoldLeft(LAMBDA done, item :
             IF done.result = "Ok" THEN IndexInsert(done.index, item.id, item.vector)
                                   ELSE done,
           Done(x), items)
=============================================================================
