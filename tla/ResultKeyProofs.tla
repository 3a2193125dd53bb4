--------------------------- MODULE ResultKeyProofs ---------------------------
(***************************************************************************)
(* What HashMap requires of ResultKey, and what CachedIndex requires of it *)
(* beyond that, for keys of any length.                                    *)
(***************************************************************************)
EXTENDS ResultKey, TLAPS

\* Queries compared position by position are the same sequence.
LEMMA QueriesSame ==
  ASSUME NEW a \in ResultKeys, NEW b \in ResultKeys, KeyEq(a, b)
  PROVE  a.query = b.query
<1>1. a.query \in Seq(Bits) /\ b.query \in Seq(Bits)
  BY DEF ResultKeys
<1>2. DOMAIN a.query = DOMAIN b.query
  BY <1>1 DEF KeyEq
<1>3. \A i \in DOMAIN a.query : a.query[i] = b.query[i]
  BY <1>2 DEF KeyEq
<1> QED  BY <1>1, <1>2, <1>3

\* == on floats is transitive, NaN or not.
LEMMA FloatEqTransitive ==
  ASSUME NEW x, NEW y, NEW z, FloatEq(x, y), FloatEq(y, z)
  PROVE  FloatEq(x, z)
BY DEF FloatEq

\* On supported keys eq is an equivalence, as impl Eq claims
\* (src/key.rs:64-69): a key is found again under itself, NaN components of
\* its query included.
THEOREM EqIsEquivalence ==
  ASSUME NEW a \in ResultKeys, NEW b \in ResultKeys, NEW c \in ResultKeys,
         Supported(a)
  PROVE  /\ KeyEq(a, a)
         /\ KeyEq(a, b) => KeyEq(b, a)
         /\ KeyEq(a, b) /\ KeyEq(b, c) => KeyEq(a, c)
<1>1. KeyEq(a, a)
  <2>1. \A x, y \in a.filter : x = y /\ x \notin NaNs
    BY DEF ResultKeys, OptionOf, Supported
  <2>2. FilterEq(a.filter, a.filter)
    BY <2>1 DEF FilterEq, FloatEq
  <2> QED  BY <2>2 DEF KeyEq
<1>2. ASSUME KeyEq(a, b)  PROVE KeyEq(b, a)
  <2>1. FilterEq(b.filter, a.filter)
    BY <1>2 DEF KeyEq, FilterEq, FloatEq
  <2> QED  BY <1>2, <2>1 DEF KeyEq
<1>3. ASSUME KeyEq(a, b), KeyEq(b, c)  PROVE KeyEq(a, c)
  <2>1. a.query = b.query /\ b.query = c.query
    BY <1>3, QueriesSame
  <2>2. FilterEq(a.filter, c.filter)
    <3>1. FilterEq(a.filter, b.filter) /\ FilterEq(b.filter, c.filter)
      BY <1>3 DEF KeyEq
    <3>2. a.filter = {} <=> c.filter = {}
      BY <3>1 DEF FilterEq
    <3>3. ASSUME NEW x \in a.filter, NEW z \in c.filter  PROVE FloatEq(x, z)
      <4>1. PICK y \in b.filter : TRUE
        BY <3>1 DEF FilterEq
      <4>2. FloatEq(x, y) /\ FloatEq(y, z)
        BY <3>1 DEF FilterEq
      <4> QED  BY <4>2, FloatEqTransitive
    <3> QED  BY <3>2, <3>3 DEF FilterEq
  <2>3. a.k = c.k /\ a.ef = c.ef /\ a.metric = c.metric
    BY <1>3 DEF KeyEq
  <2> QED  BY <2>1, <2>2, <2>3 DEF KeyEq
<1> QED  BY <1>1, <1>2, <1>3

\* Equal keys hash alike, the filter left out of the hash notwithstanding
\* (src/key.rs:17-20): no lookup misses an entry in another bucket.
THEOREM EqualKeysHashAlike ==
  ASSUME NEW a \in ResultKeys, NEW b \in ResultKeys, KeyEq(a, b)
  PROVE  HashInput(a) = HashInput(b)
<1>1. a.query = b.query
  BY QueriesSame
<1>2. <<a.k, a.ef, a.metric>> = <<b.k, b.ef, b.metric>>
  BY DEF KeyEq
<1> QED  BY <1>1, <1>2 DEF HashInput

\* Equal keys ask the same search, so the result cached under one answers the
\* other: they are one key, but for the sign of a zero in the filter.
THEOREM EqualKeysSameSearch ==
  ASSUME NEW a \in ResultKeys, NEW b \in ResultKeys, KeyEq(a, b)
  PROVE  a = b \/ \E x, y \in Zeros : b = [a EXCEPT !.filter = {x}] /\ a.filter = {y}
<1>1. a.query = b.query
  BY QueriesSame
<1>2. a.k = b.k /\ a.ef = b.ef /\ a.metric = b.metric
  BY DEF KeyEq
<1>3. CASE a.filter = b.filter
  BY <1>1, <1>2, <1>3 DEF ResultKeys
<1>4. CASE a.filter # b.filter
  <2>1. FilterEq(a.filter, b.filter)
    BY DEF KeyEq
  <2>2. PICK y, x : a.filter = {y} /\ b.filter = {x}
    BY <1>4, <2>1 DEF ResultKeys, OptionOf, FilterEq
  <2>3. FloatEq(y, x)
    BY <2>1, <2>2 DEF FilterEq
  <2>4. x \in Zeros /\ y \in Zeros
    BY <1>4, <2>2, <2>3 DEF FloatEq
  <2>5. b = [a EXCEPT !.filter = {x}]
    BY <1>1, <1>2, <2>2 DEF ResultKeys
  <2> QED  BY <2>2, <2>4, <2>5
<1> QED  BY <1>3, <1>4
==============================================================================
