-------------------------- MODULE RecencyListLemmas --------------------------
(***************************************************************************)
(* What the operations of RecencyList return, for lists of any length over *)
(* any keys and values.                                                    *)
(***************************************************************************)
EXTENDS RecencyList, SequenceTheorems, FiniteSetTheorems, TLAPS

\* Position finds a place where the key is (the hash index of OrderedMap).
LEMMA PositionHolds ==
  ASSUME NEW m, NEW k, Holds(m, k)
  PROVE  Position(m, k) \in DOMAIN m /\ m[Position(m, k)].key = k
BY DEF Position, Holds

\* The entries of a list over S are members of S.
LEMMA EntriesInSet ==
  ASSUME NEW S, NEW m \in Seq(S)
  PROVE  ToSet(m) \subseteq S
<1>1. \A i \in DOMAIN m : m[i] \in S
  BY ElementOfSeq
<1> QED BY <1>1 DEF ToSet

\* Removing a position leaves the other elements, in their order.
LEMMA RemoveAtSpec ==
  ASSUME NEW S, NEW m \in Seq(S), NEW p \in 1 .. Len(m)
  PROVE  /\ RemoveAt(m, p) \in Seq(S)
         /\ Len(RemoveAt(m, p)) = Len(m) - 1
         /\ \A i \in 1 .. Len(m) - 1 :
              RemoveAt(m, p)[i] = IF i < p THEN m[i] ELSE m[i + 1]
<1>1. RemoveAt(m, p) = SubSeq(m, 1, p - 1) \o SubSeq(m, p + 1, Len(m))
  BY DEF RemoveAt
<1>2. /\ SubSeq(m, 1, p - 1) \in Seq(S) /\ Len(SubSeq(m, 1, p - 1)) = p - 1
      /\ SubSeq(m, p + 1, Len(m)) \in Seq(S) /\ Len(SubSeq(m, p + 1, Len(m))) = Len(m) - p
  OBVIOUS
<1> DEFINE s == SubSeq(m, 1, p - 1)
           r == SubSeq(m, p + 1, Len(m))
<1>3. /\ \A i \in 1 .. p - 1 : s[i] = m[i]
      /\ \A i \in 1 .. Len(m) - p : r[i] = m[i + p]
  <2>1. \A i \in 1 .. p - 1 : s[i] = m[i]
    OBVIOUS
  <2>2. ASSUME NEW i \in 1 .. Len(m) - p PROVE r[i] = m[i + p]
    <3>1. r[i] = m[p + 1 + i - 1]
      BY <1>2
    <3> QED BY <3>1
  <2> QED BY <2>1, <2>2
<1>4. RemoveAt(m, p) = s \o r
  BY <1>1
<1> HIDE DEF s, r
<1>5. s \in Seq(S) /\ r \in Seq(S) /\ Len(s) = p - 1 /\ Len(r) = Len(m) - p
  BY <1>2 DEF s, r
<1>6. /\ s \o r \in Seq(S)
      /\ Len(s \o r) = Len(s) + Len(r)
      /\ \A i \in 1 .. Len(s) + Len(r) :
           (s \o r)[i] = IF i <= Len(s) THEN s[i] ELSE r[i - Len(s)]
  BY <1>5, ConcatProperties
<1>7. Len(s \o r) = Len(m) - 1
  BY <1>5, <1>6
<1>8. ASSUME NEW i \in 1 .. Len(m) - 1
      PROVE  (s \o r)[i] = IF i < p THEN m[i] ELSE m[i + 1]
  <2>1. (s \o r)[i] = IF i <= p - 1 THEN s[i] ELSE r[i - (p - 1)]
    BY <1>5, <1>6
  <2>2. CASE i < p
    <3>1. i \in 1 .. p - 1 /\ i <= p - 1
      BY <2>2
    <3>2. s[i] = m[i]
      BY <3>1, <1>3
    <3> QED BY <3>1, <3>2, <2>1, <2>2
  <2>3. CASE i >= p
    <3>1. i - (p - 1) \in 1 .. Len(m) - p /\ (i - (p - 1)) + p = i + 1
      BY <2>3
    <3>2. ~ (i <= p - 1) /\ ~ (i < p)
      BY <2>3
    <3>3. r[i - (p - 1)] = m[i + 1]
      BY <3>1, <1>3
    <3> QED BY <3>2, <3>3, <2>1
  <2>4. i \in Int /\ p \in Int
    OBVIOUS
  <2>5. i < p \/ i >= p
    BY <2>4
  <2> QED BY <2>2, <2>3, <2>5
<1> QED BY <1>4, <1>6, <1>7, <1>8

\* Removing a key leaves the other entries, in their order (OrderedMap::remove).
LEMMA WithoutSpec ==
  ASSUME NEW S, NEW m \in Seq(S), NEW k
  PROVE  /\ Without(m, k) \in Seq(S)
         /\ Len(Without(m, k)) = IF Holds(m, k) THEN Len(m) - 1 ELSE Len(m)
         /\ Holds(m, k) => \A i \in 1 .. Len(Without(m, k)) :
              Without(m, k)[i] = IF i < Position(m, k) THEN m[i] ELSE m[i + 1]
<1>1. CASE Holds(m, k)
  <2> DEFINE p == Position(m, k)
  <2>1. p \in 1 .. Len(m)
    BY <1>1, PositionHolds
  <2>2. Without(m, k) = RemoveAt(m, p)
    BY <1>1 DEF Without
  <2> HIDE DEF p
  <2>3. /\ Without(m, k) \in Seq(S) /\ Len(Without(m, k)) = Len(m) - 1
        /\ \A i \in 1 .. Len(m) - 1 : Without(m, k)[i] = IF i < p THEN m[i] ELSE m[i + 1]
    BY <2>1, <2>2, RemoveAtSpec
  <2> QED BY <1>1, <2>3 DEF p
<1>2. CASE ~ Holds(m, k)
  BY <1>2 DEF Without
<1> QED BY <1>1, <1>2

\* It adds no entry.
LEMMA WithoutEntries ==
  ASSUME NEW S, NEW m \in Seq(S), NEW k
  PROVE  ToSet(Without(m, k)) \subseteq ToSet(m)
<1>1. CASE Holds(m, k)
  <2>1. Position(m, k) \in 1 .. Len(m)
    BY <1>1, PositionHolds
  <2> SUFFICES ASSUME NEW i \in 1 .. Len(Without(m, k))
               PROVE  \E j \in 1 .. Len(m) : Without(m, k)[i] = m[j]
    BY WithoutSpec DEF ToSet
  <2> QED BY <1>1, <2>1, WithoutSpec
<1>2. CASE ~ Holds(m, k)
  BY <1>2 DEF Without
<1> QED BY <1>1, <1>2

\* On a list without duplicates it leaves none, and the key is gone.
LEMMA WithoutDistinct ==
  ASSUME NEW S, NEW m \in Seq(S), NEW k, Distinct(m)
  PROVE  Distinct(Without(m, k)) /\ KeysOf(Without(m, k)) = KeysOf(m) \ {k}
<1>1. CASE Holds(m, k)
  <2> DEFINE p == Position(m, k)
             w == Without(m, k)
  <2>1. p \in 1 .. Len(m) /\ m[p].key = k
    BY <1>1, PositionHolds
  <2>2. /\ w \in Seq(S) /\ Len(w) = Len(m) - 1
        /\ \A i \in 1 .. Len(w) : w[i] = IF i < p THEN m[i] ELSE m[i + 1]
    BY <1>1, WithoutSpec
  <2> HIDE DEF p, w
  <2>3. Distinct(w)
    <3> SUFFICES ASSUME NEW i \in 1 .. Len(w), NEW j \in 1 .. Len(w),
                        w[i].key = w[j].key
                 PROVE  i = j
      BY <2>2 DEF Distinct
    <3> DEFINE at(n) == IF n < p THEN n ELSE n + 1
    <3>1. at(i) \in 1 .. Len(m) /\ at(j) \in 1 .. Len(m)
      BY <2>1, <2>2
    <3>2. m[at(i)].key = m[at(j)].key
      BY <2>2
    <3>3. at(i) = at(j)
      <4> HIDE DEF at
      <4> QED BY <3>1, <3>2 DEF Distinct
    <3> QED BY <3>3, <2>1
  <2>4. \A i \in 1 .. Len(w) : w[i].key # k /\ w[i].key \in KeysOf(m)
    <3> TAKE i \in 1 .. Len(w)
    <3>1. CASE i < p
      <4>1. w[i] = m[i] /\ i \in 1 .. Len(m) /\ i # p
        BY <2>1, <2>2, <3>1
      <4> QED BY <2>1, <4>1 DEF Distinct, KeysOf
    <3>2. CASE ~ (i < p)
      <4>1. w[i] = m[i + 1] /\ i + 1 \in 1 .. Len(m) /\ i + 1 # p
        BY <2>1, <2>2, <3>2
      <4> QED BY <2>1, <4>1 DEF Distinct, KeysOf
    <3> QED BY <3>1, <3>2
  <2>5. ASSUME NEW i \in 1 .. Len(m), m[i].key # k
        PROVE  m[i].key \in KeysOf(w)
    <3>1. CASE i < p
      BY <3>1, <2>1, <2>2 DEF KeysOf
    <3>2. CASE i > p
      <4>1. i - 1 \in 1 .. Len(w) /\ w[i - 1] = m[i]
        BY <3>2, <2>1, <2>2
      <4> QED BY <4>1 DEF KeysOf
    <3> QED BY <3>1, <3>2, <2>1, <2>5
  <2>6. KeysOf(w) = KeysOf(m) \ {k}
    <3>1. KeysOf(w) \subseteq KeysOf(m) \ {k}
      BY <2>2, <2>4 DEF KeysOf
    <3>2. KeysOf(m) \ {k} \subseteq KeysOf(w)
      <4> HIDE DEF w
      <4> SUFFICES ASSUME NEW x \in KeysOf(m), x # k PROVE x \in KeysOf(w)
        OBVIOUS
      <4>1. PICK i \in 1 .. Len(m) : x = m[i].key
        BY DEF KeysOf
      <4> QED BY <4>1, <2>5
    <3> QED BY <3>1, <3>2
  <2> QED BY <2>3, <2>6 DEF w
<1>2. CASE ~ Holds(m, k)
  BY <1>2 DEF Without, Holds, KeysOf
<1> QED BY <1>1, <1>2

\* S is a set of entries, as [key: K, val: V] is.
EntrySet(S) == \A e \in S : e = Entry(e.key, e.val)

\* The records over keys K and values V are a set of entries.
LEMMA EntriesAreEntries ==
  ASSUME NEW K, NEW V
  PROVE  /\ EntrySet([key: K, val: V])
         /\ \A k \in K, v \in V : Entry(k, v) \in [key: K, val: V]
BY DEF EntrySet, Entry

\* The fields of an entry are what it was made of.
LEMMA KeyOfEntry ==
  ASSUME NEW k, NEW v
  PROVE  Entry(k, v).key = k /\ Entry(k, v).val = v
BY DEF Entry

\* Inserting at the front puts the entry there and adds nothing else; a list
\* without duplicates stays one (OrderedMap::insert_front).
LEMMA InsertFrontSpec ==
  ASSUME NEW S, NEW m \in Seq(S), NEW k, NEW v, Entry(k, v) \in S
  PROVE  /\ InsertFront(m, k, v) \in Seq(S)
         /\ Len(InsertFront(m, k, v)) = IF Holds(m, k) THEN Len(m) ELSE Len(m) + 1
         /\ ToSet(InsertFront(m, k, v)) \subseteq ToSet(m) \cup {Entry(k, v)}
         /\ Distinct(m) => /\ Distinct(InsertFront(m, k, v))
                           /\ KeysOf(InsertFront(m, k, v)) = KeysOf(m) \cup {k}
<1> DEFINE x == Entry(k, v)
           w == Without(m, k)
           f == InsertFront(m, k, v)
<1>1. w \in Seq(S) /\ Len(w) = (IF Holds(m, k) THEN Len(m) - 1 ELSE Len(m)) /\ Len(w) \in Nat
  BY WithoutSpec
<1>2. ToSet(w) \subseteq ToSet(m)
  BY WithoutEntries
<1>3. Distinct(m) => Distinct(w) /\ KeysOf(w) = KeysOf(m) \ {k}
  BY WithoutDistinct
<1>4. x \in S /\ x.key = k
  BY KeyOfEntry
<1>5. f = <<x>> \o w
  BY DEF InsertFront, Cons
<1> HIDE DEF x, w, f
<1>6. f \in Seq(S) /\ Len(f) = Len(w) + 1
  BY <1>1, <1>4, <1>5
<1>7. \A i \in 1 .. Len(f) : f[i] = IF i = 1 THEN x ELSE w[i - 1]
  BY <1>1, <1>4, <1>5, <1>6
<1>8. Len(f) = IF Holds(m, k) THEN Len(m) ELSE Len(m) + 1
  BY <1>1, <1>6
<1>9. ToSet(f) \subseteq ToSet(m) \cup {x}
  <2>1. \A i \in 1 .. Len(f) : f[i] = x \/ f[i] \in ToSet(w)
    <3> SUFFICES ASSUME NEW i \in 1 .. Len(f), i # 1 PROVE f[i] \in ToSet(w)
      BY <1>1, <1>6, <1>7
    <3>1. i - 1 \in DOMAIN w /\ f[i] = w[i - 1]
      BY <1>1, <1>6, <1>7
    <3> QED BY <3>1 DEF ToSet
  <2>2. DOMAIN f = 1 .. Len(f)
    BY <1>6
  <2>3. \A y \in ToSet(f) : y = x \/ y \in ToSet(w)
    BY <2>1, <2>2 DEF ToSet
  <2> QED BY <2>3, <1>2
<1>10. ASSUME Distinct(m) PROVE Distinct(f) /\ KeysOf(f) = KeysOf(m) \cup {k}
  <2>1. \A i \in 1 .. Len(w) : w[i].key \in KeysOf(m) \ {k}
    <3>1. DOMAIN w = 1 .. Len(w)
      BY <1>1
    <3>2. \A i \in DOMAIN w : w[i].key \in KeysOf(w)
      BY DEF KeysOf
    <3> QED BY <3>1, <3>2, <1>3, <1>10
  <2>2. Distinct(f)
    <3> SUFFICES ASSUME NEW i \in 1 .. Len(f), NEW j \in 1 .. Len(f), f[i].key = f[j].key
                 PROVE  i = j
      BY <1>6 DEF Distinct
    <3>1. \A n \in 1 .. Len(f) : n # 1 => f[n].key # k
      <4> SUFFICES ASSUME NEW n \in 1 .. Len(f), n # 1 PROVE f[n].key # k
        OBVIOUS
      <4>1. n - 1 \in 1 .. Len(w) /\ f[n] = w[n - 1]
        BY <1>1, <1>6, <1>7
      <4> QED BY <4>1, <2>1
    <3>2. CASE i = 1 \/ j = 1
      <4>1. f[1].key = k
        BY <1>1, <1>4, <1>6, <1>7
      <4> QED BY <3>1, <3>2, <4>1
    <3>3. CASE i # 1 /\ j # 1
      <4>1. /\ i - 1 \in 1 .. Len(w) /\ j - 1 \in 1 .. Len(w)
            /\ w[i - 1].key = w[j - 1].key
        BY <3>3, <1>1, <1>6, <1>7
      <4>2. i - 1 = j - 1
        BY <4>1, <1>1, <1>3, <1>10 DEF Distinct
      <4> QED BY <4>2
    <3> QED BY <3>2, <3>3
  <2>3. KeysOf(f) \subseteq KeysOf(m) \cup {k}
    <3> SUFFICES ASSUME NEW i \in 1 .. Len(f) PROVE f[i].key \in KeysOf(m) \cup {k}
      BY <1>6 DEF KeysOf
    <3>1. CASE i = 1
      BY <3>1, <1>4, <1>7
    <3>2. CASE i # 1
      <4>1. i - 1 \in 1 .. Len(w) /\ f[i] = w[i - 1]
        BY <3>2, <1>1, <1>6, <1>7
      <4> QED BY <4>1, <2>1
    <3> QED BY <3>1, <3>2
  <2>4. KeysOf(m) \cup {k} \subseteq KeysOf(f)
    <3>1. k \in KeysOf(f)
      <4>1. 1 \in DOMAIN f /\ f[1].key = k
        BY <1>1, <1>4, <1>6, <1>7
      <4> QED BY <4>1 DEF KeysOf
    <3>2. ASSUME NEW y \in KeysOf(m), y # k PROVE y \in KeysOf(f)
      <4>1. y \in KeysOf(w)
        BY <3>2, <1>3, <1>10
      <4>2. PICK i \in 1 .. Len(w) : y = w[i].key
        BY <4>1, <1>1 DEF KeysOf
      <4>3. i + 1 \in DOMAIN f /\ f[i + 1] = w[i]
        BY <1>1, <1>6, <1>7
      <4> QED BY <4>2, <4>3 DEF KeysOf
    <3> QED BY <3>1, <3>2
  <2> QED BY <2>2, <2>3, <2>4
<1> QED BY <1>6, <1>8, <1>9, <1>10 DEF f, x

\* The value found under a key belongs to an entry of the list with that key.
LEMMA ValueOfSpec ==
  ASSUME NEW S, EntrySet(S), NEW m \in Seq(S), NEW k, Holds(m, k)
  PROVE  Entry(k, ValueOf(m, k)) \in S /\ Entry(k, ValueOf(m, k)) \in ToSet(m)
<1>1. Position(m, k) \in DOMAIN m /\ m[Position(m, k)].key = k
  BY PositionHolds
<1>2. m[Position(m, k)] \in S
  BY <1>1, ElementOfSeq
<1>3. m[Position(m, k)] = Entry(k, ValueOf(m, k))
  BY <1>1, <1>2 DEF EntrySet, ValueOf
<1> QED BY <1>1, <1>2, <1>3 DEF ToSet

\* Promotion reorders a list and does nothing else (OrderedMap::move_to_front).
LEMMA MoveToFrontSpec ==
  ASSUME NEW S, EntrySet(S), NEW m \in Seq(S), NEW k
  PROVE  /\ MoveToFront(m, k) \in Seq(S)
         /\ Len(MoveToFront(m, k)) = Len(m)
         /\ ToSet(MoveToFront(m, k)) \subseteq ToSet(m)
         /\ Distinct(m) => /\ Distinct(MoveToFront(m, k))
                           /\ KeysOf(MoveToFront(m, k)) = KeysOf(m)
<1>1. CASE Holds(m, k)
  <2> DEFINE v == ValueOf(m, k)
  <2>1. Entry(k, v) \in S /\ Entry(k, v) \in ToSet(m)
    BY <1>1, ValueOfSpec
  <2>2. MoveToFront(m, k) = InsertFront(m, k, v)
    BY <1>1 DEF MoveToFront
  <2>3. k \in KeysOf(m)
    BY <1>1 DEF Holds, KeysOf
  <2> HIDE DEF v
  <2>4. /\ InsertFront(m, k, v) \in Seq(S)
        /\ Len(InsertFront(m, k, v)) = Len(m)
        /\ ToSet(InsertFront(m, k, v)) \subseteq ToSet(m) \cup {Entry(k, v)}
        /\ Distinct(m) => /\ Distinct(InsertFront(m, k, v))
                          /\ KeysOf(InsertFront(m, k, v)) = KeysOf(m) \cup {k}
    BY <1>1, <2>1, InsertFrontSpec
  <2> QED BY <2>1, <2>2, <2>3, <2>4
<1>2. CASE ~ Holds(m, k)
  BY <1>2 DEF MoveToFront
<1> QED BY <1>1, <1>2

\* Replacing a value changes no key and no place (OrderedMap::update_value).
LEMMA UpdateValueSpec ==
  ASSUME NEW S, NEW m \in Seq(S), NEW k, NEW v, Entry(k, v) \in S
  PROVE  /\ UpdateValue(m, k, v) \in Seq(S)
         /\ Len(UpdateValue(m, k, v)) = Len(m)
         /\ ToSet(UpdateValue(m, k, v)) \subseteq ToSet(m) \cup {Entry(k, v)}
         /\ KeysOf(UpdateValue(m, k, v)) = KeysOf(m)
         /\ Distinct(m) => Distinct(UpdateValue(m, k, v))
<1>1. CASE Holds(m, k)
  <2> DEFINE p == Position(m, k)
             u == UpdateValue(m, k, v)
  <2>1. p \in 1 .. Len(m) /\ m[p].key = k
    BY <1>1, PositionHolds
  <2>2. u = [m EXCEPT ![p] = Entry(k, v)]
    BY <1>1 DEF UpdateValue, ReplaceAt
  <2>3. Entry(k, v) \in S /\ Entry(k, v).key = k
    BY KeyOfEntry
  <2> HIDE DEF p, u
  <2>4. u \in Seq(S) /\ Len(u) = Len(m) /\ DOMAIN u = DOMAIN m
    BY <2>1, <2>2, <2>3, ExceptSeq
  <2>5. \A i \in DOMAIN m : u[i] = IF i = p THEN Entry(k, v) ELSE m[i]
    BY <2>1, <2>2
  <2>6. \A i \in DOMAIN m : u[i].key = m[i].key
    BY <2>1, <2>3, <2>5
  <2>7. KeysOf(u) = KeysOf(m) /\ (Distinct(m) => Distinct(u))
    BY <2>4, <2>6 DEF KeysOf, Distinct
  <2>8. ToSet(u) \subseteq ToSet(m) \cup {Entry(k, v)}
    BY <2>4, <2>5 DEF ToSet
  <2> QED BY <2>4, <2>7, <2>8 DEF u
<1>2. CASE ~ Holds(m, k)
  BY <1>2 DEF UpdateValue
<1> QED BY <1>1, <1>2

\* Popping takes the last entry and nothing else (OrderedMap::pop_back).
LEMMA PopBackSpec ==
  ASSUME NEW S, NEW m \in Seq(S)
  PROVE  /\ PopBack(m) \in Seq(S)
         /\ Len(PopBack(m)) = IF m = <<>> THEN 0 ELSE Len(m) - 1
         /\ ToSet(PopBack(m)) \subseteq ToSet(m)
         /\ KeysOf(PopBack(m)) \subseteq KeysOf(m)
         /\ Distinct(m) => Distinct(PopBack(m))
         /\ m # <<>> => BackOf(m) \in S
<1>1. CASE m = <<>>
  BY <1>1 DEF PopBack
<1>2. CASE m # <<>>
  <2>1. Len(m) \in Nat /\ Len(m) >= 1 /\ DOMAIN m = 1 .. Len(m)
    BY <1>2
  <2>2. PopBack(m) = SubSeq(m, 1, Len(m) - 1)
    BY <1>2 DEF PopBack, Front
  <2>3. /\ PopBack(m) \in Seq(S) /\ Len(PopBack(m)) = Len(m) - 1
        /\ \A i \in 1 .. Len(m) - 1 : PopBack(m)[i] = m[i]
    BY <2>1, <2>2
  <2>4. BackOf(m) \in S
    BY <2>1 DEF BackOf, Last
  <2>5. DOMAIN PopBack(m) = 1 .. Len(m) - 1 /\ 1 .. Len(m) - 1 \subseteq DOMAIN m
    BY <2>1, <2>3
  <2> QED BY <1>2, <2>3, <2>4, <2>5 DEF ToSet, KeysOf, Distinct
<1> QED BY <1>1, <1>2

\* On a list without duplicates the key popped is gone, and only that one.
LEMMA PopBackKeys ==
  ASSUME NEW S, NEW m \in Seq(S), Distinct(m), m # <<>>
  PROVE  /\ BackOf(m).key \in KeysOf(m)
         /\ KeysOf(PopBack(m)) = KeysOf(m) \ {BackOf(m).key}
<1>1. Len(m) \in Nat /\ Len(m) >= 1 /\ DOMAIN m = 1 .. Len(m)
  OBVIOUS
<1>2. PopBack(m) = SubSeq(m, 1, Len(m) - 1) /\ BackOf(m) = m[Len(m)]
  BY DEF PopBack, Front, BackOf, Last
<1>3. /\ DOMAIN PopBack(m) = 1 .. Len(m) - 1
      /\ \A i \in 1 .. Len(m) - 1 : PopBack(m)[i] = m[i]
  BY <1>1, <1>2
<1>4. \A i \in 1 .. Len(m) : (i \in 1 .. Len(m) - 1 <=> m[i].key # m[Len(m)].key)
  BY <1>1 DEF Distinct
<1>5. \A x : x \in KeysOf(PopBack(m)) <=> \E i \in 1 .. Len(m) - 1 : x = m[i].key
  BY <1>3 DEF KeysOf
<1>6. \A x : x \in KeysOf(m) <=> \E i \in 1 .. Len(m) : x = m[i].key
  BY <1>1 DEF KeysOf
<1>7. 1 .. Len(m) - 1 \subseteq 1 .. Len(m) /\ Len(m) \in 1 .. Len(m)
  BY <1>1
<1> QED BY <1>2, <1>4, <1>5, <1>6, <1>7

-----------------------------------------------------------------------------
\* The entries of a list as a map from keys to values.

\* The keys of a list are those of its entries.
LEMMA KeysOfEntries ==
  ASSUME NEW m
  PROVE  KeysOf(m) = {e.key : e \in ToSet(m)}
BY DEF KeysOf, ToSet

\* No key has two values in E.
OneValueEach(E) == \A e, f \in E : e.key = f.key => e = f

\* A list without duplicates holds one value for each of its keys.
LEMMA DistinctOneValueEach ==
  ASSUME NEW m, Distinct(m)
  PROVE  OneValueEach(ToSet(m))
BY DEF Distinct, OneValueEach, ToSet

\* Entries taken from E that name every key of E are all of E.
LEMMA AllKeysAllEntries ==
  ASSUME NEW E, OneValueEach(E), NEW F, F \subseteq E,
         {e.key : e \in E} \subseteq {e.key : e \in F}
  PROVE  F = E
<1> SUFFICES ASSUME NEW e \in E PROVE e \in F
  OBVIOUS
<1>1. e.key \in {f.key : f \in F}
  OBVIOUS
<1>2. PICK f \in F : f.key = e.key
  BY <1>1
<1> QED BY <1>2 DEF OneValueEach

\* The entry inserted is on the list afterwards.
LEMMA InsertFrontHas ==
  ASSUME NEW S, NEW m \in Seq(S), NEW k, NEW v, Entry(k, v) \in S
  PROVE  Entry(k, v) \in ToSet(InsertFront(m, k, v))
<1> DEFINE x == Entry(k, v)
           w == Without(m, k)
           f == InsertFront(m, k, v)
<1>1. w \in Seq(S) /\ x \in S /\ f = <<x>> \o w
  BY WithoutSpec DEF InsertFront, Cons
<1> HIDE DEF x, w, f
<1>2. f \in Seq(S) /\ Len(f) = Len(w) + 1 /\ f[1] = x /\ Len(w) \in Nat
  BY <1>1
<1>3. 1 \in DOMAIN f
  BY <1>2
<1>4. x \in ToSet(f)
  BY <1>2, <1>3 DEF ToSet
<1> QED BY <1>4 DEF f, x

\* So is the value written, if its key was there.
LEMMA UpdateValueHas ==
  ASSUME NEW S, NEW m \in Seq(S), NEW k, NEW v, Entry(k, v) \in S, Holds(m, k)
  PROVE  Entry(k, v) \in ToSet(UpdateValue(m, k, v))
<1> DEFINE p == Position(m, k)
           u == UpdateValue(m, k, v)
           x == Entry(k, v)
<1>1. p \in 1 .. Len(m)
  BY PositionHolds
<1>2. u = [m EXCEPT ![p] = x]
  BY DEF UpdateValue, ReplaceAt
<1> HIDE DEF p, u, x
<1>3. p \in DOMAIN u /\ u[p] = x
  BY <1>1, <1>2
<1>4. x \in ToSet(u)
  BY <1>3 DEF ToSet
<1> QED BY <1>4 DEF x, u

\* Promotion changes no entry.
LEMMA MoveToFrontSame ==
  ASSUME NEW S, EntrySet(S), NEW m \in Seq(S), Distinct(m), NEW k
  PROVE  ToSet(MoveToFront(m, k)) = ToSet(m)
<1>1. ToSet(MoveToFront(m, k)) \subseteq ToSet(m) /\ KeysOf(MoveToFront(m, k)) = KeysOf(m)
  BY MoveToFrontSpec
<1>2. {e.key : e \in ToSet(MoveToFront(m, k))} = {e.key : e \in ToSet(m)}
  BY <1>1, KeysOfEntries
<1>3. OneValueEach(ToSet(m))
  BY DistinctOneValueEach
<1> QED BY <1>1, <1>2, <1>3, AllKeysAllEntries

\* A list without duplicates has as many keys as entries.
LEMMA KeysCount ==
  ASSUME NEW S, NEW m \in Seq(S), Distinct(m)
  PROVE  IsFiniteSet(KeysOf(m)) /\ Cardinality(KeysOf(m)) = Len(m)
<1> DEFINE f == [i \in 1 .. Len(m) |-> m[i].key]
<1>1. Len(m) \in Nat /\ DOMAIN m = 1 .. Len(m)
  OBVIOUS
<1>2. \A i \in 1 .. Len(m) : f[i] = m[i].key
  OBVIOUS
<1>3. \A x : x \in KeysOf(m) <=> \E i \in 1 .. Len(m) : x = m[i].key
  BY <1>1 DEF KeysOf
<1>4. f \in [1 .. Len(m) -> KeysOf(m)]
  BY <1>3
<1> HIDE DEF f
<1>5. \A i, j \in 1 .. Len(m) : f[i] = f[j] => i = j
  BY <1>1, <1>2 DEF Distinct
<1>6. \A x \in KeysOf(m) : \E i \in 1 .. Len(m) : f[i] = x
  BY <1>2, <1>3
<1>7. f \in Bijection(1 .. Len(m), KeysOf(m))
  BY <1>4, <1>5, <1>6 DEF Bijection, Injection, Surjection, IsInjective
<1>8. ExistsBijection(1 .. Len(m), KeysOf(m))
  BY <1>7 DEF ExistsBijection
<1>9. IsFiniteSet(1 .. Len(m)) /\ Cardinality(1 .. Len(m)) = Len(m)
  BY <1>1, FS_Interval
<1> QED BY <1>8, <1>9, FS_Bijection

\* Popping keeps every entry but the back.
LEMMA PopBackKeepsOthers ==
  ASSUME NEW S, NEW m \in Seq(S), Distinct(m), m # <<>>,
         NEW e \in ToSet(m), e.key # BackOf(m).key
  PROVE  e \in ToSet(PopBack(m))
<1>1. KeysOf(PopBack(m)) = KeysOf(m) \ {BackOf(m).key}
  BY PopBackKeys
<1>2. ToSet(PopBack(m)) \subseteq ToSet(m)
  BY PopBackSpec
<1>3. e.key \in KeysOf(PopBack(m))
  BY <1>1, KeysOfEntries
<1>4. PICK f \in ToSet(PopBack(m)) : f.key = e.key
  BY <1>3, KeysOfEntries
<1> QED BY <1>2, <1>4, DistinctOneValueEach DEF OneValueEach

\* A new key at the front leaves the back where it was.
LEMMA InsertFrontBack ==
  ASSUME NEW S, NEW m \in Seq(S), m # <<>>, NEW k, NEW v, Entry(k, v) \in S, ~ Holds(m, k)
  PROVE  InsertFront(m, k, v) # <<>> /\ BackOf(InsertFront(m, k, v)) = BackOf(m)
<1> DEFINE x == Entry(k, v)
           f == InsertFront(m, k, v)
<1>1. x \in S /\ f = <<x>> \o m
  BY DEF InsertFront, Cons, Without
<1> HIDE DEF x, f
<1>2. Len(m) \in Nat /\ Len(m) >= 1
  OBVIOUS
<1>3. Len(f) = Len(m) + 1 /\ f[Len(m) + 1] = m[Len(m)]
  BY <1>1, <1>2
<1>4. f # <<>>
  BY <1>2, <1>3
<1> QED BY <1>3, <1>4 DEF BackOf, Last, f
==============================================================================
