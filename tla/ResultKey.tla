------------------------------ MODULE ResultKey ------------------------------
(***************************************************************************)
(* ResultKey of src/key.rs: what makes two searches the same cache key,    *)
(* and what of a key is hashed.  A float is its bit pattern.  The wrapped  *)
(* crate's Filter is taken down to one float literal, the only part of it  *)
(* whose equality is not plain; an Option is a set of at most one element. *)
(***************************************************************************)
EXTENDS Naturals, Sequences

CONSTANTS
  Bits,     \* bit patterns of f32
  NaNs,     \* those that are not a number
  Zeros,    \* those of 0.0 and -0.0
  Metrics   \* distance metrics

OptionOf(S) == {{}} \cup {{x} : x \in S}

ResultKeys ==
  [query: Seq(Bits), k: Nat, ef: OptionOf(Nat), metric: Metrics, filter: OptionOf(Bits)]

\* The key of a search: its query and every parameter that bears on the result.
NewKey(query, params) ==
  [query |-> query, k |-> params.k, ef |-> params.ef, metric |-> params.metric,
   filter |-> params.filter]

\* a == b on floats: NaN equals nothing, the two zeros equal each other.
FloatEq(a, b) ==
  /\ a \notin NaNs /\ b \notin NaNs
  /\ a = b \/ {a, b} \subseteq Zeros

FilterEq(f, g) ==
  /\ f = {} <=> g = {}
  /\ \A a \in f, b \in g : FloatEq(a, b)

\* eq: the query by its bits, position by position, the filter by ==.
KeyEq(a, b) ==
  /\ a.k = b.k /\ a.ef = b.ef /\ a.metric = b.metric
  /\ Len(a.query) = Len(b.query)
  /\ \A i \in DOMAIN a.query \cap DOMAIN b.query : a.query[i] = b.query[i]
  /\ FilterEq(a.filter, b.filter)

\* hash: what is fed to the hasher, in order; the filter is left out.
HashInput(a) == <<a.k, a.ef, a.metric>> \o a.query

\* The restriction on filters that the comment at impl Eq makes.
Supported(a) == a.filter \cap NaNs = {}
==============================================================================
