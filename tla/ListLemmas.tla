----------------------------- MODULE ListLemmas -----------------------------
(***************************************************************************)
(* Facts about lists that the other proofs cite: the operations of         *)
(* queue.h on a VTAILQ whose entries differ, as sequences.                 *)
(***************************************************************************)
EXTENDS SequencesExt, SequenceTheorems, FiniteSetTheorems, TLAPS

\* Each entry is in the list once.
Distinct(q) == \A i, j \in DOMAIN q : q[i] = q[j] => i = j

\* VTAILQ_REMOVE: the entries before position k stay, those after it move up.
LEMMA RemoveAtFacts ==
    ASSUME NEW S, NEW q \in Seq(S), NEW k \in 1..Len(q)
    PROVE  /\ RemoveAt(q, k) \in Seq(S)
           /\ Len(RemoveAt(q, k)) = Len(q) - 1
           /\ \A j \in 1..(Len(q) - 1) :
                 RemoveAt(q, k)[j] = IF j < k THEN q[j] ELSE q[j + 1]
<1> DEFINE a == SubSeq(q, 1, k - 1)
           b == SubSeq(q, k + 1, Len(q))
<1>1. /\ Len(q) \in Nat /\ k \in Nat /\ 1 <= k /\ k <= Len(q)
      /\ \A i \in 1..Len(q) : q[i] \in S
    OBVIOUS
<1>2. a \in Seq(S) /\ Len(a) = k - 1 /\ \A i \in 1..(k - 1) : a[i] = q[i]
  <2>1. 1 \in Int /\ k - 1 \in Int /\ \A i \in 1..(k - 1) : q[i] \in S
      BY <1>1
  <2>2. /\ a \in Seq(S)
        /\ Len(a) = IF 1 <= k - 1 THEN (k - 1) - 1 + 1 ELSE 0
        /\ \A i \in 1..((k - 1) - 1 + 1) : a[i] = q[1 + i - 1]
      BY <2>1, SubSeqProperties
  <2> HIDE DEF a
  <2>3. Len(a) = k - 1
      BY <1>1, <2>2
  <2>4. ASSUME NEW i \in 1..(k - 1) PROVE a[i] = q[i]
    <3>1. i \in 1..((k - 1) - 1 + 1) /\ 1 + i - 1 = i
        BY <1>1
    <3> QED BY <2>2, <3>1
  <2> QED BY <2>2, <2>3, <2>4
<1>3. b \in Seq(S) /\ Len(b) = Len(q) - k /\ \A i \in 1..(Len(q) - k) : b[i] = q[k + i]
  <2>1. k + 1 \in Int /\ Len(q) \in Int /\ \A i \in (k + 1)..Len(q) : q[i] \in S
      BY <1>1
  <2>2. /\ b \in Seq(S)
        /\ Len(b) = IF k + 1 <= Len(q) THEN Len(q) - (k + 1) + 1 ELSE 0
        /\ \A i \in 1..(Len(q) - (k + 1) + 1) : b[i] = q[(k + 1) + i - 1]
      BY <2>1, SubSeqProperties
  <2> HIDE DEF b
  <2>3. Len(b) = Len(q) - k
      BY <1>1, <2>2
  <2>4. ASSUME NEW i \in 1..(Len(q) - k) PROVE b[i] = q[k + i]
    <3>1. i \in 1..(Len(q) - (k + 1) + 1) /\ (k + 1) + i - 1 = k + i
        BY <1>1
    <3> QED BY <2>2, <3>1
  <2> QED BY <2>2, <2>3, <2>4
<1>4. RemoveAt(q, k) = a \o b
    BY DEF RemoveAt
<1> HIDE DEF a, b
<1>5. /\ a \o b \in Seq(S) /\ Len(a \o b) = Len(a) + Len(b)
      /\ \A i \in 1..(Len(a) + Len(b)) :
            (a \o b)[i] = IF i <= Len(a) THEN a[i] ELSE b[i - Len(a)]
    BY <1>2, <1>3, ConcatProperties
<1>6. ASSUME NEW j \in 1..(Len(q) - 1)
      PROVE  (a \o b)[j] = IF j < k THEN q[j] ELSE q[j + 1]
  <2>1. CASE j < k
      BY <1>1, <1>2, <1>3, <1>5, <2>1
  <2>2. CASE ~(j < k)
    <3>1. j - (k - 1) \in 1..(Len(q) - k) /\ k + (j - (k - 1)) = j + 1
        BY <1>1, <2>2
    <3>2. (a \o b)[j] = b[j - (k - 1)]
        BY <1>1, <1>2, <1>3, <1>5, <2>2
    <3> QED BY <1>3, <2>2, <3>1, <3>2
  <2> QED BY <2>1, <2>2
<1> QED BY <1>1, <1>2, <1>3, <1>4, <1>5, <1>6

\* The same, by the entry that is removed.
LEMMA RemoveEntry ==
    ASSUME NEW S, NEW q \in Seq(S), Distinct(q), NEW k \in 1..Len(q)
    PROVE  /\ RemoveAt(q, k) \in Seq(S)
           /\ Distinct(RemoveAt(q, k))
           /\ Range(RemoveAt(q, k)) = Range(q) \ {q[k]}
<1> DEFINE r == RemoveAt(q, k)
<1>1. /\ r \in Seq(S) /\ Len(r) = Len(q) - 1
      /\ \A j \in 1..(Len(q) - 1) : r[j] = IF j < k THEN q[j] ELSE q[j + 1]
    BY RemoveAtFacts
<1> HIDE DEF r
<1>2. /\ Len(q) \in Nat /\ k \in Nat /\ 1 <= k /\ k <= Len(q)
      /\ DOMAIN q = 1..Len(q) /\ DOMAIN r = 1..(Len(q) - 1)
    BY <1>1
<1>3. ASSUME NEW i \in DOMAIN r, NEW j \in DOMAIN r, r[i] = r[j] PROVE i = j
  <2>1. \A x \in DOMAIN r : (IF x < k THEN x ELSE x + 1) \in DOMAIN q
      BY <1>2
  <2>2. (IF i < k THEN i ELSE i + 1) = (IF j < k THEN j ELSE j + 1)
      BY <1>1, <1>2, <1>3, <2>1 DEF Distinct
  <2> QED BY <1>2, <2>2
<1>4. ASSUME NEW i \in DOMAIN r PROVE r[i] \in Range(q) \ {q[k]}
  <2>1. PICK x \in DOMAIN q : r[i] = q[x] /\ x # k
      BY <1>1, <1>2
  <2> QED BY <1>2, <2>1 DEF Distinct, Range
<1>5. ASSUME NEW u \in Range(q) \ {q[k]} PROVE \E i \in DOMAIN r : r[i] = u
  <2>1. PICK j \in DOMAIN q : q[j] = u
      BY DEF Range
  <2>2. CASE j < k
      BY <1>1, <1>2, <2>1, <2>2
  <2>3. CASE j > k
    <3>1. j - 1 \in DOMAIN r /\ r[j - 1] = u
        BY <1>1, <1>2, <2>1, <2>3
    <3> QED BY <3>1
  <2> QED BY <1>2, <2>1, <2>2, <2>3
<1>6. Range(r) = Range(q) \ {q[k]}
    BY <1>4, <1>5 DEF Range
<1> QED BY <1>1, <1>3, <1>6 DEF Distinct, r

\* VTAILQ_INSERT_TAIL.
LEMMA AppendEntry ==
    ASSUME NEW S, NEW q \in Seq(S), NEW c \in S
    PROVE  /\ Append(q, c) \in Seq(S)
           /\ Range(Append(q, c)) = Range(q) \cup {c}
           /\ Distinct(q) /\ c \notin Range(q) => Distinct(Append(q, c))
<1> DEFINE r == Append(q, c)
<1>1. /\ r \in Seq(S) /\ Len(q) \in Nat /\ DOMAIN q = 1..Len(q)
      /\ DOMAIN r = 1..(Len(q) + 1)
    OBVIOUS
<1>2. r[Len(q) + 1] = c /\ \A i \in 1..Len(q) : r[i] = q[i]
    BY <1>1
<1> HIDE DEF r
<1>3. \A i \in DOMAIN r : i = Len(q) + 1 \/ i \in DOMAIN q
    BY <1>1
<1>4. Len(q) + 1 \in DOMAIN r /\ \A i \in DOMAIN q : i \in DOMAIN r
    BY <1>1
<1>5. Range(r) = Range(q) \cup {c}
    BY <1>1, <1>2, <1>3, <1>4 DEF Range
<1>6. Distinct(q) /\ c \notin Range(q) => Distinct(r)
    BY <1>1, <1>2, <1>3 DEF Distinct, Range
<1> QED BY <1>1, <1>5, <1>6 DEF r

\* The rest of a list after its first entry.
LEMMA TailEntry ==
    ASSUME NEW S, NEW q \in Seq(S), q # <<>>, Distinct(q)
    PROVE  /\ Head(q) \in S /\ Head(q) \in Range(q)
           /\ Tail(q) \in Seq(S)
           /\ Distinct(Tail(q))
           /\ Range(Tail(q)) = Range(q) \ {Head(q)}
<1> DEFINE r == Tail(q)
<1>1. /\ r \in Seq(S) /\ Len(q) \in Nat /\ Len(q) >= 1 /\ DOMAIN q = 1..Len(q)
      /\ DOMAIN r = 1..(Len(q) - 1) /\ Head(q) = q[1]
    OBVIOUS
<1>2. \A i \in 1..(Len(q) - 1) : r[i] = q[i + 1]
    BY <1>1
<1> HIDE DEF r
<1>3. \A i \in DOMAIN r : i + 1 \in DOMAIN q /\ i + 1 # 1
    BY <1>1
<1>4. \A i \in DOMAIN q : i # 1 => i - 1 \in DOMAIN r /\ r[i - 1] = q[i]
    BY <1>1, <1>2
<1>5. 1 \in DOMAIN q /\ q[1] \in S
    BY <1>1
<1>6. Distinct(r)
  <2>1. ASSUME NEW i \in DOMAIN r, NEW j \in DOMAIN r, r[i] = r[j] PROVE i = j
    <3>1. i + 1 = j + 1
        BY <1>1, <1>2, <1>3, <2>1 DEF Distinct
    <3> QED BY <1>1, <3>1
  <2> QED BY <2>1 DEF Distinct
<1>7. Range(r) = Range(q) \ {Head(q)}
  <2>1. \A i \in DOMAIN r : r[i] \in Range(q) \ {Head(q)}
      BY <1>1, <1>2, <1>3, <1>5 DEF Distinct, Range
  <2>2. \A u \in Range(q) \ {Head(q)} : \E i \in DOMAIN r : r[i] = u
      BY <1>1, <1>4 DEF Range
  <2> QED BY <2>1, <2>2 DEF Range
<1> QED BY <1>1, <1>5, <1>6, <1>7 DEF Range, r

\* VTAILQ_INSERT_HEAD.
LEMMA FrontEntry ==
    ASSUME NEW S, NEW q \in Seq(S), NEW c \in S
    PROVE  /\ <<c>> \o q \in Seq(S) /\ <<c>> \o q # <<>>
           /\ Range(<<c>> \o q) = Range(q) \cup {c}
           /\ Distinct(q) /\ c \notin Range(q) => Distinct(<<c>> \o q)
<1> DEFINE r == <<c>> \o q
<1>1. /\ r \in Seq(S) /\ Len(q) \in Nat /\ DOMAIN q = 1..Len(q)
      /\ Len(r) = Len(q) + 1 /\ DOMAIN r = 1..(Len(q) + 1)
    OBVIOUS
<1>2. r[1] = c /\ 1 \in DOMAIN r
    BY <1>1
<1>3. \A j \in DOMAIN q : r[j + 1] = q[j] /\ j + 1 \in DOMAIN r
    BY <1>1
<1>4. \A i \in DOMAIN r : i = 1 \/ (i - 1 \in DOMAIN q /\ r[i] = q[i - 1])
    BY <1>1
<1> HIDE DEF r
<1>5. Range(r) = Range(q) \cup {c}
    BY <1>2, <1>3, <1>4 DEF Range
<1>6. ASSUME Distinct(q), c \notin Range(q), NEW i \in DOMAIN r, NEW j \in DOMAIN r,
             r[i] = r[j]
      PROVE  i = j
  <2>1. i \in Nat /\ j \in Nat
      BY <1>1
  <2>2. CASE i = 1 \/ j = 1
      BY <1>2, <1>4, <1>6, <2>2 DEF Range
  <2>3. CASE i # 1 /\ j # 1
    <3>1. i - 1 = j - 1
        BY <1>4, <1>6, <2>3 DEF Distinct
    <3> QED BY <2>1, <3>1
  <2> QED BY <2>2, <2>3
<1>7. r # <<>>
    BY <1>1
<1> QED BY <1>1, <1>5, <1>6, <1>7 DEF Distinct, r

\* How many entries of a table are x, after one of them has changed.
Entries(S, f, x) == {u \in S : f[u] = x}
Unit(y, x) == IF y = x THEN 1 ELSE 0
ChangedAt(S, k, f, g) == k \in S /\ \A u \in S \ {k} : g[u] = f[u]
LEMMA EntriesMoved ==
    ASSUME NEW S, IsFiniteSet(S), NEW f, NEW g, NEW k, ChangedAt(S, k, f, g), NEW x
    PROVE  /\ Cardinality(Entries(S, f, x)) \in Nat /\ Cardinality(Entries(S, g, x)) \in Nat
           /\ Cardinality(Entries(S, g, x))
                = Cardinality(Entries(S, f, x)) + Unit(g[k], x) - Unit(f[k], x)
<1> DEFINE F == Entries(S, f, x)
           G == Entries(S, g, x)
<1>1. IsFiniteSet(F) /\ IsFiniteSet(G)
  <2>1. F \subseteq S /\ G \subseteq S
      BY DEF Entries
  <2> QED BY <2>1, FS_Subset
<1>2. (k \in F <=> f[k] = x) /\ (k \in G <=> g[k] = x) /\ F \ {k} = G \ {k}
    BY DEF Entries, ChangedAt
<1> HIDE DEF F, G
<1>3. Cardinality(F) \in Nat /\ Cardinality(G) \in Nat
    BY <1>1, FS_CardinalityType
<1>4. CASE g[k] = x <=> f[k] = x
  <2>1. F = G
      BY <1>2, <1>4
  <2>2. Unit(g[k], x) = Unit(f[k], x) /\ Unit(f[k], x) \in Nat
      BY <1>4 DEF Unit
  <2>3. Cardinality(G) = Cardinality(F) + Unit(g[k], x) - Unit(f[k], x)
      BY <1>3, <2>1, <2>2
  <2> QED BY <1>3, <2>3 DEF F, G
<1>5. CASE g[k] = x /\ f[k] # x
  <2>1. G = F \cup {k} /\ k \notin F
      BY <1>2, <1>5
  <2>2. Cardinality(G) = Cardinality(F) + 1
      BY <1>1, <2>1, FS_AddElement
  <2> QED BY <1>3, <1>5, <2>2 DEF Unit, F, G
<1>6. CASE g[k] # x /\ f[k] = x
  <2>1. G = F \ {k} /\ k \in F
      BY <1>2, <1>6
  <2>2. Cardinality(G) = Cardinality(F) - 1
      BY <1>1, <2>1, FS_RemoveElement
  <2> QED BY <1>3, <1>6, <2>2 DEF Unit, F, G
<1> QED BY <1>4, <1>5, <1>6

\* A list without duplicates has as many entries as elements.
LEMMA ListSize ==
    ASSUME NEW S, NEW q \in Seq(S), Distinct(q)
    PROVE  Cardinality(ToSet(q)) = Len(q)
<1>1. Len(q) \in Nat /\ DOMAIN q = 1..Len(q)
    OBVIOUS
<1>2. q \in [1..Len(q) -> ToSet(q)]
    BY <1>1 DEF ToSet
<1>3. \A y \in ToSet(q) : \E i \in 1..Len(q) : q[i] = y
    BY <1>1 DEF ToSet
<1>4. q \in Bijection(1..Len(q), ToSet(q))
    BY <1>1, <1>2, <1>3 DEF Bijection, Injection, Surjection, IsInjective, Distinct
<1> QED BY <1>1, <1>4, FS_CountingElements DEF ExistsBijection

=============================================================================
