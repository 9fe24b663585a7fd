------------------------- MODULE HashCritbitProofs -------------------------
(***************************************************************************)
(* The critbit hash, for any number of threads, nodes and objheads and for *)
(* digests of any width: a lookup without the lock never stands on freed   *)
(* memory, the tree finds every objhead that is in it, and the whole is a  *)
(* hash slinger.                                                           *)
(*                                                                         *)
(* The invariant does not mention paths: it says what each pointer of the  *)
(* tree has to do with the bits of the digests, with a prefix pre[y] that  *)
(* the digests below the node y share.  What a walk does follows from it,  *)
(* by taking a least counterexample.                                       *)
(***************************************************************************)
EXTENDS HashCritbit, TLAPS, WellFoundedInduction

BitStrings == [Bits -> {0, 1}]

\* What is in the tree, and the pointers of the tree.
TreeY == yused \ (cool_y \cup dead_y)
TreeH == {h \in Heads : digest[h] # None /\ h \notin cool_h \cup dead_h}
TreeSlots == {Root} \cup (TreeY \X {0, 1})

\* Memory that is not freed; and that is not about to be.
Used == yused \cup {h \in Heads : digest[h] # None}
Alive == (yused \ dead_y) \cup {h \in Heads : digest[h] # None /\ h \notin dead_h}

\* The digest d has the bits of the node y, and leads to the slot s.
Under(y, d, pre, cb) == \A j \in Bits : j < cb[y] => d[j] = pre[y][j]
Belongs(s, d, pre, cb) ==
    s = Root \/ (Under(s[1], d, pre, cb) /\ d[cb[s[1]]] = s[2])

\* The tree has no loose ends, and no two pointers to one thing.
Shape ==
    /\ ptr[Root] \in TreeY \cup TreeH \cup {None}
    /\ \A s \in TreeSlots : s # Root => ptr[s] \in TreeY \cup TreeH
    /\ \A s, u \in TreeSlots : ptr[s] = ptr[u] /\ ptr[s] # None => s = u
    /\ \A y \in TreeY : \E s \in TreeSlots : ptr[s] = y

\* Every pointer leads to what belongs there ...
Sorted(pre) ==
    \A s \in TreeSlots :
        /\ ptr[s] \in Ys => /\ Belongs(s, pre[ptr[s]], pre, critbit)
                            /\ s # Root => critbit[s[1]] < critbit[ptr[s]]
        /\ ptr[s] \in Heads => Belongs(s, digest[ptr[s]], pre, critbit)

\* ... and to everything that belongs there.
Complete(pre) ==
    \A s \in TreeSlots : \A h \in TreeH :
        Belongs(s, digest[h], pre, critbit) =>
            ptr[s] = h \/ (ptr[s] \in Ys /\ Under(ptr[s], digest[h], pre, critbit))

SearchTree == \E pre \in [Ys -> BitStrings] : Sorted(pre) /\ Complete(pre)

\* What was taken out of the tree leads to memory that is still there.
Outside ==
    /\ cool_y \cap dead_y = {} /\ cool_h \cap dead_h = {}
    /\ \A h \in cool_h \cup dead_h : digest[h] # None
    /\ \A y \in yused : \A b \in {0, 1} : ptr[<<y, b>>] \in Used
    /\ \A y \in yused \ dead_y : \A b \in {0, 1} : ptr[<<y, b>>] \in Alive

\* Where the threads are.
Walkers ==
    /\ \A t \in early : pc[t] \in {"walk", "found"}
    /\ \A t \in Threads :
          /\ pc[t] \in {"walk", "found"} => /\ at[t] \in Used
                                            /\ t \notin early => at[t] \in Alive
          /\ pc[t] = "found" => at[t] \in Heads /\ digest[at[t]] = want[t]
          /\ want[t] # None <=> pc[t] \in {"walk", "lock", "found"}

\* Who holds a reference, or takes the objhead out for want of one.
Counts ==
    /\ \A h \in Heads : refcnt[h] > 0 => h \in TreeH
    /\ \A t \in Threads : pc[t] = "delete" => /\ at[t] \in TreeH
                                              /\ refcnt[at[t]] = 0
                                              /\ mtx[at[t]] = t

IInv == TypeOK /\ Shape /\ SearchTree /\ Outside /\ Walkers /\ Counts

-----------------------------------------------------------------------------
(***************************************************************************)
(* Induction, as a least element                                           *)
(***************************************************************************)

\* A set of naturals that is not empty has a least element.
LEMMA LeastNat ==
    ASSUME NEW S \in SUBSET Nat, S # {}
    PROVE  \E m \in S : \A k \in S : m <= k
<1>1. \E m \in S : \A k \in S : ~(<<k, m>> \in OpToRel(<, Nat))
  BY WFMin, NatLessThanWellFounded, Zenon
<1>2. PICK m \in S : \A k \in S : ~(<<k, m>> \in OpToRel(<, Nat))
  BY <1>1
<1>3. \A k \in S : ~(k < m)
  BY <1>2 DEF OpToRel
<1>4. \A k \in S : m <= k
  BY <1>3
<1> QED
  BY <1>4

\* What holds of 0 and of n + 1 if it holds of n, holds up to N.
LEMMA UpTo ==
    ASSUME NEW N \in Nat, NEW G \in SUBSET Nat, 0 \in G,
           \A n \in 0..N : n \in G /\ n < N => n + 1 \in G
    PROVE  \A n \in 0..N : n \in G
<1> DEFINE B == {n \in 0..N : n \notin G}
<1> SUFFICES ASSUME B # {} PROVE FALSE
  OBVIOUS
<1>0. B \in SUBSET Nat
  OBVIOUS
<1>1. PICK m \in B : \A k \in B : m <= k
  <2> HIDE DEF B
  <2> QED
    BY <1>0, LeastNat
<1>2. m \in 0..N /\ m # 0 /\ m \notin G
  BY <1>1
<1>3. m - 1 \in 0..N /\ m - 1 < N /\ m = (m - 1) + 1
  BY <1>2
<1>4. m - 1 \in G
  BY <1>1, <1>3
<1> HIDE DEF B
<1> QED
  BY <1>2, <1>3, <1>4

\* g has the first N iterations of F, from r on.
Iterates(g, S, F, r, N) ==
    /\ g \in [0..N -> S] /\ g[0] = r
    /\ \A n \in 0..N : n # 0 => g[n] = F[g[n - 1]]

\* A function can be iterated any number of times.
LEMMA Iterate ==
    ASSUME NEW S, NEW F \in [S -> S], NEW r \in S, NEW N \in Nat
    PROVE  \E g : Iterates(g, S, F, r, N)
<1> DEFINE Good(g, k) == g[0] = r /\ \A n \in 0..k : n # 0 => g[n] = F[g[n - 1]]
           G == {k \in Nat : \E g \in [0..k -> S] : Good(g, k)}
<1>1. 0 \in G
  <2> DEFINE g == [n \in 0..0 |-> r]
  <2>1. g \in [0..0 -> S] /\ Good(g, 0)
    OBVIOUS
  <2> QED
    BY <2>1
<1>2. ASSUME NEW k \in 0..N, k \in G, k < N PROVE k + 1 \in G
  <2>1. PICK g \in [0..k -> S] : Good(g, k)
    BY <1>2
  <2> DEFINE f == [n \in 0..(k + 1) |-> IF n = k + 1 THEN F[g[k]] ELSE g[n]]
  <2>2. k \in 0..k /\ g[k] \in S
    OBVIOUS
  <2>3. f \in [0..(k + 1) -> S]
    BY <2>2
  <2>4. f[0] = r
    BY <2>1
  <2>5. ASSUME NEW n \in 0..(k + 1), n # 0 PROVE f[n] = F[f[n - 1]]
    <3>1. n - 1 \in 0..k /\ f[n - 1] = g[n - 1]
      BY <2>5
    <3>2. CASE n = k + 1
      BY <3>1, <3>2
    <3>3. CASE n # k + 1
      <4>1. n \in 0..k /\ f[n] = g[n]
        BY <2>5, <3>3
      <4> QED
        BY <4>1, <3>1, <2>1, <2>5
    <3> QED
      BY <3>2, <3>3
  <2> HIDE DEF f
  <2>6. Good(f, k + 1)
    BY <2>4, <2>5
  <2>7. k + 1 \in Nat
    OBVIOUS
  <2> QED
    BY <2>3, <2>6, <2>7
<1>3. G \in SUBSET Nat
  OBVIOUS
<1>4. N \in G
  <2> HIDE DEF G
  <2> QED
    BY <1>1, <1>2, <1>3, UpTo
<1> QED
  BY <1>4 DEF Iterates

-----------------------------------------------------------------------------
(***************************************************************************)
(* The walk down the tree                                                  *)
(***************************************************************************)

\* The recursion of Path has a solution: what is said of the n-th slot holds.
LEMMA PathSolves ==
    ASSUME TypeOK, NEW d \in BitStrings
    PROVE  Path(d) = [n \in 0..Width |->
                        IF n = 0 THEN Root
                        ELSE IF ptr[Path(d)[n - 1]] \in Ys
                             THEN Below(ptr[Path(d)[n - 1]], d)
                             ELSE Path(d)[n - 1]]
<1> DEFINE F == [s \in Slots |-> IF ptr[s] \in Ys THEN Below(ptr[s], d) ELSE s]
<1>1. F \in [Slots -> Slots]
  <2> SUFFICES ASSUME NEW s \in Slots, ptr[s] \in Ys
               PROVE  Below(ptr[s], d) \in Slots
    OBVIOUS
  <2>1. critbit[ptr[s]] \in Bits
    BY DEF TypeOK
  <2> QED
    BY <2>1 DEF Below, Slots, BitStrings
<1>2. Root \in Slots /\ Width \in Nat
  BY CritbitConstants DEF Slots
<1>3. PICK g \in [0..Width -> Slots] :
         g[0] = Root /\ \A n \in 0..Width : n # 0 => g[n] = F[g[n - 1]]
  <2>1. PICK f : f = F
    OBVIOUS
  <2>2. PICK S : S = Slots
    OBVIOUS
  <2>3. f \in [S -> S]
    BY <1>1, <2>1, <2>2
  <2>5. Root \in S
    BY <1>2, <2>2
  <2>6. Width \in Nat
    BY <1>2
  <2>4. PICK g : Iterates(g, S, f, Root, Width)
    BY <2>3, <2>5, <2>6, Iterate
  <2> HIDE DEF F
  <2> QED
    BY <2>1, <2>2, <2>4 DEF Iterates
<1>4. ASSUME NEW n \in 0..Width, n # 0
      PROVE  g[n] = IF ptr[g[n - 1]] \in Ys THEN Below(ptr[g[n - 1]], d)
                    ELSE g[n - 1]
  <2>1. n - 1 \in 0..Width
    BY <1>4, <1>2
  <2>2. g[n - 1] \in Slots
    BY <2>1
  <2>3. g[n] = F[g[n - 1]]
    BY <1>3, <1>4
  <2> QED
    BY <2>2, <2>3
<1>5. g = [n \in 0..Width |->
             IF n = 0 THEN Root
             ELSE IF ptr[g[n - 1]] \in Ys THEN Below(ptr[g[n - 1]], d)
             ELSE g[n - 1]]
  BY <1>3, <1>4
<1> QED
  BY <1>5 DEF Path

\* The slots of a walk, one below the other.
IsPath(p, d) ==
    /\ p \in [0..Width -> Slots]
    /\ p[0] = Root
    /\ \A n \in 0..Width : n < Width =>
          /\ ptr[p[n]] \in Ys => p[n + 1] = Below(ptr[p[n]], d)
          /\ ptr[p[n]] \notin Ys => p[n + 1] = p[n]

\* Path is such a walk.
LEMMA PathStep ==
    ASSUME TypeOK, NEW d \in BitStrings
    PROVE  IsPath(Path(d), d)
<1>1. PICK p : p = Path(d)
  OBVIOUS
<1>2. p = [n \in 0..Width |->
             IF n = 0 THEN Root
             ELSE IF ptr[p[n - 1]] \in Ys THEN Below(ptr[p[n - 1]], d)
             ELSE p[n - 1]]
  BY <1>1, PathSolves
<1>3. Width \in Nat
  BY CritbitConstants
<1>4. p[0] = Root
  BY <1>2, <1>3
<1>5. ASSUME NEW n \in 0..Width, n < Width
      PROVE  p[n + 1] = IF ptr[p[n]] \in Ys THEN Below(ptr[p[n]], d) ELSE p[n]
  <2>1. n + 1 \in 0..Width /\ n + 1 # 0 /\ (n + 1) - 1 = n
    BY <1>3, <1>5
  <2> QED
    BY <2>1, <1>2
<1> DEFINE G == {n \in 0..Width : p[n] \in Slots}
<1>6. \A n \in 0..Width : n \in G
  <2>1. 0 \in G
    BY <1>3, <1>4 DEF Slots
  <2>2. ASSUME NEW n \in 0..Width, n \in G, n < Width PROVE n + 1 \in G
    <3>1. n + 1 \in 0..Width /\ p[n] \in Slots
      BY <1>3, <2>2
    <3>2. CASE ptr[p[n]] \in Ys
      <4>1. critbit[ptr[p[n]]] \in Bits
        BY <3>2 DEF TypeOK
      <4>2. Below(ptr[p[n]], d) \in Slots
        BY <4>1, <3>2 DEF Below, Slots, BitStrings
      <4> QED
        BY <4>2, <3>1, <3>2, <1>5, <2>2
    <3>3. CASE ptr[p[n]] \notin Ys
      BY <3>1, <3>3, <1>5, <2>2
    <3> QED
      BY <3>2, <3>3
  <2>3. G \in SUBSET Nat
    BY <1>3
  <2> HIDE DEF G
  <2> QED
    BY <1>3, <2>1, <2>2, <2>3, UpTo
<1>7. p \in [0..Width -> Slots]
  BY <1>2, <1>6
<1> QED
  BY <1>1, <1>4, <1>5, <1>7 DEF IsPath

\* A pointer of the tree to a node or to an objhead is to one in the tree.
LEMMA InTree ==
    ASSUME TypeOK, Shape, NEW s \in TreeSlots
    PROVE  /\ s \in Slots
           /\ ptr[s] \in Ys => ptr[s] \in TreeY
           /\ ptr[s] \in Heads => ptr[s] \in TreeH
           /\ ptr[s] \in TreeY \cup TreeH \cup {None}
           /\ s # Root => s[1] \in TreeY /\ s[2] \in {0, 1} /\ s = <<s[1], s[2]>>
<1>1. TreeY \subseteq Ys /\ TreeH \subseteq Heads
  BY DEF TypeOK, TreeY, TreeH
<1>2. ptr[s] \in TreeY \cup TreeH \cup {None}
  BY DEF Shape
<1>3. None \notin Ys /\ None \notin Heads /\ Heads \cap Ys = {}
  BY CritbitConstants
<1>4. s # Root => s \in TreeY \X {0, 1}
  BY DEF TreeSlots
<1>5. s \in Slots
  BY <1>1, <1>4 DEF Slots
<1>6. s # Root => s[1] \in TreeY /\ s[2] \in {0, 1} /\ s = <<s[1], s[2]>>
  BY <1>4
<1> QED
  BY <1>1, <1>2, <1>3, <1>5, <1>6

\* A walk stays in the tree.
LEMMA PathInTree ==
    ASSUME TypeOK, Shape, NEW d \in BitStrings, NEW p, IsPath(p, d)
    PROVE  \A n \in 0..Width : p[n] \in TreeSlots
<1> DEFINE G == {n \in 0..Width : p[n] \in TreeSlots}
<1>1. Width \in Nat /\ G \in SUBSET Nat
  BY CritbitConstants
<1>2. 0 \in G
  BY <1>1 DEF IsPath, TreeSlots
<1>3. ASSUME NEW n \in 0..Width, n \in G, n < Width PROVE n + 1 \in G
  <2>1. n + 1 \in 0..Width /\ p[n] \in TreeSlots
    BY <1>1, <1>3
  <2>2. CASE ptr[p[n]] \in Ys
    <3>1. ptr[p[n]] \in TreeY
      BY <2>1, <2>2, InTree
    <3>2. critbit[ptr[p[n]]] \in Bits
      BY <2>2 DEF TypeOK
    <3>3. Below(ptr[p[n]], d) \in TreeSlots
      BY <3>1, <3>2 DEF Below, TreeSlots, BitStrings
    <3> QED
      BY <1>3, <2>1, <2>2, <3>3 DEF IsPath
  <2>3. CASE ptr[p[n]] \notin Ys
    BY <1>3, <2>1, <2>3 DEF IsPath
  <2> QED
    BY <2>2, <2>3
<1> HIDE DEF G
<1>4. \A n \in 0..Width : n \in G
  BY <1>1, <1>2, <1>3, UpTo
<1> QED
  BY <1>4 DEF G

\* Each node of a walk tests a later bit than the one before, so the walk is at
\* an objhead, or at an empty root, when all the bits have been tested.
LEMMA PathDeep ==
    ASSUME TypeOK, Shape, NEW pre, Sorted(pre),
           NEW d \in BitStrings, NEW p, IsPath(p, d)
    PROVE  /\ \A n \in 0..Width : ptr[p[n]] \in Ys => n <= critbit[ptr[p[n]]]
           /\ ptr[p[Width]] \notin Ys
<1> DEFINE G == {n \in 0..Width : ptr[p[n]] \in Ys => n <= critbit[ptr[p[n]]]}
<1>1. Width \in Nat /\ G \in SUBSET Nat /\ Width \in 0..Width
  BY CritbitConstants
<1>2. \A n \in 0..Width : p[n] \in TreeSlots
  BY PathInTree
<1>3. \A n \in 0..Width : ptr[p[n]] \in Ys => critbit[ptr[p[n]]] \in 0..(Width - 1)
  BY DEF TypeOK, Bits
<1>4. 0 \in G
  BY <1>1, <1>3
<1>5. ASSUME NEW n \in 0..Width, n \in G, n < Width PROVE n + 1 \in G
  <2>1. n + 1 \in 0..Width
    BY <1>1, <1>5
  <2> SUFFICES ASSUME ptr[p[n + 1]] \in Ys PROVE n + 1 <= critbit[ptr[p[n + 1]]]
    BY <2>1
  <2>2. ptr[p[n]] \in Ys
    BY <1>5 DEF IsPath
  <2>3. p[n + 1] = <<ptr[p[n]], d[critbit[ptr[p[n]]]]>>
    BY <1>5, <2>2 DEF IsPath, Below
  <2>4. p[n + 1] # Root
    <3>1. d[critbit[ptr[p[n]]]] \in {0, 1}
      BY <2>2 DEF TypeOK, BitStrings
    <3> QED
      BY <2>2, <2>3, <3>1, CritbitConstants
  <2>5. critbit[p[n + 1][1]] < critbit[ptr[p[n + 1]]]
    BY <1>2, <2>1, <2>4 DEF Sorted
  <2>6. critbit[ptr[p[n]]] < critbit[ptr[p[n + 1]]]
    BY <2>3, <2>5
  <2> QED
    BY <1>3, <1>5, <2>1, <2>2, <2>6
<1> HIDE DEF G
<1>6. \A n \in 0..Width : n \in G
  BY <1>1, <1>4, <1>5, UpTo
<1> QED
  BY <1>1, <1>3, <1>6 DEF G

\* Past a node the walk goes on to later bits ...
LEMMA PathAscends ==
    ASSUME TypeOK, Shape, NEW pre, Sorted(pre),
           NEW d \in BitStrings, NEW p, IsPath(p, d),
           NEW k \in 0..Width, ptr[p[k]] \in Ys
    PROVE  \A n \in 0..Width : k < n =>
              p[n] # Root /\ critbit[ptr[p[k]]] <= critbit[p[n][1]]
<1> DEFINE G == {n \in 0..Width : k < n => p[n] # Root
                                   /\ critbit[ptr[p[k]]] <= critbit[p[n][1]]}
<1>1. Width \in Nat /\ G \in SUBSET Nat /\ k \in Nat
  BY CritbitConstants
<1>2. \A n \in 0..Width : p[n] \in TreeSlots
  BY PathInTree
<1>3. \A y \in Ys : critbit[y] \in Nat
  BY DEF TypeOK, Bits
<1>4. 0 \in G
  BY <1>1
<1>5. ASSUME NEW n \in 0..Width, n \in G, n < Width PROVE n + 1 \in G
  <2>1. n + 1 \in 0..Width
    BY <1>1, <1>5
  <2> SUFFICES ASSUME k < n + 1
               PROVE  /\ p[n + 1] # Root
                      /\ critbit[ptr[p[k]]] <= critbit[p[n + 1][1]]
    BY <2>1
  <2>2. CASE ptr[p[n]] \in Ys
    <3>1. p[n + 1] = <<ptr[p[n]], d[critbit[ptr[p[n]]]]>>
      BY <1>5, <2>2 DEF IsPath, Below
    <3>2. d[critbit[ptr[p[n]]]] \in {0, 1}
      BY <2>2 DEF TypeOK, BitStrings
    <3>3. p[n + 1] # Root /\ p[n + 1][1] = ptr[p[n]]
      BY <2>2, <3>1, <3>2, CritbitConstants
    <3>4. CASE n = k
      BY <1>3, <3>3, <3>4
    <3>5. CASE k < n
      <4>1. p[n] # Root /\ critbit[ptr[p[k]]] <= critbit[p[n][1]]
        BY <1>5, <3>5
      <4>2. critbit[p[n][1]] < critbit[ptr[p[n]]]
        BY <1>2, <2>2, <4>1 DEF Sorted
      <4>3. p[n][1] \in Ys
        BY <1>2, <4>1, InTree DEF TreeY, TypeOK
      <4> QED
        BY <1>3, <2>2, <3>3, <4>1, <4>2, <4>3
    <3> QED
      BY <1>1, <3>4, <3>5
  <2>3. CASE ptr[p[n]] \notin Ys
    <3>1. p[n + 1] = p[n] /\ n # k
      BY <1>5, <2>3 DEF IsPath
    <3>2. k < n
      BY <1>1, <3>1
    <3> QED
      BY <1>5, <3>1, <3>2
  <2> QED
    BY <2>2, <2>3
<1> HIDE DEF G
<1>6. \A n \in 0..Width : n \in G
  BY <1>1, <1>4, <1>5, UpTo
<1> QED
  BY <1>6 DEF G

\* ... and at the end of the walk it stays.
LEMMA PathStays ==
    ASSUME NEW d \in BitStrings, NEW p, IsPath(p, d),
           NEW k \in 0..Width, ptr[p[k]] \notin Ys
    PROVE  \A n \in 0..Width : k <= n => p[n] = p[k]
<1> DEFINE G == {n \in 0..Width : k <= n => p[n] = p[k]}
<1>1. Width \in Nat /\ G \in SUBSET Nat /\ k \in Nat
  BY CritbitConstants
<1>2. 0 \in G
  BY <1>1
<1>3. ASSUME NEW n \in 0..Width, n \in G, n < Width PROVE n + 1 \in G
  <2>1. n + 1 \in 0..Width
    BY <1>1, <1>3
  <2>2. CASE k <= n
    BY <1>3, <2>1, <2>2 DEF IsPath
  <2>3. CASE k = n + 1
    BY <2>1, <2>3
  <2>4. CASE k > n + 1
    BY <2>1, <2>4, <1>1
  <2> QED
    BY <1>1, <2>2, <2>3, <2>4
<1> HIDE DEF G
<1>4. \A n \in 0..Width : n \in G
  BY <1>1, <1>2, <1>3, UpTo
<1> QED
  BY <1>4 DEF G

-----------------------------------------------------------------------------
(***************************************************************************)
(* The digests in the tree                                                 *)
(***************************************************************************)

\* What has the bits of a node belongs to the pointer to it.
LEMMA UnderBelongs ==
    ASSUME TypeOK, Shape, NEW pre, Sorted(pre), NEW s \in TreeSlots,
           NEW e, ptr[s] \in Ys, Under(ptr[s], e, pre, critbit)
    PROVE  Belongs(s, e, pre, critbit)
<1> SUFFICES ASSUME s # Root PROVE Belongs(s, e, pre, critbit)
  BY DEF Belongs
<1> DEFINE y == ptr[s]
           z == s[1]
<1>1. /\ Under(z, pre[y], pre, critbit) /\ pre[y][critbit[z]] = s[2]
      /\ critbit[z] < critbit[y]
  BY DEF Sorted, Belongs
<1>2. z \in Ys /\ y \in Ys
  BY InTree DEF TreeY, TypeOK
<1>3. critbit[z] \in Bits /\ critbit[y] \in Bits /\ \A j \in Bits : j \in Int
  BY <1>2 DEF TypeOK, Bits
<1>4. \A j \in Bits : j < critbit[y] => e[j] = pre[y][j]
  BY DEF Under
<1> HIDE DEF y, z
<1>5. \A j \in Bits : j < critbit[z] => e[j] = pre[z][j]
  BY <1>1, <1>3, <1>4 DEF Under
<1>6. e[critbit[z]] = s[2]
  BY <1>1, <1>3, <1>4
<1> QED
  BY <1>5, <1>6 DEF Belongs, Under, z

\* Whatever a digest belongs to is on its walk.
LEMMA OnPath ==
    ASSUME TypeOK, Shape, NEW pre, Sorted(pre),
           NEW d \in BitStrings, NEW p, IsPath(p, d)
    PROVE  \A s \in TreeSlots : Belongs(s, d, pre, critbit) => \E n \in 0..Width : p[n] = s
<1> DEFINE Lost(s) == s \in TreeSlots /\ Belongs(s, d, pre, critbit)
                       /\ \A n \in 0..Width : p[n] # s
           B == {critbit[s[1]] : s \in {u \in TreeSlots : Lost(u)}}
<1>1. \A s \in TreeSlots : Lost(s) => s # Root
  BY CritbitConstants DEF IsPath
<1>2. ASSUME NEW s \in TreeSlots, Lost(s)
      PROVE  \E u \in TreeSlots : Lost(u) /\ critbit[u[1]] < critbit[s[1]]
  <2>1. s # Root /\ s[1] \in TreeY /\ s = <<s[1], s[2]>>
    BY <1>1, <1>2, InTree
  <2>2. PICK u \in TreeSlots : ptr[u] = s[1]
    BY <2>1 DEF Shape
  <2>3. ptr[u] \in Ys
    BY <2>1, <2>2 DEF TreeY, TypeOK
  <2>4. Under(s[1], d, pre, critbit) /\ d[critbit[s[1]]] = s[2]
    BY <1>2, <2>1 DEF Belongs
  <2>5. Belongs(u, d, pre, critbit)
    BY <2>2, <2>3, <2>4, UnderBelongs
  <2>6. \A n \in 0..Width : p[n] # u
    <3> SUFFICES ASSUME NEW n \in 0..Width, p[n] = u PROVE FALSE
      OBVIOUS
    <3>1. n # Width
      BY <2>3, PathDeep
    <3>2. n < Width /\ n + 1 \in 0..Width
      BY <3>1, CritbitConstants
    <3>3. p[n + 1] = <<s[1], d[critbit[s[1]]]>>
      BY <2>2, <2>3, <3>2 DEF IsPath, Below
    <3> QED
      BY <1>2, <2>1, <2>4, <3>2, <3>3
  <2>7. Lost(u)
    BY <2>5, <2>6
  <2>8. u # Root
    BY <1>1, <2>7
  <2>9. critbit[u[1]] < critbit[s[1]]
    BY <2>2, <2>3, <2>8 DEF Sorted
  <2> QED
    BY <2>7, <2>9
<1>3. \A s \in TreeSlots : Lost(s) => critbit[s[1]] \in Nat
  BY <1>1, InTree DEF TypeOK, Bits, TreeY
<1> HIDE DEF Lost
<1>4. B \in SUBSET Nat
  BY <1>3
<1>5. B = {}
  <2> SUFFICES ASSUME B # {} PROVE FALSE
    OBVIOUS
  <2>1. PICK m \in B : \A k \in B : m <= k
    <3> HIDE DEF B
    <3> QED
      BY <1>4, LeastNat
  <2>2. PICK s \in TreeSlots : Lost(s) /\ m = critbit[s[1]]
    OBVIOUS
  <2>3. PICK u \in TreeSlots : Lost(u) /\ critbit[u[1]] < critbit[s[1]]
    BY <1>2, <2>2
  <2>4. critbit[u[1]] \in B
    BY <2>3
  <2> QED
    BY <1>3, <2>1, <2>2, <2>3, <2>4
<1>6. \A s \in TreeSlots : ~Lost(s)
  BY <1>5
<1> QED
  BY <1>6 DEF Lost

\* The digests of objheads are strings of bits.
LEMMA HeadBits ==
    ASSUME TypeOK, NEW h \in TreeH
    PROVE  h \in Heads /\ digest[h] \in Digests /\ digest[h] \in BitStrings
BY CritbitConstants DEF TypeOK, TreeH, BitStrings

\* The walk for the digest of an objhead in the tree belongs to it all the way,
\* and ends at it.
LEMMA HeadFound ==
    ASSUME TypeOK, Shape, NEW pre, Sorted(pre), Complete(pre),
           NEW h \in TreeH, NEW p, IsPath(p, digest[h])
    PROVE  /\ \A n \in 0..Width : Belongs(p[n], digest[h], pre, critbit)
           /\ ptr[p[Width]] = h
<1> DEFINE d == digest[h]
           G == {n \in 0..Width : Belongs(p[n], d, pre, critbit)}
<1>1. Width \in Nat /\ G \in SUBSET Nat /\ Width \in 0..Width
  BY CritbitConstants
<1>2. d \in BitStrings
  BY HeadBits
<1>3. \A n \in 0..Width : p[n] \in TreeSlots
  BY <1>2, PathInTree
<1>4. 0 \in G
  BY <1>1 DEF IsPath, Belongs
<1>5. ASSUME NEW n \in 0..Width, n \in G, n < Width PROVE n + 1 \in G
  <2>1. n + 1 \in 0..Width
    BY <1>1, <1>5
  <2>2. CASE ptr[p[n]] \in Ys
    <3>1. ptr[p[n]] # h
      BY <2>2, HeadBits, CritbitConstants
    <3>2. Under(ptr[p[n]], d, pre, critbit)
      BY <1>3, <1>5, <3>1 DEF Complete
    <3>3. p[n + 1] = <<ptr[p[n]], d[critbit[ptr[p[n]]]]>>
      BY <1>5, <2>2 DEF IsPath, Below
    <3>4. p[n + 1][1] = ptr[p[n]] /\ p[n + 1][2] = d[critbit[ptr[p[n]]]]
      BY <3>3
    <3>5. Belongs(p[n + 1], d, pre, critbit)
      BY <3>2, <3>4 DEF Belongs
    <3> QED
      BY <2>1, <3>5
  <2>3. CASE ptr[p[n]] \notin Ys
    BY <1>5, <2>1, <2>3 DEF IsPath
  <2> QED
    BY <2>2, <2>3
<1> HIDE DEF G
<1>6. \A n \in 0..Width : n \in G
  BY <1>1, <1>4, <1>5, UpTo
<1>7. \A n \in 0..Width : Belongs(p[n], digest[h], pre, critbit)
  BY <1>6 DEF G
<1>8. ptr[p[Width]] \notin Ys
  BY <1>2, PathDeep
<1>9. ptr[p[Width]] = h
  BY <1>1, <1>3, <1>7, <1>8 DEF Complete
<1> QED
  BY <1>7, <1>9

\* Wherever a walk ends, what it ends at belongs to all of the walk.
LEMMA EndBelongs ==
    ASSUME TypeOK, Shape, NEW pre, Sorted(pre),
           NEW d \in BitStrings, NEW p, IsPath(p, d),
           NEW e, ptr[p[Width]] \in Heads, e = digest[ptr[p[Width]]]
    PROVE  \A n \in 0..Width : Belongs(p[n], e, pre, critbit)
<1> DEFINE G == {k \in 0..Width : Belongs(p[Width - k], e, pre, critbit)}
<1>1. Width \in Nat /\ G \in SUBSET Nat /\ Width \in 0..Width
  BY CritbitConstants
<1>2. \A n \in 0..Width : p[n] \in TreeSlots
  BY PathInTree
<1>3. 0 \in G
  <2>1. Belongs(p[Width], e, pre, critbit)
    BY <1>1, <1>2 DEF Sorted
  <2>2. Width - 0 = Width /\ 0 \in 0..Width
    BY <1>1
  <2> QED
    BY <2>1, <2>2
<1>4. ASSUME NEW k \in 0..Width, k \in G, k < Width PROVE k + 1 \in G
  <2>1. PICK n : n = Width - (k + 1)
    OBVIOUS
  <2>2. k + 1 \in 0..Width /\ n \in 0..Width /\ n < Width /\ n + 1 = Width - k
    BY <1>1, <1>4, <2>1
  <2>3. Belongs(p[n + 1], e, pre, critbit)
    BY <1>4, <2>2
  <2>4. CASE ptr[p[n]] \in Ys
    <3>1. p[n + 1] = <<ptr[p[n]], d[critbit[ptr[p[n]]]]>>
      BY <2>2, <2>4 DEF IsPath, Below
    <3>2. d[critbit[ptr[p[n]]]] \in {0, 1}
      BY <2>4 DEF TypeOK, BitStrings
    <3>3. p[n + 1] # Root /\ p[n + 1][1] = ptr[p[n]]
      BY <2>4, <3>1, <3>2, CritbitConstants
    <3>4. Under(ptr[p[n]], e, pre, critbit)
      BY <2>3, <3>3 DEF Belongs
    <3>5. Belongs(p[n], e, pre, critbit)
      BY <1>2, <2>2, <2>4, <3>4, UnderBelongs
    <3> QED
      BY <2>1, <2>2, <3>5
  <2>5. CASE ptr[p[n]] \notin Ys
    <3>1. p[n + 1] = p[n]
      BY <2>2, <2>5 DEF IsPath
    <3> QED
      BY <2>1, <2>2, <2>3, <3>1
  <2> QED
    BY <2>4, <2>5
<1> HIDE DEF G
<1>5. \A k \in 0..Width : k \in G
  BY <1>1, <1>3, <1>4, UpTo
<1>6. ASSUME NEW n \in 0..Width PROVE Belongs(p[n], e, pre, critbit)
  <2>1. PICK k : k = Width - n
    OBVIOUS
  <2>2. k \in 0..Width /\ Width - k = n
    BY <1>1, <2>1
  <2>3. k \in G
    BY <1>5, <2>2
  <2> QED
    BY <2>2, <2>3 DEF G
<1> QED
  BY <1>6

\* Without a node at the root there is none at all.
LEMMA NoNodes ==
    ASSUME TypeOK, Shape, NEW pre, Sorted(pre), ptr[Root] \notin Ys
    PROVE  TreeY = {}
<1> DEFINE B == {critbit[y] : y \in TreeY}
<1>1. TreeY \subseteq Ys /\ \A y \in TreeY : critbit[y] \in Nat
  BY DEF TreeY, TypeOK, Bits
<1>2. ASSUME NEW y \in TreeY PROVE \E z \in TreeY : critbit[z] < critbit[y]
  <2>1. PICK s \in TreeSlots : ptr[s] = y
    BY DEF Shape
  <2>2. s # Root /\ ptr[s] \in Ys
    BY <1>1, <2>1
  <2>3. s[1] \in TreeY
    BY <2>2, InTree
  <2> QED
    BY <2>1, <2>2, <2>3 DEF Sorted
<1>3. B \in SUBSET Nat
  BY <1>1
<1> SUFFICES ASSUME TreeY # {} PROVE FALSE
  OBVIOUS
<1>4. B # {}
  OBVIOUS
<1>5. PICK m \in B : \A k \in B : m <= k
  <2> HIDE DEF B
  <2> QED
    BY <1>3, <1>4, LeastNat
<1>6. PICK y \in TreeY : m = critbit[y]
  OBVIOUS
<1>7. PICK z \in TreeY : critbit[z] < critbit[y]
  BY <1>2
<1> QED
  BY <1>1, <1>5, <1>6, <1>7

-----------------------------------------------------------------------------
(***************************************************************************)
(* What the invariant gives                                                *)
(***************************************************************************)

\* Nobody stands on freed memory: what is used is a node or an objhead.
LEMMA InvNoDangling == IInv => NoDangling
BY DEF IInv, Walkers, Used, NoDangling

\* The walk for a digest finds its objhead, if that is in the tree.
LEMMA InvFindable == IInv => Findable
<1> SUFFICES ASSUME IInv, NEW h \in Heads, digest[h] # None
             PROVE  LET p == Path(digest[h])
                        nodes == {n \in 0..Width : ptr[p[n]] \in Ys}
                    IN  IF h \in cool_h \cup dead_h
                        THEN refcnt[h] = 0 /\ ptr[Bottom(digest[h])] # h
                        ELSE /\ ptr[Bottom(digest[h])] = h
                             /\ \A n \in nodes :
                                   /\ ptr[p[n]] \in yused \ (cool_y \cup dead_y)
                                   /\ \A k \in nodes : k < n =>
                                         critbit[ptr[p[k]]] < critbit[ptr[p[n]]]
  BY DEF Findable
<1>1. TypeOK /\ Shape /\ Counts /\ digest[h] \in BitStrings
  BY CritbitConstants DEF IInv, TypeOK, BitStrings
<1>2. PICK pre : Sorted(pre) /\ Complete(pre)
  BY DEF IInv, SearchTree
<1>3. PICK p : p = Path(digest[h])
  OBVIOUS
<1>4. IsPath(p, digest[h]) /\ ptr[Bottom(digest[h])] = ptr[p[Width]]
  BY <1>1, <1>3, PathStep DEF Bottom
<1>5. (\A n \in 0..Width : p[n] \in TreeSlots) /\ Width \in 0..Width
  BY <1>1, <1>4, PathInTree, CritbitConstants
<1>6. CASE h \in cool_h \cup dead_h
  <2>1. h \notin TreeH
    BY <1>6 DEF TreeH
  <2>2. refcnt[h] = 0
    BY <1>1, <2>1 DEF Counts, TypeOK
  <2>3. ptr[p[Width]] # h
    BY <1>1, <1>5, <2>1, InTree
  <2> QED
    BY <1>4, <1>6, <2>2, <2>3
<1>7. CASE h \notin cool_h \cup dead_h
  <2>1. h \in TreeH
    BY <1>7 DEF TreeH
  <2>2. ptr[p[Width]] = h
    BY <1>1, <1>2, <1>4, <2>1, HeadFound
  <2>3. ASSUME NEW n \in 0..Width, ptr[p[n]] \in Ys
        PROVE  ptr[p[n]] \in yused \ (cool_y \cup dead_y)
    BY <1>1, <1>5, <2>3, InTree DEF TreeY
  <2>4. ASSUME NEW n \in 0..Width, ptr[p[n]] \in Ys,
               NEW k \in 0..Width, ptr[p[k]] \in Ys, k < n
        PROVE  critbit[ptr[p[k]]] < critbit[ptr[p[n]]]
    <3>1. p[n] # Root /\ critbit[ptr[p[k]]] <= critbit[p[n][1]]
      BY <1>1, <1>2, <1>4, <2>4, PathAscends
    <3>2. critbit[p[n][1]] < critbit[ptr[p[n]]] /\ p[n][1] \in Ys
      BY <1>1, <1>2, <1>5, <2>4, <3>1, InTree DEF Sorted, TreeY, TypeOK
    <3>3. \A y \in Ys : critbit[y] \in Nat
      BY <1>1 DEF TypeOK, Bits
    <3> QED
      BY <2>4, <3>1, <3>2, <3>3
  <2> QED
    BY <1>3, <1>4, <1>7, <2>2, <2>3, <2>4
<1> QED
  BY <1>6, <1>7

\* Two objheads in the tree have different digests.
Distinct == \A g, h \in TreeH : digest[g] = digest[h] => g = h

\* They would be at the end of the same walk.
LEMMA InvDistinct == IInv => Distinct
<1> SUFFICES ASSUME IInv, NEW g \in TreeH, NEW h \in TreeH, digest[g] = digest[h]
             PROVE  g = h
  BY DEF Distinct
<1>1. TypeOK /\ Shape /\ digest[h] \in BitStrings
  BY HeadBits DEF IInv
<1>2. PICK pre : Sorted(pre) /\ Complete(pre)
  BY DEF IInv, SearchTree
<1>3. PICK p : p = Path(digest[h])
  OBVIOUS
<1>4. IsPath(p, digest[h]) /\ IsPath(p, digest[g])
  BY <1>1, <1>3, PathStep
<1> QED
  BY <1>1, <1>2, <1>4, HeadFound

-----------------------------------------------------------------------------
(***************************************************************************)
(* The first state                                                         *)
(***************************************************************************)

\* The tree is empty and nobody looks for anything.
LEMMA InitInv == Init => IInv
<1> SUFFICES ASSUME Init PROVE IInv
  OBVIOUS
<1>1. 0 \in Bits /\ None \notin Heads /\ None \notin Ys
  BY CritbitConstants DEF Bits
<1>2. TypeOK
  BY <1>1 DEF Init, TypeOK, Ptrs
<1>3. TreeY = {} /\ TreeH = {} /\ TreeSlots = {Root} /\ ptr[Root] = None
  BY DEF Init, TreeY, TreeH, TreeSlots, Slots
<1>4. Shape
  BY <1>3 DEF Shape
<1>5. SearchTree
  <2> DEFINE pre == [y \in Ys |-> [j \in Bits |-> 0]]
  <2>1. pre \in [Ys -> BitStrings]
    BY DEF BitStrings
  <2> HIDE DEF pre
  <2>2. Sorted(pre) /\ Complete(pre)
    BY <1>1, <1>3 DEF Sorted, Complete
  <2> QED
    BY <2>1, <2>2 DEF SearchTree
<1>6. Outside /\ Walkers /\ Counts
  BY DEF Init, Outside, Walkers, Counts
<1> QED
  BY <1>2, <1>4, <1>5, <1>6 DEF IInv

-----------------------------------------------------------------------------
(***************************************************************************)
(* Steps that leave the tree alone                                         *)
(***************************************************************************)

\* What is said of the tree depends on the tree alone.
LEMMA TreeSame ==
    ASSUME TypeOK, Shape, SearchTree, TreeY' = TreeY, TreeH' = TreeH,
           \A s \in TreeSlots : ptr'[s] = ptr[s],
           \A y \in TreeY : critbit'[y] = critbit[y],
           \A h \in TreeH : digest'[h] = digest[h]
    PROVE  Shape' /\ SearchTree'
<1>1. TreeSlots' = TreeSlots
  BY DEF TreeSlots
<1>2. Root \in TreeSlots
  BY DEF TreeSlots
<1>3. Shape'
  BY <1>1, <1>2 DEF Shape
<1>4. PICK pre \in [Ys -> BitStrings] : Sorted(pre) /\ Complete(pre)
  BY DEF SearchTree
<1>5. \A y \in TreeY : \A d : Under(y, d, pre, critbit') <=> Under(y, d, pre, critbit)
  BY DEF Under
<1>6. \A s \in TreeSlots : \A d : Belongs(s, d, pre, critbit') <=> Belongs(s, d, pre, critbit)
  <2> SUFFICES ASSUME NEW s \in TreeSlots, NEW d
               PROVE  Belongs(s, d, pre, critbit') <=> Belongs(s, d, pre, critbit)
    OBVIOUS
  <2>1. s # Root => s[1] \in TreeY
    BY InTree
  <2> QED
    BY <1>5, <2>1 DEF Belongs
<1>7. Sorted(pre)'
  <2> SUFFICES ASSUME NEW s \in TreeSlots
               PROVE  /\ ptr'[s] \in Ys =>
                            /\ Belongs(s, pre[ptr'[s]], pre, critbit')
                            /\ s # Root => critbit'[s[1]] < critbit'[ptr'[s]]
                      /\ ptr'[s] \in Heads => Belongs(s, digest'[ptr'[s]], pre, critbit')
    BY <1>1 DEF Sorted
  <2>1. /\ s # Root => s[1] \in TreeY
        /\ ptr[s] \in Ys => ptr[s] \in TreeY
        /\ ptr[s] \in Heads => ptr[s] \in TreeH
    BY InTree
  <2> QED
    BY <1>4, <1>6, <2>1 DEF Sorted
<1>8. Complete(pre)'
  <2> SUFFICES ASSUME NEW s \in TreeSlots, NEW h \in TreeH,
                      Belongs(s, digest'[h], pre, critbit')
               PROVE  ptr'[s] = h \/ (ptr'[s] \in Ys /\ Under(ptr'[s], digest'[h], pre, critbit'))
    BY <1>1 DEF Complete
  <2>1. ptr[s] \in Ys => ptr[s] \in TreeY
    BY InTree
  <2>2. Belongs(s, digest[h], pre, critbit)
    BY <1>6
  <2> QED
    BY <1>4, <1>5, <2>1, <2>2 DEF Complete
<1> QED
  BY <1>3, <1>4, <1>7, <1>8 DEF SearchTree

\* Threads that only read change nothing in memory.
LEMMA MemorySame ==
    ASSUME TypeOK, Shape, SearchTree, Outside, UNCHANGED <<treeVars, digest, coolVars>>
    PROVE  /\ Shape' /\ SearchTree' /\ Outside'
           /\ TreeH' = TreeH /\ Used' = Used /\ Alive' = Alive
<1>1. TreeY' = TreeY /\ TreeH' = TreeH /\ Used' = Used /\ Alive' = Alive
  BY DEF treeVars, coolVars, TreeY, TreeH, Used, Alive
<1>2. ptr' = ptr /\ critbit' = critbit /\ digest' = digest
  BY DEF treeVars
<1>3. Shape' /\ SearchTree'
  BY <1>1, <1>2, TreeSame
<1>4. Outside'
  BY <1>1 DEF Outside, treeVars, coolVars
<1> QED
  BY <1>1, <1>3, <1>4

\* The root of the tree is in the tree.
LEMMA LookupInv ==
    ASSUME IInv, NEW t \in Threads, NEW d \in Digests, hcb_lookup(t, d)
    PROVE  IInv'
<1>1. TypeOK /\ Shape /\ Walkers /\ Counts /\ pc[t] = "idle"
  BY DEF IInv, hcb_lookup
<1>2. /\ Shape' /\ SearchTree' /\ Outside'
      /\ TreeH' = TreeH /\ Used' = Used /\ Alive' = Alive
  BY MemorySame DEF IInv, hcb_lookup, headVars
<1>3. /\ want' = [want EXCEPT ![t] = d] /\ at' = [at EXCEPT ![t] = ptr[Root]]
      /\ pc' = [pc EXCEPT ![t] = IF ptr[Root] = None THEN "lock" ELSE "walk"]
      /\ early' = early /\ refcnt' = refcnt /\ mtx' = mtx /\ digest' = digest
  BY DEF hcb_lookup, headVars
<1>4. ptr[Root] \in TreeY \cup TreeH \cup {None} /\ ptr[Root] \in Ptrs
  BY <1>1 DEF Shape, TypeOK, Slots
<1>5. TypeOK'
  BY <1>1, <1>3, <1>4 DEF TypeOK, hcb_lookup, treeVars, coolVars
<1>6. TreeY \cup TreeH \subseteq Alive /\ Alive \subseteq Used
  BY DEF TreeY, TreeH, Alive, Used
<1>7. None \notin Digests
  BY CritbitConstants
<1>8. Walkers'
  <2>1. \A u \in Threads \ {t} : pc'[u] = pc[u] /\ at'[u] = at[u] /\ want'[u] = want[u]
    BY <1>1, <1>3 DEF TypeOK
  <2>2. /\ pc'[t] = IF ptr[Root] = None THEN "lock" ELSE "walk"
        /\ at'[t] = ptr[Root] /\ want'[t] = d
    BY <1>1, <1>3 DEF TypeOK
  <2>3. t \notin early
    BY <1>1 DEF Walkers
  <2>4. early \subseteq Threads
    BY <1>1 DEF TypeOK
  <2> QED
    BY <1>1, <1>2, <1>3, <1>4, <1>6, <1>7, <2>1, <2>2, <2>3, <2>4 DEF Walkers
<1>9. Counts'
  BY <1>1, <1>2, <1>3 DEF Counts, TypeOK
<1> QED
  BY <1>2, <1>5, <1>8, <1>9 DEF IInv

\* What a node leads to is there as long as the node.
LEMMA WalkInv ==
    ASSUME IInv, NEW t \in Threads, hcb_insert_walk(t)
    PROVE  IInv'
<1>1. TypeOK /\ Outside /\ Walkers /\ Counts /\ pc[t] = "walk" /\ at[t] \in Ys
  BY DEF IInv, hcb_insert_walk
<1>2. /\ Shape' /\ SearchTree' /\ Outside'
      /\ TreeH' = TreeH /\ Used' = Used /\ Alive' = Alive
  BY MemorySame DEF IInv, hcb_insert_walk, headVars
<1>3. PICK b : b = want[t][critbit[at[t]]]
  OBVIOUS
<1>4. want[t] \in Digests /\ b \in {0, 1}
  BY <1>1, <1>3, CritbitConstants DEF Walkers, TypeOK
<1>5. /\ at' = [at EXCEPT ![t] = ptr[<<at[t], b>>]] /\ pc' = pc /\ want' = want
      /\ early' = early /\ refcnt' = refcnt /\ mtx' = mtx /\ digest' = digest
  BY <1>3 DEF hcb_insert_walk, headVars, Below
<1>6. ptr[<<at[t], b>>] \in Ptrs
  BY <1>1, <1>4 DEF TypeOK, Slots
<1>7. TypeOK'
  BY <1>1, <1>5, <1>6 DEF TypeOK, hcb_insert_walk, treeVars, coolVars
<1>8. at[t] \in yused /\ (t \notin early => at[t] \in yused \ dead_y)
  BY <1>1, CritbitConstants DEF Walkers, Used, Alive
<1>9. ptr[<<at[t], b>>] \in Used /\ (t \notin early => ptr[<<at[t], b>>] \in Alive)
  BY <1>1, <1>4, <1>8 DEF Outside
<1>10. Walkers'
  <2>1. \A u \in Threads \ {t} : at'[u] = at[u]
    BY <1>1, <1>5 DEF TypeOK
  <2>2. at'[t] = ptr[<<at[t], b>>]
    BY <1>1, <1>5 DEF TypeOK
  <2> QED
    BY <1>1, <1>2, <1>5, <1>9, <2>1, <2>2 DEF Walkers
<1>11. Counts'
  BY <1>1, <1>2, <1>5 DEF Counts, TypeOK
<1> QED
  BY <1>2, <1>7, <1>10, <1>11 DEF IInv

\* An objhead that matches is kept, or the lookup starts again.
LEMMA MatchInv ==
    ASSUME IInv, NEW t \in Threads, hcb_insert_match(t)
    PROVE  IInv'
<1>1. TypeOK /\ Walkers /\ Counts /\ pc[t] = "walk" /\ at[t] \notin Ys
  BY DEF IInv, hcb_insert_match
<1>2. /\ Shape' /\ SearchTree' /\ Outside'
      /\ TreeH' = TreeH /\ Used' = Used /\ Alive' = Alive
  BY MemorySame DEF IInv, hcb_insert_match, headVars
<1>3. /\ want' = want /\ refcnt' = refcnt /\ mtx' = mtx /\ digest' = digest
      /\ critbit' = critbit /\ yused' = yused /\ ptr' = ptr
      /\ UNCHANGED coolVars
  BY DEF hcb_insert_match, headVars, treeVars
<1>4. want[t] # None
  BY <1>1 DEF Walkers
<1>5. CASE at[t] # None /\ digest[at[t]] = want[t]
  <2>1. pc' = [pc EXCEPT ![t] = "found"] /\ at' = at /\ early' = early
    BY <1>5 DEF hcb_insert_match
  <2>2. TypeOK'
    BY <1>1, <1>3, <2>1 DEF TypeOK, coolVars
  <2>3. at[t] \in Heads
    BY <1>1, <1>5 DEF TypeOK, Ptrs
  <2>4. pc'[t] = "found" /\ \A u \in Threads \ {t} : pc'[u] = pc[u]
    BY <1>1, <2>1 DEF TypeOK
  <2>5. early \subseteq Threads
    BY <1>1 DEF TypeOK
  <2>6. Walkers'
    BY <1>1, <1>2, <1>3, <1>4, <1>5, <2>1, <2>3, <2>4, <2>5 DEF Walkers
  <2>7. Counts'
    BY <1>1, <1>2, <1>3, <2>1, <2>4 DEF Counts
  <2> QED
    BY <1>2, <2>2, <2>6, <2>7 DEF IInv
<1>6. CASE ~(at[t] # None /\ digest[at[t]] = want[t])
  <2>1. /\ pc' = [pc EXCEPT ![t] = "lock"] /\ at' = [at EXCEPT ![t] = None]
        /\ early' = early \ {t}
    BY <1>6 DEF hcb_insert_match
  <2>2. TypeOK'
    BY <1>1, <1>3, <2>1 DEF TypeOK, coolVars, Ptrs
  <2>3. /\ pc'[t] = "lock" /\ at'[t] = None
        /\ \A u \in Threads \ {t} : pc'[u] = pc[u] /\ at'[u] = at[u]
    BY <1>1, <2>1 DEF TypeOK
  <2>4. early \subseteq Threads
    BY <1>1 DEF TypeOK
  <2>5. Walkers'
    BY <1>1, <1>2, <1>3, <1>4, <2>1, <2>3, <2>4 DEF Walkers
  <2>6. Counts'
    BY <1>1, <1>2, <1>3, <2>1, <2>3 DEF Counts
  <2> QED
    BY <1>2, <2>2, <2>5, <2>6 DEF IInv
<1> QED
  BY <1>5, <1>6

\* With the lock, a walk ends at an objhead, or at the root of an empty tree.
LEMMA AtBottom ==
    ASSUME IInv, NEW d \in BitStrings
    PROVE  /\ Bottom(d) \in TreeSlots /\ ptr[Bottom(d)] \in TreeH \cup {None}
           /\ ptr[Bottom(d)] = None => Bottom(d) = Root
<1>1. TypeOK /\ Shape
  BY DEF IInv
<1>2. PICK pre : Sorted(pre)
  BY DEF IInv, SearchTree
<1>3. PICK p : p = Path(d)
  OBVIOUS
<1>4. IsPath(p, d)
  BY <1>1, <1>3, PathStep
<1>5. Bottom(d) = p[Width] /\ Width \in 0..Width
  BY <1>3, CritbitConstants DEF Bottom
<1>6. p[Width] \in TreeSlots
  BY <1>1, <1>4, <1>5, PathInTree
<1>7. ptr[p[Width]] \notin Ys
  BY <1>1, <1>2, <1>4, PathDeep
<1>8. ptr[p[Width]] \in TreeH \cup {None}
  BY <1>1, <1>6, <1>7, InTree DEF TreeY, TypeOK
<1>9. p[Width] # Root => ptr[p[Width]] \in TreeY \cup TreeH
  BY <1>1, <1>6 DEF Shape
<1>10. None \notin TreeY /\ None \notin TreeH
  BY <1>1, CritbitConstants DEF TreeY, TreeH, TypeOK
<1> QED
  BY <1>5, <1>6, <1>8, <1>9, <1>10

\* What is found with the lock is in the tree.
LEMMA FoundInv ==
    ASSUME IInv, NEW t \in Threads, hcb_insert_found(t)
    PROVE  IInv'
<1>1. TypeOK /\ Walkers /\ Counts /\ pc[t] = "lock"
  BY DEF IInv, hcb_insert_found
<1>2. /\ Shape' /\ SearchTree' /\ Outside'
      /\ TreeH' = TreeH /\ Used' = Used /\ Alive' = Alive
  BY MemorySame DEF IInv, hcb_insert_found, headVars
<1>3. want[t] # None /\ want[t] \in BitStrings
  BY <1>1, CritbitConstants DEF Walkers, TypeOK, BitStrings
<1>4. PICK oh : oh = ptr[Bottom(want[t])]
  OBVIOUS
<1>5. oh \in TreeH /\ digest[oh] = want[t]
  BY <1>3, <1>4, AtBottom DEF hcb_insert_found
<1>6. /\ want' = want /\ refcnt' = refcnt /\ mtx' = mtx /\ digest' = digest
      /\ critbit' = critbit /\ yused' = yused /\ ptr' = ptr /\ early' = early
      /\ at' = [at EXCEPT ![t] = oh] /\ pc' = [pc EXCEPT ![t] = "found"]
      /\ UNCHANGED coolVars
  BY <1>4 DEF hcb_insert_found, headVars, treeVars
<1>7. oh \in Heads /\ oh \in Ptrs /\ oh \in Used /\ oh \in Alive
  BY <1>5 DEF TreeH, Ptrs, Used, Alive
<1>8. TypeOK'
  BY <1>1, <1>6, <1>7 DEF TypeOK, coolVars
<1>9. /\ pc'[t] = "found" /\ at'[t] = oh
      /\ \A u \in Threads \ {t} : pc'[u] = pc[u] /\ at'[u] = at[u]
  BY <1>1, <1>6 DEF TypeOK
<1>10. early \subseteq Threads
  BY <1>1 DEF TypeOK
<1>11. Walkers'
  BY <1>1, <1>2, <1>3, <1>5, <1>6, <1>7, <1>9, <1>10 DEF Walkers
<1>12. Counts'
  BY <1>1, <1>2, <1>6, <1>9 DEF Counts
<1> QED
  BY <1>2, <1>8, <1>11, <1>12 DEF IInv

\* A reference is added only to an objhead that has one.
LEMMA LookupRefInv ==
    ASSUME IInv, NEW t \in Threads, hcb_lookup_ref(t)
    PROVE  IInv'
<1>1. TypeOK /\ Walkers /\ Counts /\ pc[t] = "found" /\ mtx[at[t]] = None
  BY DEF IInv, hcb_lookup_ref
<1>2. /\ Shape' /\ SearchTree' /\ Outside'
      /\ TreeH' = TreeH /\ Used' = Used /\ Alive' = Alive
  BY MemorySame DEF IInv, hcb_lookup_ref
<1>3. /\ mtx' = mtx /\ digest' = digest /\ early' = early \ {t}
      /\ at' = [at EXCEPT ![t] = None] /\ UNCHANGED <<treeVars, coolVars>>
  BY DEF hcb_lookup_ref
<1>4. at[t] \in Heads /\ want[t] # None /\ early \subseteq Threads
  BY <1>1 DEF Walkers, TypeOK
<1>5. at'[t] = None /\ \A u \in Threads \ {t} : at'[u] = at[u]
  BY <1>1, <1>3 DEF TypeOK
<1>6. \A u \in Threads : pc[u] = "delete" => at[u] # at[t] /\ u # t
  BY <1>1, <1>4, CritbitConstants DEF Counts
<1>7. CASE refcnt[at[t]] > 0
  <2>1. /\ refcnt' = [refcnt EXCEPT ![at[t]] = @ + 1]
        /\ pc' = [pc EXCEPT ![t] = "idle"] /\ want' = [want EXCEPT ![t] = None]
    BY <1>7 DEF hcb_lookup_ref
  <2>2. TypeOK'
    BY <1>1, <1>3, <1>4, <2>1 DEF TypeOK, Ptrs, treeVars, coolVars
  <2>3. /\ pc'[t] = "idle" /\ want'[t] = None
        /\ \A u \in Threads \ {t} : pc'[u] = pc[u] /\ want'[u] = want[u]
    BY <1>1, <2>1 DEF TypeOK
  <2>4. \A h \in Heads : h # at[t] => refcnt'[h] = refcnt[h]
    BY <1>1, <2>1 DEF TypeOK
  <2>5. Walkers'
    BY <1>1, <1>2, <1>3, <1>4, <1>5, <2>3 DEF Walkers
  <2>6. Counts'
    <3>1. \A h \in Heads : refcnt'[h] > 0 => h \in TreeH
      BY <1>1, <1>4, <1>7, <2>4 DEF Counts
    <3>2. \A u \in Threads : pc'[u] = "delete" =>
             at'[u] \in TreeH /\ refcnt'[at'[u]] = 0 /\ mtx'[at'[u]] = u
      BY <1>1, <1>3, <1>5, <1>6, <2>3, <2>4 DEF Counts, TreeH
    <3> QED
      BY <1>2, <3>1, <3>2 DEF Counts
  <2> QED
    BY <1>2, <2>2, <2>5, <2>6 DEF IInv
<1>8. CASE ~(refcnt[at[t]] > 0)
  <2>1. refcnt' = refcnt /\ pc' = [pc EXCEPT ![t] = "lock"] /\ want' = want
    BY <1>8 DEF hcb_lookup_ref
  <2>2. TypeOK'
    BY <1>1, <1>3, <1>4, <2>1 DEF TypeOK, Ptrs, treeVars, coolVars
  <2>3. pc'[t] = "lock" /\ \A u \in Threads \ {t} : pc'[u] = pc[u]
    BY <1>1, <2>1 DEF TypeOK
  <2>4. Walkers'
    BY <1>1, <1>2, <1>3, <1>4, <1>5, <2>1, <2>3 DEF Walkers
  <2>5. Counts'
    BY <1>1, <1>2, <1>3, <1>5, <1>6, <2>1, <2>3 DEF Counts
  <2> QED
    BY <1>2, <2>2, <2>4, <2>5 DEF IInv
<1> QED
  BY <1>7, <1>8

\* Whoever gives back the last reference holds the lock of the objhead.
LEMMA DerefInv ==
    ASSUME IInv, NEW t \in Threads, NEW oh \in Heads, hcb_deref(t, oh)
    PROVE  IInv'
<1>1. TypeOK /\ Walkers /\ Counts /\ pc[t] = "idle" /\ mtx[oh] = None /\ refcnt[oh] > 0
  BY DEF IInv, hcb_deref
<1>2. /\ Shape' /\ SearchTree' /\ Outside'
      /\ TreeH' = TreeH /\ Used' = Used /\ Alive' = Alive
  BY MemorySame DEF IInv, hcb_deref
<1>3. /\ digest' = digest /\ early' = early /\ want' = want
      /\ refcnt' = [refcnt EXCEPT ![oh] = @ - 1] /\ UNCHANGED <<treeVars, coolVars>>
  BY DEF hcb_deref
<1>4. oh \in TreeH /\ refcnt[oh] \in Nat /\ early \subseteq Threads /\ want[t] = None
  BY <1>1 DEF Counts, TypeOK, Walkers
<1>5. \A u \in Threads : pc[u] = "delete" => at[u] # oh /\ u # t
  BY <1>1, CritbitConstants DEF Counts
<1>6. refcnt'[oh] = refcnt[oh] - 1 /\ \A h \in Heads \ {oh} : refcnt'[h] = refcnt[h]
  BY <1>1, <1>3 DEF TypeOK
<1>7. refcnt' \in [Heads -> Nat]
  BY <1>1, <1>3, <1>4 DEF TypeOK
<1>8. \A h \in Heads : refcnt'[h] > 0 => h \in TreeH
  BY <1>1, <1>4, <1>6 DEF Counts
<1>9. CASE refcnt[oh] = 1
  <2>1. /\ mtx' = [mtx EXCEPT ![oh] = t] /\ pc' = [pc EXCEPT ![t] = "delete"]
        /\ at' = [at EXCEPT ![t] = oh]
    BY <1>9 DEF hcb_deref
  <2>2. TypeOK'
    BY <1>1, <1>3, <1>7, <2>1 DEF TypeOK, Ptrs, treeVars, coolVars
  <2>3. /\ pc'[t] = "delete" /\ at'[t] = oh /\ mtx'[oh] = t
        /\ \A u \in Threads \ {t} : pc'[u] = pc[u] /\ at'[u] = at[u]
        /\ \A h \in Heads \ {oh} : mtx'[h] = mtx[h]
    BY <1>1, <2>1 DEF TypeOK
  <2>4. Walkers'
    BY <1>1, <1>2, <1>3, <1>4, <2>3 DEF Walkers
  <2>5. ASSUME NEW u \in Threads, pc'[u] = "delete"
        PROVE  at'[u] \in TreeH /\ refcnt'[at'[u]] = 0 /\ mtx'[at'[u]] = u
    <3>1. CASE u = t
      BY <1>4, <1>6, <1>9, <2>3, <3>1
    <3>2. CASE u # t
      <4>1. pc[u] = "delete" /\ at'[u] = at[u] /\ at[u] # oh
        BY <1>5, <2>3, <2>5, <3>2
      <4>2. at[u] \in TreeH /\ refcnt[at[u]] = 0 /\ mtx[at[u]] = u /\ at[u] \in Heads
        BY <1>1, <4>1 DEF Counts, TreeH
      <4> QED
        BY <1>6, <2>3, <4>1, <4>2
    <3> QED
      BY <3>1, <3>2
  <2>6. Counts'
    BY <1>2, <1>8, <2>5 DEF Counts
  <2> QED
    BY <1>2, <2>2, <2>4, <2>6 DEF IInv
<1>10. CASE refcnt[oh] # 1
  <2>1. mtx' = mtx /\ pc' = pc /\ at' = at
    BY <1>10 DEF hcb_deref
  <2>2. TypeOK'
    BY <1>1, <1>3, <1>7, <2>1 DEF TypeOK, treeVars, coolVars
  <2>3. Walkers'
    BY <1>1, <1>2, <1>3, <2>1 DEF Walkers
  <2>4. Counts'
    BY <1>1, <1>2, <1>5, <1>6, <1>8, <2>1 DEF Counts, TreeH
  <2> QED
    BY <1>2, <2>2, <2>3, <2>4 DEF IInv
<1> QED
  BY <1>9, <1>10

\* Whoever may stand on what is dead now is early.
LEMMA SleepInv ==
    ASSUME IInv, hcb_cleaner_sleep
    PROVE  IInv'
<1>1. TypeOK /\ Shape /\ SearchTree /\ Outside /\ Walkers /\ Counts
  BY DEF IInv
<1>2. /\ dead_y = {} /\ dead_h = {} /\ dead_y' = cool_y /\ dead_h' = cool_h
      /\ cool_y' = {} /\ cool_h' = {}
      /\ early' = {t \in Threads : pc[t] \in {"walk", "found"}}
      /\ ptr' = ptr /\ critbit' = critbit /\ yused' = yused /\ digest' = digest
      /\ refcnt' = refcnt /\ mtx' = mtx /\ pc' = pc /\ want' = want /\ at' = at
  BY DEF hcb_cleaner_sleep, treeVars, headVars, threadVars
<1>3. TypeOK'
  BY <1>1, <1>2 DEF TypeOK
<1>4. TreeY' = TreeY /\ TreeH' = TreeH /\ Used' = Used
  BY <1>2 DEF TreeY, TreeH, Used
<1>5. Shape' /\ SearchTree'
  BY <1>1, <1>2, <1>4, TreeSame
<1>6. yused' \ dead_y' = TreeY /\ TreeY \cup TreeH \subseteq Alive'
  BY <1>1, <1>2 DEF TreeY, TreeH, Alive, TypeOK
<1>7. Outside'
  <2>1. \A y \in yused' \ dead_y' : \A b \in {0, 1} : ptr'[<<y, b>>] \in Alive'
    <3> SUFFICES ASSUME NEW y \in TreeY, NEW b \in {0, 1}
                 PROVE  ptr[<<y, b>>] \in TreeY \cup TreeH
      BY <1>2, <1>6
    <3>1. <<y, b>> \in TreeSlots /\ <<y, b>> # Root
      BY <1>1, CritbitConstants DEF TreeSlots, TreeY, TypeOK
    <3> QED
      BY <1>1, <3>1 DEF Shape
  <2>2. \A y \in yused' : \A b \in {0, 1} : ptr'[<<y, b>>] \in Used'
    BY <1>1, <1>2, <1>4 DEF Outside
  <2>3. \A h \in cool_h' \cup dead_h' : digest'[h] # None
    BY <1>1, <1>2 DEF Outside
  <2> QED
    BY <1>2, <2>1, <2>2, <2>3 DEF Outside
<1>8. Walkers'
  BY <1>1, <1>2, <1>4 DEF Walkers
<1>9. Counts'
  BY <1>1, <1>2, <1>4 DEF Counts
<1> QED
  BY <1>3, <1>5, <1>7, <1>8, <1>9 DEF IInv

\* When nobody is early, what is dead can be freed.
LEMMA CleanerInv ==
    ASSUME IInv, hcb_cleaner
    PROVE  IInv'
<1>1. TypeOK /\ Shape /\ SearchTree /\ Outside /\ Walkers /\ Counts
  BY DEF IInv
<1>2. /\ early = {} /\ yused' = yused \ dead_y
      /\ ptr' = [p \in Slots |-> IF p # Root /\ p[1] \in dead_y THEN None ELSE ptr[p]]
      /\ critbit' = [y \in Ys |-> IF y \in dead_y THEN 0 ELSE critbit[y]]
      /\ digest' = [h \in Heads |-> IF h \in dead_h THEN None ELSE digest[h]]
      /\ dead_y' = {} /\ dead_h' = {} /\ cool_y' = cool_y /\ cool_h' = cool_h
      /\ early' = early /\ refcnt' = refcnt /\ mtx' = mtx
      /\ pc' = pc /\ want' = want /\ at' = at
  BY DEF hcb_cleaner, threadVars
<1>3. 0 \in Bits /\ None \in Ptrs
  BY CritbitConstants DEF Bits, Ptrs
<1>4. ptr' \in [Slots -> Ptrs] /\ critbit' \in [Ys -> Bits]
      /\ digest' \in [Heads -> Digests \cup {None}]
  BY <1>1, <1>2, <1>3 DEF TypeOK
<1>5. TypeOK'
  BY <1>1, <1>2, <1>4 DEF TypeOK, Outside
<1>6. TreeY' = TreeY
  BY <1>2 DEF TreeY
<1>7. \A h \in Heads : digest'[h] = IF h \in dead_h THEN None ELSE digest[h]
  BY <1>2
<1>8. TreeH' = TreeH
  BY <1>2, <1>7 DEF TreeH
<1>9. /\ Used' = Alive /\ Alive' = Alive
  BY <1>2, <1>7 DEF Used, Alive
<1>10. \A s \in TreeSlots : ptr'[s] = ptr[s]
  <2> SUFFICES ASSUME NEW s \in TreeSlots PROVE ptr'[s] = ptr[s]
    OBVIOUS
  <2>1. s \in Slots /\ (s # Root => s[1] \notin dead_y)
    BY <1>1, InTree DEF TreeY
  <2> QED
    BY <1>2, <2>1
<1>11. /\ \A y \in TreeY : critbit'[y] = critbit[y]
       /\ \A h \in TreeH : digest'[h] = digest[h]
  BY <1>1, <1>2 DEF TreeY, TreeH, TypeOK
<1>12. Shape' /\ SearchTree'
  BY <1>1, <1>6, <1>8, <1>10, <1>11, TreeSame
<1>13. Outside'
  <2>1. ASSUME NEW y \in yused \ dead_y, NEW b \in {0, 1}
        PROVE  ptr'[<<y, b>>] = ptr[<<y, b>>]
    <3>1. <<y, b>> \in Slots /\ <<y, b>>[1] = y
      BY <1>1 DEF Slots, TypeOK
    <3> QED
      BY <1>2, <3>1
  <2>2. \A y \in yused' : \A b \in {0, 1} : ptr'[<<y, b>>] \in Alive
    BY <1>1, <1>2, <2>1 DEF Outside
  <2>3. \A h \in cool_h' \cup dead_h' : digest'[h] # None
    BY <1>1, <1>2, <1>7 DEF Outside, TypeOK
  <2> QED
    BY <1>2, <1>9, <2>2, <2>3 DEF Outside
<1>14. Walkers'
  <2>1. ASSUME NEW t \in Threads, pc[t] \in {"walk", "found"} PROVE at[t] \in Alive
    BY <1>1, <1>2, <2>1 DEF Walkers
  <2>2. ASSUME NEW t \in Threads, pc[t] = "found"
        PROVE  at[t] \in Heads /\ digest'[at[t]] = want[t]
    <3>1. at[t] \in Heads /\ digest[at[t]] = want[t] /\ at[t] \in Alive
      BY <1>1, <2>1, <2>2 DEF Walkers
    <3>2. at[t] \notin dead_h
      BY <1>1, <3>1, CritbitConstants DEF Alive, TypeOK
    <3> QED
      BY <1>7, <3>1, <3>2
  <2> QED
    BY <1>1, <1>2, <1>9, <2>1, <2>2 DEF Walkers
<1>15. Counts'
  BY <1>1, <1>2, <1>8 DEF Counts
<1> QED
  BY <1>5, <1>12, <1>13, <1>14, <1>15 DEF IInv

-----------------------------------------------------------------------------
(***************************************************************************)
(* An objhead is taken out of the tree                                     *)
(***************************************************************************)

\* The only objhead goes: nothing else was in the tree.
LEMMA DeleteLast ==
    ASSUME TypeOK, Shape, SearchTree, NEW oh \in TreeH, ptr[Root] = oh,
           ptr' = [ptr EXCEPT ![Root] = None],
           TreeY' = TreeY, TreeH' = TreeH \ {oh}
    PROVE  Shape' /\ SearchTree'
<1>1. PICK pre \in [Ys -> BitStrings] : Sorted(pre) /\ Complete(pre)
  BY DEF SearchTree
<1>2. ptr[Root] \notin Ys /\ None \notin Heads /\ None \notin Ys
  BY HeadBits, CritbitConstants
<1>3. TreeY' = {}
  BY <1>1, <1>2, NoNodes
<1>4. TreeSlots' = {Root} /\ Root \in TreeSlots
  BY <1>3 DEF TreeSlots
<1>5. \A h \in TreeH : h = oh
  <2> SUFFICES ASSUME NEW h \in TreeH PROVE h = oh
    OBVIOUS
  <2>1. Belongs(Root, digest[h], pre, critbit)
    BY DEF Belongs
  <2> QED
    BY <1>1, <1>2, <1>4, <2>1 DEF Complete
<1>6. TreeH' = {} /\ ptr'[Root] = None
  BY <1>5 DEF TypeOK, Slots
<1>7. Shape'
  BY <1>3, <1>4, <1>6 DEF Shape
<1>8. Sorted(pre)' /\ Complete(pre)'
  BY <1>2, <1>4, <1>6 DEF Sorted, Complete
<1> QED
  BY <1>1, <1>7, <1>8 DEF SearchTree

\* The other leaf takes the place of the node: it has the bits of the node, and
\* whatever belongs there belongs to it.
LEMMA DeleteLeaf ==
    ASSUME TypeOK, Shape, SearchTree, NEW oh \in TreeH, NEW y \in TreeY,
           NEW q \in TreeSlots, ptr[q] = y, NEW b \in {0, 1}, ptr[<<y, b>>] = oh,
           ptr' = [ptr EXCEPT ![q] = ptr[<<y, 1 - b>>]],
           critbit' = critbit, digest' = digest,
           TreeY' = TreeY \ {y}, TreeH' = TreeH \ {oh}
    PROVE  Shape' /\ SearchTree'
<1>1. PICK pre \in [Ys -> BitStrings] : Sorted(pre) /\ Complete(pre)
  BY DEF SearchTree
<1>2. PICK x : x = ptr[<<y, 1 - b>>]
  OBVIOUS
<1>3. TreeY \subseteq Ys /\ TreeH \subseteq Heads /\ Heads \cap Ys = {}
      /\ None \notin Heads /\ None \notin Ys /\ y \in Ys /\ oh \in Heads
  BY CritbitConstants DEF TypeOK, TreeY, TreeH
<1>4. /\ <<y, b>> \in TreeSlots /\ <<y, b>> # Root
      /\ <<y, 1 - b>> \in TreeSlots /\ <<y, 1 - b>> # Root
      /\ <<y, 1 - b>> # <<y, b>> /\ 1 - b \in {0, 1}
  BY <1>3, CritbitConstants DEF TreeSlots
<1>5. x \in TreeY \cup TreeH
  BY <1>2, <1>4 DEF Shape
<1>6. x # oh
  BY <1>2, <1>3, <1>4 DEF Shape
<1>7. /\ \A s \in TreeSlots : critbit[s[1]] < critbit[ptr[s]] \/ s = Root \/ ptr[s] \notin Ys
      /\ \A z \in Ys : critbit[z] \in Nat
  BY <1>1 DEF Sorted, TypeOK, Bits
<1>8. x # y
  <2> SUFFICES ASSUME x = y PROVE FALSE
    OBVIOUS
  <2>1. critbit[<<y, 1 - b>>[1]] < critbit[y]
    BY <1>2, <1>3, <1>4, <1>7
  <2> QED
    BY <1>3, <1>7, <2>1
<1>9. q # Root => q[1] # y
  BY <1>3, <1>7
<1>10. TreeSlots' \subseteq TreeSlots /\ q \in TreeSlots' /\ Root \in TreeSlots'
       /\ \A s \in TreeSlots : s \in TreeSlots' \/ s = <<y, b>> \/ s = <<y, 1 - b>>
  BY <1>9 DEF TreeSlots
<1>11. <<y, b>> \notin TreeSlots' /\ <<y, 1 - b>> \notin TreeSlots'
  BY <1>4 DEF TreeSlots
<1>12. ptr'[q] = x /\ \A s \in TreeSlots : s # q => ptr'[s] = ptr[s]
  BY <1>2, InTree DEF TypeOK
<1>13. \A s \in TreeSlots' : s # q => ptr[s] # y /\ ptr[s] # oh /\ ptr[s] # x
  BY <1>2, <1>3, <1>4, <1>5, <1>10, <1>11 DEF Shape
<1>14. Shape'
  <2>1. ptr'[Root] \in (TreeY \cup TreeH \cup {None})'
    BY <1>5, <1>6, <1>8, <1>10, <1>12, <1>13 DEF Shape
  <2>2. \A s \in TreeSlots' : s # Root => ptr'[s] \in (TreeY \cup TreeH)'
    BY <1>5, <1>6, <1>8, <1>10, <1>12, <1>13 DEF Shape
  <2>3. \A s, u \in TreeSlots' : ptr'[s] = ptr'[u] /\ ptr'[s] # None => s = u
    BY <1>10, <1>12, <1>13 DEF Shape
  <2>4. ASSUME NEW z \in TreeY' PROVE \E s \in TreeSlots' : ptr'[s] = z
    <3>1. PICK s \in TreeSlots : ptr[s] = z
      BY <2>4 DEF Shape
    <3>2. s # q /\ s # <<y, b>>
      BY <1>3, <2>4, <3>1
    <3>3. CASE s = <<y, 1 - b>>
      BY <1>2, <1>10, <1>12, <3>1, <3>3
    <3>4. CASE s # <<y, 1 - b>>
      BY <1>10, <1>12, <3>1, <3>2, <3>4
    <3> QED
      BY <3>3, <3>4
  <2> QED
    BY <2>1, <2>2, <2>3, <2>4 DEF Shape
<1>15. \A e : Belongs(<<y, 1 - b>>, e, pre, critbit) => Under(y, e, pre, critbit)
  BY <1>4 DEF Belongs
<1>16. \A e : Under(y, e, pre, critbit) => Belongs(q, e, pre, critbit)
  BY <1>1, <1>3, UnderBelongs
<1>17. Sorted(pre)'
  <2> SUFFICES ASSUME NEW s \in TreeSlots'
               PROVE  /\ ptr'[s] \in Ys =>
                            /\ Belongs(s, pre[ptr'[s]], pre, critbit)
                            /\ s # Root => critbit[s[1]] < critbit[ptr'[s]]
                      /\ ptr'[s] \in Heads => Belongs(s, digest[ptr'[s]], pre, critbit)
    BY DEF Sorted
  <2>1. CASE s # q
    BY <1>1, <1>10, <1>12, <2>1 DEF Sorted
  <2>2. CASE s = q
    <3>1. x \in Ys => Belongs(q, pre[x], pre, critbit)
      BY <1>1, <1>2, <1>4, <1>15, <1>16 DEF Sorted
    <3>2. x \in Heads => Belongs(q, digest[x], pre, critbit)
      BY <1>1, <1>2, <1>4, <1>15, <1>16 DEF Sorted
    <3>3. x \in Ys /\ q # Root => critbit[q[1]] < critbit[x]
      <4> SUFFICES ASSUME x \in Ys, q # Root PROVE critbit[q[1]] < critbit[x]
        OBVIOUS
      <4>1. critbit[q[1]] < critbit[y] /\ q[1] \in Ys
        BY <1>3, <1>7, InTree
      <4>2. critbit[<<y, 1 - b>>[1]] < critbit[x]
        BY <1>2, <1>4, <1>7
      <4>3. critbit[y] < critbit[x]
        BY <4>2
      <4> QED
        BY <1>3, <1>7, <4>1, <4>3
    <3> QED
      BY <1>12, <2>2, <3>1, <3>2, <3>3
  <2> QED
    BY <2>1, <2>2
<1>18. Complete(pre)'
  <2> SUFFICES ASSUME NEW s \in TreeSlots', NEW h \in TreeH', NEW f, f = digest[h],
                      Belongs(s, f, pre, critbit)
               PROVE  ptr'[s] = h \/ (ptr'[s] \in Ys /\ Under(ptr'[s], f, pre, critbit))
    BY DEF Complete
  <2>1. h \in TreeH /\ h # oh /\ s \in TreeSlots /\ h \in Heads
    BY <1>3, <1>10
  <2>2. \A u \in TreeSlots : Belongs(u, f, pre, critbit) =>
            ptr[u] = h \/ (ptr[u] \in Ys /\ Under(ptr[u], f, pre, critbit))
    BY <1>1, <2>1 DEF Complete
  <2>3. CASE s # q
    BY <1>12, <2>1, <2>2, <2>3
  <2>4. CASE s = q
    <3>1. Under(y, f, pre, critbit)
      BY <1>3, <2>1, <2>2, <2>4
    <3>2. f[critbit[y]] \in {0, 1}
      BY <1>3, <2>1, HeadBits DEF BitStrings, TypeOK
    <3>3. f[critbit[y]] = b => Belongs(<<y, b>>, f, pre, critbit)
      BY <3>1 DEF Belongs
    <3>4. f[critbit[y]] # b
      BY <1>3, <1>4, <2>1, <2>2, <3>3
    <3>5. f[critbit[y]] = 1 - b
      BY <3>2, <3>4
    <3>6. Belongs(<<y, 1 - b>>, f, pre, critbit)
      BY <3>1, <3>5 DEF Belongs
    <3> QED
      BY <1>2, <1>4, <1>12, <2>2, <2>4, <3>6
  <2> QED
    BY <2>3, <2>4
<1> QED
  BY <1>1, <1>14, <1>17, <1>18 DEF SearchTree

\* What hcb_delete does to the tree.
LEMMA DeleteTree ==
    ASSUME IInv, NEW t \in Threads, hcb_delete(t)
    PROVE  /\ Shape' /\ SearchTree'
           /\ TreeH' = TreeH \ {at[t]} /\ ptr' \in [Slots -> Ptrs]
           /\ cool_y \subseteq cool_y' /\ cool_y' \subseteq cool_y \cup TreeY
           /\ \A s \in Slots : ptr'[s] = ptr[s] \/ s = Root \/ ptr'[s] \in TreeY \cup TreeH
<1>1. TypeOK /\ Shape /\ SearchTree /\ Counts /\ pc[t] = "delete"
  BY DEF IInv, hcb_delete
<1>2. PICK oh : oh = at[t]
  OBVIOUS
<1>3. oh \in TreeH
  BY <1>1, <1>2 DEF Counts
<1>4. PICK d : d = digest[oh]
  OBVIOUS
<1>5. d \in BitStrings
  BY <1>1, <1>3, <1>4, HeadBits
<1>6. PICK p : p = Path(d)
  OBVIOUS
<1>7. IsPath(p, d) /\ \A n \in 0..Width : p[n] \in TreeSlots
  BY <1>1, <1>5, <1>6, PathStep, PathInTree
<1>8. /\ cool_h' = cool_h \cup {oh} /\ critbit' = critbit /\ digest' = digest
      /\ yused' = yused /\ dead_y' = dead_y /\ dead_h' = dead_h
  BY <1>2 DEF hcb_delete
<1>9. TreeH' = TreeH \ {oh}
  BY <1>8 DEF TreeH
<1>10. \/ /\ ptr[Root] = oh
          /\ ptr' = [ptr EXCEPT ![Root] = None]
          /\ cool_y' = cool_y
       \/ \E n \in 0..(Width - 1) :
             /\ ptr[p[n]] \in Ys
             /\ ptr[Below(ptr[p[n]], d)] = oh
             /\ ptr' = [ptr EXCEPT ![p[n]] = ptr[<<ptr[p[n]], 1 - d[critbit[ptr[p[n]]]]>>]]
             /\ cool_y' = cool_y \cup {ptr[p[n]]}
  BY <1>2, <1>4, <1>6 DEF hcb_delete
<1>11. CASE ptr[Root] = oh /\ ptr' = [ptr EXCEPT ![Root] = None] /\ cool_y' = cool_y
  <2>1. TreeY' = TreeY
    BY <1>8, <1>11 DEF TreeY
  <2>2. Shape' /\ SearchTree'
    BY <1>1, <1>3, <1>9, <1>11, <2>1, DeleteLast
  <2>3. ptr' \in [Slots -> Ptrs] /\ \A s \in Slots : ptr'[s] = ptr[s] \/ s = Root
    BY <1>1, <1>11 DEF TypeOK, Ptrs
  <2> QED
    BY <1>2, <1>9, <1>11, <2>2, <2>3
<1>12. CASE \E n \in 0..(Width - 1) :
             /\ ptr[p[n]] \in Ys
             /\ ptr[Below(ptr[p[n]], d)] = oh
             /\ ptr' = [ptr EXCEPT ![p[n]] = ptr[<<ptr[p[n]], 1 - d[critbit[ptr[p[n]]]]>>]]
             /\ cool_y' = cool_y \cup {ptr[p[n]]}
  <2>1. PICK n \in 0..(Width - 1) :
             /\ ptr[p[n]] \in Ys
             /\ ptr[Below(ptr[p[n]], d)] = oh
             /\ ptr' = [ptr EXCEPT ![p[n]] = ptr[<<ptr[p[n]], 1 - d[critbit[ptr[p[n]]]]>>]]
             /\ cool_y' = cool_y \cup {ptr[p[n]]}
    BY <1>12
  <2>2. PICK q : q = p[n]
    OBVIOUS
  <2>3. PICK y : y = ptr[q]
    OBVIOUS
  <2>4. PICK b : b = d[critbit[y]]
    OBVIOUS
  <2>5. q \in TreeSlots
    BY <1>7, <2>1, <2>2, CritbitConstants
  <2>6. y \in TreeY /\ y \in Ys
    BY <1>1, <2>1, <2>2, <2>3, <2>5, InTree
  <2>7. b \in {0, 1}
    BY <1>1, <1>5, <2>4, <2>6 DEF TypeOK, BitStrings
  <2>8. /\ ptr[<<y, b>>] = oh /\ ptr' = [ptr EXCEPT ![q] = ptr[<<y, 1 - b>>]]
        /\ cool_y' = cool_y \cup {y}
    BY <2>1, <2>2, <2>3, <2>4 DEF Below
  <2>9. TreeY' = TreeY \ {y}
    BY <1>8, <2>8 DEF TreeY
  <2>10. Shape' /\ SearchTree'
    BY <1>1, <1>3, <1>8, <1>9, <2>3, <2>5, <2>6, <2>7, <2>8, <2>9, DeleteLeaf
  <2>11. <<y, 1 - b>> \in TreeSlots /\ <<y, 1 - b>> # Root
    BY <2>6, <2>7, CritbitConstants DEF TreeSlots
  <2>12. ptr[<<y, 1 - b>>] \in TreeY \cup TreeH
    BY <1>1, <2>11 DEF Shape
  <2>13. ptr[<<y, 1 - b>>] \in Ptrs
    BY <1>1, <2>12 DEF TreeY, TreeH, TypeOK, Ptrs
  <2>14. ptr' \in [Slots -> Ptrs]
    BY <1>1, <2>8, <2>13 DEF TypeOK
  <2>15. \A s \in Slots : ptr'[s] = ptr[s] \/ ptr'[s] \in TreeY \cup TreeH
    BY <1>1, <2>8, <2>12 DEF TypeOK
  <2> QED
    BY <1>2, <1>9, <2>6, <2>8, <2>10, <2>14, <2>15
<1> QED
  BY <1>10, <1>11, <1>12

\* What is taken out stays where lookups may still read it.
LEMMA DeleteInv ==
    ASSUME IInv, NEW t \in Threads, hcb_delete(t)
    PROVE  IInv'
<1>1. TypeOK /\ Shape /\ Outside /\ Walkers /\ Counts /\ pc[t] = "delete"
  BY DEF IInv, hcb_delete
<1>2. /\ Shape' /\ SearchTree'
      /\ TreeH' = TreeH \ {at[t]} /\ ptr' \in [Slots -> Ptrs]
      /\ cool_y \subseteq cool_y' /\ cool_y' \subseteq cool_y \cup TreeY
      /\ \A s \in Slots : ptr'[s] = ptr[s] \/ s = Root \/ ptr'[s] \in TreeY \cup TreeH
  BY DeleteTree
<1>3. at[t] \in TreeH /\ refcnt[at[t]] = 0 /\ mtx[at[t]] = t /\ at[t] \in Heads
  BY <1>1 DEF Counts, TreeH
<1>4. /\ cool_h' = cool_h \cup {at[t]} /\ mtx' = [mtx EXCEPT ![at[t]] = None]
      /\ pc' = [pc EXCEPT ![t] = "idle"] /\ at' = [at EXCEPT ![t] = None]
      /\ critbit' = critbit /\ digest' = digest /\ refcnt' = refcnt
      /\ yused' = yused /\ dead_y' = dead_y /\ dead_h' = dead_h
      /\ early' = early /\ want' = want
  BY DEF hcb_delete
<1>5. Used' = Used /\ Alive' = Alive /\ TreeY \cup TreeH \subseteq Alive /\ Alive \subseteq Used
  BY <1>4 DEF Used, Alive, TreeY, TreeH
<1>6. TypeOK'
  <2>1. cool_y' \cup dead_y' \subseteq yused'
    BY <1>1, <1>2, <1>4 DEF TypeOK, TreeY
  <2> QED
    BY <1>1, <1>2, <1>3, <1>4, <2>1 DEF TypeOK, Ptrs
<1>7. Outside'
  <2>1. cool_y' \cap dead_y' = {} /\ cool_h' \cap dead_h' = {}
    BY <1>1, <1>2, <1>3, <1>4 DEF Outside, TreeY, TreeH
  <2>2. \A h \in cool_h' \cup dead_h' : digest'[h] # None
    BY <1>1, <1>3, <1>4 DEF Outside, TreeH
  <2>3. ASSUME NEW y \in yused, NEW b \in {0, 1}
        PROVE  ptr'[<<y, b>>] = ptr[<<y, b>>] \/ ptr'[<<y, b>>] \in Alive
    <3>1. <<y, b>> \in Slots /\ <<y, b>> # Root
      BY <1>1, CritbitConstants DEF Slots, TypeOK
    <3> QED
      BY <1>2, <1>5, <3>1
  <2>4. \A y \in yused' : \A b \in {0, 1} : ptr'[<<y, b>>] \in Used'
    BY <1>1, <1>4, <1>5, <2>3 DEF Outside
  <2>5. \A y \in yused' \ dead_y' : \A b \in {0, 1} : ptr'[<<y, b>>] \in Alive'
    BY <1>1, <1>4, <1>5, <2>3 DEF Outside
  <2> QED
    BY <2>1, <2>2, <2>4, <2>5 DEF Outside
<1>8. /\ pc'[t] = "idle" /\ at'[t] = None
      /\ \A u \in Threads \ {t} : pc'[u] = pc[u] /\ at'[u] = at[u]
  BY <1>1, <1>4 DEF TypeOK
<1>9. Walkers'
  <2>1. early \subseteq Threads /\ t \notin early
    BY <1>1 DEF TypeOK, Walkers
  <2> QED
    BY <1>1, <1>4, <1>5, <1>8, <2>1 DEF Walkers
<1>10. Counts'
  <2>1. \A h \in Heads : refcnt'[h] > 0 => h \in TreeH'
    BY <1>1, <1>2, <1>3, <1>4 DEF Counts
  <2>2. ASSUME NEW u \in Threads, pc'[u] = "delete"
        PROVE  at'[u] \in TreeH' /\ refcnt'[at'[u]] = 0 /\ mtx'[at'[u]] = u
    <3>1. u # t /\ pc[u] = "delete" /\ at'[u] = at[u]
      BY <1>8, <2>2
    <3>2. at[u] \in TreeH /\ refcnt[at[u]] = 0 /\ mtx[at[u]] = u /\ at[u] \in Heads
      BY <1>1, <3>1 DEF Counts, TreeH
    <3>3. at[u] # at[t]
      BY <1>3, <3>1, <3>2
    <3>4. mtx'[at[u]] = mtx[at[u]]
      BY <1>1, <1>4, <3>2, <3>3 DEF TypeOK
    <3> QED
      BY <1>2, <1>4, <3>1, <3>2, <3>3, <3>4
  <2> QED
    BY <2>1, <2>2 DEF Counts
<1> QED
  BY <1>2, <1>6, <1>7, <1>9, <1>10 DEF IInv

-----------------------------------------------------------------------------
(***************************************************************************)
(* An objhead is put into the tree                                         *)
(***************************************************************************)

\* cb is the first bit in which d and e differ.
FirstDiff(cb, d, e) ==
    cb \in Bits /\ d[cb] # e[cb] /\ \A j \in Bits : j < cb => d[j] = e[j]

\* hcb_crit_bit finds it.
LEMMA CritBit ==
    ASSUME NEW d \in BitStrings, NEW e \in BitStrings, d # e
    PROVE  FirstDiff(hcb_crit_bit(d, e), d, e)
<1> DEFINE S == {i \in Bits : d[i] # e[i]}
<1>1. S \in SUBSET Nat
  BY DEF Bits
<1>2. S # {}
  BY DEF BitStrings
<1>3. PICK m \in S : \A k \in S : m <= k
  <2> HIDE DEF S
  <2> QED
    BY <1>1, <1>2, LeastNat
<1>4. \A j \in Bits : j < m => d[j] = e[j]
  BY <1>3 DEF Bits
<1>5. \E i \in Bits : d[i] # e[i] /\ \A j \in Bits : j < i => d[j] = e[j]
  BY <1>3, <1>4
<1> QED
  BY <1>5 DEF hcb_crit_bit, FirstDiff

\* The walk p passes only nodes with lower critbits than cb up to its m-th slot.
StopsAt(p, m, cb) ==
    /\ m \in 0..Width
    /\ ptr[p[m]] \notin Ys \/ critbit[ptr[p[m]]] > cb
    /\ \A k \in 0..Width : k < m => ptr[p[k]] \in Ys /\ ~(critbit[ptr[p[k]]] > cb)

\* InsertAt is the first slot to stop at.
LEMMA InsertPlace ==
    ASSUME NEW d, NEW cb, NEW p, p = Path(d), ptr[p[Width]] \notin Ys
    PROVE  \E m : StopsAt(p, m, cb) /\ InsertAt(d, cb) = p[m]
<1> DEFINE stop == {n \in 0..Width : \/ ptr[p[n]] \notin Ys
                                     \/ critbit[ptr[p[n]]] > cb}
<1>1. Width \in Nat /\ stop \in SUBSET Nat
  BY CritbitConstants
<1>2. stop # {}
  BY <1>1
<1>3. \E m \in stop : \A k \in stop : m <= k
  <2> HIDE DEF stop
  <2> QED
    BY <1>1, <1>2, LeastNat
<1>4. PICK m : m = CHOOSE n \in stop : \A k \in stop : n <= k
  OBVIOUS
<1>5. m \in stop /\ \A k \in stop : m <= k
  <2> HIDE DEF stop
  <2> QED
    BY <1>3, <1>4
<1>6. \A k \in 0..Width : k < m => k \notin stop
  <2> HIDE DEF stop
  <2> QED
    BY <1>1, <1>5
<1>7. InsertAt(d, cb) = p[m]
  BY <1>4 DEF InsertAt
<1>8. StopsAt(p, m, cb)
  BY <1>5, <1>6 DEF StopsAt
<1> QED
  BY <1>7, <1>8

\* The pointers above the place for the new node: their nodes test bits that d
\* has in common with the objhead e at the end of the walk.
LEMMA AbovePlace ==
    ASSUME TypeOK, Shape, NEW pre, Sorted(pre),
           NEW d \in BitStrings, NEW p, IsPath(p, d),
           NEW e, ptr[p[Width]] \in Heads, e = digest[ptr[p[Width]]],
           NEW cb, FirstDiff(cb, d, e), NEW m, StopsAt(p, m, cb),
           NEW k \in 0..Width, k < m
    PROVE  /\ ptr[p[k]] \in Ys /\ critbit[ptr[p[k]]] < cb
           /\ Under(ptr[p[k]], d, pre, critbit)
           /\ p[k + 1] = <<ptr[p[k]], d[critbit[ptr[p[k]]]]>>
<1>1. Width \in Nat /\ m \in 0..Width /\ k < Width /\ k + 1 \in 0..Width
  BY CritbitConstants DEF StopsAt
<1>2. PICK y : y = ptr[p[k]]
  OBVIOUS
<1>3. y \in Ys /\ ~(critbit[y] > cb)
  BY <1>2 DEF StopsAt
<1>4. critbit[y] \in Bits /\ cb \in Bits /\ \A j \in Bits : j \in Int
  BY <1>3 DEF TypeOK, FirstDiff, Bits
<1>5. p[k + 1] = <<y, d[critbit[y]]>>
  BY <1>1, <1>2, <1>3 DEF IsPath, Below
<1>6. p[k + 1] # Root /\ p[k + 1][1] = y /\ p[k + 1][2] = d[critbit[y]]
  <2>1. d[critbit[y]] \in {0, 1}
    BY <1>4 DEF BitStrings
  <2> QED
    BY <1>3, <1>5, <2>1, CritbitConstants
<1>7. Belongs(p[k + 1], e, pre, critbit)
  BY <1>1, EndBelongs
<1>8. Under(y, e, pre, critbit) /\ e[critbit[y]] = d[critbit[y]]
  BY <1>6, <1>7 DEF Belongs
<1>9. critbit[y] # cb
  BY <1>8 DEF FirstDiff
<1>10. critbit[y] < cb
  BY <1>3, <1>4, <1>9
<1>11. Under(y, d, pre, critbit)
  BY <1>4, <1>8, <1>10 DEF Under, FirstDiff
<1> QED
  BY <1>2, <1>3, <1>5, <1>10, <1>11

\* The place q for the new node: d belongs there, and so does all that differs
\* from d first in the bit cb; and whatever else d belongs to leads to a node
\* that has the bits of d.
Place(q, d, oh, cb, pre) ==
    /\ q \in TreeSlots /\ Belongs(q, d, pre, critbit)
    /\ q # Root => critbit[q[1]] < cb
    /\ ptr[q] = oh \/ (/\ ptr[q] \in Ys /\ Under(ptr[q], digest[oh], pre, critbit)
                       /\ cb < critbit[ptr[q]])
    /\ \A f \in BitStrings : (\A j \in Bits : j < cb => f[j] = d[j])
                                 => Belongs(q, f, pre, critbit)
    /\ \A s \in TreeSlots : s # q /\ Belongs(s, d, pre, critbit) =>
          ptr[s] \in Ys /\ Under(ptr[s], d, pre, critbit)

\* InsertAt is that place.
LEMMA PlaceFacts ==
    ASSUME TypeOK, Shape, NEW pre, Sorted(pre), Complete(pre),
           NEW d \in BitStrings, NEW p, IsPath(p, d),
           NEW oh \in TreeH, NEW e, ptr[p[Width]] = oh, e = digest[oh],
           NEW cb, FirstDiff(cb, d, e), NEW m, StopsAt(p, m, cb),
           NEW q, q = p[m]
    PROVE  Place(q, d, oh, cb, pre)
<1>1. Width \in Nat /\ m \in 0..Width /\ oh \in Heads /\ e \in BitStrings
  BY CritbitConstants, HeadBits DEF StopsAt
<1>2. q \in TreeSlots
  BY <1>1, PathInTree
<1>3. cb \in Bits /\ (\A j \in Bits : j \in Int) /\ \A y \in Ys : critbit[y] \in Bits
  BY DEF TypeOK, FirstDiff, Bits
<1>4. \A k \in 0..Width : k < m =>
         /\ ptr[p[k]] \in Ys /\ critbit[ptr[p[k]]] < cb
         /\ Under(ptr[p[k]], d, pre, critbit)
         /\ p[k + 1] = <<ptr[p[k]], d[critbit[ptr[p[k]]]]>>
  <2>1. ptr[p[Width]] \in Heads /\ e = digest[ptr[p[Width]]]
    BY <1>1
  <2> SUFFICES ASSUME NEW k \in 0..Width, k < m
               PROVE  /\ ptr[p[k]] \in Ys /\ critbit[ptr[p[k]]] < cb
                      /\ Under(ptr[p[k]], d, pre, critbit)
                      /\ p[k + 1] = <<ptr[p[k]], d[critbit[ptr[p[k]]]]>>
    OBVIOUS
  <2> QED
    BY <2>1, AbovePlace
<1>5. q = Root \/ \E y \in Ys : /\ critbit[y] < cb /\ Under(y, d, pre, critbit)
                                 /\ q[1] = y /\ q[2] = d[critbit[y]]
  <2>1. CASE m = 0
    BY <2>1 DEF IsPath
  <2>2. CASE m # 0
    <3>1. m - 1 \in 0..Width /\ m - 1 < m /\ (m - 1) + 1 = m
      BY <1>1, <2>2
    <3>2. q = <<ptr[p[m - 1]], d[critbit[ptr[p[m - 1]]]]>>
      BY <1>4, <3>1
    <3>3. q[1] = ptr[p[m - 1]] /\ q[2] = d[critbit[ptr[p[m - 1]]]]
      BY <3>2
    <3> QED
      BY <1>4, <3>1, <3>3
  <2> QED
    BY <2>1, <2>2
<1>6. q # Root => critbit[q[1]] < cb
  BY <1>5
<1>7. \A f \in BitStrings : (\A j \in Bits : j < cb => f[j] = d[j])
                                => Belongs(q, f, pre, critbit)
  <2> SUFFICES ASSUME NEW f \in BitStrings, \A j \in Bits : j < cb => f[j] = d[j],
                      q # Root
               PROVE  Belongs(q, f, pre, critbit)
    BY DEF Belongs
  <2>1. PICK y \in Ys : /\ critbit[y] < cb /\ Under(y, d, pre, critbit)
                        /\ q[1] = y /\ q[2] = d[critbit[y]]
    BY <1>5
  <2>2. Under(y, f, pre, critbit) /\ f[critbit[y]] = d[critbit[y]]
    BY <1>3, <2>1 DEF Under
  <2> QED
    BY <2>1, <2>2 DEF Belongs
<1>8. Belongs(q, d, pre, critbit) /\ Belongs(q, e, pre, critbit)
  BY <1>1, <1>7 DEF FirstDiff
<1>9. ptr[q] = oh \/ (/\ ptr[q] \in Ys /\ Under(ptr[q], e, pre, critbit)
                      /\ cb < critbit[ptr[q]])
  <2>1. ptr[q] = oh \/ (ptr[q] \in Ys /\ Under(ptr[q], e, pre, critbit))
    BY <1>2, <1>8 DEF Complete
  <2>2. ptr[q] \in Ys => critbit[ptr[q]] > cb
    BY DEF StopsAt
  <2> QED
    BY <1>3, <2>1, <2>2
<1>10. ASSUME NEW s \in TreeSlots, s # q, Belongs(s, d, pre, critbit)
       PROVE  ptr[s] \in Ys /\ Under(ptr[s], d, pre, critbit)
  <2>1. PICK n \in 0..Width : p[n] = s
    BY <1>10, OnPath
  <2>2. CASE n < m
    BY <1>4, <2>1, <2>2
  <2>3. CASE m < n /\ ptr[q] \notin Ys
    BY <1>1, <1>10, <2>1, <2>3, PathStays
  <2>4. CASE m < n /\ ptr[q] \in Ys
    <3>1. s # Root /\ critbit[ptr[q]] <= critbit[s[1]]
      BY <1>1, <2>1, <2>4, PathAscends
    <3>2. s[1] \in Ys
      BY <3>1, InTree DEF TreeY, TypeOK
    <3>3. cb < critbit[ptr[q]]
      BY <1>1, <1>9, <2>4, CritbitConstants
    <3>4. cb < critbit[s[1]]
      BY <1>3, <2>4, <3>1, <3>2, <3>3
    <3>5. Belongs(s, e, pre, critbit)
      BY <1>1, <2>1, EndBelongs
    <3>6. Under(s[1], d, pre, critbit) /\ Under(s[1], e, pre, critbit)
      BY <1>10, <3>1, <3>5 DEF Belongs
    <3>7. d[cb] = e[cb]
      BY <1>3, <3>4, <3>6 DEF Under
    <3> QED
      BY <3>7 DEF FirstDiff
  <2>5. n < m \/ n = m \/ m < n
    BY <1>1
  <2> QED
    BY <1>10, <2>1, <2>2, <2>3, <2>4, <2>5
<1> QED
  BY <1>2, <1>6, <1>7, <1>8, <1>9, <1>10 DEF Place

\* Nothing in the tree is closer to d: what has the bits of d before cb differs
\* from it in cb, and whatever belongs to the place has them.
LEMMA NoCloser ==
    ASSUME TypeOK, Shape, NEW pre, Sorted(pre), Complete(pre),
           NEW d \in BitStrings, NEW oh \in TreeH,
           NEW cb, FirstDiff(cb, d, digest[oh]),
           NEW q, Place(q, d, oh, cb, pre), NEW h \in TreeH
    PROVE  /\ (\A j \in Bits : j < cb => digest[h][j] = d[j])
                  => digest[h][cb] # d[cb]
           /\ Belongs(q, digest[h], pre, critbit)
                  => \A j \in Bits : j < cb => digest[h][j] = d[j]
<1>1. h \in Heads /\ oh \in Heads /\ digest[h] \in BitStrings /\ q \in TreeSlots
      /\ \A y \in Ys : y \notin Heads
  BY HeadBits, CritbitConstants DEF Place
<1>2. cb \in Bits /\ (\A j \in Bits : j \in Int) /\ \A y \in Ys : critbit[y] \in Bits
  BY DEF TypeOK, FirstDiff, Bits
<1>3. PICK f : f = digest[h]
  OBVIOUS
<1>4. PICK e : e = digest[oh]
  OBVIOUS
<1>5. ASSUME Belongs(q, f, pre, critbit)
      PROVE  \A j \in Bits : j <= cb => f[j] = e[j]
  <2>1. ptr[q] = h \/ (ptr[q] \in Ys /\ Under(ptr[q], f, pre, critbit))
    BY <1>1, <1>3, <1>5 DEF Complete
  <2>2. CASE ptr[q] = h
    BY <1>1, <1>3, <1>4, <2>2 DEF Place
  <2>3. CASE ptr[q] \in Ys /\ Under(ptr[q], f, pre, critbit)
    <3>1. Under(ptr[q], e, pre, critbit) /\ cb < critbit[ptr[q]]
      BY <1>1, <1>4, <2>3 DEF Place
    <3> QED
      BY <1>2, <2>3, <3>1 DEF Under
  <2> QED
    BY <2>1, <2>2, <2>3
<1>6. ASSUME \A j \in Bits : j < cb => f[j] = d[j] PROVE f[cb] # d[cb]
  <2>1. Belongs(q, f, pre, critbit)
    BY <1>1, <1>3, <1>6 DEF Place
  <2>2. f[cb] = e[cb]
    BY <1>2, <1>5, <2>1
  <2> QED
    BY <1>4, <2>2 DEF FirstDiff
<1>7. ASSUME Belongs(q, f, pre, critbit) PROVE \A j \in Bits : j < cb => f[j] = d[j]
  BY <1>2, <1>4, <1>5, <1>7 DEF FirstDiff
<1> QED
  BY <1>3, <1>6, <1>7

\* The new node y2 and its two leaves: the tree is as sound with them.
LEMMA InsertNode ==
    ASSUME TypeOK, Shape, NEW pre \in [Ys -> BitStrings], Sorted(pre), Complete(pre),
           NEW d \in BitStrings, NEW oh \in TreeH,
           NEW cb, FirstDiff(cb, d, digest[oh]),
           NEW q, Place(q, d, oh, cb, pre),
           NEW noh \in Heads, digest[noh] = None, NEW y2 \in Ys \ yused,
           NEW b, b = d[cb],
           ptr'[<<y2, b>>] = noh, ptr'[<<y2, 1 - b>>] = ptr[q], ptr'[q] = y2,
           \A s \in TreeSlots : s # q => ptr'[s] = ptr[s],
           critbit'[y2] = cb, \A y \in TreeY : critbit'[y] = critbit[y],
           digest'[noh] = d, \A h \in TreeH : digest'[h] = digest[h],
           TreeY' = TreeY \cup {y2}, TreeH' = TreeH \cup {noh}
    PROVE  Shape' /\ SearchTree'
<1>1. /\ TreeY \subseteq Ys /\ TreeH \subseteq Heads /\ Heads \cap Ys = {}
      /\ None \notin Heads /\ None \notin Ys /\ oh \in Heads
      /\ y2 \notin TreeY /\ noh \notin TreeH /\ q \in TreeSlots /\ Root \in TreeSlots
  BY CritbitConstants DEF TypeOK, TreeY, TreeH, Place, TreeSlots
<1>2. cb \in Bits /\ b \in {0, 1} /\ 1 - b \in {0, 1} /\ b # 1 - b
  BY DEF FirstDiff, BitStrings
<1>3. PICK x : x = ptr[q]
  OBVIOUS
<1>4. PICK sn : sn = <<y2, b>>
  OBVIOUS
<1>5. PICK sx : sx = <<y2, 1 - b>>
  OBVIOUS
<1>6. /\ sn \in Slots /\ sx \in Slots /\ sn # sx /\ sn # Root /\ sx # Root
      /\ sn[1] = y2 /\ sn[2] = b /\ sx[1] = y2 /\ sx[2] = 1 - b
  BY <1>2, <1>4, <1>5, CritbitConstants DEF Slots
<1>7. sn \notin TreeSlots /\ sx \notin TreeSlots
  BY <1>1, <1>6, InTree
<1>8. \A s \in TreeSlots' : s \in TreeSlots \/ s = sn \/ s = sx
  <2> SUFFICES ASSUME NEW s \in TreeSlots', s \notin TreeSlots PROVE s = sn \/ s = sx
    OBVIOUS
  <2>1. s \in {y2} \X {0, 1}
    BY DEF TreeSlots
  <2>2. s = <<y2, 0>> \/ s = <<y2, 1>>
    BY <2>1
  <2> QED
    BY <1>2, <1>4, <1>5, <2>2
<1>9. sn \in TreeSlots' /\ sx \in TreeSlots' /\ TreeSlots \subseteq TreeSlots'
  BY <1>2, <1>4, <1>5 DEF TreeSlots
<1>10. /\ ptr'[sn] = noh /\ ptr'[sx] = x /\ ptr'[q] = y2
       /\ \A s \in TreeSlots : s # q => ptr'[s] = ptr[s]
  BY <1>3, <1>4, <1>5
<1>11. x = oh \/ (/\ x \in TreeY /\ Under(x, digest[oh], pre, critbit) /\ cb < critbit[x])
  BY <1>1, <1>3, InTree DEF Place
<1>12. x # None /\ x \in TreeY \cup TreeH
  BY <1>1, <1>11
<1>13. \A s \in TreeSlots : ptr[s] \in TreeY \cup TreeH \cup {None}
  BY InTree
<1>14. Shape'
  <2>1. ptr'[Root] \in (TreeY \cup TreeH \cup {None})'
    BY <1>1, <1>10, <1>13
  <2>2. \A s \in TreeSlots' : s # Root => ptr'[s] \in (TreeY \cup TreeH)'
    BY <1>8, <1>10, <1>12 DEF Shape
  <2>3. \A s \in TreeSlots : s # q => ptr[s] # x /\ ptr[s] # y2 /\ ptr[s] # noh
    <3>1. \A s \in TreeSlots : s # q => ptr[s] # x
      BY <1>1, <1>3, <1>12 DEF Shape
    <3> QED
      BY <1>1, <1>13, <3>1
  <2>4. x # noh /\ x # y2 /\ noh # y2
    BY <1>1, <1>12
  <2>5. \A s, u \in TreeSlots' : ptr'[s] = ptr'[u] /\ ptr'[s] # None => s = u
    <3> SUFFICES ASSUME NEW s \in TreeSlots', NEW u \in TreeSlots',
                        ptr'[s] = ptr'[u], ptr'[s] # None
                 PROVE  s = u
      OBVIOUS
    <3>1. CASE s \in TreeSlots /\ s # q /\ u \in TreeSlots /\ u # q
      BY <1>10, <3>1 DEF Shape
    <3>2. CASE s \in TreeSlots /\ s # q /\ ~(u \in TreeSlots /\ u # q)
      BY <1>8, <1>10, <2>3, <3>2
    <3>3. CASE ~(s \in TreeSlots /\ s # q)
      BY <1>8, <1>10, <2>3, <2>4, <3>3
    <3> QED
      BY <3>1, <3>2, <3>3
  <2>6. ASSUME NEW z \in TreeY' PROVE \E s \in TreeSlots' : ptr'[s] = z
    <3>1. CASE z = y2
      BY <1>1, <1>9, <1>10, <3>1
    <3>2. CASE z # y2
      <4>1. PICK s \in TreeSlots : ptr[s] = z
        BY <2>6, <3>2 DEF Shape
      <4>2. CASE s = q
        BY <1>3, <1>9, <1>10, <4>1, <4>2
      <4>3. CASE s # q
        BY <1>9, <1>10, <4>1, <4>3
      <4> QED
        BY <4>2, <4>3
    <3> QED
      BY <3>1, <3>2
  <2> QED
    BY <2>1, <2>2, <2>5, <2>6 DEF Shape
<1> DEFINE pre2 == [pre EXCEPT ![y2] = d]
<1>15. /\ pre2 \in [Ys -> BitStrings] /\ pre2[y2] = d
       /\ \A y \in TreeY : pre2[y] = pre[y]
  BY <1>1
<1>16. critbit'[y2] = cb /\ \A y \in TreeY : critbit'[y] = critbit[y]
  OBVIOUS
<1>17. digest'[noh] = d /\ \A h \in TreeH : digest'[h] = digest[h]
  OBVIOUS
<1> HIDE DEF pre2
<1>18. \A y \in TreeY : \A f : Under(y, f, pre2, critbit') <=> Under(y, f, pre, critbit)
  BY <1>15, <1>16 DEF Under
<1>19. \A s \in TreeSlots : \A f :
          Belongs(s, f, pre2, critbit') <=> Belongs(s, f, pre, critbit)
  <2> SUFFICES ASSUME NEW s \in TreeSlots, NEW f
               PROVE  Belongs(s, f, pre2, critbit') <=> Belongs(s, f, pre, critbit)
    OBVIOUS
  <2>1. s # Root => s[1] \in TreeY
    BY InTree
  <2> QED
    BY <1>16, <1>18, <2>1 DEF Belongs
<1>20. \A f : Under(y2, f, pre2, critbit') <=> \A j \in Bits : j < cb => f[j] = d[j]
  BY <1>15, <1>16 DEF Under
<1>21. /\ \A f : Belongs(sn, f, pre2, critbit') <=>
                    f[cb] = b /\ \A j \in Bits : j < cb => f[j] = d[j]
       /\ \A f : Belongs(sx, f, pre2, critbit') <=>
                    f[cb] = 1 - b /\ \A j \in Bits : j < cb => f[j] = d[j]
  BY <1>6, <1>16, <1>20 DEF Belongs
<1>22. \A y \in Ys : critbit[y] \in Bits
  BY DEF TypeOK
<1>23. \A j \in Bits : j \in Int
  BY DEF Bits
<1>24. /\ digest[oh][cb] = 1 - b
       /\ \A j \in Bits : j < cb => digest[oh][j] = d[j]
  <2>1. digest[oh][cb] \in {0, 1}
    BY <1>2, HeadBits DEF BitStrings
  <2> QED
    BY <1>2, <2>1 DEF FirstDiff
<1>25. Sorted(pre2)'
  <2> SUFFICES ASSUME NEW s \in TreeSlots'
               PROVE  /\ ptr'[s] \in Ys =>
                            /\ Belongs(s, pre2[ptr'[s]], pre2, critbit')
                            /\ s # Root => critbit'[s[1]] < critbit'[ptr'[s]]
                      /\ ptr'[s] \in Heads => Belongs(s, digest'[ptr'[s]], pre2, critbit')
    BY DEF Sorted
  <2>1. CASE s \in TreeSlots /\ s # q
    <3>1. /\ ptr[s] \in Ys => ptr[s] \in TreeY
          /\ ptr[s] \in Heads => ptr[s] \in TreeH
          /\ s # Root => s[1] \in TreeY
      BY <2>1, InTree
    <3>2. /\ ptr[s] \in Ys => Belongs(s, pre[ptr[s]], pre, critbit)
                              /\ (s # Root => critbit[s[1]] < critbit[ptr[s]])
          /\ ptr[s] \in Heads => Belongs(s, digest[ptr[s]], pre, critbit)
      BY <2>1 DEF Sorted
    <3>3. ptr'[s] = ptr[s]
      BY <1>10, <2>1
    <3> QED
      BY <1>15, <1>16, <1>17, <1>19, <2>1, <3>1, <3>2, <3>3
  <2>2. CASE s = q
    <3>1. ptr'[s] = y2 /\ y2 \notin Heads
      BY <1>1, <1>10, <2>2
    <3>2. Belongs(q, d, pre2, critbit')
      BY <1>1, <1>19 DEF Place
    <3>3. q # Root => critbit'[q[1]] < cb
      BY <1>1, <1>16, InTree DEF Place
    <3> QED
      BY <1>15, <1>16, <2>2, <3>1, <3>2, <3>3
  <2>3. CASE s = sn
    <3>1. ptr'[s] = noh /\ noh \notin Ys
      BY <1>1, <1>10, <2>3
    <3> QED
      BY <1>17, <1>21, <2>3, <3>1
  <2>4. CASE s = sx /\ x = oh
    <3>1. ptr'[s] = oh /\ oh \notin Ys
      BY <1>1, <1>10, <2>4
    <3> QED
      BY <1>17, <1>21, <1>24, <2>4, <3>1
  <2>5. CASE s = sx /\ x # oh
    <3>1. /\ ptr'[s] = x /\ x \in TreeY /\ x \notin Heads /\ x \in Ys
          /\ Under(x, digest[oh], pre, critbit) /\ cb < critbit[x]
      BY <1>1, <1>10, <1>11, <2>5
    <3>2. \A j \in Bits : j <= cb => pre[x][j] = digest[oh][j]
      BY <1>2, <1>22, <1>23, <3>1 DEF Under
    <3>3. pre[x][cb] = 1 - b /\ \A j \in Bits : j < cb => pre[x][j] = d[j]
      BY <1>2, <1>23, <1>24, <3>2
    <3>4. Belongs(s, pre[x], pre2, critbit')
      BY <1>21, <2>5, <3>3
    <3>5. critbit'[s[1]] < critbit'[x]
      BY <1>6, <1>16, <2>5, <3>1
    <3> QED
      BY <1>15, <3>1, <3>4, <3>5
  <2> QED
    BY <1>8, <2>1, <2>2, <2>3, <2>4, <2>5
<1>26. ASSUME NEW s \in TreeSlots', NEW h \in TreeH, NEW f, f = digest[h],
              Belongs(s, f, pre2, critbit')
       PROVE  ptr'[s] = h \/ (ptr'[s] \in Ys /\ Under(ptr'[s], f, pre2, critbit'))
  <2>1. /\ (\A j \in Bits : j < cb => f[j] = d[j]) => f[cb] # d[cb]
        /\ Belongs(q, f, pre, critbit) => \A j \in Bits : j < cb => f[j] = d[j]
    BY <1>26, NoCloser
  <2>2. \A u \in TreeSlots : Belongs(u, f, pre, critbit) =>
            ptr[u] = h \/ (ptr[u] \in TreeY /\ Under(ptr[u], f, pre, critbit))
    BY <1>1, <1>26, InTree DEF Complete
  <2>3. CASE s \in TreeSlots /\ s # q
    BY <1>1, <1>10, <1>18, <1>19, <1>26, <2>2, <2>3
  <2>4. CASE s = q
    BY <1>1, <1>10, <1>19, <1>20, <1>26, <2>1, <2>4
  <2>5. CASE s = sn
    BY <1>21, <1>26, <2>1, <2>5
  <2>6. CASE s = sx
    <3>1. \A j \in Bits : j < cb => f[j] = d[j]
      BY <1>21, <1>26, <2>6
    <3>2. f \in BitStrings
      BY <1>26, HeadBits
    <3>3. Belongs(q, f, pre, critbit)
      BY <3>1, <3>2 DEF Place
    <3>4. x = h \/ (x \in TreeY /\ Under(x, f, pre, critbit))
      BY <1>1, <1>3, <2>2, <3>3
    <3> QED
      BY <1>1, <1>10, <1>18, <2>6, <3>4
  <2> QED
    BY <1>8, <2>3, <2>4, <2>5, <2>6
<1>27. ASSUME NEW s \in TreeSlots', Belongs(s, d, pre2, critbit')
       PROVE  ptr'[s] = noh \/ (ptr'[s] \in Ys /\ Under(ptr'[s], d, pre2, critbit'))
  <2>1. CASE s \in TreeSlots /\ s # q
    <3>1. ptr[s] \in Ys /\ Under(ptr[s], d, pre, critbit)
      BY <1>19, <1>27, <2>1 DEF Place
    <3>2. ptr[s] \in TreeY
      BY <2>1, <3>1, InTree
    <3> QED
      BY <1>10, <1>18, <2>1, <3>1, <3>2
  <2>2. CASE s = q
    BY <1>10, <1>20, <2>2
  <2>3. CASE s = sn
    BY <1>10, <2>3
  <2>4. CASE s = sx
    BY <1>2, <1>21, <1>27, <2>4
  <2> QED
    BY <1>8, <2>1, <2>2, <2>3, <2>4
<1>28. Complete(pre2)'
  <2> SUFFICES ASSUME NEW s \in TreeSlots', NEW h \in TreeH',
                      Belongs(s, digest'[h], pre2, critbit')
               PROVE  ptr'[s] = h \/ (ptr'[s] \in Ys /\ Under(ptr'[s], digest'[h], pre2, critbit'))
    BY DEF Complete
  <2>1. CASE h = noh
    BY <1>17, <1>27, <2>1
  <2>2. CASE h # noh
    <3>1. h \in TreeH /\ digest'[h] = digest[h]
      BY <1>17, <2>2
    <3> QED
      BY <1>26, <3>1
  <2> QED
    BY <2>1, <2>2
<1> QED
  BY <1>14, <1>15, <1>25, <1>28 DEF SearchTree

\* The first objhead goes to the root.
LEMMA InsertRoot ==
    ASSUME TypeOK, Shape, SearchTree, ptr[Root] = None, NEW noh \in Heads,
           ptr'[Root] = noh, TreeY' = TreeY, TreeH' = TreeH \cup {noh}
    PROVE  Shape' /\ SearchTree'
<1>1. PICK pre \in [Ys -> BitStrings] : Sorted(pre) /\ Complete(pre)
  BY DEF SearchTree
<1>2. None \notin Ys /\ None \notin Heads /\ Heads \cap Ys = {} /\ Root \in TreeSlots
  BY CritbitConstants DEF TreeSlots
<1>3. TreeY' = {}
  BY <1>1, <1>2, NoNodes
<1>4. TreeH = {}
  <2> SUFFICES ASSUME NEW h \in TreeH PROVE FALSE
    OBVIOUS
  <2>1. Belongs(Root, digest[h], pre, critbit) /\ h \in Heads
    BY HeadBits DEF Belongs
  <2> QED
    BY <1>1, <1>2, <2>1 DEF Complete
<1>5. TreeH' = {noh} /\ TreeSlots' = {Root}
  BY <1>3, <1>4 DEF TreeSlots
<1>6. Shape'
  BY <1>3, <1>5 DEF Shape
<1>7. Sorted(pre)' /\ Complete(pre)'
  BY <1>2, <1>5 DEF Sorted, Complete, Belongs
<1> QED
  BY <1>1, <1>6, <1>7 DEF SearchTree

\* The new objhead noh has a digest now; no other memory changes its state.
GetsDigest(noh, d) ==
    /\ noh \in Heads /\ digest[noh] = None /\ d \in Digests
    /\ digest' = [digest EXCEPT ![noh] = d]
    /\ UNCHANGED coolVars

\* It was not in the tree, nor anywhere else.
LEMMA NewHead ==
    ASSUME TypeOK, Outside, NEW noh, NEW d, GetsDigest(noh, d), yused \subseteq yused'
    PROVE  /\ digest' \in [Heads -> Digests \cup {None}]
           /\ digest'[noh] = d /\ d # None
           /\ \A h \in Heads : h # noh => digest'[h] = digest[h]
           /\ TreeH' = TreeH \cup {noh} /\ noh \notin TreeH
           /\ Used \subseteq Used' /\ Alive \subseteq Alive'
           /\ noh \in Used' /\ noh \in Alive'
           /\ cool_y' \cap dead_y' = {} /\ cool_h' \cap dead_h' = {}
           /\ \A h \in cool_h' \cup dead_h' : digest'[h] # None
<1>1. /\ noh \in Heads /\ d \in Digests /\ d # None /\ digest[noh] = None
      /\ cool_y' = cool_y /\ cool_h' = cool_h /\ dead_y' = dead_y /\ dead_h' = dead_h
  BY CritbitConstants DEF GetsDigest, coolVars
<1>2. /\ digest' \in [Heads -> Digests \cup {None}] /\ digest'[noh] = d
      /\ \A h \in Heads : h # noh => digest'[h] = digest[h]
  BY <1>1 DEF GetsDigest, TypeOK
<1>3. noh \notin cool_h \cup dead_h /\ noh \notin TreeH
  BY <1>1 DEF Outside, TreeH
<1>4. TreeH' = TreeH \cup {noh}
  BY <1>1, <1>2, <1>3 DEF TreeH
<1>5. Used \subseteq Used' /\ Alive \subseteq Alive' /\ noh \in Used' /\ noh \in Alive'
  BY <1>1, <1>2, <1>3 DEF Used, Alive
<1>6. \A h \in cool_h' \cup dead_h' : digest'[h] # None
  BY <1>1, <1>2 DEF Outside, TypeOK
<1>7. cool_y' \cap dead_y' = {} /\ cool_h' \cap dead_h' = {}
  BY <1>1 DEF Outside
<1> QED
  BY <1>1, <1>2, <1>3, <1>4, <1>5, <1>6, <1>7

\* hcb_insert into an empty tree.
LEMMA InsertAlone ==
    ASSUME IInv, NEW d \in BitStrings, NEW noh, GetsDigest(noh, d),
           ptr[Bottom(d)] = None, ptr' = [ptr EXCEPT ![Root] = noh],
           critbit' = critbit, yused' = yused
    PROVE  /\ Shape' /\ SearchTree' /\ Outside'
           /\ ptr' \in [Slots -> Ptrs] /\ critbit' \in [Ys -> Bits]
           /\ yused \subseteq yused' /\ yused' \subseteq Ys
<1>1. TypeOK /\ Shape /\ SearchTree /\ Outside /\ noh \in Heads
  BY DEF IInv, GetsDigest
<1>2. ptr[Root] = None
  BY AtBottom
<1>3. ptr'[Root] = noh /\ \A s \in Slots : s # Root => ptr'[s] = ptr[s]
  BY <1>1 DEF TypeOK, Slots
<1>4. TreeY' = TreeY
  BY DEF TreeY, GetsDigest, coolVars
<1>5. /\ TreeH' = TreeH \cup {noh} /\ Used \subseteq Used' /\ Alive \subseteq Alive'
      /\ cool_y' \cap dead_y' = {} /\ cool_h' \cap dead_h' = {}
      /\ \A h \in cool_h' \cup dead_h' : digest'[h] # None
  BY <1>1, NewHead
<1>6. Shape' /\ SearchTree'
  BY <1>1, <1>2, <1>3, <1>4, <1>5, InsertRoot
<1>7. \A y \in yused : \A b \in {0, 1} : ptr'[<<y, b>>] = ptr[<<y, b>>]
  <2> SUFFICES ASSUME NEW y \in yused, NEW b \in {0, 1}
               PROVE  ptr'[<<y, b>>] = ptr[<<y, b>>]
    OBVIOUS
  <2>1. <<y, b>> \in Slots /\ <<y, b>> # Root
    BY <1>1, CritbitConstants DEF Slots, TypeOK
  <2> QED
    BY <1>3, <2>1
<1>8. dead_y' = dead_y
  BY DEF GetsDigest, coolVars
<1>9. Outside'
  BY <1>1, <1>5, <1>7, <1>8 DEF Outside
<1>10. ptr' \in [Slots -> Ptrs] /\ critbit' \in [Ys -> Bits] /\ yused' \subseteq Ys
  BY <1>1 DEF TypeOK, Ptrs
<1> QED
  BY <1>6, <1>9, <1>10

\* The new node y2 comes between the pointer q and what it leads to.
AddsNode(y2, q, noh, d, cb) ==
    /\ ptr' = [ptr EXCEPT ![<<y2, d[cb]>>] = noh, ![<<y2, 1 - d[cb]>>] = ptr[q],
                          ![q] = y2]
    /\ critbit' = [critbit EXCEPT ![y2] = cb]
    /\ yused' = yused \cup {y2}

\* hcb_insert next to what the walk ended at, under the new node y2.
LEMMA InsertBeside ==
    ASSUME IInv, NEW d \in BitStrings, NEW noh, GetsDigest(noh, d),
           NEW oh, oh = ptr[Bottom(d)], oh # None, digest[oh] # d,
           NEW cb, cb = hcb_crit_bit(d, digest[oh]), NEW q, q = InsertAt(d, cb),
           NEW y2 \in Ys \ yused, AddsNode(y2, q, noh, d, cb)
    PROVE  /\ Shape' /\ SearchTree' /\ Outside'
           /\ ptr' \in [Slots -> Ptrs] /\ critbit' \in [Ys -> Bits]
           /\ yused \subseteq yused' /\ yused' \subseteq Ys
<1>1. TypeOK /\ Shape /\ Outside /\ noh \in Heads /\ dead_y' = dead_y /\ cool_y' = cool_y
  BY DEF IInv, GetsDigest, coolVars
<1>2. PICK pre \in [Ys -> BitStrings] : Sorted(pre) /\ Complete(pre)
  BY DEF IInv, SearchTree
<1>3. oh \in TreeH /\ digest[oh] \in BitStrings
  BY <1>1, AtBottom, HeadBits
<1>4. FirstDiff(cb, d, digest[oh])
  BY <1>3, CritBit
<1>5. PICK p : p = Path(d)
  OBVIOUS
<1>6. IsPath(p, d) /\ ptr[p[Width]] = oh
  BY <1>1, <1>5, PathStep DEF Bottom
<1>7. ptr[p[Width]] \notin Ys
  BY <1>1, <1>3, <1>6, HeadBits, CritbitConstants
<1>8. PICK m : StopsAt(p, m, cb) /\ q = p[m]
  BY <1>5, <1>7, InsertPlace
<1>9. Place(q, d, oh, cb, pre)
  BY <1>1, <1>2, <1>3, <1>4, <1>6, <1>8, PlaceFacts
<1>10. PICK b : b = d[cb]
  OBVIOUS
<1>11. cb \in Bits /\ b \in {0, 1} /\ 1 - b \in {0, 1} /\ b # 1 - b
  BY <1>4, <1>10 DEF FirstDiff, BitStrings
<1>12. q \in TreeSlots /\ q \in Slots /\ (q # Root => q[1] \in TreeY)
  BY <1>1, <1>9, InTree DEF Place
<1>13. PICK sn : sn = <<y2, b>>
  OBVIOUS
<1>14. PICK sx : sx = <<y2, 1 - b>>
  OBVIOUS
<1>15. /\ sn \in Slots /\ sx \in Slots /\ sn # sx /\ sn # Root /\ sx # Root
       /\ sn[1] = y2 /\ sx[1] = y2
  BY <1>11, <1>13, <1>14, CritbitConstants DEF Slots
<1>16. y2 \notin TreeY /\ \A s \in TreeSlots : s # sn /\ s # sx /\ s \in Slots
  <2>1. y2 \notin TreeY
    BY DEF TreeY
  <2> QED
    BY <1>1, <1>15, <2>1, InTree
<1>17. PICK x : x = ptr[q]
  OBVIOUS
<1>18. /\ ptr'[sn] = noh /\ ptr'[sx] = x /\ ptr'[q] = y2
       /\ \A s \in Slots : s # q /\ s # sn /\ s # sx => ptr'[s] = ptr[s]
       /\ ptr' \in [Slots -> Ptrs]
  <2>1. ptr' = [ptr EXCEPT ![sn] = noh, ![sx] = x, ![q] = y2]
    BY <1>10, <1>13, <1>14, <1>17 DEF AddsNode
  <2>2. x \in Ptrs /\ noh \in Ptrs /\ y2 \in Ptrs /\ ptr \in [Slots -> Ptrs]
    BY <1>1, <1>12, <1>17 DEF TypeOK, Ptrs
  <2>3. q # sn /\ q # sx
    BY <1>12, <1>16
  <2> QED
    BY <1>12, <1>15, <2>1, <2>2, <2>3
<1>19. /\ critbit'[y2] = cb /\ \A y \in TreeY : critbit'[y] = critbit[y]
       /\ critbit' \in [Ys -> Bits]
  BY <1>1, <1>11, <1>16 DEF TypeOK, AddsNode
<1>20. yused' = yused \cup {y2} /\ yused' \subseteq Ys
  BY <1>1 DEF TypeOK, AddsNode
<1>21. /\ digest'[noh] = d /\ noh \notin TreeH
       /\ \A h \in Heads : h # noh => digest'[h] = digest[h]
       /\ TreeH' = TreeH \cup {noh} /\ Used \subseteq Used' /\ Alive \subseteq Alive'
       /\ noh \in Used' /\ noh \in Alive'
       /\ cool_y' \cap dead_y' = {} /\ cool_h' \cap dead_h' = {}
       /\ \A h \in cool_h' \cup dead_h' : digest'[h] # None
  BY <1>1, <1>20, NewHead
<1>22. TreeY' = TreeY \cup {y2}
  BY <1>1, <1>20 DEF TreeY, TypeOK
<1>23. \A h \in TreeH : digest'[h] = digest[h]
  BY <1>21 DEF TreeH
<1>24. digest[noh] = None
  BY DEF GetsDigest
<1>25. Shape' /\ SearchTree'
  <2>1. ptr'[<<y2, b>>] = noh /\ ptr'[<<y2, 1 - b>>] = ptr[q] /\ ptr'[q] = y2
    BY <1>13, <1>14, <1>17, <1>18
  <2>2. \A s \in TreeSlots : s # q => ptr'[s] = ptr[s]
    BY <1>16, <1>18
  <2> QED
    BY <1>1, <1>2, <1>3, <1>4, <1>9, <1>10, <1>19, <1>21, <1>22, <1>23, <1>24, <2>1, <2>2,
       InsertNode
<1>26. x \in Alive /\ Alive \subseteq Used /\ y2 \in Alive' /\ y2 \in Used'
  <2>1. x = oh \/ x \in TreeY
    BY <1>1, <1>9, <1>12, <1>17, InTree DEF Place
  <2>2. y2 \notin dead_y
    BY <1>1 DEF TypeOK
  <2> QED
    BY <1>1, <1>3, <1>20, <2>1, <2>2 DEF Alive, Used, TreeY, TreeH
<1>27. ASSUME NEW y \in yused', NEW c \in {0, 1}
       PROVE  ptr'[<<y, c>>] \in Alive' \/ (y \in yused /\ ptr'[<<y, c>>] = ptr[<<y, c>>])
  <2>1. CASE y = y2
    <3>1. <<y, c>> = sn \/ <<y, c>> = sx
      BY <1>11, <1>13, <1>14, <2>1
    <3> QED
      BY <1>18, <1>21, <1>26, <3>1
  <2>2. CASE y # y2
    <3>1. y \in yused /\ <<y, c>> \in Slots /\ <<y, c>> # sn /\ <<y, c>> # sx
      BY <1>1, <1>13, <1>14, <1>20, <1>27, <2>2 DEF Slots, TypeOK
    <3>2. CASE <<y, c>> = q
      BY <1>18, <1>26, <3>2
    <3>3. CASE <<y, c>> # q
      BY <1>18, <3>1, <3>3
    <3> QED
      BY <3>1, <3>2, <3>3
  <2> QED
    BY <2>1, <2>2
<1>28. Outside'
  <2>1. \A y \in yused' : \A c \in {0, 1} : ptr'[<<y, c>>] \in Used'
    <3>1. Alive' \subseteq Used'
      BY DEF Alive, Used
    <3> QED
      BY <1>1, <1>21, <1>27, <3>1 DEF Outside
  <2>2. \A y \in yused' \ dead_y' : \A c \in {0, 1} : ptr'[<<y, c>>] \in Alive'
    BY <1>1, <1>21, <1>27 DEF Outside
  <2> QED
    BY <1>21, <2>1, <2>2 DEF Outside
<1> QED
  BY <1>18, <1>19, <1>20, <1>25, <1>28

\* The new objhead is in the tree, with the reference of who made it.
LEMMA InsertInv ==
    ASSUME IInv, NEW t \in Threads, hcb_insert(t)
    PROVE  IInv'
<1>1. TypeOK /\ Outside /\ Walkers /\ Counts /\ pc[t] = "lock"
  BY DEF IInv, hcb_insert
<1>2. PICK d : d = want[t]
  OBVIOUS
<1>3. d \in Digests /\ d \in BitStrings
  BY <1>1, <1>2, CritbitConstants DEF Walkers, TypeOK, BitStrings
<1>4. PICK oh2 : oh2 = ptr[Bottom(d)]
  OBVIOUS
<1>5. oh2 # None => digest[oh2] # d
  BY <1>2, <1>4 DEF hcb_insert
<1>6. PICK noh \in {h \in Heads : digest[h] = None} :
         /\ digest' = [digest EXCEPT ![noh] = d]
         /\ refcnt' = [refcnt EXCEPT ![noh] = 1]
         /\ \/ /\ oh2 = None
               /\ ptr' = [ptr EXCEPT ![Root] = noh]
               /\ UNCHANGED <<critbit, yused>>
            \/ /\ oh2 # None
               /\ \E y2 \in Ys \ yused :
                     LET cb == hcb_crit_bit(d, digest[oh2])
                         p == InsertAt(d, cb)
                     IN  /\ ptr' = [ptr EXCEPT ![<<y2, d[cb]>>] = noh,
                                               ![<<y2, 1 - d[cb]>>] = ptr[p],
                                               ![p] = y2]
                         /\ critbit' = [critbit EXCEPT ![y2] = cb]
                         /\ yused' = yused \cup {y2}
  BY <1>2, <1>4, ZenonT(60) DEF hcb_insert
<1>7. /\ pc' = [pc EXCEPT ![t] = "idle"] /\ want' = [want EXCEPT ![t] = None]
      /\ mtx' = mtx /\ early' = early /\ at' = at /\ UNCHANGED coolVars
  BY DEF hcb_insert
<1>8. GetsDigest(noh, d)
  BY <1>3, <1>6, <1>7 DEF GetsDigest
<1>9. /\ Shape' /\ SearchTree' /\ Outside'
      /\ ptr' \in [Slots -> Ptrs] /\ critbit' \in [Ys -> Bits]
      /\ yused \subseteq yused' /\ yused' \subseteq Ys
  <2>1. CASE oh2 = None
    <3>1. ptr' = [ptr EXCEPT ![Root] = noh] /\ critbit' = critbit /\ yused' = yused
      BY <1>6, <2>1
    <3> QED
      BY <1>3, <1>4, <1>8, <2>1, <3>1, InsertAlone
  <2>2. CASE oh2 # None
    <3>1. PICK cb : cb = hcb_crit_bit(d, digest[oh2])
      OBVIOUS
    <3>2. PICK q : q = InsertAt(d, cb)
      OBVIOUS
    <3>3. PICK y2 \in Ys \ yused : AddsNode(y2, q, noh, d, cb)
      BY <1>6, <2>2, <3>1, <3>2 DEF AddsNode
    <3> QED
      BY <1>3, <1>4, <1>5, <1>8, <2>2, <3>1, <3>2, <3>3, InsertBeside
  <2> QED
    BY <2>1, <2>2
<1>10. /\ digest' \in [Heads -> Digests \cup {None}]
       /\ digest'[noh] = d /\ d # None /\ noh \notin TreeH
       /\ \A h \in Heads : h # noh => digest'[h] = digest[h]
       /\ TreeH' = TreeH \cup {noh} /\ Used \subseteq Used' /\ Alive \subseteq Alive'
  BY <1>1, <1>8, <1>9, NewHead
<1>11. refcnt'[noh] = 1 /\ \A h \in Heads : h # noh => refcnt'[h] = refcnt[h]
  BY <1>1, <1>6 DEF TypeOK
<1>12. TypeOK'
  <2>1. refcnt' \in [Heads -> Nat]
    BY <1>1, <1>6 DEF TypeOK
  <2>2. cool_y' \cup dead_y' \subseteq yused' /\ cool_h' \cup dead_h' \subseteq Heads
    BY <1>1, <1>7, <1>9 DEF TypeOK, coolVars
  <2>3. pc' \in [Threads -> {"idle", "walk", "lock", "found", "delete"}]
        /\ want' \in [Threads -> Digests \cup {None}]
    BY <1>1, <1>7 DEF TypeOK
  <2> QED
    BY <1>1, <1>7, <1>9, <1>10, <2>1, <2>2, <2>3 DEF TypeOK
<1>13. /\ pc'[t] = "idle" /\ want'[t] = None
       /\ \A u \in Threads \ {t} : pc'[u] = pc[u] /\ want'[u] = want[u]
  BY <1>1, <1>7 DEF TypeOK
<1>14. Walkers'
  <2>1. early \subseteq Threads /\ t \notin early
    BY <1>1 DEF TypeOK, Walkers
  <2>2. ASSUME NEW u \in Threads, pc'[u] = "found"
        PROVE  at[u] \in Heads /\ digest'[at[u]] = want'[u]
    <3>1. u # t /\ pc[u] = "found" /\ want'[u] = want[u]
      BY <1>13, <2>2
    <3>2. at[u] \in Heads /\ digest[at[u]] = want[u] /\ want[u] # None
      BY <1>1, <3>1 DEF Walkers
    <3>3. at[u] # noh
      BY <1>6, <3>2
    <3> QED
      BY <1>10, <3>1, <3>2, <3>3
  <2>3. ASSUME NEW u \in Threads, pc'[u] \in {"walk", "found"}
        PROVE  at[u] \in Used' /\ (u \notin early => at[u] \in Alive')
    BY <1>1, <1>10, <1>13, <2>3 DEF Walkers
  <2>4. \A u \in Threads : want'[u] # None <=> pc'[u] \in {"walk", "lock", "found"}
    BY <1>1, <1>13 DEF Walkers
  <2>5. \A u \in early : pc'[u] \in {"walk", "found"}
    BY <1>1, <1>13, <2>1 DEF Walkers
  <2> QED
    BY <1>7, <2>2, <2>3, <2>4, <2>5 DEF Walkers
<1>15. Counts'
  <2>1. \A h \in Heads : refcnt'[h] > 0 => h \in TreeH'
    BY <1>1, <1>10, <1>11 DEF Counts
  <2>2. ASSUME NEW u \in Threads, pc'[u] = "delete"
        PROVE  at'[u] \in TreeH' /\ refcnt'[at'[u]] = 0 /\ mtx'[at'[u]] = u
    <3>1. pc[u] = "delete"
      BY <1>13, <2>2
    <3>2. at[u] \in TreeH /\ refcnt[at[u]] = 0 /\ mtx[at[u]] = u /\ at[u] \in Heads
      BY <1>1, <3>1 DEF Counts, TreeH
    <3> QED
      BY <1>7, <1>10, <1>11, <3>2
  <2> QED
    BY <2>1, <2>2 DEF Counts
<1> QED
  BY <1>9, <1>12, <1>14, <1>15 DEF IInv

-----------------------------------------------------------------------------
(***************************************************************************)
(* The theorems                                                            *)
(***************************************************************************)

\* Every step keeps the invariant.
LEMMA NextInv == IInv /\ [Next]_vars => IInv'
<1> SUFFICES ASSUME IInv, [Next]_vars PROVE IInv'
  OBVIOUS
<1>1. CASE UNCHANGED vars
  <2>1. UNCHANGED <<treeVars, headVars, coolVars, early, threadVars>>
    BY <1>1 DEF vars
  <2>2. /\ Shape' /\ SearchTree' /\ Outside'
        /\ TreeH' = TreeH /\ Used' = Used /\ Alive' = Alive
    BY <2>1, MemorySame DEF IInv, headVars
  <2>3. TypeOK' /\ Walkers' /\ Counts'
    BY <2>1, <2>2 DEF IInv, TypeOK, Walkers, Counts, treeVars, headVars, coolVars, threadVars
  <2> QED
    BY <2>2, <2>3 DEF IInv
<1>2. CASE Next
  <2>1. ASSUME NEW t \in Threads, NEW d \in Digests, hcb_lookup(t, d) PROVE IInv'
    BY <2>1, LookupInv
  <2>2. ASSUME NEW t \in Threads, hcb_insert_walk(t) PROVE IInv'
    BY <2>2, WalkInv
  <2>3. ASSUME NEW t \in Threads, hcb_insert_match(t) PROVE IInv'
    BY <2>3, MatchInv
  <2>4. ASSUME NEW t \in Threads, hcb_insert_found(t) PROVE IInv'
    BY <2>4, FoundInv
  <2>5. ASSUME NEW t \in Threads, hcb_insert(t) PROVE IInv'
    BY <2>5, InsertInv
  <2>6. ASSUME NEW t \in Threads, hcb_lookup_ref(t) PROVE IInv'
    BY <2>6, LookupRefInv
  <2>7. ASSUME NEW t \in Threads, NEW oh \in Heads, hcb_deref(t, oh) PROVE IInv'
    BY <2>7, DerefInv
  <2>8. ASSUME NEW t \in Threads, hcb_delete(t) PROVE IInv'
    BY <2>8, DeleteInv
  <2>9. hcb_cleaner => IInv'
    BY CleanerInv
  <2>10. hcb_cleaner_sleep => IInv'
    BY SleepInv
  <2> QED
    BY <1>2, <2>1, <2>2, <2>3, <2>4, <2>5, <2>6, <2>7, <2>8, <2>9, <2>10 DEF Next
<1> QED
  BY <1>1, <1>2

\* The types, the search tree, what was taken out of it and where the threads
\* stand, in every state of the critbit hash.
THEOREM CritbitIInv == Spec => []IInv
<1> QED
  BY InitInv, NextInv, PTL DEF Spec

\* A lookup that walks the tree without the lock never stands on memory that
\* hcb_cleaner has freed, however many nodes and objheads come and go under it.
THEOREM NeverDangling == Spec => []NoDangling
<1> QED
  BY CritbitIInv, InvNoDangling, PTL

\* The walk for the digest of an objhead in the tree ends at it, over nodes of
\* the tree with ascending critbits, after any insertions and deletions; and
\* one that was taken out has no reference and is not found any more.
THEOREM AlwaysFindable == Spec => []Findable
<1> QED
  BY CritbitIInv, InvFindable, PTL

-----------------------------------------------------------------------------
(***************************************************************************)
(* The critbit hash is a hash slinger                                      *)
(***************************************************************************)

\* The table of the slinger: the objhead with the digest and a reference.
TableSound ==
    \A d \in Digests :
        /\ Table[d] \in Heads \cup {None}
        /\ \A h \in Heads : Table[d] = h <=> digest[h] = d /\ refcnt[h] > 0

\* There is at most one, for it is in the tree.
LEMMA InvTable == IInv => TableSound
<1> SUFFICES ASSUME IInv, NEW d \in Digests
             PROVE  /\ Table[d] \in Heads \cup {None}
                    /\ \A h \in Heads : Table[d] = h <=> digest[h] = d /\ refcnt[h] > 0
  BY DEF TableSound
<1> DEFINE P(h) == digest[h] = d /\ refcnt[h] > 0
<1>1. \A g, h \in Heads : P(g) /\ P(h) => g = h
  BY InvDistinct DEF IInv, Counts, Distinct
<1>2. None \notin Heads
  BY CritbitConstants
<1>3. Table[d] = IF \E h \in Heads : P(h) THEN CHOOSE h \in Heads : P(h) ELSE None
  BY DEF Table
<1> HIDE DEF P
<1>4. CASE \E h \in Heads : P(h)
  <2>1. PICK g : g = CHOOSE h \in Heads : P(h)
    OBVIOUS
  <2>2. g \in Heads /\ P(g)
    BY <1>4, <2>1
  <2>3. Table[d] = g
    BY <1>3, <1>4, <2>1
  <2> QED
    BY <1>1, <2>2, <2>3 DEF P
<1>5. CASE ~\E h \in Heads : P(h)
  <2>1. Table[d] = None
    BY <1>3, <1>5
  <2> QED
    BY <1>2, <1>5, <2>1 DEF P
<1> QED
  BY <1>4, <1>5

\* The table changes only with the counts and digests of objheads in use.
LEMMA TableSame ==
    ASSUME TableSound, TableSound',
           \A h \in Heads : \A d \in Digests :
               digest'[h] = d /\ refcnt'[h] > 0 <=> digest[h] = d /\ refcnt[h] > 0
    PROVE  Table' = Table
<1>1. ASSUME NEW d \in Digests PROVE Table'[d] = Table[d]
  <2>1. /\ Table[d] \in Heads \cup {None} /\ Table'[d] \in Heads \cup {None}
        /\ \A h \in Heads : Table[d] = h <=> Table'[d] = h
    BY DEF TableSound
  <2>2. None \notin Heads
    BY CritbitConstants
  <2> QED
    BY <2>1, <2>2
<1>2. /\ Table = [d \in Digests |-> Table[d]]
      /\ Table' = [d \in Digests |-> Table'[d]]
  BY DEF Table
<1> QED
  BY <1>1, <1>2

\* Nothing that the contract speaks of changes.
Stutters == Table' = Table /\ refcnt' = refcnt /\ want' = want

\* What leaves the digests, the counts and the lookups alone is no step.
LEMMA QuietStep ==
    ASSUME TableSound, TableSound', digest' = digest, refcnt' = refcnt, want' = want
    PROVE  Stutters
<1>1. Table' = Table
  BY TableSame
<1> QED
  BY <1>1 DEF Stutters

\* A lookup that begins is a call.
LEMMA LookupStep ==
    ASSUME IInv, TableSound, TableSound', NEW t \in Threads, NEW d \in Digests,
           hcb_lookup(t, d)
    PROVE  Slinger!Call(t, d)
<1>1. want[t] = None
  BY DEF IInv, Walkers, hcb_lookup
<1>2. digest' = digest /\ refcnt' = refcnt /\ want' = [want EXCEPT ![t] = d]
  BY DEF hcb_lookup, headVars
<1>3. Table' = Table
  BY <1>2, TableSame
<1> QED
  BY <1>1, <1>2, <1>3 DEF Slinger!Call

\* The reference taken under oh->mtx is on the objhead that the digest has at
\* that moment; without one to share, the lookup has not taken effect yet.
LEMMA LookupRefStep ==
    ASSUME IInv, TableSound, TableSound', NEW t \in Threads, hcb_lookup_ref(t)
    PROVE  Slinger!Find(t) \/ Stutters
<1>1. PICK oh : oh = at[t]
  OBVIOUS
<1>2. /\ oh \in Heads /\ digest[oh] = want[t] /\ want[t] # None /\ want[t] \in Digests
      /\ refcnt \in [Heads -> Nat] /\ digest' = digest
  BY <1>1 DEF IInv, Walkers, TypeOK, hcb_lookup_ref
<1>3. CASE refcnt[oh] > 0
  <2>1. refcnt' = [refcnt EXCEPT ![oh] = @ + 1] /\ want' = [want EXCEPT ![t] = None]
    BY <1>1, <1>3 DEF hcb_lookup_ref
  <2>2. Table[want[t]] = oh /\ oh # None
    BY <1>2, <1>3, CritbitConstants DEF TableSound
  <2>3. \A h \in Heads : refcnt'[h] > 0 <=> refcnt[h] > 0
    BY <1>2, <1>3, <2>1
  <2>4. Table' = Table
    BY <1>2, <2>3, TableSame
  <2> QED
    BY <1>2, <2>1, <2>2, <2>4 DEF Slinger!Find
<1>4. CASE ~(refcnt[oh] > 0)
  <2>1. refcnt' = refcnt /\ want' = want
    BY <1>1, <1>4 DEF hcb_lookup_ref
  <2> QED
    BY <1>2, <2>1, QuietStep
<1> QED
  BY <1>3, <1>4

\* noh goes in only if no objhead of the digest has a reference: the walk with
\* the lock would have ended at it.
LEMMA InsertStep ==
    ASSUME IInv, TableSound, TableSound', NEW t \in Threads, hcb_insert(t)
    PROVE  Slinger!Insert(t)
<1>1. PICK d : d = want[t]
  OBVIOUS
<1>2. d \in Digests /\ d # None /\ refcnt \in [Heads -> Nat]
      /\ digest \in [Heads -> Digests \cup {None}]
  BY <1>1 DEF IInv, Walkers, TypeOK, hcb_insert
<1>3. PICK oh2 : oh2 = ptr[Bottom(d)]
  OBVIOUS
<1>4. oh2 # None => digest[oh2] # d
  BY <1>1, <1>3 DEF hcb_insert
<1>5. PICK noh \in Heads : /\ digest[noh] = None
                           /\ digest' = [digest EXCEPT ![noh] = d]
                           /\ refcnt' = [refcnt EXCEPT ![noh] = 1]
  BY <1>1 DEF hcb_insert
<1>6. want' = [want EXCEPT ![t] = None]
  BY DEF hcb_insert
<1>7. \A h \in Heads : ~(digest[h] = d /\ refcnt[h] > 0)
  <2> SUFFICES ASSUME NEW h \in Heads, digest[h] = d, refcnt[h] > 0 PROVE FALSE
    OBVIOUS
  <2>1. h \in TreeH
    BY DEF IInv, Counts
  <2>2. ptr[Bottom(d)] = h
    BY <1>2, <2>1, InvFindable DEF Findable, TreeH
  <2> QED
    BY <1>3, <1>4, <2>2, CritbitConstants
<1>8. Table[d] = None
  BY <1>2, <1>7 DEF TableSound
<1>9. refcnt[noh] = 0
  BY <1>2, <1>5 DEF IInv, Counts, TreeH
<1>10. /\ digest'[noh] = d /\ refcnt'[noh] = 1
       /\ \A h \in Heads : h # noh => digest'[h] = digest[h] /\ refcnt'[h] = refcnt[h]
  BY <1>2, <1>5
<1>11. Table'[d] = noh
  BY <1>2, <1>10 DEF TableSound
<1>12. ASSUME NEW e \in Digests, e # d PROVE Table'[e] = Table[e]
  <2>1. /\ Table[e] \in Heads \cup {None} /\ Table'[e] \in Heads \cup {None}
        /\ \A h \in Heads : Table[e] = h <=> digest[h] = e /\ refcnt[h] > 0
        /\ \A h \in Heads : Table'[e] = h <=> digest'[h] = e /\ refcnt'[h] > 0
    BY DEF TableSound
  <2>2. \A h \in Heads : Table[e] = h <=> Table'[e] = h
    BY <1>5, <1>9, <1>10, <1>12, <2>1
  <2> QED
    BY <2>1, <2>2, CritbitConstants
<1>13. /\ Table = [e \in Digests |-> Table[e]]
       /\ Table' = [e \in Digests |-> Table'[e]]
  BY DEF Table
<1>14. Table' = [Table EXCEPT ![d] = noh]
  BY <1>2, <1>11, <1>12, <1>13
<1> QED
  BY <1>1, <1>2, <1>5, <1>6, <1>8, <1>9, <1>14 DEF Slinger!Insert

\* A reference is given back, and the last one ends the objhead: from here on no
\* lookup finds it, long before it is taken out of the tree.
LEMMA DerefStep ==
    ASSUME IInv, TableSound, TableSound', NEW t \in Threads, NEW oh \in Heads,
           hcb_deref(t, oh)
    PROVE  Slinger!Deref(oh)
<1>1. /\ refcnt[oh] > 0 /\ refcnt' = [refcnt EXCEPT ![oh] = @ - 1]
      /\ digest' = digest /\ want' = want
  BY DEF hcb_deref
<1>2. refcnt \in [Heads -> Nat]
  BY DEF IInv, TypeOK
<1>3. refcnt'[oh] = refcnt[oh] - 1 /\ \A h \in Heads : h # oh => refcnt'[h] = refcnt[h]
  BY <1>1, <1>2
<1>4. refcnt'[oh] > 0 <=> refcnt[oh] # 1
  BY <1>1, <1>2, <1>3
<1>5. ASSUME NEW d \in Digests
      PROVE  Table'[d] = IF Table[d] = oh /\ refcnt[oh] = 1 THEN None ELSE Table[d]
  <2>1. /\ Table[d] \in Heads \cup {None} /\ Table'[d] \in Heads \cup {None}
        /\ \A h \in Heads : Table[d] = h <=> digest[h] = d /\ refcnt[h] > 0
        /\ \A h \in Heads : Table'[d] = h <=> digest[h] = d /\ refcnt'[h] > 0
    BY <1>1 DEF TableSound
  <2>2. \A h \in Heads : h # oh => (Table'[d] = h <=> Table[d] = h)
    BY <1>3, <2>1
  <2>3. Table'[d] = oh <=> Table[d] = oh /\ refcnt[oh] # 1
    BY <1>1, <1>4, <2>1
  <2> QED
    BY <2>1, <2>2, <2>3, CritbitConstants
<1>6. Table' = [d \in Digests |-> Table'[d]]
  BY DEF Table
<1>7. Table' = [d \in Digests |-> IF Table[d] = oh /\ refcnt[oh] = 1
                                  THEN None ELSE Table[d]]
  BY <1>5, <1>6
<1> QED
  BY <1>1, <1>7 DEF Slinger!Deref

\* What hcb_cleaner frees had no reference.
LEMMA CleanerStep ==
    ASSUME IInv, TableSound, TableSound', hcb_cleaner
    PROVE  Stutters
<1>1. refcnt' = refcnt /\ want' = want
  BY DEF hcb_cleaner, threadVars
<1>2. \A h \in Heads : digest'[h] = IF h \in dead_h THEN None ELSE digest[h]
  BY DEF hcb_cleaner
<1>3. \A h \in Heads : h \in dead_h => ~(refcnt[h] > 0)
  BY DEF IInv, Counts, TreeH
<1>4. Table' = Table
  BY <1>1, <1>2, <1>3, TableSame
<1> QED
  BY <1>1, <1>4 DEF Stutters

\* Every step of the tree is a step of the contract, or none.
LEMMA SlingerStep ==
    IInv /\ TableSound /\ TableSound' /\ [Next]_vars => [Slinger!Next]_(Slinger!vars)
<1> SUFFICES ASSUME IInv, TableSound, TableSound', [Next]_vars
             PROVE  Slinger!Next \/ Stutters
  BY DEF Stutters, Slinger!vars
<1>1. CASE UNCHANGED vars
  BY <1>1, QuietStep DEF vars, headVars, threadVars
<1>2. CASE Next
  <2>1. ASSUME NEW t \in Threads, NEW d \in Digests, hcb_lookup(t, d)
        PROVE  Slinger!Next
    BY <2>1, LookupStep DEF Slinger!Next
  <2>2. ASSUME NEW t \in Threads, hcb_insert_walk(t) PROVE Stutters
    BY <2>2, QuietStep DEF hcb_insert_walk, headVars
  <2>3. ASSUME NEW t \in Threads, hcb_insert_match(t) PROVE Stutters
    BY <2>3, QuietStep DEF hcb_insert_match, headVars
  <2>4. ASSUME NEW t \in Threads, hcb_insert_found(t) PROVE Stutters
    BY <2>4, QuietStep DEF hcb_insert_found, headVars
  <2>5. ASSUME NEW t \in Threads, hcb_insert(t) PROVE Slinger!Next
    BY <2>5, InsertStep DEF Slinger!Next
  <2>6. ASSUME NEW t \in Threads, hcb_lookup_ref(t) PROVE Slinger!Next \/ Stutters
    BY <2>6, LookupRefStep DEF Slinger!Next
  <2>7. ASSUME NEW t \in Threads, NEW oh \in Heads, hcb_deref(t, oh)
        PROVE  Slinger!Next
    BY <2>7, DerefStep DEF Slinger!Next
  <2>8. ASSUME NEW t \in Threads, hcb_delete(t) PROVE Stutters
    BY <2>8, QuietStep DEF hcb_delete
  <2>9. hcb_cleaner => Stutters
    BY CleanerStep
  <2>10. hcb_cleaner_sleep => Stutters
    BY QuietStep DEF hcb_cleaner_sleep, headVars, threadVars
  <2> QED
    BY <1>2, <2>1, <2>2, <2>3, <2>4, <2>5, <2>6, <2>7, <2>8, <2>9, <2>10 DEF Next
<1> QED
  BY <1>1, <1>2

\* An empty tree is an empty table.
LEMMA SlingerInit == Init => Slinger!Init
<1> SUFFICES ASSUME Init PROVE Slinger!Init
  OBVIOUS
<1>1. /\ refcnt = [h \in Heads |-> 0] /\ want = [t \in Threads |-> None]
  BY DEF Init
<1>2. \A h \in Heads : ~(refcnt[h] > 0)
  BY <1>1
<1>3. Table = [d \in Digests |-> None]
  BY <1>2 DEF Table
<1> QED
  BY <1>1, <1>3 DEF Slinger!Init

\* The lock-free tree implements the contract of a hash slinger: every lookup
\* takes effect at one moment, on the one objhead its digest has then, and the
\* last reference given back is the end of it for everybody.
THEOREM CritbitIsSlinger == Spec => ImplementsSlinger
<1>1. Init => Slinger!Init
  BY SlingerInit
<1>2. IInv /\ IInv' /\ [Next]_vars => [Slinger!Next]_(Slinger!vars)
  <2>1. IInv' => TableSound'
    BY InvTable, PTL
  <2> QED
    BY <2>1, InvTable, SlingerStep
<1> QED
  BY <1>1, <1>2, CritbitIInv, PTL DEF Spec, ImplementsSlinger, Slinger!Spec

-----------------------------------------------------------------------------
(***************************************************************************)
(* The contract itself, whatever slinger keeps it                          *)
(***************************************************************************)
VARIABLES table, ohref
Contract == INSTANCE HashSlinger

\* What they have to do with each other, with the types.
ContractInv == Contract!TypeOK /\ Contract!OneObjhead

\* Before the first lookup no digest has an objhead.
LEMMA ContractInitInv ==
    ASSUME None \notin Digests \cup Heads, Contract!Init
    PROVE  ContractInv
BY DEF Contract!Init, ContractInv, Contract!TypeOK, Contract!OneObjhead

\* A lookup that is called changes neither the table nor the counts.
LEMMA ContractCallInv ==
    ASSUME ContractInv, NEW t \in Threads, NEW d \in Digests, Contract!Call(t, d)
    PROVE  ContractInv'
BY DEF ContractInv, Contract!TypeOK, Contract!OneObjhead, Contract!Call

\* A lookup that finds an objhead adds a reference to one that has some.
LEMMA ContractFindInv ==
    ASSUME None \notin Digests \cup Heads, ContractInv, NEW t \in Threads, Contract!Find(t)
    PROVE  ContractInv'
<1> DEFINE h == table[want[t]]
<1>1. want[t] \in Digests /\ h \in Heads
  BY DEF ContractInv, Contract!TypeOK, Contract!Find
<1>2. Contract!TypeOK'
  BY <1>1 DEF ContractInv, Contract!TypeOK, Contract!Find
<1>3. ohref'[h] > 0 /\ \A g \in Heads \ {h} : ohref'[g] = ohref[g]
  BY <1>1 DEF ContractInv, Contract!TypeOK, Contract!Find
<1>4. table' = table
  BY DEF Contract!Find
<1>5. Contract!OneObjhead'
  BY <1>1, <1>3, <1>4 DEF ContractInv, Contract!OneObjhead
<1> QED
  BY <1>2, <1>5 DEF ContractInv

\* A new objhead was nobody's before: its count was zero.
LEMMA ContractInsertInv ==
    ASSUME None \notin Digests \cup Heads, ContractInv, NEW t \in Threads, Contract!Insert(t)
    PROVE  ContractInv'
<1>1. PICK h \in Heads : /\ ohref[h] = 0
                         /\ ohref' = [ohref EXCEPT ![h] = 1]
                         /\ table' = [table EXCEPT ![want[t]] = h]
  BY DEF Contract!Insert
<1>2. want[t] \in Digests
  BY DEF ContractInv, Contract!TypeOK, Contract!Insert
<1>3. Contract!TypeOK'
  BY <1>1, <1>2 DEF ContractInv, Contract!TypeOK, Contract!Insert
<1>4. \A d \in Digests : table[d] # h
  BY <1>1 DEF ContractInv, Contract!OneObjhead
<1>5. /\ table'[want[t]] = h
      /\ \A d \in Digests \ {want[t]} : table'[d] = table[d]
  BY <1>1, <1>2 DEF ContractInv, Contract!TypeOK
<1>6. ohref'[h] = 1 /\ \A g \in Heads \ {h} : ohref'[g] = ohref[g]
  BY <1>1 DEF ContractInv, Contract!TypeOK
<1>7. table[want[t]] = None
  BY DEF Contract!Insert
<1>8. \A g \in Heads : ohref'[g] > 0 <=> \E d \in Digests : table'[d] = g
  <2> TAKE g \in Heads
  <2>1. CASE g = h
    BY <2>1, <1>2, <1>5, <1>6
  <2>2. CASE g # h
    <3>1. ohref'[g] > 0 <=> \E d \in Digests : table[d] = g
      BY <2>2, <1>6 DEF ContractInv, Contract!OneObjhead
    <3>2. \A d \in Digests : table'[d] = g <=> table[d] = g
      BY <2>2, <1>5, <1>7
    <3> QED
      BY <3>1, <3>2
  <2> QED
    BY <2>1, <2>2
<1>9. \A d, e \in Digests : table'[d] = table'[e] /\ table'[d] # None => d = e
  BY <1>4, <1>5 DEF ContractInv, Contract!OneObjhead
<1> QED
  BY <1>3, <1>8, <1>9 DEF ContractInv, Contract!OneObjhead

\* The last reference takes the objhead away from its digest.
LEMMA ContractDerefInv ==
    ASSUME None \notin Digests \cup Heads, ContractInv, NEW h \in Heads, Contract!Deref(h)
    PROVE  ContractInv'
<1>1. Contract!TypeOK'
  BY DEF ContractInv, Contract!TypeOK, Contract!Deref
<1>2. ohref'[h] = ohref[h] - 1 /\ \A g \in Heads \ {h} : ohref'[g] = ohref[g]
  BY DEF ContractInv, Contract!TypeOK, Contract!Deref
<1>3. \A d \in Digests : table'[d] = IF table[d] = h /\ ohref[h] = 1
                                     THEN None ELSE table[d]
  BY DEF Contract!Deref
<1>4. ohref[h] \in Nat /\ ohref[h] > 0
  BY DEF ContractInv, Contract!TypeOK, Contract!Deref
<1>5. \A g \in Heads : ohref'[g] > 0 <=> \E d \in Digests : table'[d] = g
  <2> TAKE g \in Heads
  <2>1. CASE g # h
    <3>1. \A d \in Digests : table'[d] = g <=> table[d] = g
      BY <2>1, <1>3
    <3> QED
      BY <3>1, <2>1, <1>2 DEF ContractInv, Contract!OneObjhead
  <2>2. CASE g = h /\ ohref[h] = 1
    <3>1. ~(ohref'[g] > 0)
      BY <2>2, <1>2
    <3>2. \A d \in Digests : table'[d] # g
      BY <2>2, <1>3
    <3> QED
      BY <3>1, <3>2
  <2>3. CASE g = h /\ ohref[h] # 1
    <3>1. ohref'[g] > 0 /\ ohref[g] > 0
      BY <2>3, <1>2, <1>4
    <3>2. \A d \in Digests : table'[d] = table[d]
      BY <2>3, <1>3
    <3> QED
      BY <3>1, <3>2 DEF ContractInv, Contract!OneObjhead
  <2> QED
    BY <2>1, <2>2, <2>3
<1>6. \A d, e \in Digests : table'[d] = table'[e] /\ table'[d] # None => d = e
  BY <1>3 DEF ContractInv, Contract!OneObjhead
<1> QED
  BY <1>1, <1>5, <1>6 DEF ContractInv, Contract!OneObjhead

\* Whatever slinger keeps the contract, an objhead has exactly one digest while
\* somebody holds a reference on it and none afterwards: two sessions that look
\* up the same digest meet at the same objhead.
THEOREM ContractHolds == Contract!Spec => []Contract!OneObjhead
<1>4. None \notin Digests \cup Heads
  BY CritbitConstants
<1>1. Contract!Init => ContractInv
  BY <1>4, ContractInitInv
<1>2. ContractInv /\ [Contract!Next]_(Contract!vars) => ContractInv'
  <2> SUFFICES ASSUME ContractInv, [Contract!Next]_(Contract!vars) PROVE ContractInv'
    OBVIOUS
  <2>1. CASE UNCHANGED Contract!vars
    BY <2>1 DEF ContractInv, Contract!TypeOK, Contract!OneObjhead, Contract!vars
  <2>2. CASE Contract!Next
    BY <1>4, <2>2, ContractCallInv, ContractFindInv, ContractInsertInv, ContractDerefInv DEF Contract!Next
  <2> QED
    BY <2>1, <2>2
<1>3. ContractInv => Contract!OneObjhead
  BY DEF ContractInv
<1> QED
  BY <1>1, <1>2, <1>3, PTL DEF Contract!Spec

\* So it is in the critbit tree, whatever lookups without the lock see meanwhile.
THEOREM CritbitOneObjhead == Spec => []Slinger!OneObjhead
<1>1. ASSUME IInv PROVE Slinger!OneObjhead
  <2>1. TableSound
    BY <1>1, InvTable
  <2>2. None \notin Heads /\ None \notin Digests
    BY CritbitConstants
  <2>3. \A h \in Heads : digest[h] \in Digests \cup {None}
    BY <1>1 DEF IInv, TypeOK
  <2>4. \A h \in Heads : refcnt[h] > 0 => digest[h] # None
    BY <1>1 DEF IInv, Counts, TreeH
  <2>5. \A h \in Heads : refcnt[h] > 0 <=> \E d \in Digests : Table[d] = h
    BY <2>1, <2>3, <2>4 DEF TableSound
  <2>6. \A d, e \in Digests : Table[d] = Table[e] /\ Table[d] # None => d = e
    BY <2>1, <2>2 DEF TableSound
  <2> QED
    BY <2>5, <2>6 DEF Slinger!OneObjhead
<1> QED
  BY <1>1, CritbitIInv, PTL

=============================================================================
