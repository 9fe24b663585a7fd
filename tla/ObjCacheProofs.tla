--------------------------- MODULE ObjCacheProofs ---------------------------
(***************************************************************************)
(* Proofs about ObjCache, for every number of sessions, objcores, heads    *)
(* and variants, whatever VCL decides and whatever fails.  First, from the *)
(* invariant IInv: the state is well typed, no objcore or objhead is freed *)
(* while something points to it (RefcntCovers), and, unless storage fails  *)
(* altogether, no reference is leaked either (RefcntExact).  Then, from    *)
(* IInv and Extra: who may hold a busy objcore, the order of the lists,    *)
(* the assertions of the code, the coalescing of requests, the objheads'   *)
(* counts and the wake-ups.                                                *)
(***************************************************************************)
EXTENDS ObjCache, FiniteSetTheorems, SequenceTheorems, TLAPS

(***************************************************************************)
(* The inductive invariant.                                                *)
(***************************************************************************)

\* The counts cover the holders; they are exact where nothing leaks.
RefInv ==
    /\ RefcntCovers
    /\ "nostorage" \notin Faults => RefcntExact

\* The list of an objhead: its own live objcores, each once, and all of them.
ListInv ==
    /\ \A h \in Heads : \A i \in DOMAIN objcs[h] :
          /\ objcs[h][i] \in alive
          /\ head[objcs[h][i]] = h
          /\ refcnt[objcs[h][i]] > 0
    /\ \A h \in Heads : \A i, j \in DOMAIN objcs[h] :
          objcs[h][i] = objcs[h][j] => i = j
    /\ \A c \in alive : refcnt[c] > 0 =>
          \E i \in DOMAIN objcs[head[c]] : objcs[head[c]][i] = c

\* An objcore that is being freed is unreferenced, and only one thread does it.
DyingInv ==
    /\ \A t \in Threads : dying[t] # None =>
          dying[t] \in alive /\ refcnt[dying[t]] = 0
    /\ \A t, u \in Threads : dying[t] # None /\ dying[t] = dying[u] => t = u

\* Sessions on a waiting list are parked, each once, with a reference.
WaitInv ==
    /\ \A h \in Heads : \A i \in DOMAIN waiters[h] :
          /\ step[waiters[h][i]] = "WAITING"
          /\ hoh[waiters[h][i]] = h
    /\ \A h \in Heads : \A i, j \in DOMAIN waiters[h] :
          waiters[h][i] = waiters[h][j] => i = j

\* What a session holds at each step.
NoObjSteps == {"IDLE", "RECV", "PIPE", "LOOKUP", "WAITING", "MISS", "PASS",
               "FETCH", "FETCHBODY", "ERROR", "DONE"}

Holds(s) ==
    /\ step[s] \in NoObjSteps <=> obj[s] = None
    /\ step[s] \in {"HITREF", "HITPASS", "HIT", "UNBUSY"} => obj[s] \in OCs
    /\ step[s] = "MISS" => objcore[s] # None
    /\ "nostorage" \notin Faults /\ objcore[s] # None =>
          step[s] \in {"MISS", "FETCH", "FETCHBODY", "ERROR"}
    /\ hoh[s] # None => step[s] \in {"LOOKUP", "WAITING", "HITREF"}
    /\ step[s] \in {"WAITING", "HITREF"} => hoh[s] # None

\* The request at each step.
ReqOK(s) ==
    /\ req[s].esi <=> parent[s] # None
    /\ step[s] \in {"IDLE", "WAITING"} => ~req[s].esi
    /\ step[s] \in {"LOOKUP", "WAITING"} =>
          req[s].head \in Heads /\ req[s].variant \in Variants
    /\ step[s] \in {"LOOKUP", "WAITING", "HITREF", "HITPASS", "HIT", "MISS",
                    "PASS", "FETCH"} => req[s].restarts < MaxRestarts
    /\ step[s] = "UNBUSY" =>
          ret[s] \in {"STREAMED"} \cup (IF stream[s] THEN {} ELSE {"PREPRESP"})
    /\ step[s] \in {"DROP", "DROPPED"} => ret[s] \in {"RECV", "ERROR"}
    /\ stream[s] => step[s] \in {"PREPRESP", "STREAMBODY", "UNBUSY",
          "STREAMED", "DONE", "DROP", "DROPPED", "RECV", "ERROR"}

SessInv == \A s \in Sessions : Holds(s) /\ ReqOK(s)

\* An object that is still being fetched has no reference but its fetcher's.
Fetching(s) ==
    step[s] \in {"BODY", "STREAMBODY"} \/ (step[s] = "PREPRESP" /\ stream[s])

Sole(s) ==
    /\ objcore[s] # None => objcore[s] \in busy /\ refcnt[objcore[s]] = 1
    /\ Fetching(s) /\ obj[s] \in OCs =>
          obj[s] \in busy /\ refcnt[obj[s]] = 1

SoleInv == \A s \in Sessions : Sole(s)

IInv ==
    /\ TypeOK /\ RefInv /\ ListInv /\ DyingInv /\ WaitInv /\ SessInv /\ SoleInv

-----------------------------------------------------------------------------
(***************************************************************************)
(* Lists.                                                                  *)
(***************************************************************************)

\* Without (VTAILQ_REMOVE) takes one entry off a list whose entries differ and
\* keeps all the others.
LEMMA WithoutFacts ==
    ASSUME NEW S, NEW q \in Seq(S), NEW k \in DOMAIN q,
           \A i, j \in DOMAIN q : q[i] = q[j] => i = j
    PROVE  LET r == Without(q, q[k]) IN
           /\ r \in Seq(S)
           /\ \A i \in DOMAIN r : \E j \in DOMAIN q : r[i] = q[j] /\ j # k
           /\ \A j \in DOMAIN q : j # k => \E i \in DOMAIN r : r[i] = q[j]
           /\ \A i, j \in DOMAIN r : r[i] = r[j] => i = j
  <1> DEFINE r == Without(q, q[k])
  <1>1. Len(q) \in Nat /\ DOMAIN q = 1..Len(q) /\ \A i \in DOMAIN q : q[i] \in S
    OBVIOUS
  <1>2. (CHOOSE i \in DOMAIN q : q[i] = q[k]) = k
    OBVIOUS
  <1>3. r = [i \in 1..(Len(q) - 1) |-> IF i < k THEN q[i] ELSE q[i + 1]]
    BY <1>2 DEF Without
  <1>4. Len(q) - 1 \in Nat
    BY <1>1
  <1>5. r \in Seq(S) /\ DOMAIN r = 1..(Len(q) - 1)
    BY <1>1, <1>3, <1>4
  <1>6. \A i \in DOMAIN r : \E j \in DOMAIN q : r[i] = q[j] /\ j # k
    <2> TAKE i \in DOMAIN r
    <2>1. CASE i < k
      BY <2>1, <1>1, <1>3, <1>5
    <2>2. CASE ~(i < k)
      <3>1. r[i] = q[i + 1] /\ i + 1 \in DOMAIN q /\ i + 1 # k
        BY <2>2, <1>1, <1>3, <1>5
      <3> QED BY <3>1
    <2> QED BY <2>1, <2>2
  <1>7. \A j \in DOMAIN q : j # k => \E i \in DOMAIN r : r[i] = q[j]
    <2> SUFFICES ASSUME NEW j \in DOMAIN q, j # k
                 PROVE  \E i \in DOMAIN r : r[i] = q[j]
      OBVIOUS
    <2>1. CASE j < k
      <3>1. j \in DOMAIN r /\ r[j] = q[j]
        BY <2>1, <1>1, <1>3, <1>5
      <3> QED BY <3>1
    <2>2. CASE ~(j < k)
      <3>1. j - 1 \in DOMAIN r /\ r[j - 1] = q[j]
        BY <2>2, <1>1, <1>3, <1>5
      <3> QED BY <3>1
    <2> QED BY <2>1, <2>2
  <1>8. \A i, j \in DOMAIN r : r[i] = r[j] => i = j
    BY <1>1, <1>3, <1>5
  <1> QED BY <1>5, <1>6, <1>7, <1>8

\* VTAILQ_INSERT_HEAD: a new entry in front of a list whose entries differ.
LEMMA ConsFacts ==
    ASSUME NEW S, NEW q \in Seq(S), NEW c \in S,
           \A i, j \in DOMAIN q : q[i] = q[j] => i = j,
           \A i \in DOMAIN q : q[i] # c
    PROVE  LET r == <<c>> \o q IN
           /\ r \in Seq(S)
           /\ \A i \in DOMAIN r : r[i] = c \/ \E j \in DOMAIN q : r[i] = q[j]
           /\ \A j \in DOMAIN q : \E i \in DOMAIN r : r[i] = q[j]
           /\ \E i \in DOMAIN r : r[i] = c
           /\ \A i, j \in DOMAIN r : r[i] = r[j] => i = j
  <1> DEFINE r == <<c>> \o q
  <1>1. /\ r \in Seq(S) /\ Len(q) \in Nat /\ DOMAIN q = 1..Len(q)
        /\ Len(r) = Len(q) + 1 /\ DOMAIN r = 1..(Len(q) + 1)
    OBVIOUS
  <1>2. r[1] = c /\ 1 \in DOMAIN r
    BY <1>1
  <1>3. \A j \in DOMAIN q : r[j + 1] = q[j] /\ j + 1 \in DOMAIN r
    BY <1>1
  <1>4. \A i \in DOMAIN r : i = 1 \/ (i - 1 \in DOMAIN q /\ r[i] = q[i - 1])
    BY <1>1
  <1> HIDE DEF r
  <1>5. ASSUME NEW i \in DOMAIN r, NEW j \in DOMAIN r, r[i] = r[j]
        PROVE  i = j
    <2>1. i \in Nat /\ j \in Nat
      BY <1>1
    <2>2. CASE i = 1
      BY <1>2, <1>4, <1>5, <2>2
    <2>3. CASE j = 1
      BY <1>2, <1>4, <1>5, <2>3
    <2>4. CASE i # 1 /\ j # 1
      <3>1. i - 1 = j - 1
        BY <1>4, <1>5, <2>4
      <3> QED BY <2>1, <3>1
    <2> QED BY <2>2, <2>3, <2>4
  <1>6. \A j \in DOMAIN q : \E i \in DOMAIN r : r[i] = q[j]
    BY <1>3
  <1>7. \A i \in DOMAIN r : r[i] = c \/ \E j \in DOMAIN q : r[i] = q[j]
    BY <1>2, <1>4
  <1> QED BY <1>1, <1>2, <1>5, <1>6, <1>7 DEF r

\* VTAILQ_INSERT_TAIL: a new entry at the end of a list whose entries differ.
LEMMA AppendFacts ==
    ASSUME NEW S, NEW q \in Seq(S), NEW c \in S,
           \A i, j \in DOMAIN q : q[i] = q[j] => i = j,
           \A i \in DOMAIN q : q[i] # c
    PROVE  LET r == Append(q, c) IN
           /\ r \in Seq(S)
           /\ \A i \in DOMAIN r : r[i] = c \/ \E j \in DOMAIN q : r[i] = q[j]
           /\ \A j \in DOMAIN q : \E i \in DOMAIN r : r[i] = q[j]
           /\ \E i \in DOMAIN r : r[i] = c
           /\ \A i, j \in DOMAIN r : r[i] = r[j] => i = j
  <1> DEFINE r == Append(q, c)
  <1>1. /\ r \in Seq(S) /\ Len(q) \in Nat /\ DOMAIN q = 1..Len(q)
        /\ DOMAIN r = 1..(Len(q) + 1)
    OBVIOUS
  <1>2. r[Len(q) + 1] = c /\ Len(q) + 1 \in DOMAIN r
    BY <1>1
  <1>3. \A j \in DOMAIN q : r[j] = q[j] /\ j \in DOMAIN r
    BY <1>1
  <1>4. \A i \in DOMAIN r : i = Len(q) + 1 \/ i \in DOMAIN q
    BY <1>1
  <1> HIDE DEF r
  <1>5. \A i, j \in DOMAIN r : r[i] = r[j] => i = j
    BY <1>2, <1>3, <1>4
  <1>6. \A j \in DOMAIN q : \E i \in DOMAIN r : r[i] = q[j]
    BY <1>3
  <1>7. \A i \in DOMAIN r : r[i] = c \/ \E j \in DOMAIN q : r[i] = q[j]
    BY <1>2, <1>3, <1>4
  <1> QED BY <1>1, <1>2, <1>5, <1>6, <1>7 DEF r

\* What is left of a list after its first n entries.
LEMMA SuffixFacts ==
    ASSUME NEW S, NEW q \in Seq(S), NEW n \in 0..Len(q)
    PROVE  LET r == SubSeq(q, n + 1, Len(q)) IN
           /\ r \in Seq(S)
           /\ \A i \in DOMAIN r : /\ i \in Nat /\ i > 0
                                 /\ i + n \in DOMAIN q
                                 /\ r[i] = q[i + n]
  <1> DEFINE r == SubSeq(q, n + 1, Len(q))
  <1>1. /\ Len(q) \in Nat /\ DOMAIN q = 1..Len(q) /\ n \in Nat /\ n <= Len(q)
        /\ \A i \in 1..Len(q) : q[i] \in S
    OBVIOUS
  <1>2. n + 1 \in Int /\ Len(q) \in Int /\ \A i \in (n + 1)..Len(q) : q[i] \in S
    BY <1>1
  <1>3. /\ r \in Seq(S)
        /\ Len(r) = IF n + 1 <= Len(q) THEN Len(q) - (n + 1) + 1 ELSE 0
        /\ \A i \in 1..(Len(q) - (n + 1) + 1) : r[i] = q[(n + 1) + i - 1]
    BY <1>2, SubSeqProperties
  <1> HIDE DEF r
  <1>4. Len(r) = Len(q) - n
    <2>1. CASE n + 1 <= Len(q)
      BY <2>1, <1>1, <1>3
    <2>2. CASE n = Len(q)
      BY <2>2, <1>1, <1>3
    <2>3. n + 1 <= Len(q) \/ n = Len(q)
      <3>1. n \in Nat /\ Len(q) \in Nat /\ n <= Len(q)
        BY <1>1
      <3>2. \A a, b \in Nat : a <= b => a + 1 <= b \/ a = b
        OBVIOUS
      <3> QED BY <3>1, <3>2
    <2> QED BY <2>1, <2>2, <2>3
  <1>5. DOMAIN r = 1..(Len(q) - n)
    BY <1>3, <1>4
  <1>6. \A i \in 1..(Len(q) - n) : /\ i \in Nat /\ i > 0 /\ i + n \in DOMAIN q
                                  /\ r[i] = q[i + n]
    <2> TAKE i \in 1..(Len(q) - n)
    <2>1. i \in Nat /\ i > 0 /\ i + n \in DOMAIN q /\ (n + 1) + i - 1 = i + n
      BY <1>1
    <2>2. i \in 1..(Len(q) - (n + 1) + 1)
      BY <1>1
    <2>3. r[i] = q[(n + 1) + i - 1]
      BY <1>3, <2>2
    <2> QED BY <2>1, <2>3
  <1> QED BY <1>3, <1>5, <1>6 DEF r

-----------------------------------------------------------------------------
(***************************************************************************)
(* Counting.                                                               *)
(***************************************************************************)

\* The possible holders are finitely many.
LEMMA TokensFinite == IsFiniteSet(Tokens) /\ IsFiniteSet(HeadTokens)
  <1> DEFINE K == {"objcore", "obj", "parent", "purge", "taken", "lru"}
  <1>1. IsFiniteSet(Threads)
    BY FiniteInstance, FS_AddElement DEF Threads
  <1>2. IsFiniteSet(K)
    <2>1. IsFiniteSet({"objcore"})
      BY FS_Singleton
    <2>2. IsFiniteSet({"objcore"} \cup {"obj"})
      BY <2>1, FS_AddElement
    <2>3. IsFiniteSet(({"objcore"} \cup {"obj"}) \cup {"parent"})
      BY <2>2, FS_AddElement
    <2>4. IsFiniteSet((({"objcore"} \cup {"obj"}) \cup {"parent"})
                          \cup {"purge"})
      BY <2>3, FS_AddElement
    <2>5. IsFiniteSet(((({"objcore"} \cup {"obj"}) \cup {"parent"})
                          \cup {"purge"}) \cup {"taken"})
      BY <2>4, FS_AddElement
    <2>6. IsFiniteSet((((({"objcore"} \cup {"obj"}) \cup {"parent"})
                          \cup {"purge"}) \cup {"taken"}) \cup {"lru"})
      BY <2>5, FS_AddElement
    <2>7. K = (((({"objcore"} \cup {"obj"}) \cup {"parent"}) \cup {"purge"})
                  \cup {"taken"}) \cup {"lru"}
      OBVIOUS
    <2> QED BY <2>6, <2>7
  <1>3. IsFiniteSet(Tokens)
    BY <1>1, <1>2, FS_Product DEF Tokens
  <1>4. IsFiniteSet({"oc"} \X OCs) /\ IsFiniteSet({"sess"} \X Sessions)
    BY FiniteInstance, FS_Product, FS_Singleton
  <1> QED BY <1>3, <1>4, FS_Union DEF HeadTokens

\* So the holders can be counted, now and after a step.
LEMMA HoldersFinite ==
    /\ \A c : IsFiniteSet(Holders(c)) /\ Cardinality(Holders(c)) \in Nat
    /\ \A h : IsFiniteSet(HeadHolders(h)) /\ Cardinality(HeadHolders(h)) \in Nat
    /\ \A c : IsFiniteSet(Holders(c)') /\ Cardinality(Holders(c)') \in Nat
    /\ \A h : IsFiniteSet(HeadHolders(h)')
              /\ Cardinality(HeadHolders(h)') \in Nat
  <1>1. ASSUME NEW c
        PROVE  IsFiniteSet(Holders(c)) /\ Cardinality(Holders(c)) \in Nat
    <2>1. Holders(c) \in SUBSET Tokens
      BY DEF Holders
    <2> QED BY <2>1, TokensFinite, FS_Subset, FS_CardinalityType
  <1>2. ASSUME NEW h
        PROVE  IsFiniteSet(HeadHolders(h)) /\ Cardinality(HeadHolders(h)) \in Nat
    <2>1. HeadHolders(h) \in SUBSET HeadTokens
      BY DEF HeadHolders
    <2> QED BY <2>1, TokensFinite, FS_Subset, FS_CardinalityType
  <1>3. ASSUME NEW c
        PROVE  IsFiniteSet(Holders(c)') /\ Cardinality(Holders(c)') \in Nat
    <2>1. Holders(c)' \in SUBSET Tokens
      BY DEF Holders
    <2> QED BY <2>1, TokensFinite, FS_Subset, FS_CardinalityType
  <1>4. ASSUME NEW h
        PROVE  /\ IsFiniteSet(HeadHolders(h)')
               /\ Cardinality(HeadHolders(h)') \in Nat
    <2>1. HeadHolders(h)' \in SUBSET HeadTokens
      BY DEF HeadHolders
    <2> QED BY <2>1, TokensFinite, FS_Subset, FS_CardinalityType
  <1> QED BY <1>1, <1>2, <1>3, <1>4

\* How a count changes when one holder comes, goes or changes hands.
LEMMA CountChange ==
    ASSUME NEW S, NEW T, NEW k, NEW m, IsFiniteSet(S)
    PROVE  /\ k \notin S /\ T = S \cup {k} => Cardinality(T) = Cardinality(S) + 1
           /\ k \in S /\ T = S \ {k} => Cardinality(T) = Cardinality(S) - 1
           /\ k \in S /\ m \notin S /\ T = (S \ {k}) \cup {m} =>
                 Cardinality(T) = Cardinality(S)
           /\ T \subseteq S => Cardinality(T) <= Cardinality(S)
           /\ k \in S => Cardinality(S) >= 1
           /\ k \in S /\ m \in S /\ k # m => Cardinality(S) >= 2
  <1>0. Cardinality(S) \in Nat
    BY FS_CardinalityType
  <1>1. k \notin S /\ T = S \cup {k} => Cardinality(T) = Cardinality(S) + 1
    BY FS_AddElement
  <1>2. k \in S => /\ Cardinality(S \ {k}) = Cardinality(S) - 1
                   /\ IsFiniteSet(S \ {k}) /\ Cardinality(S \ {k}) \in Nat
    BY FS_RemoveElement, FS_CardinalityType
  <1>3. k \in S /\ m \notin S /\ T = (S \ {k}) \cup {m} =>
            Cardinality(T) = Cardinality(S)
    <2> SUFFICES ASSUME k \in S, m \notin S, T = (S \ {k}) \cup {m}
                 PROVE  Cardinality(T) = Cardinality(S)
      OBVIOUS
    <2>1. m \notin S \ {k}
      OBVIOUS
    <2>2. Cardinality(T) = Cardinality(S \ {k}) + 1
      BY <1>2, <2>1, FS_AddElement
    <2> QED BY <1>0, <1>2, <2>2
  <1>4. T \subseteq S => Cardinality(T) <= Cardinality(S)
    BY FS_Subset
  <1>5. k \in S => Cardinality(S) >= 1
    BY <1>0, <1>2
  <1>6. k \in S /\ m \in S /\ k # m => Cardinality(S) >= 2
    <2> SUFFICES ASSUME k \in S, m \in S, k # m PROVE Cardinality(S) >= 2
      OBVIOUS
    <2>1. m \in S \ {k}
      OBVIOUS
    <2>2. Cardinality((S \ {k}) \ {m}) = Cardinality(S \ {k}) - 1
      BY <1>2, <2>1, FS_RemoveElement
    <2>3. Cardinality((S \ {k}) \ {m}) \in Nat
      BY <1>2, FS_RemoveElement, FS_CardinalityType
    <2> QED BY <1>0, <1>2, <2>2, <2>3
  <1> QED BY <1>1, <1>2, <1>3, <1>4, <1>5, <1>6

-----------------------------------------------------------------------------
(***************************************************************************)
(* Waking sessions.                                                        *)
(***************************************************************************)

\* What hsh_rush is given: the caller's own progress, which parks nobody and
\* leaves the parked sessions alone ...
RushArgs(stp, rq) ==
    /\ stp \in [Sessions -> Steps]
    /\ rq \in [Sessions -> Requests]
    /\ \A x \in Sessions : step[x] = "WAITING" <=> stp[x] = "WAITING"
    /\ \A x \in Sessions : step[x] = "WAITING" => rq[x] = req[x]

\* ... and what it makes of it: every session goes on as the caller says, or
\* was parked and is requeued or dropped.
Rushed(stp, rq) ==
    /\ waiters' \in [Heads -> Seq(Sessions)]
    /\ step' \in [Sessions -> Steps]
    /\ req' \in [Sessions -> Requests]
    /\ hoh' \in [Sessions -> Heads \cup {None}]
    /\ \A x \in Sessions :
          \/ step'[x] = stp[x] /\ req'[x] = rq[x] /\ hoh'[x] = hoh[x]
          \/ /\ step[x] = "WAITING" /\ step'[x] = "LOOKUP"
             /\ req'[x] = req[x] /\ hoh'[x] = hoh[x]
          \/ /\ step[x] = "WAITING" /\ step'[x] = "IDLE"
             /\ req'[x] = NoReq /\ hoh'[x] = None

\* hsh_rush wakes sessions and keeps the waiting lists sound.
LEMMA RushFacts ==
    ASSUME TypeOK, WaitInv, NEW h \in Heads, NEW stp, NEW rq,
           RushArgs(stp, rq), hsh_rush(h, stp, rq)
    PROVE  Rushed(stp, rq) /\ WaitInv'
  <1> USE DEF RushArgs, Rushed
  <1> DEFINE q == waiters[h]
             most == IF Len(q) < RushExponent THEN Len(q) ELSE RushExponent
  <1>1. /\ q \in Seq(Sessions) /\ Len(q) \in Nat /\ DOMAIN q = 1..Len(q)
        /\ \A i \in 1..Len(q) : q[i] \in Sessions
        /\ hoh \in [Sessions -> Heads \cup {None}]
        /\ waiters \in [Heads -> Seq(Sessions)]
    BY DEF TypeOK
  <1>2. most \in 0..Len(q)
    BY <1>1, ParamsAreSane
  <1>3. NoReq \in Requests /\ {"LOOKUP", "IDLE"} \subseteq Steps
    BY ParamsAreSane DEF NoReq, Requests, Steps
  <1>4. \A n \in 0..Len(q) : \A x \in Requeued(q, n) :
            x \in Sessions /\ step[x] = "WAITING" /\ hoh[x] = h
    BY <1>1 DEF Requeued, WaitInv
  <1>5. ASSUME NEW n \in 0..Len(q)
        PROVE  LET r == SubSeq(q, n + 1, Len(q)) IN
               /\ r \in Seq(Sessions)
               /\ \A i \in DOMAIN r : /\ i \in Nat /\ i > 0
                                      /\ i + n \in DOMAIN q
                                      /\ r[i] = q[i + n]
    BY <1>1, SuffixFacts
  <1>6. \A i, j \in DOMAIN q : q[i] = q[j] => i = j
    BY DEF WaitInv
  <1>9. ASSUME NEW n \in 0..Len(q), NEW i \in DOMAIN q, i > n
        PROVE  q[i] \notin Requeued(q, n)
    <2> SUFFICES ASSUME NEW j \in 1..n PROVE q[i] # q[j]
      BY DEF Requeued
    <2>1. j \in DOMAIN q /\ j # i
      BY <1>1, <1>9
    <2> QED BY <1>6, <2>1
  <1>7. CASE /\ waiters' = [waiters EXCEPT ![h] = SubSeq(q, most + 1, Len(q))]
             /\ step' = [s \in Sessions |->
                           IF s \in Requeued(q, most) THEN "LOOKUP" ELSE stp[s]]
             /\ req' = rq
             /\ hoh' = hoh
    <2>1. /\ waiters' \in [Heads -> Seq(Sessions)]
          /\ step' \in [Sessions -> Steps]
          /\ req' \in [Sessions -> Requests]
          /\ hoh' \in [Sessions -> Heads \cup {None}]
      BY <1>1, <1>2, <1>3, <1>5, <1>7
    <2>2. \A x \in Sessions :
             \/ step'[x] = stp[x] /\ req'[x] = rq[x] /\ hoh'[x] = hoh[x]
             \/ /\ step[x] = "WAITING" /\ step'[x] = "LOOKUP"
                /\ req'[x] = req[x] /\ hoh'[x] = hoh[x]
      BY <1>2, <1>4, <1>7
    <2>3. ASSUME NEW g \in Heads, NEW i \in DOMAIN waiters'[g]
          PROVE  /\ waiters'[g][i] \in Sessions
                 /\ step'[waiters'[g][i]] = "WAITING" /\ hoh'[waiters'[g][i]] = g
      <3>1. CASE g = h
        <4>1. waiters'[g] = SubSeq(q, most + 1, Len(q))
          BY <3>1, <1>1, <1>7
        <4>2. i + most \in DOMAIN q /\ waiters'[g][i] = q[i + most] /\ i \in Nat
              /\ i > 0
          BY <4>1, <1>2, <1>5
        <4>3. q[i + most] \notin Requeued(q, most) /\ q[i + most] \in Sessions
          BY <4>2, <1>1, <1>2, <1>9
        <4>4. step[q[i + most]] = "WAITING" /\ hoh[q[i + most]] = h
          BY <4>2 DEF WaitInv
        <4> QED BY <3>1, <4>2, <4>3, <4>4, <1>7
      <3>2. CASE g # h
        <4>1. waiters'[g] = waiters[g]
          BY <3>2, <1>1, <1>7
        <4>2. waiters[g][i] \in Sessions
          BY <4>1, <1>1, <2>3
        <4>3. step[waiters[g][i]] = "WAITING" /\ hoh[waiters[g][i]] = g
          BY <4>1, <2>3 DEF WaitInv
        <4>4. waiters[g][i] \notin Requeued(q, most)
          BY <3>2, <4>3, <1>2, <1>4
        <4> QED BY <4>1, <4>2, <4>3, <4>4, <1>7
      <3> QED BY <3>1, <3>2
    <2>4. ASSUME NEW g \in Heads, NEW i \in DOMAIN waiters'[g],
                 NEW j \in DOMAIN waiters'[g], waiters'[g][i] = waiters'[g][j]
          PROVE  i = j
      <3>1. CASE g = h
        <4>1. waiters'[g] = SubSeq(q, most + 1, Len(q))
          BY <3>1, <1>1, <1>7
        <4>2. /\ i + most \in DOMAIN q /\ waiters'[g][i] = q[i + most]
              /\ j + most \in DOMAIN q /\ waiters'[g][j] = q[j + most]
          BY <4>1, <1>2, <1>5, <2>4
        <4>3. i + most = j + most
          BY <4>2, <2>4, <1>6
        <4>4. i \in Nat /\ j \in Nat
          BY <2>1, <2>4
        <4> QED BY <4>3, <4>4, <1>1, <1>2
      <3>2. CASE g # h
        <4>1. waiters'[g] = waiters[g]
          BY <3>2, <1>1, <1>7
        <4> QED BY <4>1, <2>4 DEF WaitInv
      <3> QED BY <3>1, <3>2
    <2> QED BY <2>1, <2>2, <2>3, <2>4 DEF WaitInv
  <1>8. ASSUME NEW n \in 0..(most - 1),
               waiters' = [waiters EXCEPT ![h] = SubSeq(q, n + 2, Len(q))],
               step' = [s \in Sessions |->
                          IF s \in Requeued(q, n) THEN "LOOKUP"
                          ELSE IF s = q[n + 1] THEN "IDLE" ELSE stp[s]],
               req' = [rq EXCEPT ![q[n + 1]] = NoReq],
               hoh' = [hoh EXCEPT ![q[n + 1]] = None]
        PROVE  Rushed(stp, rq) /\ WaitInv'
    <2> DEFINE m == n + 1
    <2>0. /\ n \in 0..Len(q) /\ m \in 0..Len(q) /\ m \in DOMAIN q
          /\ q[m] \in Sessions /\ step[q[m]] = "WAITING" /\ n \in Nat /\ m \in Nat
      BY <1>1, <1>2, <1>8 DEF WaitInv
    <2>1. /\ waiters' \in [Heads -> Seq(Sessions)]
          /\ waiters'[h] = SubSeq(q, m + 1, Len(q))
          /\ step' \in [Sessions -> Steps]
          /\ req' \in [Sessions -> Requests]
          /\ hoh' \in [Sessions -> Heads \cup {None}]
      BY <1>1, <1>2, <1>3, <1>5, <1>8, <2>0
    <2>2. q[m] \notin Requeued(q, n)
      BY <2>0, <1>9
    <2>3. \A x \in Sessions :
             \/ step'[x] = stp[x] /\ req'[x] = rq[x] /\ hoh'[x] = hoh[x]
             \/ /\ step[x] = "WAITING" /\ step'[x] = "LOOKUP"
                /\ req'[x] = req[x] /\ hoh'[x] = hoh[x]
             \/ /\ step[x] = "WAITING" /\ step'[x] = "IDLE"
                /\ req'[x] = NoReq /\ hoh'[x] = None
      <3> TAKE x \in Sessions
      <3>1. CASE x \in Requeued(q, n)
        BY <3>1, <1>1, <1>4, <1>8, <2>0, <2>2
      <3>2. CASE x = q[m]
        BY <3>2, <1>1, <1>8, <2>0, <2>2
      <3>3. CASE x \notin Requeued(q, n) /\ x # q[m]
        BY <3>3, <1>1, <1>8, <2>0
      <3> QED BY <3>1, <3>2, <3>3
    <2>4. ASSUME NEW g \in Heads, NEW i \in DOMAIN waiters'[g]
          PROVE  /\ step'[waiters'[g][i]] = "WAITING"
                 /\ hoh'[waiters'[g][i]] = g
      <3>1. CASE g = h
        <4>2. i + m \in DOMAIN q /\ waiters'[g][i] = q[i + m] /\ i \in Nat /\ i > 0
          BY <3>1, <1>5, <2>0, <2>1, <2>4
        <4>3. /\ q[i + m] \notin Requeued(q, n) /\ q[i + m] \in Sessions
              /\ q[i + m] # q[m]
          <5>1. q[i + m] \notin Requeued(q, n)
            <6>1. i + m > n
              BY <4>2, <2>0
            <6> QED BY <6>1, <4>2, <2>0, <1>9
          <5>2. i + m # m
            BY <4>2, <2>0
          <5>3. q[i + m] # q[m]
            BY <5>2, <4>2, <2>0, <1>6
          <5> QED BY <5>1, <5>3, <4>2, <1>1
        <4>4. step[q[i + m]] = "WAITING" /\ hoh[q[i + m]] = h
          BY <4>2 DEF WaitInv
        <4> QED BY <3>1, <4>2, <4>3, <4>4, <1>1, <1>8
      <3>2. CASE g # h
        <4>1. waiters'[g] = waiters[g]
          BY <3>2, <1>1, <1>8
        <4>2. waiters[g][i] \in Sessions
          BY <4>1, <1>1, <2>4
        <4>3. step[waiters[g][i]] = "WAITING" /\ hoh[waiters[g][i]] = g
          BY <4>1, <2>4 DEF WaitInv
        <4>4. waiters[g][i] \notin Requeued(q, n) /\ waiters[g][i] # q[m]
          <5>1. hoh[q[m]] = h
            BY <2>0 DEF WaitInv
          <5> QED BY <3>2, <4>3, <2>0, <1>4, <5>1
        <4> QED BY <4>1, <4>2, <4>3, <4>4, <1>1, <1>8
      <3> QED BY <3>1, <3>2
    <2>5. ASSUME NEW g \in Heads, NEW i \in DOMAIN waiters'[g],
                 NEW j \in DOMAIN waiters'[g], waiters'[g][i] = waiters'[g][j]
          PROVE  i = j
      <3>1. CASE g = h
        <4>2. /\ i + m \in DOMAIN q /\ waiters'[g][i] = q[i + m]
              /\ j + m \in DOMAIN q /\ waiters'[g][j] = q[j + m]
          BY <3>1, <1>5, <2>0, <2>1, <2>5
        <4>3. i + m = j + m
          BY <4>2, <2>5, <1>6
        <4>4. i \in Nat /\ j \in Nat
          BY <2>1, <2>5
        <4> QED BY <4>3, <4>4, <2>0
      <3>2. CASE g # h
        <4>1. waiters'[g] = waiters[g]
          BY <3>2, <1>1, <1>8
        <4> QED BY <4>1, <2>5 DEF WaitInv
      <3> QED BY <3>1, <3>2
    <2> QED BY <2>1, <2>3, <2>4, <2>5 DEF WaitInv
  <1> QED BY <1>7, <1>8 DEF hsh_rush

-----------------------------------------------------------------------------
(***************************************************************************)
(* What steps of several kinds have in common.                             *)
(***************************************************************************)

\* Steps that leave the objcores, their lists and their counts alone: it is
\* enough that holders do not become more.
LEMMA CountsKept ==
    ASSUME IInv, UNCHANGED <<objcs, alive, refcnt, head, dying>>,
           \A c \in OCs :
              /\ Cardinality(Holders(c)') <= Cardinality(Holders(c))
              /\ "nostorage" \notin Faults =>
                    Cardinality(Holders(c)') = Cardinality(Holders(c)),
           \A h \in Heads : Cardinality(HeadHolders(h)') <= ohref'[h]
    PROVE  RefInv' /\ ListInv' /\ DyingInv'
  <1>1. refcnt \in [OCs -> Nat] /\ RefcntCovers
        /\ ("nostorage" \notin Faults => RefcntExact)
    BY DEF IInv, TypeOK, RefInv
  <1>2. RefcntCovers'
    <2>1. \A c \in OCs : Cardinality(Holders(c)') <= refcnt[c]
      BY <1>1, HoldersFinite DEF RefcntCovers
    <2> QED BY <1>1, <2>1 DEF RefcntCovers
  <1>3. "nostorage" \notin Faults => RefcntExact'
    BY <1>1 DEF RefcntExact
  <1>4. ListInv' /\ DyingInv'
    BY DEF IInv, ListInv, DyingInv
  <1> QED BY <1>2, <1>3, <1>4 DEF RefInv

\* A session that is not the one taking the step stays sound: nothing of it
\* changes, or it is woken or dropped.
LEMMA SessKept ==
    ASSUME NEW x \in Sessions, Holds(x), ReqOK(x),
           UNCHANGED <<objcore[x], obj[x], parent[x], stream[x], ret[x]>>,
           \/ UNCHANGED <<step[x], req[x], hoh[x]>>
           \/ /\ step[x] = "WAITING" /\ step'[x] = "LOOKUP"
              /\ UNCHANGED <<req[x], hoh[x]>>
           \/ /\ step[x] = "WAITING" /\ step'[x] = "IDLE"
              /\ req'[x] = NoReq /\ hoh'[x] = None
    PROVE  Holds(x)' /\ ReqOK(x)' /\ (Fetching(x)' => Fetching(x))
  <1>1. NoReq.esi = FALSE
    BY DEF NoReq
  <1>2. Holds(x)'
    BY DEF Holds, NoObjSteps
  <1>3. ReqOK(x)'
    BY <1>1 DEF ReqOK
  <1> QED BY <1>2, <1>3 DEF Fetching

\* Steps of one session that touch nothing but the session's own progress.
LEMMA LocalStep ==
    ASSUME IInv, TypeOK', NEW s \in Sessions,
           UNCHANGED <<objcs, ohref, waiters, alive, refcnt, head, busy, lru>>,
           UNCHANGED <<objcore, obj, parent, hoh, taken, dying, purging>>,
           \A x \in Sessions : x # s =>
              UNCHANGED <<step[x], req[x], stream[x], ret[x]>>,
           step[s] # "WAITING",
           Holds(s)', ReqOK(s)', Fetching(s)' => Fetching(s)
    PROVE  IInv'
  <1>1. \A c \in OCs : Holders(c)' = Holders(c)
    BY DEF Holders
  <1>2. \A h \in Heads : HeadHolders(h)' = HeadHolders(h)
    BY DEF HeadHolders
  <1>3. RefInv' /\ ListInv' /\ DyingInv'
    <2>1. \A c \in OCs :
              /\ Cardinality(Holders(c)') <= Cardinality(Holders(c))
              /\ Cardinality(Holders(c)') = Cardinality(Holders(c))
      BY <1>1, HoldersFinite
    <2>2. \A h \in Heads : Cardinality(HeadHolders(h)') <= ohref'[h]
      BY <1>2 DEF IInv, RefInv, RefcntCovers
    <2> QED BY <2>1, <2>2, CountsKept
  <1>4. WaitInv'
    <2>1. \A h \in Heads : \A i \in DOMAIN waiters[h] :
             waiters[h][i] \in Sessions /\ waiters[h][i] # s
      BY DEF IInv, TypeOK, WaitInv
    <2> QED BY <2>1 DEF IInv, WaitInv
  <1>5. \A x \in Sessions : /\ Holds(x)' /\ ReqOK(x)'
                            /\ Fetching(x)' => Fetching(x)
    <2> SUFFICES ASSUME NEW x \in Sessions, x # s
                 PROVE  Holds(x)' /\ ReqOK(x)' /\ (Fetching(x)' => Fetching(x))
      OBVIOUS
    <2>1. Holds(x) /\ ReqOK(x)
      BY DEF IInv, SessInv
    <2> QED BY <2>1, SessKept
  <1>6. SoleInv'
    BY <1>5 DEF IInv, SoleInv, Sole
  <1> QED BY <1>3, <1>4, <1>5, <1>6 DEF IInv, SessInv

-----------------------------------------------------------------------------
(***************************************************************************)
(* Every action keeps the inductive invariant.                             *)
(***************************************************************************)

\* The steps that move a session on and leave every reference where it is.
LEMMA ProgressSteps ==
    ASSUME IInv, NEW s \in Sessions,
           \/ cnt_start(s) \/ cnt_recv(s) \/ cnt_pipe(s) \/ cnt_pass(s)
           \/ cnt_fetch_deliver(s) \/ cnt_fetchbody_error(s) \/ FetchBody_fail(s) \/ cnt_error_nostorage(s)
           \/ SetObjTtl(s)
    PROVE  IInv'
  <1> USE DEF At, Goto, Exits, headVars, ocVars, sessVars, threadVars
  <1>0. /\ TypeOK /\ Holds(s) /\ ReqOK(s) /\ Sole(s)
        /\ MaxRestarts \in Nat
    BY ParamsAreSane DEF IInv, SessInv, SoleInv
  <1>1. CASE cnt_start(s)
    <2>1. TypeOK'
      BY <1>0, <1>1 DEF TypeOK, cnt_start, Steps
    <2>2. Holds(s)' /\ ReqOK(s)' /\ (Fetching(s)' => Fetching(s))
      BY <1>0, <1>1 DEF TypeOK, cnt_start, Holds, ReqOK, Fetching, NoObjSteps
    <2> QED BY <1>0, <1>1, <2>1, <2>2, LocalStep DEF TypeOK, cnt_start
  <1>2. CASE cnt_recv(s)
    <2> DEFINE Looks(h, v, m, i) ==
                 req' = [req EXCEPT ![s] =
                           [head |-> h, variant |-> v, miss |-> m, ignore |-> i,
                            esi |-> @.esi, restarts |-> @.restarts]]
               To(stp) == step' = Goto(s, stp)
    <2>0. \/ req' = req /\ (To("ERROR") \/ To("PASS") \/ To("PIPE"))
          \/ /\ \E h \in Heads, v \in Variants, m \in BOOLEAN, i \in BOOLEAN :
                   Looks(h, v, m, i)
             /\ To("LOOKUP")
      BY <1>2 DEF cnt_recv
    <2>8. To("ERROR") \/ To("LOOKUP") \/ To("PASS") \/ To("PIPE")
      BY <2>0
    <2>1. /\ req' \in [Sessions -> Requests]
          /\ \A x \in Sessions \ {s} : req'[x] = req[x]
          /\ req'[s].esi = req[s].esi /\ req'[s].restarts = req[s].restarts
          /\ step'[s] = "LOOKUP" =>
                req'[s].head \in Heads /\ req'[s].variant \in Variants
      <3>1. ASSUME NEW h \in Heads, NEW v \in Variants, NEW m \in BOOLEAN,
                   NEW i \in BOOLEAN, Looks(h, v, m, i)
            PROVE  /\ req' \in [Sessions -> Requests]
                   /\ \A x \in Sessions \ {s} : req'[x] = req[x]
                   /\ req'[s].esi = req[s].esi
                   /\ req'[s].restarts = req[s].restarts
                   /\ req'[s].head = h /\ req'[s].variant = v
        BY <1>0, <3>1 DEF TypeOK, Requests
      <3>2. CASE req' = req /\ (To("ERROR") \/ To("PASS") \/ To("PIPE"))
        BY <1>0, <3>2 DEF TypeOK
      <3> HIDE DEF Looks
      <3> QED BY <2>0, <3>1, <3>2
    <2>2. step'[s] # "ERROR" => req[s].restarts < MaxRestarts
      <3>1. req[s].restarts \in Nat /\ step \in [Sessions -> Steps]
        BY <1>0 DEF TypeOK, Requests
      <3>2. CASE req[s].restarts >= MaxRestarts
        BY <1>2, <3>1, <3>2 DEF cnt_recv
      <3> QED BY <1>0, <3>1, <3>2
    <2>6. /\ step' \in [Sessions -> Steps]
          /\ \A x \in Sessions \ {s} : step'[x] = step[x]
          /\ step'[s] \in {"ERROR", "LOOKUP", "PASS", "PIPE"}
      BY <1>0, <2>8 DEF TypeOK, Steps
    <2>7. /\ stream'[s] => stream[s] /\ step'[s] = "ERROR"
          /\ stream' \in [Sessions -> BOOLEAN]
          /\ \A x \in Sessions \ {s} : stream'[x] = stream[x]
      BY <1>0, <1>2 DEF TypeOK, cnt_recv
    <2>3. UNCHANGED <<headVars, ocVars, objcore, obj, parent, hoh, nbusyobj, ret,
                      threadVars>> /\ step[s] = "RECV"
      BY <1>2 DEF cnt_recv
    <2>4. TypeOK'
      BY <1>0, <2>1, <2>3, <2>6, <2>7 DEF TypeOK
    <2>5. Holds(s)' /\ ReqOK(s)' /\ (Fetching(s)' => Fetching(s))
      BY <1>0, <2>1, <2>2, <2>3, <2>6, <2>7
         DEF Holds, ReqOK, Fetching, NoObjSteps
    <2> QED BY <1>0, <2>1, <2>3, <2>4, <2>5, <2>6, <2>7, LocalStep
  <1>3. CASE cnt_pipe(s)
    <2>1. TypeOK'
      BY <1>0, <1>3 DEF TypeOK, cnt_pipe, Steps
    <2>2. Holds(s)' /\ ReqOK(s)' /\ (Fetching(s)' => Fetching(s))
      BY <1>0, <1>3 DEF TypeOK, cnt_pipe, Holds, ReqOK, Fetching, NoObjSteps
    <2> QED BY <1>0, <1>3, <2>1, <2>2, LocalStep DEF TypeOK, cnt_pipe
  <1>4. CASE cnt_pass(s)
    <2>1. TypeOK'
      BY <1>0, <1>4 DEF TypeOK, cnt_pass, Steps
    <2>2. Holds(s)' /\ ReqOK(s)' /\ (Fetching(s)' => Fetching(s))
      BY <1>0, <1>4 DEF TypeOK, cnt_pass, Holds, ReqOK, Fetching, NoObjSteps
    <2> QED BY <1>0, <1>4, <2>1, <2>2, LocalStep DEF TypeOK, cnt_pass
  <1>5. CASE cnt_fetch_deliver(s)
    <2>1. TypeOK'
      BY <1>0, <1>5 DEF TypeOK, cnt_fetch_deliver, Steps, Sole
    <2>2. Holds(s)' /\ ReqOK(s)' /\ (Fetching(s)' => Fetching(s))
      BY <1>0, <1>5 DEF TypeOK, cnt_fetch_deliver, Holds, ReqOK, Fetching, NoObjSteps
    <2> QED BY <1>0, <1>5, <2>1, <2>2, LocalStep DEF TypeOK, cnt_fetch_deliver
  <1>6. CASE cnt_fetchbody_error(s)
    <2>1. TypeOK'
      BY <1>0, <1>6 DEF TypeOK, cnt_fetchbody_error, Steps
    <2>2. Holds(s)' /\ ReqOK(s)' /\ (Fetching(s)' => Fetching(s))
      BY <1>0, <1>6 DEF TypeOK, cnt_fetchbody_error, Holds, ReqOK, Fetching, NoObjSteps
    <2> QED BY <1>0, <1>6, <2>1, <2>2, LocalStep DEF TypeOK, cnt_fetchbody_error
  <1>7. CASE FetchBody_fail(s)
    <2>1. TypeOK'
      BY <1>0, <1>7 DEF TypeOK, FetchBody_fail, Steps
    <2>2. Holds(s)' /\ ReqOK(s)' /\ (Fetching(s)' => Fetching(s))
      BY <1>0, <1>7 DEF TypeOK, FetchBody_fail, Holds, ReqOK, Fetching, NoObjSteps
    <2> QED BY <1>0, <1>7, <2>1, <2>2, LocalStep DEF TypeOK, FetchBody_fail
  <1>8. CASE cnt_error_nostorage(s)
    <2>1. TypeOK'
      BY <1>0, <1>8 DEF TypeOK, cnt_error_nostorage, Steps
    <2>2. Holds(s)' /\ ReqOK(s)' /\ (Fetching(s)' => Fetching(s))
      BY <1>0, <1>8 DEF TypeOK, cnt_error_nostorage, Holds, ReqOK, Fetching, NoObjSteps
    <2> QED BY <1>0, <1>8, <2>1, <2>2, LocalStep DEF TypeOK, cnt_error_nostorage
  <1>9. CASE SetObjTtl(s)
    <2>1. TypeOK'
      BY <1>0, <1>9 DEF TypeOK, SetObjTtl, Steps
    <2>2. Holds(s)' /\ ReqOK(s)' /\ (Fetching(s)' => Fetching(s))
      BY <1>0, <1>9 DEF TypeOK, SetObjTtl, Holds, ReqOK, Fetching, NoObjSteps
    <2> QED BY <1>0, <1>9, <2>1, <2>2, LocalStep DEF TypeOK, SetObjTtl
  <1> QED BY <1>1, <1>2, <1>3, <1>4, <1>5, <1>6, <1>7, <1>8, <1>9

\* HSH_Deref takes one holder k of c away: the counts stay right, the lists
\* lose c when it was the last one, and nothing else changes for anybody whose
\* only reference is still held.
LEMMA DerefStep ==
    ASSUME IInv, NEW t \in Threads, NEW c \in OCs, NEW k, NEW stp, NEW rq,
           RushArgs(stp, rq), dying[t] = None,
           HSH_Deref(t, c, stp, rq),
           k \in Holders(c), Holders(c)' = Holders(c) \ {k},
           \A d \in OCs : d # c => Holders(d)' = Holders(d)
    PROVE  /\ RefInv' /\ ListInv' /\ DyingInv' /\ WaitInv'
           /\ objcs' \in [Heads -> Seq(OCs)]
           /\ refcnt' \in [OCs -> Nat]
           /\ dying' \in [Threads -> OCs \cup {None}]
           /\ Rushed(stp, rq)
           /\ \A d \in OCs : refcnt[d] = 1 /\ Holders(d)' # {} => refcnt'[d] = 1
  <1>0. /\ TypeOK /\ RefInv /\ ListInv /\ DyingInv /\ WaitInv
        /\ refcnt \in [OCs -> Nat] /\ objcs \in [Heads -> Seq(OCs)]
        /\ dying \in [Threads -> OCs \cup {None}] /\ None \notin OCs
    BY ConstantsAreDistinct DEF IInv, TypeOK
  <1>1. /\ IsFiniteSet(Holders(c)) /\ Cardinality(Holders(c)) \in Nat
        /\ Cardinality(Holders(c)) >= 1
        /\ Cardinality(Holders(c)') = Cardinality(Holders(c)) - 1
    BY HoldersFinite, CountChange
  <1>2. refcnt[c] >= 1 /\ c \in alive /\ head[c] \in Heads
    <2>1. refcnt[c] >= 1
      BY <1>0, <1>1 DEF RefInv, RefcntCovers
    <2> QED BY <1>0, <2>1 DEF RefInv, RefcntCovers
  <1>3. /\ refcnt' = [refcnt EXCEPT ![c] = @ - 1]
        /\ refcnt' \in [OCs -> Nat]
        /\ refcnt'[c] = refcnt[c] - 1
        /\ \A d \in OCs : d # c => refcnt'[d] = refcnt[d]
        /\ UNCHANGED <<ohref, alive, head>>
        /\ hsh_rush(head[c], stp, rq)
    BY <1>0, <1>2 DEF HSH_Deref
  <1>4. Rushed(stp, rq) /\ WaitInv'
    BY <1>0, <1>2, <1>3, RushFacts
  <1>5. \A d \in OCs : refcnt[d] = 1 /\ Holders(d)' # {} => refcnt'[d] = 1
    <2>1. Cardinality(Holders(c)) <= refcnt[c]
      BY <1>0 DEF RefInv, RefcntCovers
    <2>2. Holders(c)' # {} => Cardinality(Holders(c)) >= 2
      <3> SUFFICES ASSUME NEW m, m \in Holders(c) \ {k}
                   PROVE  Cardinality(Holders(c)) >= 2
        OBVIOUS
      <3> QED BY <1>1, CountChange
    <2> QED BY <1>0, <1>1, <1>3, <2>1, <2>2
  <1>6. RefInv'
    <2>1. \A d \in OCs : Cardinality(Holders(d)') <= refcnt'[d]
      <3> SUFFICES ASSUME NEW d \in OCs
                   PROVE  Cardinality(Holders(d)') <= refcnt'[d]
        OBVIOUS
      <3>1. Cardinality(Holders(d)) <= refcnt[d] /\ refcnt[d] \in Nat
        BY <1>0 DEF RefInv, RefcntCovers
      <3>2. CASE d = c
        <4>1. Cardinality(Holders(c)') <= refcnt'[c]
          <5>1. Cardinality(Holders(c)) <= refcnt[c] /\ refcnt[c] \in Nat
            BY <1>0 DEF RefInv, RefcntCovers
          <5> QED BY <1>1, <1>2, <1>3, <5>1
        <4> QED BY <3>2, <4>1
      <3>3. CASE d # c
        BY <1>3, <3>1, <3>3
      <3> QED BY <3>2, <3>3
    <2>2. \A h \in Heads : Cardinality(HeadHolders(h)') <= ohref'[h]
      <3> SUFFICES ASSUME NEW h \in Heads
                   PROVE  Cardinality(HeadHolders(h)') <= ohref'[h]
        OBVIOUS
      <3>1. HeadHolders(h)' \subseteq HeadHolders(h)
        <4> SUFFICES ASSUME NEW m \in HeadHolders(h)'
                     PROVE  m \in HeadHolders(h)
          OBVIOUS
        <4>1. CASE m[1] = "oc"
          BY <1>3, <4>1 DEF HeadHolders
        <4>2. CASE m[1] = "sess"
          <5>1. m[2] \in Sessions /\ hoh'[m[2]] = h
            BY <4>2 DEF HeadHolders, HeadTokens
          <5>2. hoh[m[2]] = h
            BY <1>4, <5>1, ConstantsAreDistinct DEF Rushed
          <5> QED BY <4>2, <5>2 DEF HeadHolders
        <4> QED BY <4>1, <4>2 DEF HeadHolders
      <3>2. /\ Cardinality(HeadHolders(h)') <= Cardinality(HeadHolders(h))
            /\ Cardinality(HeadHolders(h)) \in Nat
            /\ Cardinality(HeadHolders(h)') \in Nat
        BY <3>1, HoldersFinite, CountChange
      <3>3. Cardinality(HeadHolders(h)) <= ohref[h] /\ ohref[h] \in Nat
        BY <1>0 DEF RefInv, RefcntCovers, TypeOK
      <3> QED BY <1>3, <3>2, <3>3
    <2>3. \A d \in OCs \ alive : refcnt'[d] = 0
      BY <1>0, <1>2, <1>3 DEF RefInv, RefcntCovers
    <2>4. RefcntCovers'
      BY <1>0, <1>3, <2>1, <2>2, <2>3 DEF RefInv, RefcntCovers
    <2>5. "nostorage" \notin Faults => RefcntExact'
      <3> SUFFICES ASSUME "nostorage" \notin Faults, NEW d \in OCs
                   PROVE  refcnt'[d] = Cardinality(Holders(d)')
        BY DEF RefcntExact
      <3>1. refcnt[d] = Cardinality(Holders(d))
        BY <1>0 DEF RefInv, RefcntExact
      <3> QED BY <1>1, <1>3, <3>1
    <2> QED BY <2>4, <2>5 DEF RefInv
  <1>7. CASE refcnt[c] = 1
    <2> DEFINE h == head[c]
               q == objcs[h]
               r == Without(q, c)
    <2>1. /\ objcs' = [objcs EXCEPT ![h] = r]
          /\ dying' = [dying EXCEPT ![t] = c]
          /\ refcnt'[c] = 0
      BY <1>3, <1>7 DEF HSH_Deref
    <2>2. PICK i \in DOMAIN q : q[i] = c
      BY <1>0, <1>2 DEF ListInv
    <2>3. /\ q \in Seq(OCs)
          /\ \A a, b \in DOMAIN q : q[a] = q[b] => a = b
      BY <1>0, <1>2 DEF ListInv
    <2>4. /\ r \in Seq(OCs)
          /\ \A a \in DOMAIN r : \E j \in DOMAIN q : r[a] = q[j] /\ j # i
          /\ \A j \in DOMAIN q : j # i => \E a \in DOMAIN r : r[a] = q[j]
          /\ \A a, b \in DOMAIN r : r[a] = r[b] => a = b
      <3>1. r = Without(q, q[i])
        BY <2>2
      <3> HIDE DEF q, r
      <3> QED BY <2>2, <2>3, <3>1, WithoutFacts
    <2>5. /\ objcs' \in [Heads -> Seq(OCs)]
          /\ dying' \in [Threads -> OCs \cup {None}]
          /\ objcs'[h] = r
          /\ \A g \in Heads : g # h => objcs'[g] = objcs[g]
      BY <1>0, <1>2, <2>1, <2>4
    <2> HIDE DEF r
    <2>6. ListInv'
      <3>1. ASSUME NEW g \in Heads, NEW a \in DOMAIN objcs'[g]
            PROVE  /\ objcs'[g][a] \in alive /\ head[objcs'[g][a]] = g
                   /\ refcnt'[objcs'[g][a]] > 0
        <4>1. CASE g = h
          <5>1. PICK j \in DOMAIN q : r[a] = q[j] /\ j # i
            BY <2>4, <2>5, <3>1, <4>1
          <5>2. q[j] \in alive /\ head[q[j]] = h /\ refcnt[q[j]] > 0 /\ q[j] \in OCs
            BY <1>0, <1>2, <2>3, <5>1 DEF ListInv
          <5>3. q[j] # c
            BY <2>2, <2>3, <5>1
          <5> QED BY <1>3, <2>5, <4>1, <5>1, <5>2, <5>3
        <4>2. CASE g # h
          <5>1. /\ objcs[g][a] \in alive /\ head[objcs[g][a]] = g
                /\ refcnt[objcs[g][a]] > 0 /\ objcs[g][a] \in OCs
            BY <1>0, <2>5, <3>1, <4>2 DEF ListInv
          <5>2. objcs[g][a] # c
            BY <4>2, <5>1
          <5> QED BY <1>3, <2>5, <4>2, <5>1, <5>2
        <4> QED BY <4>1, <4>2
      <3>2. ASSUME NEW g \in Heads, NEW a \in DOMAIN objcs'[g],
                   NEW b \in DOMAIN objcs'[g], objcs'[g][a] = objcs'[g][b]
            PROVE  a = b
        <4>1. CASE g = h
          BY <2>4, <2>5, <3>2, <4>1
        <4>2. CASE g # h
          BY <1>0, <2>5, <3>2, <4>2 DEF ListInv
        <4> QED BY <4>1, <4>2
      <3>3. ASSUME NEW d \in alive, refcnt'[d] > 0
            PROVE  \E a \in DOMAIN objcs'[head[d]] : objcs'[head[d]][a] = d
        <4>1. d # c /\ d \in OCs
          BY <1>0, <2>1, <3>3 DEF TypeOK
        <4>2. refcnt[d] > 0 /\ head[d] \in Heads
          BY <1>0, <1>3, <3>3, <4>1 DEF RefInv, RefcntCovers
        <4>3. PICK j \in DOMAIN objcs[head[d]] : objcs[head[d]][j] = d
          BY <1>0, <3>3, <4>2 DEF ListInv
        <4>4. CASE head[d] = h
          <5>1. j \in DOMAIN q /\ q[j] = d /\ j # i
            BY <2>2, <4>1, <4>3, <4>4
          <5> QED BY <2>4, <2>5, <4>4, <5>1
        <4>5. CASE head[d] # h
          BY <2>5, <4>2, <4>3, <4>5
        <4> QED BY <4>4, <4>5
      <3> QED BY <1>3, <3>1, <3>2, <3>3 DEF ListInv
    <2>7. DyingInv'
      BY <1>0, <1>2, <1>3, <2>1, <2>5 DEF DyingInv
    <2> QED BY <1>3, <1>4, <1>5, <1>6, <2>5, <2>6, <2>7
  <1>8. CASE refcnt[c] # 1
    <2>1. UNCHANGED <<objcs, dying>> /\ refcnt'[c] > 0
      BY <1>0, <1>2, <1>3, <1>8 DEF HSH_Deref
    <2>2. \A d \in OCs : refcnt'[d] > 0 <=> refcnt[d] > 0
      BY <1>0, <1>2, <1>3, <2>1
    <2>3. ListInv'
      <3>1. \A g \in Heads : \A i \in DOMAIN objcs[g] : objcs[g][i] \in OCs
        BY <1>0
      <3>2. alive \subseteq OCs
        BY <1>0 DEF TypeOK
      <3> QED BY <1>0, <1>3, <2>1, <2>2, <3>1, <3>2 DEF ListInv
    <2>4. DyingInv'
      BY <1>0, <1>2, <1>3, <2>1 DEF DyingInv
    <2> QED BY <1>0, <1>3, <1>4, <1>5, <1>6, <2>1, <2>3, <2>4
  <1> QED BY <1>7, <1>8

\* Nothing of the session x changes, except that it may be woken.
Unmoved(x, stp, rq) ==
    /\ UNCHANGED <<objcore[x], obj[x], parent[x], stream[x], ret[x]>>
    /\ stp[x] = step[x] /\ rq[x] = req[x]

\* The session x is sound after a step of its own that ends its fetch.
Settled(x) ==
    /\ Holds(x)' /\ ReqOK(x)' /\ ~Fetching(x)'
    /\ objcore'[x] \in {None, objcore[x]}

\* An objcore that is still being fetched keeps its one reference and stays
\* busy.
SoleKept ==
    \A x \in Sessions, c \in OCs :
        /\ c \in busy /\ refcnt[c] = 1
        /\ objcore'[x] = c \/ (obj'[x] = c /\ Fetching(x)')
        => c \in busy' /\ refcnt'[c] = 1

\* That is so when a step takes references only from objcores it empties.
LEMMA HeldSole ==
    ASSUME \A c \in OCs : refcnt[c] = 1 /\ Holders(c)' # {} => refcnt'[c] = 1,
           UNCHANGED busy
    PROVE  SoleKept
  <1> SUFFICES ASSUME NEW x \in Sessions, NEW c \in OCs,
                      objcore'[x] = c \/ obj'[x] = c
               PROVE  Holders(c)' # {}
    BY DEF SoleKept
  <1>1. \/ <<"objcore", x>> \in Holders(c)'
        \/ <<"obj", x>> \in Holders(c)'
    BY DEF Holders, Tokens, Threads
  <1> QED BY <1>1

\* After an HSH_Deref or HSH_Unbusy it is enough to look at the session whose
\* thread took the step.
LEMMA RushedStep ==
    ASSUME IInv, TypeOK', RefInv', ListInv', DyingInv', WaitInv',
           NEW stp, NEW rq, RushArgs(stp, rq), Rushed(stp, rq), SoleKept,
           \A x \in Sessions : Unmoved(x, stp, rq) \/ Settled(x)
    PROVE  IInv'
  <1>1. \A x \in Sessions : /\ Holds(x)' /\ ReqOK(x)'
                            /\ Fetching(x)' => Fetching(x) /\ obj'[x] = obj[x]
                            /\ objcore'[x] \in {None, objcore[x]}
    <2> SUFFICES ASSUME NEW x \in Sessions, Unmoved(x, stp, rq)
                 PROVE  /\ Holds(x)' /\ ReqOK(x)'
                        /\ Fetching(x)' => Fetching(x) /\ obj'[x] = obj[x]
                        /\ objcore'[x] \in {None, objcore[x]}
      BY DEF Settled
    <2>1. Holds(x) /\ ReqOK(x)
      BY DEF IInv, SessInv
    <2> QED BY <2>1, SessKept DEF Rushed, Unmoved
  <1>2. SoleInv'
    <2> SUFFICES ASSUME NEW x \in Sessions PROVE Sole(x)'
      BY DEF SoleInv
    <2>0. Sole(x) /\ TypeOK
      BY DEF IInv, SoleInv
    <2>1. ASSUME objcore'[x] # None
          PROVE  objcore'[x] \in busy' /\ refcnt'[objcore'[x]] = 1
      <3>1. objcore'[x] = objcore[x]
        BY <1>1, <2>1
      <3>2. objcore[x] \in OCs /\ objcore[x] \in busy /\ refcnt[objcore[x]] = 1
        BY <2>0, <2>1, <3>1 DEF Sole, TypeOK
      <3> QED BY <3>1, <3>2 DEF SoleKept
    <2>2. ASSUME Fetching(x)', obj'[x] \in OCs
          PROVE  obj'[x] \in busy' /\ refcnt'[obj'[x]] = 1
      <3>1. Fetching(x) /\ obj'[x] = obj[x]
        BY <1>1, <2>2
      <3>2. obj[x] \in busy /\ refcnt[obj[x]] = 1
        BY <2>0, <2>2, <3>1 DEF Sole
      <3> QED BY <2>2, <3>1, <3>2 DEF SoleKept
    <2> QED BY <2>1, <2>2 DEF Sole
  <1> QED BY <1>1, <1>2 DEF IInv, SessInv

\* Waiting lists are sound after a step of a session that is not parked.
LEMMA WaitKept ==
    ASSUME IInv, NEW s \in Sessions, step[s] # "WAITING",
           UNCHANGED waiters,
           \A x \in Sessions \ {s} : UNCHANGED <<step[x], hoh[x]>>
    PROVE  WaitInv'
  <1>1. \A h \in Heads : \A i \in DOMAIN waiters[h] :
           waiters[h][i] \in Sessions /\ waiters[h][i] # s
    BY DEF IInv, TypeOK, WaitInv
  <1> QED BY <1>1 DEF IInv, WaitInv

\* HSH_Deref of sp->obj on the way to another step.
LEMMA DerefObjStep ==
    ASSUME IInv, NEW s \in Sessions, NEW rq \in [Sessions -> Requests],
           NEW stp \in {"PASS", "ERROR", "RECV", "DONE"},
           obj[s] # None, dying[s] = None, hoh[s] = None,
           stream[s] => stp # "PASS",
           \A x \in Sessions \ {s} : rq[x] = req[x] /\ ret'[x] = ret[x],
           rq[s].esi = req[s].esi,
           stp = "PASS" => rq[s].restarts < MaxRestarts,
           ret' \in [Sessions -> {None, "PREPRESP", "STREAMED", "RECV", "ERROR"}],
           DerefObj(s, stp, rq)
    PROVE  IInv'
  <1>0. /\ TypeOK /\ Holds(s) /\ ReqOK(s)
        /\ PassObj \notin OCs /\ None \notin OCs /\ None # PassObj
    BY ConstantsAreDistinct DEF IInv, SessInv
  <1>1. step[s] # "WAITING" /\ ("nostorage" \notin Faults => objcore[s] = None)
    BY <1>0 DEF Holds, NoObjSteps
  <1>2. RushArgs(Goto(s, stp), rq)
    BY <1>0, <1>1 DEF RushArgs, Goto, TypeOK, Steps
  <1>3. /\ obj' = [obj EXCEPT ![s] = None]
        /\ UNCHANGED <<phase, lru, objcore, parent, nbusyobj, stream, taken,
                       purging>>
        /\ UNCHANGED <<ohref, alive, head, busy, hfp, hasobj, vary>>
    BY DEF DerefObj, HSH_Deref
  <1>4. ASSUME Rushed(Goto(s, stp), rq)
        PROVE  /\ step'[s] = stp /\ req'[s] = rq[s] /\ hoh'[s] = None
               /\ Holds(s)' /\ ReqOK(s)' /\ ~Fetching(s)'
    <2>1. step'[s] = stp /\ req'[s] = rq[s] /\ hoh'[s] = None
      BY <1>0, <1>1, <1>4 DEF Rushed, Goto, TypeOK
    <2> QED BY <1>0, <1>1, <1>3, <2>1
            DEF Holds, ReqOK, Fetching, NoObjSteps, TypeOK
  <1>5. Rushed(Goto(s, stp), rq) =>
            \A x \in Sessions : Unmoved(x, Goto(s, stp), rq) \/ Settled(x)
    <2> SUFFICES ASSUME Rushed(Goto(s, stp), rq), NEW x \in Sessions, x # s
                 PROVE  Unmoved(x, Goto(s, stp), rq)
      BY <1>3, <1>4 DEF Settled
    <2> QED BY <1>0, <1>3 DEF Unmoved, Goto, TypeOK
  <1>6. CASE obj[s] = PassObj
    <2>1. /\ step' = Goto(s, stp) /\ req' = rq
          /\ UNCHANGED <<objcs, waiters, refcnt, hoh, dying>>
      BY <1>6 DEF DerefObj
    <2>2. Rushed(Goto(s, stp), rq)
      BY <1>0, <1>2, <2>1 DEF Rushed, RushArgs, TypeOK
    <2>3. TypeOK'
      BY <1>0, <1>2, <1>3, <2>1 DEF TypeOK, RushArgs
    <2>4. \A c \in OCs : Holders(c)' = Holders(c)
      BY <1>0, <1>3, <1>6 DEF Holders, TypeOK
    <2>5. \A h \in Heads : HeadHolders(h)' = HeadHolders(h)
      BY <1>3, <2>1 DEF HeadHolders
    <2>6. RefInv' /\ ListInv' /\ DyingInv'
      <3>1. \A c \in OCs :
              /\ Cardinality(Holders(c)') <= Cardinality(Holders(c))
              /\ Cardinality(Holders(c)') = Cardinality(Holders(c))
        BY <2>4, HoldersFinite
      <3>2. \A h \in Heads : Cardinality(HeadHolders(h)') <= ohref'[h]
        BY <1>3, <2>5 DEF IInv, RefInv, RefcntCovers
      <3> QED BY <1>3, <2>1, <3>1, <3>2, CountsKept
    <2>7. WaitInv'
      BY <1>0, <1>1, <2>1, WaitKept DEF Goto, TypeOK
    <2>8. SoleKept
      BY <1>3, <2>1, HeldSole
    <2> QED BY <1>2, <1>5, <2>2, <2>3, <2>6, <2>7, <2>8, RushedStep
  <1>7. CASE obj[s] # PassObj
    <2>1. PICK c \in OCs : c = obj[s]
      BY <1>0, <1>7 DEF TypeOK
    <2>2. HSH_Deref(s, c, Goto(s, stp), rq)
      BY <1>7, <2>1 DEF DerefObj
    <2>3. /\ <<"obj", s>> \in Holders(c)
          /\ Holders(c)' = Holders(c) \ {<<"obj", s>>}
          /\ \A d \in OCs : d # c => Holders(d)' = Holders(d)
      BY <1>0, <1>3, <2>1 DEF Holders, Tokens, Threads, TypeOK
    <2>4. s \in Threads
      BY DEF Threads
    <2>5. /\ RefInv' /\ ListInv' /\ DyingInv' /\ WaitInv'
          /\ objcs' \in [Heads -> Seq(OCs)] /\ refcnt' \in [OCs -> Nat]
          /\ dying' \in [Threads -> OCs \cup {None}]
          /\ Rushed(Goto(s, stp), rq)
          /\ \A d \in OCs : refcnt[d] = 1 /\ Holders(d)' # {} => refcnt'[d] = 1
      BY <1>2, <2>2, <2>3, <2>4, DerefStep
    <2>6. TypeOK'
      BY <1>0, <1>3, <2>5 DEF TypeOK, Rushed
    <2>7. SoleKept
      BY <1>3, <2>5, HeldSole
    <2> QED BY <1>2, <1>5, <2>5, <2>6, <2>7, RushedStep
  <1> QED BY <1>6, <1>7

\* HSH_Deref of sp->objcore on the way to another step.
LEMMA DerefObjcoreStep ==
    ASSUME IInv, NEW s \in Sessions, NEW rq \in [Sessions -> Requests],
           NEW stp \in {"PASS", "ERROR", "RECV"},
           step[s] \in {"MISS", "FETCH"}, objcore[s] # None, dying[s] = None,
           \A x \in Sessions \ {s} : rq[x] = req[x],
           rq[s].esi = req[s].esi,
           stp = "PASS" => rq[s].restarts < MaxRestarts,
           DerefObjcore(s, stp, rq)
    PROVE  IInv'
  <1>0. /\ TypeOK /\ Holds(s) /\ ReqOK(s) /\ None \notin OCs
    BY ConstantsAreDistinct DEF IInv, SessInv
  <1>1. obj[s] = None /\ ~stream[s] /\ hoh[s] = None
    BY <1>0 DEF Holds, ReqOK, NoObjSteps
  <1>2. RushArgs(Goto(s, stp), rq)
    BY <1>0 DEF RushArgs, Goto, TypeOK, Steps
  <1>3. /\ objcore' = [objcore EXCEPT ![s] = None]
        /\ UNCHANGED <<phase, lru, obj, parent, nbusyobj, stream, ret, taken,
                       purging>>
        /\ UNCHANGED <<ohref, alive, head, busy, hfp, hasobj, vary>>
    BY DEF DerefObjcore, HSH_Deref
  <1>4. PICK c \in OCs : c = objcore[s]
    BY <1>0 DEF TypeOK
  <1>5. HSH_Deref(s, c, Goto(s, stp), rq) /\ s \in Threads
    BY <1>4 DEF DerefObjcore, Threads
  <1>6. /\ <<"objcore", s>> \in Holders(c)
        /\ Holders(c)' = Holders(c) \ {<<"objcore", s>>}
        /\ \A d \in OCs : d # c => Holders(d)' = Holders(d)
    BY <1>0, <1>3, <1>4 DEF Holders, Tokens, Threads, TypeOK
  <1>7. /\ RefInv' /\ ListInv' /\ DyingInv' /\ WaitInv'
        /\ objcs' \in [Heads -> Seq(OCs)] /\ refcnt' \in [OCs -> Nat]
        /\ dying' \in [Threads -> OCs \cup {None}]
        /\ Rushed(Goto(s, stp), rq)
        /\ \A d \in OCs : refcnt[d] = 1 /\ Holders(d)' # {} => refcnt'[d] = 1
    BY <1>2, <1>5, <1>6, DerefStep
  <1>8. TypeOK'
    BY <1>0, <1>3, <1>7 DEF TypeOK, Rushed
  <1>9. SoleKept
    BY <1>3, <1>7, HeldSole
  <1>10. Settled(s)
    <2>1. step'[s] = stp /\ req'[s] = rq[s] /\ hoh'[s] = None
      BY <1>0, <1>1, <1>7 DEF Rushed, Goto, TypeOK
    <2> QED BY <1>0, <1>1, <1>3, <2>1
            DEF Settled, Holds, ReqOK, Fetching, NoObjSteps, TypeOK
  <1>11. \A x \in Sessions : Unmoved(x, Goto(s, stp), rq) \/ Settled(x)
    BY <1>0, <1>3, <1>10 DEF Unmoved, Goto, TypeOK
  <1> QED BY <1>2, <1>7, <1>8, <1>9, <1>11, RushedStep

\* HSH_Deref of an object that HSH_Purge, exp_timer or EXP_NukeOne holds.
LEMMA ReleaseSteps ==
    ASSUME IInv, NEW t \in Threads,
           (t \in Sessions /\ HSH_Purge_one(t)) \/ TakenDeref(t)
    PROVE  IInv'
  <1>0. /\ TypeOK /\ None \notin OCs /\ RushArgs(step, req)
    BY ConstantsAreDistinct DEF IInv, TypeOK, RushArgs
  <1> DEFINE Rest == UNCHANGED <<objcore, obj, parent, nbusyobj, stream, ret, lru,
                                 ohref, alive, head, busy, hfp, hasobj, vary>>
  <1>1. ASSUME NEW c \in OCs, NEW k, HSH_Deref(t, c, step, req), dying[t] = None,
               k \in Holders(c), Holders(c)' = Holders(c) \ {k},
               \A d \in OCs : d # c => Holders(d)' = Holders(d),
               Rest, phase' \in [OCs -> {"fresh", "grace", "dead"}],
               taken' \in [Threads -> OCs \cup {None}],
               purging' \in [Sessions -> SUBSET OCs]
        PROVE  IInv'
    <2>1. /\ RefInv' /\ ListInv' /\ DyingInv' /\ WaitInv'
          /\ objcs' \in [Heads -> Seq(OCs)] /\ refcnt' \in [OCs -> Nat]
          /\ dying' \in [Threads -> OCs \cup {None}]
          /\ Rushed(step, req)
          /\ \A d \in OCs : refcnt[d] = 1 /\ Holders(d)' # {} => refcnt'[d] = 1
      BY <1>0, <1>1, DerefStep
    <2>2. TypeOK'
      BY <1>0, <1>1, <2>1 DEF TypeOK, Rushed
    <2>3. SoleKept
      BY <1>1, <2>1, HeldSole
    <2>4. \A x \in Sessions : Unmoved(x, step, req)
      BY <1>1 DEF Unmoved
    <2> QED BY <1>0, <2>1, <2>2, <2>3, <2>4, RushedStep
  <1>2. CASE t \in Sessions /\ HSH_Purge_one(t)
    <2>1. PICK c \in purging[t] :
             /\ purging' = [purging EXCEPT ![t] = @ \ {c}]
             /\ phase' = [phase EXCEPT ![c] = "dead"]
             /\ HSH_Deref(t, c, step, req)
      BY <1>2 DEF HSH_Purge_one
    <2>2. c \in OCs /\ dying[t] = None /\ Rest /\ taken' = taken
      BY <1>0, <1>2, <2>1 DEF HSH_Purge_one, HSH_Deref, TypeOK
    <2>3. /\ <<"purge", t>> \in Holders(c)
          /\ Holders(c)' = Holders(c) \ {<<"purge", t>>}
          /\ \A d \in OCs : d # c => Holders(d)' = Holders(d)
      BY <1>0, <1>2, <2>1, <2>2 DEF Holders, Tokens, Threads, TypeOK
    <2>4. /\ phase' \in [OCs -> {"fresh", "grace", "dead"}]
          /\ taken' \in [Threads -> OCs \cup {None}]
          /\ purging' \in [Sessions -> SUBSET OCs]
      BY <1>0, <2>1, <2>2 DEF TypeOK
    <2> QED BY <1>1, <2>1, <2>2, <2>3, <2>4
  <1>3. CASE TakenDeref(t)
    <2>1. PICK c \in OCs : c = taken[t]
      BY <1>0, <1>3 DEF TakenDeref, TypeOK
    <2>2. /\ HSH_Deref(t, c, step, req) /\ Rest /\ dying[t] = None
          /\ taken' = [taken EXCEPT ![t] = None] /\ UNCHANGED <<phase, purging>>
      BY <1>3, <2>1 DEF TakenDeref, HSH_Deref
    <2>3. /\ <<"taken", t>> \in Holders(c)
          /\ Holders(c)' = Holders(c) \ {<<"taken", t>>}
          /\ \A d \in OCs : d # c => Holders(d)' = Holders(d)
      BY <1>0, <2>1, <2>2 DEF Holders, Tokens, Threads, TypeOK
    <2>4. /\ phase' \in [OCs -> {"fresh", "grace", "dead"}]
          /\ taken' \in [Threads -> OCs \cup {None}]
          /\ purging' \in [Sessions -> SUBSET OCs]
      BY <1>0, <2>2 DEF TypeOK
    <2> QED BY <1>1, <2>2, <2>3, <2>4
  <1> QED BY <1>2, <1>3

\* A request may be restarted below the limit, and its counter reset.
LEMMA RestartFacts ==
    ASSUME TypeOK, NEW s \in Sessions
    PROVE  /\ req[s].restarts < MaxRestarts =>
                Restarted(s) \in [Sessions -> Requests]
           /\ Restarted(s)[s].esi = req[s].esi
           /\ \A x \in Sessions \ {s} : Restarted(s)[x] = req[x]
           /\ [req EXCEPT ![s].restarts = 0] \in [Sessions -> Requests]
           /\ [req EXCEPT ![s].restarts = 0][s].esi = req[s].esi
           /\ \A x \in Sessions \ {s} : [req EXCEPT ![s].restarts = 0][x] = req[x]
  <1>1. req \in [Sessions -> Requests] /\ req[s] \in Requests
    BY DEF TypeOK
  <1>2. ASSUME NEW n \in 0..MaxRestarts
        PROVE  /\ [req EXCEPT ![s].restarts = n] \in [Sessions -> Requests]
               /\ [req EXCEPT ![s].restarts = n][s].esi = req[s].esi
               /\ \A x \in Sessions \ {s} : [req EXCEPT ![s].restarts = n][x] = req[x]
    <2>1. [req[s] EXCEPT !.restarts = n] \in Requests
      BY <1>1 DEF Requests
    <2> QED BY <1>1, <2>1
  <1>3. 0 \in 0..MaxRestarts
    BY ParamsAreSane
  <1>4. req[s].restarts < MaxRestarts => req[s].restarts + 1 \in 0..MaxRestarts
    BY <1>1, ParamsAreSane DEF Requests
  <1>5. /\ Restarted(s)[s].esi = req[s].esi
        /\ \A x \in Sessions \ {s} : Restarted(s)[x] = req[x]
    BY <1>1 DEF Restarted, Requests
  <1> QED BY <1>2, <1>3, <1>4, <1>5 DEF Restarted

\* The steps that may drop the session's object or objcore.
LEMMA DroppingSteps ==
    ASSUME IInv, NEW s \in Sessions,
           \/ cnt_hit(s) \/ cnt_lookup_hitpass(s) \/ cnt_miss(s)
           \/ cnt_fetch_cleanup(s) \/ cnt_prepresp(s) \/ cnt_deliver(s)
           \/ HSH_Drop_Deref(s)
    PROVE  IInv'
  <1> USE DEF At, headVars, ocVars, sessVars, threadVars
  <1>0. /\ TypeOK /\ Holds(s) /\ ReqOK(s)
        /\ MaxRestarts \in Nat /\ req \in [Sessions -> Requests]
        /\ ret \in [Sessions -> {None, "PREPRESP", "STREAMED", "RECV", "ERROR"}]
    BY ParamsAreSane DEF IInv, SessInv, TypeOK
  <1> DEFINE Rq(stp) == IF stp = "RECV" THEN Restarted(s) ELSE req
  <1>8. ASSUME NEW stp, req[s].restarts < MaxRestarts
        PROVE  /\ Rq(stp) \in [Sessions -> Requests]
               /\ Rq(stp)[s].esi = req[s].esi
               /\ \A x \in Sessions \ {s} : Rq(stp)[x] = req[x]
    BY <1>0, <1>8, RestartFacts
  <1>1. CASE cnt_hit(s)
    <2>1. CASE /\ step' = Goto(s, "PREPRESP")
               /\ UNCHANGED <<headVars, ocVars, req, objcore, obj, parent, hoh,
                              nbusyobj, stream, ret, threadVars>>
      <3>1. TypeOK'
        BY <1>0, <2>1 DEF TypeOK, Goto, Steps
      <3>2. Holds(s)' /\ ReqOK(s)' /\ (Fetching(s)' => Fetching(s))
        BY <1>0, <1>1, <2>1
           DEF TypeOK, cnt_hit, Goto, Holds, ReqOK, Fetching, NoObjSteps
      <3> QED BY <1>0, <1>1, <2>1, <3>1, <3>2, LocalStep DEF TypeOK, cnt_hit, Goto
    <2>2. ASSUME NEW stp \in Exits({"PASS", "ERROR", "RECV"}),
                 DerefObj(s, stp, Rq(stp)), UNCHANGED ret
          PROVE  IInv'
      <3>1. /\ obj[s] # None /\ dying[s] = None /\ hoh[s] = None /\ ~stream[s]
            /\ req[s].restarts < MaxRestarts /\ stp \in {"PASS", "ERROR", "RECV"}
        BY <1>0, <1>1 DEF cnt_hit, Holds, ReqOK, NoObjSteps, Exits
      <3>2. stp = "PASS" => Rq(stp) = req
        OBVIOUS
      <3> HIDE DEF Rq
      <3> QED BY <1>0, <1>8, <2>2, <3>1, <3>2, DerefObjStep
    <2> QED BY <1>1, <2>1, <2>2 DEF cnt_hit
  <1>2. CASE cnt_lookup_hitpass(s)
    <2>1. /\ obj[s] # None /\ dying[s] = None /\ hoh[s] = None /\ ~stream[s]
          /\ req[s].restarts < MaxRestarts
          /\ DerefObj(s, "PASS", req) /\ ret' = ret
      BY <1>0, <1>2 DEF cnt_lookup_hitpass, Holds, ReqOK, NoObjSteps
    <2> QED BY <1>0, <2>1, DerefObjStep
  <1>3. CASE cnt_miss(s)
    <2>1. CASE /\ step' = Goto(s, "FETCH")
               /\ UNCHANGED <<headVars, ocVars, req, objcore, obj, parent, hoh,
                              nbusyobj, stream, ret, threadVars>>
      <3>1. TypeOK'
        BY <1>0, <2>1 DEF TypeOK, Goto, Steps
      <3>2. Holds(s)' /\ ReqOK(s)' /\ (Fetching(s)' => Fetching(s))
        BY <1>0, <1>3, <2>1
           DEF TypeOK, cnt_miss, Goto, Holds, ReqOK, Fetching, NoObjSteps
      <3> QED BY <1>0, <1>3, <2>1, <3>1, <3>2, LocalStep DEF TypeOK, cnt_miss, Goto
    <2>2. ASSUME NEW stp \in Exits({"PASS", "ERROR"}), DerefObjcore(s, stp, req)
          PROVE  IInv'
      <3>1. /\ objcore[s] # None /\ dying[s] = None /\ step[s] = "MISS"
            /\ req[s].restarts < MaxRestarts /\ stp \in {"PASS", "ERROR"}
        BY <1>0, <1>3 DEF cnt_miss, Holds, ReqOK, Exits
      <3> QED BY <1>0, <2>2, <3>1, DerefObjcoreStep
    <2> QED BY <1>3, <2>1, <2>2 DEF cnt_miss
  <1>4. CASE cnt_fetch_cleanup(s)
    <2>1. PICK stp \in {"ERROR", "RECV"} :
             IF objcore[s] # None
             THEN DerefObjcore(s, stp, Rq(stp))
             ELSE /\ step' = Goto(s, stp)
                  /\ req' = Rq(stp)
                  /\ UNCHANGED <<headVars, ocVars, objcore, obj, parent, hoh,
                                 nbusyobj, stream, ret, threadVars>>
      BY <1>4 DEF cnt_fetch_cleanup, Exits
    <2>2. /\ dying[s] = None /\ step[s] = "FETCH"
          /\ req[s].restarts < MaxRestarts
      BY <1>0, <1>4 DEF cnt_fetch_cleanup, ReqOK
    <2> HIDE DEF Rq
    <2>3. CASE objcore[s] # None
      <3>1. DerefObjcore(s, stp, Rq(stp))
        BY <2>1, <2>3
      <3> QED BY <1>8, <2>2, <2>3, <3>1, DerefObjcoreStep
    <2>4. CASE objcore[s] = None
      <3>1. /\ step' = Goto(s, stp) /\ req' = Rq(stp)
            /\ UNCHANGED <<headVars, ocVars, objcore, obj, parent, hoh, nbusyobj,
                           stream, ret, threadVars>>
        BY <2>1, <2>4
      <3>2. /\ req' \in [Sessions -> Requests] /\ req'[s].esi = req[s].esi
            /\ \A x \in Sessions \ {s} : req'[x] = req[x]
        BY <1>8, <2>2, <3>1
      <3>3. TypeOK'
        BY <1>0, <3>1, <3>2 DEF TypeOK, Goto, Steps
      <3>4. Holds(s)' /\ ReqOK(s)' /\ (Fetching(s)' => Fetching(s))
        BY <1>0, <2>2, <2>4, <3>1, <3>2
           DEF TypeOK, Goto, Holds, ReqOK, Fetching, NoObjSteps
      <3> QED BY <1>0, <2>2, <3>1, <3>2, <3>3, <3>4, LocalStep DEF TypeOK, Goto
    <2> QED BY <2>3, <2>4
  <1>5. CASE cnt_prepresp(s)
    <2>1. CASE /\ step' = Goto(s, IF stream[s] THEN "STREAMBODY" ELSE "DELIVER")
               /\ UNCHANGED <<headVars, ocVars, req, objcore, obj, parent, hoh,
                              nbusyobj, stream, ret, threadVars>>
      <3>1. TypeOK'
        BY <1>0, <2>1 DEF TypeOK, Goto, Steps
      <3>2. Holds(s)' /\ ReqOK(s)' /\ (Fetching(s)' => Fetching(s))
        BY <1>0, <1>5, <2>1
           DEF TypeOK, cnt_prepresp, Goto, Holds, ReqOK, Fetching, NoObjSteps
      <3> QED BY <1>0, <1>5, <2>1, <3>1, <3>2, LocalStep
              DEF TypeOK, cnt_prepresp, Goto
    <2>2. CASE /\ req[s].restarts < MaxRestarts /\ stream[s]
               /\ step' = Goto(s, "DROP")
               /\ ret' = [ret EXCEPT ![s] = "RECV"]
               /\ req' = Restarted(s)
               /\ UNCHANGED <<headVars, ocVars, objcore, obj, parent, hoh,
                              nbusyobj, stream, threadVars>>
      <3>1. /\ req' \in [Sessions -> Requests] /\ req'[s].esi = req[s].esi
            /\ \A x \in Sessions \ {s} : req'[x] = req[x]
        BY <1>0, <2>2, RestartFacts
      <3>2. TypeOK'
        BY <1>0, <2>2, <3>1 DEF TypeOK, Goto, Steps
      <3>3. Holds(s)' /\ ReqOK(s)' /\ (Fetching(s)' => Fetching(s))
        BY <1>0, <1>5, <2>2, <3>1
           DEF TypeOK, cnt_prepresp, Goto, Holds, ReqOK, Fetching, NoObjSteps
      <3> QED BY <1>0, <1>5, <2>2, <3>1, <3>2, <3>3, LocalStep
              DEF TypeOK, cnt_prepresp, Goto
    <2>3. CASE /\ req[s].restarts < MaxRestarts
               /\ DerefObj(s, "RECV", Restarted(s)) /\ UNCHANGED ret
      <3>1. obj[s] # None /\ dying[s] = None /\ hoh[s] = None
        BY <1>0, <1>5 DEF cnt_prepresp, Holds, NoObjSteps
      <3> QED BY <1>0, <2>3, <3>1, RestartFacts, DerefObjStep
    <2> QED BY <1>5, <2>1, <2>2, <2>3 DEF cnt_prepresp
  <1>6. CASE cnt_deliver(s)
    <2>1. /\ obj[s] # None /\ dying[s] = None /\ hoh[s] = None
          /\ DerefObj(s, "DONE", [req EXCEPT ![s].restarts = 0]) /\ ret' = ret
      BY <1>0, <1>6 DEF cnt_deliver, Holds, NoObjSteps
    <2> QED BY <1>0, <2>1, RestartFacts, DerefObjStep
  <1>7. CASE HSH_Drop_Deref(s)
    <2>1. /\ obj[s] # None /\ dying[s] = None /\ hoh[s] = None
          /\ ret[s] \in {"RECV", "ERROR"}
          /\ DerefObj(s, ret[s], req) /\ ret' = [ret EXCEPT ![s] = None]
      BY <1>0, <1>7 DEF HSH_Drop_Deref, Holds, ReqOK, NoObjSteps
    <2>2. PICK stp \in {"RECV", "ERROR"} : stp = ret[s]
      BY <2>1
    <2> QED BY <1>0, <2>1, <2>2, DerefObjStep
  <1> QED BY <1>1, <1>2, <1>3, <1>4, <1>5, <1>6, <1>7

\* HSH_Unbusy moves the objcore to the front of its list and wakes sessions.
LEMMA UnbusyStep ==
    ASSUME IInv, NEW s \in Sessions, obj[s] \in OCs, step[s] \in {"UNBUSY", "DROP"},
           NEW stp \in {"PREPRESP", "STREAMED", "DROPPED"},
           NEW ph \in {"fresh", "grace", "dead"}, NEW v \in Variants \cup {NoVary},
           stream[s] => stp # "PREPRESP",
           stp = "DROPPED" => ret'[s] \in {"RECV", "ERROR"},
           ret' \in [Sessions -> {None, "PREPRESP", "STREAMED", "RECV", "ERROR"}],
           \A x \in Sessions \ {s} : ret'[x] = ret[x],
           HSH_Unbusy(s, stp, ph, v)
    PROVE  IInv'
  <1>0. /\ TypeOK /\ ListInv /\ RefInv /\ DyingInv /\ WaitInv /\ Holds(s) /\ ReqOK(s)
        /\ SoleInv /\ PassObj \notin OCs /\ None \notin OCs
    BY ConstantsAreDistinct DEF IInv, SessInv
  <1>1. PICK c \in OCs : c = obj[s]
    OBVIOUS
  <1> DEFINE h == head[c]
             q == objcs[h]
             w == Without(q, c)
             r == <<c>> \o w
  <1>2. refcnt[c] > 0 /\ c \in alive /\ h \in Heads
    <2>1. <<"obj", s>> \in Holders(c)
      BY <1>1 DEF Holders, Tokens, Threads
    <2>2. Cardinality(Holders(c)) >= 1 /\ Cardinality(Holders(c)) \in Nat
      BY <2>1, HoldersFinite, CountChange
    <2>3. refcnt[c] > 0
      BY <1>0, <2>2 DEF RefInv, RefcntCovers, TypeOK
    <2> QED BY <1>0, <2>3 DEF RefInv, RefcntCovers
  <1>3. /\ objcs' = [objcs EXCEPT ![h] = r]
        /\ busy' = busy \ {c}
        /\ phase' = [phase EXCEPT ![c] = ph]
        /\ vary' = [vary EXCEPT ![c] = v]
        /\ nbusyobj' = [nbusyobj EXCEPT ![s] = TRUE]
        /\ hsh_rush(h, Goto(s, stp), req)
        /\ UNCHANGED <<ohref, alive, refcnt, head, hfp, hasobj, lru, objcore, obj,
                       parent, stream, taken, dying, purging>>
    BY <1>1 DEF HSH_Unbusy, threadVars
  <1>4. /\ q \in Seq(OCs)
        /\ \A i, j \in DOMAIN q : q[i] = q[j] => i = j
        /\ \E i \in DOMAIN q : q[i] = c
    BY <1>0, <1>2 DEF ListInv, TypeOK
  <1>5. PICK k \in DOMAIN q : q[k] = c
    BY <1>4
  <1>6. /\ w \in Seq(OCs)
        /\ \A i \in DOMAIN w : \E j \in DOMAIN q : w[i] = q[j] /\ j # k
        /\ \A j \in DOMAIN q : j # k => \E i \in DOMAIN w : w[i] = q[j]
        /\ \A i, j \in DOMAIN w : w[i] = w[j] => i = j
    <2>1. w = Without(q, q[k])
      BY <1>5
    <2> HIDE DEF q, w
    <2> QED BY <1>4, <1>5, <2>1, WithoutFacts
  <1>7. \A i \in DOMAIN w : w[i] # c
    BY <1>4, <1>5, <1>6
  <1>8. /\ r \in Seq(OCs)
        /\ \A i \in DOMAIN r : r[i] = c \/ \E j \in DOMAIN w : r[i] = w[j]
        /\ \A j \in DOMAIN w : \E i \in DOMAIN r : r[i] = w[j]
        /\ \E i \in DOMAIN r : r[i] = c
        /\ \A i, j \in DOMAIN r : r[i] = r[j] => i = j
    <2> HIDE DEF w
    <2> QED BY <1>6, <1>7, ConsFacts
  <1> HIDE DEF w, r
  <1>9. /\ objcs' \in [Heads -> Seq(OCs)] /\ objcs'[h] = r
        /\ \A g \in Heads : g # h => objcs'[g] = objcs[g]
    BY <1>0, <1>2, <1>3, <1>8 DEF TypeOK
  <1>10. ListInv'
    <2>1. ASSUME NEW g \in Heads, NEW a \in DOMAIN objcs'[g]
          PROVE  /\ objcs'[g][a] \in alive /\ head[objcs'[g][a]] = g
                 /\ refcnt[objcs'[g][a]] > 0
      <3>1. CASE g = h
        <4>1. r[a] = c \/ \E j \in DOMAIN q : r[a] = q[j]
          BY <1>6, <1>8, <1>9, <2>1, <3>1
        <4> QED BY <1>0, <1>2, <1>9, <3>1, <4>1 DEF ListInv
      <3>2. CASE g # h
        BY <1>0, <1>9, <2>1, <3>2 DEF ListInv
      <3> QED BY <3>1, <3>2
    <2>2. ASSUME NEW g \in Heads, NEW a \in DOMAIN objcs'[g],
                 NEW b \in DOMAIN objcs'[g], objcs'[g][a] = objcs'[g][b]
          PROVE  a = b
      <3>1. CASE g = h
        BY <1>8, <1>9, <2>2, <3>1
      <3>2. CASE g # h
        BY <1>0, <1>9, <2>2, <3>2 DEF ListInv
      <3> QED BY <3>1, <3>2
    <2>3. ASSUME NEW d \in alive, refcnt[d] > 0
          PROVE  \E a \in DOMAIN objcs'[head[d]] : objcs'[head[d]][a] = d
      <3>1. PICK j \in DOMAIN objcs[head[d]] : objcs[head[d]][j] = d
        BY <1>0, <2>3 DEF ListInv
      <3>2. head[d] \in Heads
        BY <1>0, <2>3 DEF RefInv, RefcntCovers
      <3>3. CASE head[d] = h
        <4>1. \E a \in DOMAIN r : r[a] = d
          <5>1. CASE j = k
            BY <1>5, <1>8, <3>1, <3>3, <5>1
          <5>2. CASE j # k
            BY <1>6, <1>8, <3>1, <3>3, <5>2
          <5> QED BY <5>1, <5>2
        <4> QED BY <1>9, <3>3, <4>1
      <3>4. CASE head[d] # h
        BY <1>9, <3>1, <3>2, <3>4
      <3> QED BY <3>3, <3>4
    <2> QED BY <1>3, <2>1, <2>2, <2>3 DEF ListInv
  <1>11. RushArgs(Goto(s, stp), req)
    BY <1>0 DEF RushArgs, Goto, TypeOK, Steps
  <1>12. Rushed(Goto(s, stp), req) /\ WaitInv'
    BY <1>0, <1>2, <1>3, <1>11, RushFacts
  <1>13. TypeOK'
    BY <1>0, <1>3, <1>9, <1>12 DEF TypeOK, Rushed
  <1>14. RefInv' /\ DyingInv'
    <2>1. \A d \in OCs : Holders(d)' = Holders(d)
      BY <1>3 DEF Holders
    <2>2. \A g \in Heads : HeadHolders(g)' \subseteq HeadHolders(g)
      <3> SUFFICES ASSUME NEW g \in Heads, NEW m \in HeadHolders(g)'
                   PROVE  m \in HeadHolders(g)
        OBVIOUS
      <3>1. CASE m[1] = "oc"
        BY <1>3, <3>1 DEF HeadHolders
      <3>2. CASE m[1] = "sess"
        <4>1. m[2] \in Sessions /\ hoh'[m[2]] = g
          BY <3>2 DEF HeadHolders, HeadTokens
        <4>2. hoh[m[2]] = g
          BY <1>12, <4>1, ConstantsAreDistinct DEF Rushed
        <4> QED BY <3>2, <4>2 DEF HeadHolders
      <3> QED BY <3>1, <3>2 DEF HeadHolders
    <2>3. \A g \in Heads : Cardinality(HeadHolders(g)') <= ohref'[g]
      <3> SUFFICES ASSUME NEW g \in Heads
                   PROVE  Cardinality(HeadHolders(g)') <= ohref'[g]
        OBVIOUS
      <3>1. /\ Cardinality(HeadHolders(g)') <= Cardinality(HeadHolders(g))
            /\ Cardinality(HeadHolders(g)) \in Nat
            /\ Cardinality(HeadHolders(g)') \in Nat
        BY <2>2, HoldersFinite, CountChange
      <3>2. Cardinality(HeadHolders(g)) <= ohref[g] /\ ohref[g] \in Nat
        BY <1>0 DEF RefInv, RefcntCovers, TypeOK
      <3> QED BY <1>3, <3>1, <3>2
    <2>4. RefInv'
      BY <1>0, <1>3, <2>1, <2>3 DEF RefInv, RefcntCovers, RefcntExact
    <2>5. DyingInv'
      BY <1>0, <1>3 DEF DyingInv
    <2> QED BY <2>4, <2>5
  <1>15. Settled(s)
    <2>1. step'[s] = stp /\ req'[s] = req[s] /\ hoh'[s] = hoh[s]
      BY <1>0, <1>12 DEF Rushed, Goto, TypeOK
    <2> QED BY <1>0, <1>3, <2>1 DEF Settled, Holds, ReqOK, Fetching, NoObjSteps, TypeOK
  <1>16. \A x \in Sessions : Unmoved(x, Goto(s, stp), req) \/ Settled(x)
    BY <1>0, <1>3, <1>15 DEF Unmoved, Goto, TypeOK
  <1>17. SoleKept
    <2> SUFFICES ASSUME NEW x \in Sessions, NEW d \in OCs, refcnt[d] = 1,
                        objcore'[x] = d \/ (obj'[x] = d /\ Fetching(x)')
                 PROVE  d # c
      BY <1>3 DEF SoleKept
    <2> SUFFICES ASSUME d = c PROVE FALSE
      OBVIOUS
    <2>1. \E m \in Holders(c) : m # <<"obj", s>>
      <3>1. CASE objcore'[x] = d
        <4>1. <<"objcore", x>> \in Holders(c)
          BY <1>3, <3>1 DEF Holders, Tokens, Threads
        <4> QED BY <4>1
      <3>2. CASE obj'[x] = d /\ Fetching(x)'
        <4>1. x # s
          BY <1>15, <3>2 DEF Settled
        <4>2. <<"obj", x>> \in Holders(c)
          BY <1>3, <3>2 DEF Holders, Tokens, Threads
        <4> QED BY <4>1, <4>2
      <3> QED BY <3>1, <3>2
    <2>2. <<"obj", s>> \in Holders(c)
      BY <1>1 DEF Holders, Tokens, Threads
    <2>3. Cardinality(Holders(c)) >= 2 /\ Cardinality(Holders(c)) \in Nat
      BY <2>1, <2>2, HoldersFinite, CountChange
    <2>4. Cardinality(Holders(c)) <= refcnt[c] /\ refcnt[c] = 1
      BY <1>0 DEF RefInv, RefcntCovers
    <2> QED BY <2>3, <2>4
  <1> QED BY <1>10, <1>11, <1>12, <1>13, <1>14, <1>16, <1>17, RushedStep

\* The steps that make an object visible or kill it.
LEMMA UnbusyingSteps ==
    ASSUME IInv, NEW s \in Sessions, Unbusy(s) \/ HSH_Drop(s)
    PROVE  IInv'
  <1> USE DEF At, headVars, ocVars, threadVars
  <1>0. /\ TypeOK /\ Holds(s) /\ ReqOK(s)
        /\ ret \in [Sessions -> {None, "PREPRESP", "STREAMED", "RECV", "ERROR"}]
    BY DEF IInv, SessInv, TypeOK
  <1>1. CASE Unbusy(s)
    <2>1. PICK ph \in {"fresh", "dead"}, v \in {NoVary, req[s].variant} \ {None} :
             HSH_Unbusy(s, ret[s], ph, v)
      BY <1>1 DEF Unbusy
    <2>2. v \in Variants \cup {NoVary}
      BY <1>0, <2>1 DEF TypeOK, Requests
    <2>3. /\ step[s] = "UNBUSY" /\ obj[s] \in OCs
          /\ ret[s] \in {"PREPRESP", "STREAMED"}
          /\ stream[s] => ret[s] # "PREPRESP"
          /\ ret' = [ret EXCEPT ![s] = None]
      BY <1>0, <1>1 DEF Unbusy, Holds, ReqOK
    <2>4. PICK stp \in {"PREPRESP", "STREAMED"} : stp = ret[s]
      BY <2>3
    <2> QED BY <1>0, <2>1, <2>2, <2>3, <2>4, UnbusyStep
  <1>2. CASE HSH_Drop(s)
    <2>1. /\ step[s] = "DROP" /\ obj[s] \in OCs \cup {PassObj}
          /\ ret[s] \in {"RECV", "ERROR"} /\ ret' = ret
      BY <1>0, <1>2 DEF HSH_Drop, Holds, ReqOK, NoObjSteps, TypeOK
    <2>2. CASE obj[s] = PassObj
      <3>1. /\ step' = Goto(s, "DROPPED")
            /\ UNCHANGED <<headVars, ocVars, req, objcore, obj, parent, hoh,
                           nbusyobj, stream, threadVars>>
        BY <1>2, <2>2 DEF HSH_Drop
      <3>2. TypeOK'
        BY <1>0, <2>1, <3>1 DEF TypeOK, Goto, Steps
      <3>3. Holds(s)' /\ ReqOK(s)' /\ (Fetching(s)' => Fetching(s))
        BY <1>0, <2>1, <3>1 DEF TypeOK, Goto, Holds, ReqOK, Fetching, NoObjSteps
      <3> QED BY <1>0, <2>1, <3>1, <3>2, <3>3, LocalStep DEF TypeOK, Goto
    <2>3. CASE obj[s] # PassObj
      <3>1. PICK v \in Variants \cup {NoVary} : v = vary[obj[s]]
        BY <1>0, <2>1, <2>3 DEF TypeOK
      <3>2. HSH_Unbusy(s, "DROPPED", "dead", v)
        BY <1>2, <2>3, <3>1 DEF HSH_Drop
      <3> QED BY <1>0, <2>1, <2>3, <3>2, UnbusyStep
    <2> QED BY <2>2, <2>3
  <1> QED BY <1>1, <1>2

-----------------------------------------------------------------------------
\* Nothing of the session x changes.
Still(x) ==
    UNCHANGED <<step[x], req[x], objcore[x], obj[x], parent[x], hoh[x], stream[x],
                ret[x]>>

\* An objcore that is busy and has one holder stays so.
SolesKept ==
    \A c \in OCs : c \in busy /\ refcnt[c] = 1 => c \in busy' /\ refcnt'[c] = 1

\* Steps of one session that wake nobody.
LEMMA OwnStep ==
    ASSUME IInv, TypeOK', RefInv', ListInv', DyingInv', WaitInv', SolesKept,
           NEW s \in Sessions, Holds(s)', ReqOK(s)', Sole(s)',
           \A x \in Sessions \ {s} : Still(x)
    PROVE  IInv'
  <1>1. ASSUME NEW x \in Sessions, x # s
        PROVE  Holds(x)' /\ ReqOK(x)' /\ Sole(x)'
    <2>1. Holds(x) /\ ReqOK(x) /\ Sole(x) /\ TypeOK /\ Still(x)
      BY <1>1 DEF IInv, SessInv, SoleInv
    <2>2. Holds(x)' /\ ReqOK(x)' /\ (Fetching(x)' => Fetching(x))
      BY <2>1, SessKept DEF Still
    <2>3. Sole(x)'
      BY <2>1, <2>2 DEF Sole, SolesKept, Still, TypeOK
    <2> QED BY <2>2, <2>3
  <1> QED BY <1>1 DEF IInv, SessInv, SoleInv

\* Each objcore in D is referenced and gets one more holder.
LEMMA RefsAdded ==
    ASSUME IInv, NEW D \in SUBSET OCs, refcnt' \in [OCs -> Nat],
           \A c \in OCs : refcnt'[c] = IF c \in D THEN refcnt[c] + 1 ELSE refcnt[c],
           \A c \in D : refcnt[c] > 0,
           \A c \in D : \E k : k \notin Holders(c) /\ Holders(c)' = Holders(c) \cup {k},
           \A c \in OCs \ D : Holders(c)' = Holders(c),
           UNCHANGED <<objcs, alive, head, dying, hoh, ohref>>
    PROVE  RefInv' /\ ListInv' /\ DyingInv'
  <1>0. /\ RefcntCovers /\ ("nostorage" \notin Faults => RefcntExact)
        /\ TypeOK /\ ListInv /\ DyingInv /\ refcnt \in [OCs -> Nat]
    BY DEF IInv, RefInv, TypeOK
  <1>1. \A c \in OCs : Cardinality(Holders(c)) <= refcnt[c]
    BY <1>0 DEF RefcntCovers
  <1>2. \A c \in OCs : Cardinality(Holders(c)') =
                          IF c \in D THEN Cardinality(Holders(c)) + 1
                          ELSE Cardinality(Holders(c))
    BY HoldersFinite, CountChange
  <1>3. \A h \in Heads : HeadHolders(h)' = HeadHolders(h)
    BY DEF HeadHolders
  <1>4. \A c \in OCs : Cardinality(Holders(c)') <= refcnt'[c]
    BY <1>0, <1>1, <1>2, HoldersFinite
  <1>5. \A c \in OCs \ alive : refcnt'[c] = 0
    BY <1>0 DEF RefcntCovers
  <1>6. RefcntCovers'
    BY <1>0, <1>3, <1>4, <1>5 DEF RefcntCovers
  <1>7. "nostorage" \notin Faults => RefcntExact'
    BY <1>0, <1>2 DEF RefcntExact
  <1>8. \A c \in OCs : refcnt'[c] > 0 <=> refcnt[c] > 0
    BY <1>0
  <1>9. ListInv'
    <2>1. \A h \in Heads : \A i \in DOMAIN objcs[h] : objcs[h][i] \in OCs
      BY <1>0 DEF TypeOK
    <2>2. alive \subseteq OCs
      BY <1>0 DEF TypeOK
    <2> QED BY <1>0, <1>8, <2>1, <2>2 DEF ListInv
  <1>10. DyingInv'
    BY <1>0, <1>8 DEF DyingInv, TypeOK
  <1> QED BY <1>6, <1>7, <1>9, <1>10 DEF RefInv

\* Whatever is held is referenced, allocated and on an objhead; if it has just
\* one reference it has just one holder.
LEMMA HeldFacts ==
    ASSUME IInv, NEW c \in OCs, NEW k \in Holders(c)
    PROVE  /\ refcnt[c] > 0 /\ c \in alive /\ head[c] \in Heads
           /\ refcnt[c] = 1 => \A m \in Holders(c) : m = k
  <1>0. TypeOK /\ RefcntCovers
    BY DEF IInv, RefInv
  <1>1. /\ Cardinality(Holders(c)) \in Nat /\ Cardinality(Holders(c)) >= 1
        /\ \A m \in Holders(c) : m # k => Cardinality(Holders(c)) >= 2
    BY HoldersFinite, CountChange
  <1>2. Cardinality(Holders(c)) <= refcnt[c] /\ refcnt[c] \in Nat
    BY <1>0 DEF RefcntCovers, TypeOK
  <1>3. refcnt[c] > 0 /\ (refcnt[c] = 1 => \A m \in Holders(c) : m = k)
    BY <1>1, <1>2
  <1> QED BY <1>0, <1>3 DEF RefcntCovers

\* The steps that take a new reference: a lookup that hits, HSH_Purge, and the
\* end of a fetch, when EXP_Insert takes one for the LRU list and the heap.
LEMMA ReferencingSteps ==
    ASSUME IInv, NEW s \in Sessions, LookupHit(s) \/ HSH_Purge(s) \/ FetchBody_ok(s)
    PROVE  IInv'
  <1> USE DEF At, headVars, ocVars, sessVars, threadVars
  <1>0. /\ TypeOK /\ Holds(s) /\ ReqOK(s) /\ Sole(s) /\ ListInv
        /\ refcnt \in [OCs -> Nat] /\ s \in Threads
        /\ PassObj \notin OCs /\ None \notin OCs /\ None # PassObj
    BY ConstantsAreDistinct DEF IInv, SessInv, SoleInv, TypeOK, Threads
  <1>1. CASE LookupHit(s)
    <2>1. PICK c : /\ \E i \in Found(s, objcs[hoh[s]]) : c = objcs[hoh[s]][i]
                   /\ refcnt' = [refcnt EXCEPT ![c] = @ + 1]
                   /\ obj' = [obj EXCEPT ![s] = c]
      BY <1>1 DEF LookupHit
    <2>2. hoh[s] \in Heads /\ step[s] = "LOOKUP" /\ obj[s] = None
      BY <1>0, <1>1 DEF LookupHit, TypeOK, Holds, NoObjSteps
    <2>3. PICK i \in DOMAIN objcs[hoh[s]] : c = objcs[hoh[s]][i] /\ c \notin busy
      BY <2>1 DEF Found, Usable
    <2>4. c \in OCs /\ refcnt[c] > 0
      BY <1>0, <2>2, <2>3 DEF ListInv, TypeOK
    <2>5. /\ nbusyobj' = [nbusyobj EXCEPT ![s] = TRUE]
          /\ step' = Goto(s, "HITREF")
          /\ UNCHANGED <<headVars, alive, head, busy, hfp, hasobj, phase, vary, lru,
                         req, objcore, parent, hoh, stream, ret, threadVars>>
      BY <1>1 DEF LookupHit
    <2>6. TypeOK'
      BY <1>0, <2>1, <2>4, <2>5 DEF TypeOK, Goto, Steps
    <2>7. /\ <<"obj", s>> \notin Holders(c)
          /\ Holders(c)' = Holders(c) \cup {<<"obj", s>>}
          /\ \A d \in OCs \ {c} : Holders(d)' = Holders(d)
      BY <1>0, <2>1, <2>2, <2>4, <2>5 DEF Holders, Tokens, TypeOK
    <2>8. RefInv' /\ ListInv' /\ DyingInv'
      <3>1. {c} \in SUBSET OCs /\ refcnt' \in [OCs -> Nat]
        BY <1>0, <2>1, <2>4
      <3>2. \A d \in OCs : refcnt'[d] = IF d \in {c} THEN refcnt[d] + 1 ELSE refcnt[d]
        BY <1>0, <2>1, <2>4
      <3>3. \A d \in {c} : \E k : k \notin Holders(d) /\ Holders(d)' = Holders(d) \cup {k}
        BY <2>7
      <3> QED BY <2>4, <2>5, <2>7, <3>1, <3>2, <3>3, RefsAdded
    <2>9. WaitInv'
      BY <1>0, <2>2, <2>5, WaitKept DEF TypeOK, Goto
    <2>10. Holds(s)' /\ ReqOK(s)' /\ Sole(s)'
      <3>1. step'[s] = "HITREF" /\ obj'[s] = c
        BY <1>0, <2>1, <2>5 DEF TypeOK, Goto
      <3>2. Holds(s)' /\ ReqOK(s)'
        BY <1>0, <1>1, <2>2, <2>4, <2>5, <3>1
           DEF LookupHit, Holds, ReqOK, NoObjSteps, TypeOK
      <3>3. objcore[s] # None => objcore[s] # c
        BY <1>0, <2>3 DEF Sole
      <3> QED BY <1>0, <2>1, <2>4, <2>5, <3>1, <3>2, <3>3
              DEF Sole, Fetching, TypeOK
    <2>11. SolesKept
      BY <1>0, <2>1, <2>3, <2>4, <2>5 DEF SolesKept
    <2>12. \A x \in Sessions \ {s} : Still(x)
      BY <1>0, <2>1, <2>5 DEF Still, TypeOK, Goto
    <2> QED BY <2>6, <2>8, <2>9, <2>10, <2>11, <2>12, OwnStep
  <1>2. CASE HSH_Purge(s)
    <2>1. PICK g : g = IF step[s] = "HIT" THEN obj[s] ELSE objcore[s]
      OBVIOUS
    <2>2. g \in OCs /\ head[g] \in Heads /\ step[s] # "WAITING"
      <3>1. step[s] \in {"HIT", "MISS"}
        BY <1>2 DEF HSH_Purge
      <3>2. g \in OCs
        BY <1>0, <2>1, <3>1 DEF Holds, TypeOK
      <3>3. <<"obj", s>> \in Holders(g) \/ <<"objcore", s>> \in Holders(g)
        BY <1>0, <2>1, <3>2 DEF Holders, Tokens
      <3> QED BY <3>1, <3>2, <3>3, HeldFacts
    <2> DEFINE victims == Elems(objcs[head[g]]) \ busy
    <2>3. /\ purging' = [purging EXCEPT ![s] = victims]
          /\ refcnt' = [c \in OCs |-> IF c \in victims THEN refcnt[c] + 1
                                      ELSE refcnt[c]]
          /\ purging[s] = {}
          /\ UNCHANGED <<headVars, alive, head, busy, hfp, hasobj, phase, vary, lru,
                         sessVars, taken, dying>>
      BY <1>2, <2>1 DEF HSH_Purge
    <2>4. victims \in SUBSET OCs /\ \A c \in victims : refcnt[c] > 0 /\ c \notin busy
      BY <1>0, <2>2 DEF Elems, ListInv, TypeOK
    <2> HIDE DEF victims
    <2>5. refcnt' \in [OCs -> Nat]
      BY <1>0, <2>3
    <2>6. TypeOK'
      BY <1>0, <2>3, <2>4, <2>5 DEF TypeOK
    <2>7. /\ \A c \in victims : /\ <<"purge", s>> \notin Holders(c)
                               /\ Holders(c)' = Holders(c) \cup {<<"purge", s>>}
          /\ \A c \in OCs \ victims : Holders(c)' = Holders(c)
      BY <1>0, <2>3, <2>4 DEF Holders, Tokens, TypeOK
    <2>8. RefInv' /\ ListInv' /\ DyingInv'
      <3>1. \A c \in OCs : refcnt'[c] = IF c \in victims THEN refcnt[c] + 1
                                        ELSE refcnt[c]
        BY <2>3
      <3> QED BY <2>3, <2>4, <2>5, <2>7, <3>1, RefsAdded
    <2>9. WaitInv'
      BY <2>2, <2>3, WaitKept
    <2>10. SolesKept
      BY <2>3, <2>4 DEF SolesKept
    <2>11. \A x \in Sessions : Still(x)
      BY <2>3 DEF Still
    <2>12. Holds(s)' /\ ReqOK(s)' /\ Sole(s)'
      <3>1. Holds(s)' /\ ReqOK(s)'
        BY <1>0, <2>3 DEF Holds, ReqOK
      <3>2. Sole(s)'
        BY <1>0, <2>3, <2>10 DEF Sole, SolesKept, Fetching, TypeOK
      <3> QED BY <3>1, <3>2
    <2> QED BY <2>6, <2>8, <2>9, <2>10, <2>11, <2>12, OwnStep
  <1>3. CASE FetchBody_ok(s)
    <2> DEFINE next == IF step[s] = "BODY" THEN "PREPRESP" ELSE "STREAMED"
    <2>1. /\ step[s] \in {"BODY", "STREAMBODY"} /\ Fetching(s) /\ obj[s] # None
          /\ UNCHANGED <<req, objcore, obj, parent, hoh, nbusyobj, stream, threadVars>>
      BY <1>0, <1>3 DEF FetchBody_ok, Fetching, Holds, NoObjSteps
    <2>2. CASE obj[s] = PassObj
      <3>1. step' = Goto(s, next) /\ UNCHANGED <<headVars, ocVars, ret>>
        BY <1>3, <2>2 DEF FetchBody_ok
      <3>2. TypeOK'
        BY <1>0, <2>1, <3>1 DEF TypeOK, Goto, Steps
      <3>3. Holds(s)' /\ ReqOK(s)' /\ (Fetching(s)' => Fetching(s))
        BY <1>0, <2>1, <3>1 DEF TypeOK, Goto, Holds, ReqOK, Fetching, NoObjSteps
      <3> QED BY <1>0, <2>1, <3>1, <3>2, <3>3, LocalStep DEF TypeOK, Goto
    <2>3. CASE obj[s] # PassObj
      <3>1. PICK c \in OCs : c = obj[s]
        BY <1>0, <2>1, <2>3 DEF TypeOK
      <3>2. /\ refcnt' = [refcnt EXCEPT ![c] = @ + 1]
            /\ lru' = lru \cup {c}
            /\ step' = Goto(s, "UNBUSY")
            /\ ret' = [ret EXCEPT ![s] = next]
            /\ UNCHANGED <<headVars, alive, head, busy, hfp, hasobj, phase, vary>>
        BY <1>3, <2>3, <3>1 DEF FetchBody_ok, EXP_Insert
      <3>3. <<"obj", s>> \in Holders(c) /\ c \in busy /\ refcnt[c] = 1
        BY <1>0, <2>1, <3>1 DEF Holders, Tokens, Sole
      <3>4. <<"lru", Timer>> \notin Holders(c)
        BY <3>3, HeldFacts
      <3>5. /\ Holders(c)' = Holders(c) \cup {<<"lru", Timer>>}
            /\ \A d \in OCs \ {c} : Holders(d)' = Holders(d)
        BY <1>0, <2>1, <3>2 DEF Holders, Tokens, Threads
      <3>6. TypeOK'
        BY <1>0, <2>1, <3>2 DEF TypeOK, Goto, Steps
      <3>7. RefInv' /\ ListInv' /\ DyingInv'
        <4>1. {c} \in SUBSET OCs /\ refcnt' \in [OCs -> Nat]
          BY <1>0, <3>2
        <4>2. \A d \in OCs : refcnt'[d] = IF d \in {c} THEN refcnt[d] + 1
                                          ELSE refcnt[d]
          BY <1>0, <3>2
        <4>3. \A d \in {c} : \E k : /\ k \notin Holders(d)
                                    /\ Holders(d)' = Holders(d) \cup {k}
          BY <3>4, <3>5
        <4>4. \A d \in {c} : refcnt[d] > 0
          BY <3>3
        <4> QED BY <2>1, <3>2, <3>5, <4>1, <4>2, <4>3, <4>4, RefsAdded
      <3>8. WaitInv'
        BY <1>0, <2>1, <3>2, WaitKept DEF TypeOK, Goto
      <3>9. step'[s] = "UNBUSY" /\ ret'[s] = next
        BY <1>0, <3>2 DEF TypeOK, Goto
      <3>10. Holds(s)' /\ ReqOK(s)'
        BY <1>0, <2>1, <3>1, <3>9 DEF Holds, ReqOK, NoObjSteps
      \* No other session has c, and this one is done fetching it.
      <3>11. ASSUME NEW x \in Sessions
             PROVE  /\ objcore[x] # c
                    /\ x # s => obj[x] # c
        <4>1. /\ objcore[x] = c => <<"objcore", x>> \in Holders(c)
              /\ obj[x] = c => <<"obj", x>> \in Holders(c)
          BY DEF Holders, Tokens, Threads
        <4> QED BY <3>3, <4>1, HeldFacts
      <3>12. \A x \in Sessions \ {s} : Still(x)
        BY <1>0, <2>1, <3>2 DEF Still, TypeOK, Goto
      <3>13. \A x \in Sessions : Holds(x)' /\ ReqOK(x)' /\ Sole(x)'
        <4> SUFFICES ASSUME NEW x \in Sessions
                     PROVE  Holds(x)' /\ ReqOK(x)' /\ Sole(x)'
          OBVIOUS
        <4>1. Holds(x) /\ ReqOK(x) /\ Sole(x)
          BY DEF IInv, SessInv, SoleInv
        <4>2. CASE x = s
          <5>1. Sole(s)'
            BY <1>0, <2>1, <3>2, <3>9, <3>11 DEF Sole, Fetching, TypeOK
          <5> QED BY <3>10, <4>2, <5>1
        <4>3. CASE x # s
          <5>1. Still(x)
            BY <3>12, <4>3
          <5>2. Holds(x)' /\ ReqOK(x)' /\ (Fetching(x)' => Fetching(x))
            BY <4>1, <5>1, SessKept DEF Still
          <5> QED BY <1>0, <2>1, <3>2, <3>11, <4>1, <4>3, <5>1, <5>2
                  DEF Sole, Still, TypeOK
        <4> QED BY <4>2, <4>3
      <3> QED BY <3>6, <3>7, <3>8, <3>13 DEF IInv, SessInv, SoleInv
    <2> QED BY <2>2, <2>3
  <1> QED BY <1>1, <1>2, <1>3

\* A reference that changes hands changes no count.
LEMMA TokenMoved ==
    ASSUME NEW c \in OCs, NEW k \in Holders(c), NEW m, m \notin Holders(c),
           Holders(c)' = (Holders(c) \ {k}) \cup {m},
           \A d \in OCs : d # c => Holders(d)' = Holders(d)
    PROVE  \A d \in OCs :
              /\ Cardinality(Holders(d)') <= Cardinality(Holders(d))
              /\ Cardinality(Holders(d)') = Cardinality(Holders(d))
  <1>1. Cardinality(Holders(c)') = Cardinality(Holders(c))
    BY HoldersFinite, CountChange
  <1>2. \A d \in OCs : Cardinality(Holders(d)') = Cardinality(Holders(d))
    <2> SUFFICES ASSUME NEW d \in OCs
                 PROVE  Cardinality(Holders(d)') = Cardinality(Holders(d))
      OBVIOUS
    <2>1. CASE d = c
      BY <1>1, <2>1
    <2>2. CASE d # c
      BY <2>2
    <2> QED BY <2>1, <2>2
  <1> QED BY <1>2, HoldersFinite

\* The heads' counts are right if no head, objcore or lookup changes.
LEMMA HeadsKept ==
    ASSUME IInv, UNCHANGED <<ohref, alive, head, hoh>>
    PROVE  \A h \in Heads : Cardinality(HeadHolders(h)') <= ohref'[h]
  <1>1. \A h \in Heads : HeadHolders(h)' = HeadHolders(h)
    BY DEF HeadHolders
  <1> QED BY <1>1 DEF IInv, RefInv, RefcntCovers

\* Steps that leave the sessions alone.
LEMMA ThreadStep ==
    ASSUME IInv, TypeOK', RefInv', ListInv', DyingInv', SolesKept,
           UNCHANGED <<waiters, step, req, objcore, obj, parent, hoh, stream, ret>>
    PROVE  IInv'
  <1>1. WaitInv'
    BY DEF IInv, WaitInv
  <1>2. SessInv'
    BY DEF IInv, SessInv, Holds, ReqOK
  <1>3. SoleInv'
    BY DEF IInv, SoleInv, Sole, Fetching, SolesKept, TypeOK
  <1> QED BY <1>1, <1>2, <1>3 DEF IInv

\* Time passes, or an objcore is taken off the LRU list.
LEMMA CacheSteps ==
    ASSUME IInv,
           \/ \E c \in OCs : Age(c) \/ exp_timer(c)
           \/ \E s \in Sessions : EXP_NukeOne(s)
    PROVE  IInv'
  <1> USE DEF headVars, ocVars, sessVars, threadVars
  <1>0. TypeOK /\ None \notin OCs
    BY ConstantsAreDistinct DEF IInv
  <1>1. ASSUME NEW c \in OCs, Age(c)
        PROVE  IInv'
    <2>1. TypeOK'
      BY <1>0, <1>1 DEF Age, TypeOK
    <2>2. \A d \in OCs : Holders(d)' = Holders(d)
      BY <1>1 DEF Age, Holders
    <2>3. \A d \in OCs : /\ Cardinality(Holders(d)') <= Cardinality(Holders(d))
                         /\ Cardinality(Holders(d)') = Cardinality(Holders(d))
      BY <2>2, HoldersFinite
    <2>4. \A h \in Heads : Cardinality(HeadHolders(h)') <= ohref'[h]
      BY <1>1, HeadsKept DEF Age
    <2>5. RefInv' /\ ListInv' /\ DyingInv'
      BY <1>1, <2>3, <2>4, CountsKept DEF Age
    <2>6. SolesKept
      BY <1>1 DEF Age, SolesKept
    <2> QED BY <1>1, <2>1, <2>5, <2>6, ThreadStep DEF Age
  <1>2. ASSUME NEW t \in Threads, NEW c \in lru, taken[t] = None, TakeOffLru(t, c)
        PROVE  IInv'
    <2>1. TypeOK' /\ c \in OCs
      BY <1>0, <1>2 DEF TakeOffLru, TypeOK
    <2>2. /\ <<"lru", Timer>> \in Holders(c) /\ <<"taken", t>> \notin Holders(c)
          /\ Holders(c)' = (Holders(c) \ {<<"lru", Timer>>}) \cup {<<"taken", t>>}
          /\ \A d \in OCs : d # c => Holders(d)' = Holders(d)
      BY <1>0, <1>2, <2>1 DEF TakeOffLru, Holders, Tokens, Threads, TypeOK
    <2>3. \A d \in OCs : /\ Cardinality(Holders(d)') <= Cardinality(Holders(d))
                         /\ Cardinality(Holders(d)') = Cardinality(Holders(d))
      BY <2>1, <2>2, TokenMoved
    <2>4. \A h \in Heads : Cardinality(HeadHolders(h)') <= ohref'[h]
      BY <1>2, HeadsKept DEF TakeOffLru
    <2>5. RefInv' /\ ListInv' /\ DyingInv'
      BY <1>2, <2>3, <2>4, CountsKept DEF TakeOffLru
    <2>6. SolesKept
      BY <1>2 DEF TakeOffLru, SolesKept
    <2> QED BY <1>2, <2>1, <2>5, <2>6, ThreadStep DEF TakeOffLru
  <1>3. ASSUME NEW c \in OCs, exp_timer(c)
        PROVE  IInv'
    BY <1>2, <1>3 DEF exp_timer, Threads
  <1>4. ASSUME NEW s \in Sessions, EXP_NukeOne(s)
        PROVE  IInv'
    BY <1>2, <1>4 DEF EXP_NukeOne, Threads, At
  <1> QED BY <1>1, <1>3, <1>4

\* Making an object out of sp->objcore, and the object around an ESI include,
\* pass a reference on; so does the end of an include.
LEMMA HandingSteps ==
    ASSUME IInv, NEW s \in Sessions,
           cnt_fetchbody(s) \/ cnt_error(s) \/ ESI_include(s) \/ cnt_done(s)
    PROVE  IInv'
  <1> USE DEF At, headVars, ocVars, threadVars
  <1>0. /\ TypeOK /\ Holds(s) /\ ReqOK(s) /\ Sole(s)
        /\ s \in Threads /\ MaxRestarts \in Nat
        /\ PassObj \notin OCs /\ None \notin OCs /\ None # PassObj
    BY ConstantsAreDistinct, ParamsAreSane DEF IInv, SessInv, SoleInv, Threads
  \* Common to all of them.
  <1>1. ASSUME TypeOK', UNCHANGED <<objcs, ohref, waiters, alive, refcnt, head>>,
               UNCHANGED <<busy, hoh, dying>>, step[s] # "WAITING",
               \A x \in Sessions \ {s} : Still(x),
               Holds(s)', ReqOK(s)', Sole(s)',
               \A d \in OCs :
                  /\ Cardinality(Holders(d)') <= Cardinality(Holders(d))
                  /\ "nostorage" \notin Faults =>
                        Cardinality(Holders(d)') = Cardinality(Holders(d))
        PROVE  IInv'
    <2>1. \A h \in Heads : Cardinality(HeadHolders(h)') <= ohref'[h]
      BY <1>1, HeadsKept
    <2>2. RefInv' /\ ListInv' /\ DyingInv'
      BY <1>1, <2>1, CountsKept
    <2>3. WaitInv'
      BY <1>1, WaitKept DEF Still
    <2>4. SolesKept
      BY <1>1 DEF SolesKept
    <2> QED BY <1>1, <2>2, <2>3, <2>4, OwnStep
  \* STV_MkObject at a step without an object.
  <1>2. ASSUME STV_MkObject(s), obj[s] = None,
               UNCHANGED <<parent, lru, taken, purging>>
        PROVE  /\ \A d \in OCs :
                     /\ Cardinality(Holders(d)') <= Cardinality(Holders(d))
                     /\ Cardinality(Holders(d)') = Cardinality(Holders(d))
               /\ hasobj' \subseteq alive
               /\ obj' \in [Sessions -> OCs \cup {PassObj, None}]
               /\ objcore' \in [Sessions -> OCs \cup {None}]
               /\ obj'[s] # None /\ objcore'[s] = None
               /\ obj'[s] \in OCs => obj'[s] \in busy /\ refcnt[obj'[s]] = 1
               /\ \A x \in Sessions \ {s} : obj'[x] = obj[x] /\ objcore'[x] = objcore[x]
    <2>1. /\ hasobj' \subseteq alive
          /\ obj' \in [Sessions -> OCs \cup {PassObj, None}]
          /\ objcore' \in [Sessions -> OCs \cup {None}]
          /\ obj'[s] # None /\ objcore'[s] = None
          /\ obj'[s] \in OCs => obj'[s] \in busy /\ refcnt[obj'[s]] = 1
          /\ \A x \in Sessions \ {s} : obj'[x] = obj[x] /\ objcore'[x] = objcore[x]
      BY <1>0, <1>2 DEF STV_MkObject, TypeOK, Sole
    <2>2. CASE objcore[s] = None
      <3>1. \A d \in OCs : Holders(d)' = Holders(d)
        BY <1>0, <1>2, <2>2 DEF STV_MkObject, Holders, TypeOK
      <3> QED BY <2>1, <3>1, HoldersFinite
    <2>3. CASE objcore[s] # None
      <3>1. PICK c \in OCs : c = objcore[s]
        BY <1>0, <2>3 DEF TypeOK
      <3>2. /\ <<"objcore", s>> \in Holders(c) /\ <<"obj", s>> \notin Holders(c)
            /\ Holders(c)' = (Holders(c) \ {<<"objcore", s>>}) \cup {<<"obj", s>>}
            /\ \A d \in OCs : d # c => Holders(d)' = Holders(d)
        BY <1>0, <1>2, <2>3, <3>1 DEF STV_MkObject, Holders, Tokens, TypeOK
      <3>3. \A d \in OCs :
               /\ Cardinality(Holders(d)') <= Cardinality(Holders(d))
               /\ Cardinality(Holders(d)') = Cardinality(Holders(d))
        BY <3>2, TokenMoved
      <3> QED BY <2>1, <3>3
    <2> QED BY <2>2, <2>3
  <1>3. CASE cnt_fetchbody(s)
    <2>1. /\ STV_MkObject(s) /\ step[s] = "FETCHBODY" /\ obj[s] = None /\ ~stream[s]
          /\ hoh[s] = None
          /\ UNCHANGED <<headVars, alive, refcnt, head, busy, hfp, phase, vary, lru,
                         req, parent, hoh, nbusyobj, ret, threadVars>>
      BY <1>0, <1>3 DEF cnt_fetchbody, Holds, ReqOK, NoObjSteps
    <2>2. /\ \/ step' = Goto(s, "BODY") /\ stream' = stream
             \/ step' = Goto(s, "PREPRESP") /\ stream' = [stream EXCEPT ![s] = TRUE]
      BY <1>3 DEF cnt_fetchbody
    <2>3. TypeOK'
      BY <1>0, <1>2, <2>1, <2>2 DEF TypeOK, Goto, Steps
    <2>4. /\ step'[s] \in {"BODY", "PREPRESP"} /\ (stream'[s] => step'[s] = "PREPRESP")
          /\ \A x \in Sessions \ {s} : step'[x] = step[x] /\ stream'[x] = stream[x]
      BY <1>0, <2>1, <2>2 DEF TypeOK, Goto
    <2>5. Holds(s)' /\ ReqOK(s)' /\ Sole(s)'
      BY <1>0, <1>2, <2>1, <2>4 DEF Holds, ReqOK, Sole, NoObjSteps
    <2>6. \A x \in Sessions \ {s} : Still(x)
      BY <1>2, <2>1, <2>4 DEF Still
    <2> QED BY <1>1, <1>2, <2>1, <2>3, <2>5, <2>6
  <1>4. CASE cnt_error(s)
    <2>1. /\ STV_MkObject(s) /\ step[s] = "ERROR" /\ obj[s] = None /\ hoh[s] = None
          /\ nbusyobj' = [nbusyobj EXCEPT ![s] = TRUE]
          /\ stream' = [stream EXCEPT ![s] = FALSE]
          /\ UNCHANGED <<headVars, alive, refcnt, head, busy, hfp, phase, vary, lru,
                         parent, hoh, threadVars>>
      BY <1>0, <1>4 DEF cnt_error, Holds, NoObjSteps
    <2>2. \/ step' = Goto(s, "PREPRESP") /\ UNCHANGED <<req, ret>>
          \/ /\ req[s].restarts < MaxRestarts
             /\ step' = Goto(s, "DROP")
             /\ ret' = [ret EXCEPT ![s] = "RECV"]
             /\ req' = Restarted(s)
      BY <1>4 DEF cnt_error
    <2>3. /\ step' \in [Sessions -> Steps]
          /\ ret' \in [Sessions -> {None, "PREPRESP", "STREAMED", "RECV", "ERROR"}]
          /\ req' \in [Sessions -> Requests]
          /\ req'[s].esi = req[s].esi
          /\ step'[s] \in {"PREPRESP", "DROP"}
          /\ step'[s] = "DROP" => ret'[s] = "RECV"
          /\ \A x \in Sessions \ {s} :
                step'[x] = step[x] /\ ret'[x] = ret[x] /\ req'[x] = req[x]
      <3>1. /\ req[s].restarts < MaxRestarts =>
                  Restarted(s) \in [Sessions -> Requests]
            /\ Restarted(s)[s].esi = req[s].esi
            /\ \A x \in Sessions \ {s} : Restarted(s)[x] = req[x]
        BY <1>0, RestartFacts
      <3> QED BY <1>0, <2>2, <3>1 DEF TypeOK, Goto, Steps
    <2>4. TypeOK'
      BY <1>0, <1>2, <2>1, <2>3 DEF TypeOK
    <2>5. ~stream'[s] /\ \A x \in Sessions \ {s} : stream'[x] = stream[x]
      BY <1>0, <2>1 DEF TypeOK
    <2>6. Holds(s)' /\ ReqOK(s)' /\ Sole(s)'
      BY <1>0, <1>2, <2>1, <2>3, <2>5 DEF Holds, ReqOK, Sole, Fetching, NoObjSteps
    <2>7. \A x \in Sessions \ {s} : Still(x)
      BY <1>2, <2>1, <2>3, <2>5 DEF Still
    <2> QED BY <1>1, <1>2, <2>1, <2>4, <2>6, <2>7
  <1>5. CASE ESI_include(s)
    <2>1. /\ step[s] = "DELIVER" /\ ~req[s].esi /\ hoh[s] = None /\ ~stream[s]
          /\ obj[s] \in OCs \cup {PassObj} /\ parent[s] = None
          /\ parent' = [parent EXCEPT ![s] = obj[s]]
          /\ obj' = [obj EXCEPT ![s] = None]
          /\ req' = [req EXCEPT ![s] = [NoReq EXCEPT !.esi = TRUE]]
          /\ step' = Goto(s, "RECV")
          /\ UNCHANGED <<headVars, ocVars, objcore, hoh, nbusyobj, stream, ret,
                         threadVars>>
      BY <1>0, <1>5 DEF ESI_include, Holds, ReqOK, NoObjSteps, TypeOK
    <2>2. /\ [NoReq EXCEPT !.esi = TRUE] \in Requests
          /\ [NoReq EXCEPT !.esi = TRUE].esi = TRUE
      <3>1. NoReq \in Requests
        BY <1>0 DEF NoReq, Requests
      <3>2. \A r \in Requests : /\ [r EXCEPT !.esi = TRUE] \in Requests
                                /\ [r EXCEPT !.esi = TRUE].esi = TRUE
        BY DEF Requests
      <3> QED BY <3>1, <3>2
    <2>3. TypeOK'
      BY <1>0, <2>1, <2>2 DEF TypeOK, Goto, Steps
    <2>4. /\ step'[s] = "RECV" /\ req'[s].esi = TRUE /\ obj'[s] = None
          /\ parent'[s] = obj[s]
      BY <1>0, <2>1, <2>2 DEF TypeOK, Goto
    <2>5. Holds(s)' /\ ReqOK(s)'
      <3>1. "nostorage" \notin Faults => objcore[s] = None
        BY <1>0, <2>1 DEF Holds
      <3>2. Holds(s)'
        BY <2>1, <2>4, <3>1 DEF Holds, NoObjSteps
      <3>3. ReqOK(s)'
        BY <1>0, <2>1, <2>4 DEF ReqOK
      <3> QED BY <3>2, <3>3
    <2>6. Sole(s)'
      BY <1>0, <2>1, <2>4 DEF Sole, Fetching
    <2>7. \A x \in Sessions \ {s} : Still(x)
      BY <1>0, <2>1 DEF Still, TypeOK, Goto
    <2>8. \A d \in OCs : /\ Cardinality(Holders(d)') <= Cardinality(Holders(d))
                         /\ Cardinality(Holders(d)') = Cardinality(Holders(d))
      <3>1. CASE obj[s] = PassObj
        <4>1. \A d \in OCs : Holders(d)' = Holders(d)
          BY <1>0, <2>1, <3>1 DEF Holders, TypeOK
        <4> QED BY <4>1, HoldersFinite
      <3>2. CASE obj[s] # PassObj
        <4>1. PICK c \in OCs : c = obj[s]
          BY <2>1, <3>2
        <4>2. /\ <<"obj", s>> \in Holders(c) /\ <<"parent", s>> \notin Holders(c)
              /\ Holders(c)' = (Holders(c) \ {<<"obj", s>>}) \cup {<<"parent", s>>}
              /\ \A d \in OCs : d # c => Holders(d)' = Holders(d)
          BY <1>0, <2>1, <4>1 DEF Holders, Tokens, TypeOK
        <4> QED BY <4>2, TokenMoved
      <3> QED BY <3>1, <3>2
    <2> QED BY <1>1, <2>1, <2>3, <2>5, <2>6, <2>7, <2>8
  <1>6. CASE cnt_done(s)
    <2>1. /\ step[s] = "DONE" /\ obj[s] = None /\ hoh[s] = None
          /\ "nostorage" \notin Faults => objcore[s] = None
          /\ req[s].esi <=> parent[s] # None
          /\ stream' = [stream EXCEPT ![s] = FALSE]
          /\ req' = [req EXCEPT ![s] = NoReq]
          /\ UNCHANGED <<headVars, ocVars, hoh, ret, threadVars>>
      BY <1>0, <1>6 DEF cnt_done, Holds, ReqOK, NoObjSteps
    <2>2. NoReq \in Requests /\ NoReq.esi = FALSE
      BY <1>0 DEF NoReq, Requests
    <2>3. CASE req[s].esi
      <3>1. /\ step' = Goto(s, "DELIVER")
            /\ obj' = [obj EXCEPT ![s] = parent[s]]
            /\ parent' = [parent EXCEPT ![s] = None]
            /\ UNCHANGED <<objcore, nbusyobj>>
        BY <1>6, <2>3 DEF cnt_done
      <3>2. TypeOK'
        BY <1>0, <2>1, <2>2, <3>1 DEF TypeOK, Goto, Steps
      <3>3. /\ step'[s] = "DELIVER" /\ req'[s] = NoReq /\ ~stream'[s]
            /\ obj'[s] = parent[s] /\ parent'[s] = None
        BY <1>0, <2>1, <3>1 DEF TypeOK, Goto
      <3>4. Holds(s)' /\ ReqOK(s)' /\ Sole(s)'
        BY <1>0, <2>1, <2>2, <2>3, <3>1, <3>3
           DEF Holds, ReqOK, Sole, Fetching, NoObjSteps
      <3>5. \A x \in Sessions \ {s} : Still(x)
        BY <1>0, <2>1, <3>1 DEF Still, TypeOK, Goto
      <3>6. \A d \in OCs : /\ Cardinality(Holders(d)') <= Cardinality(Holders(d))
                           /\ Cardinality(Holders(d)') = Cardinality(Holders(d))
        <4>1. CASE parent[s] = PassObj
          <5>1. \A d \in OCs : Holders(d)' = Holders(d)
            BY <1>0, <2>1, <3>1, <4>1 DEF Holders, TypeOK
          <5> QED BY <5>1, HoldersFinite
        <4>2. CASE parent[s] # PassObj
          <5>1. PICK c \in OCs : c = parent[s]
            BY <1>0, <2>1, <2>3, <4>2 DEF TypeOK
          <5>2. /\ <<"parent", s>> \in Holders(c) /\ <<"obj", s>> \notin Holders(c)
                /\ Holders(c)' = (Holders(c) \ {<<"parent", s>>}) \cup {<<"obj", s>>}
                /\ \A d \in OCs : d # c => Holders(d)' = Holders(d)
            BY <1>0, <2>1, <3>1, <5>1 DEF Holders, Tokens, TypeOK
          <5> QED BY <5>2, TokenMoved
        <4> QED BY <4>1, <4>2
      <3> QED BY <1>1, <2>1, <3>1, <3>2, <3>4, <3>5, <3>6
    <2>4. CASE ~req[s].esi
      <3>1. /\ step' = Goto(s, "IDLE")
            /\ objcore' = [objcore EXCEPT ![s] = None]
            /\ nbusyobj' = [nbusyobj EXCEPT ![s] = FALSE]
            /\ UNCHANGED <<obj, parent>>
        BY <1>6, <2>4 DEF cnt_done
      <3>2. TypeOK'
        BY <1>0, <2>1, <2>2, <3>1 DEF TypeOK, Goto, Steps
      <3>3. /\ step'[s] = "IDLE" /\ req'[s] = NoReq /\ ~stream'[s]
            /\ objcore'[s] = None
        BY <1>0, <2>1, <3>1 DEF TypeOK, Goto
      <3>4. Holds(s)' /\ ReqOK(s)' /\ Sole(s)'
        BY <1>0, <2>1, <2>2, <2>4, <3>1, <3>3
           DEF Holds, ReqOK, Sole, Fetching, NoObjSteps
      <3>5. \A x \in Sessions \ {s} : Still(x)
        BY <1>0, <2>1, <3>1 DEF Still, TypeOK, Goto
      <3>6. \A d \in OCs :
               /\ Cardinality(Holders(d)') <= Cardinality(Holders(d))
               /\ "nostorage" \notin Faults =>
                     Cardinality(Holders(d)') = Cardinality(Holders(d))
        <4>1. \A d \in OCs : Holders(d)' \subseteq Holders(d)
          BY <1>0, <2>1, <3>1 DEF Holders, TypeOK
        <4>2. "nostorage" \notin Faults => \A d \in OCs : Holders(d)' = Holders(d)
          BY <1>0, <2>1, <3>1 DEF Holders, TypeOK
        <4> QED BY <4>1, <4>2, HoldersFinite, CountChange
      <3> QED BY <1>1, <2>1, <3>1, <3>2, <3>4, <3>5, <3>6
    <2> QED BY <2>3, <2>4
  <1> QED BY <1>3, <1>4, <1>5, <1>6

\* One objhead gets one more holder, or loses one, and its count follows.
LEMMA HeadCounts ==
    ASSUME IInv, NEW h \in Heads, NEW k,
           \/ /\ k \notin HeadHolders(h) /\ HeadHolders(h)' = HeadHolders(h) \cup {k}
              /\ ohref' = [ohref EXCEPT ![h] = @ + 1]
           \/ /\ k \in HeadHolders(h) /\ HeadHolders(h)' = HeadHolders(h) \ {k}
              /\ ohref' = [ohref EXCEPT ![h] = @ - 1],
           \A g \in Heads : g # h => HeadHolders(g)' = HeadHolders(g)
    PROVE  /\ ohref' \in [Heads -> Nat]
           /\ \A g \in Heads : Cardinality(HeadHolders(g)') <= ohref'[g]
  <1>0. /\ ohref \in [Heads -> Nat]
        /\ \A g \in Heads : Cardinality(HeadHolders(g)) <= ohref[g]
    BY DEF IInv, TypeOK, RefInv, RefcntCovers
  <1>1. /\ Cardinality(HeadHolders(h)) \in Nat
        /\ k \notin HeadHolders(h) /\ HeadHolders(h)' = HeadHolders(h) \cup {k} =>
              Cardinality(HeadHolders(h)') = Cardinality(HeadHolders(h)) + 1
        /\ k \in HeadHolders(h) /\ HeadHolders(h)' = HeadHolders(h) \ {k} =>
              /\ Cardinality(HeadHolders(h)') = Cardinality(HeadHolders(h)) - 1
              /\ Cardinality(HeadHolders(h)) >= 1
    BY HoldersFinite, CountChange
  <1>2. ohref[h] \in Nat /\ Cardinality(HeadHolders(h)) <= ohref[h]
    BY <1>0
  <1>3. ohref' \in [Heads -> Nat] /\ Cardinality(HeadHolders(h)') <= ohref'[h]
    BY <1>0, <1>1, <1>2
  <1>4. ASSUME NEW g \in Heads
        PROVE  Cardinality(HeadHolders(g)') <= ohref'[g]
    <2>1. CASE g = h
      BY <1>3, <2>1
    <2>2. CASE g # h
      BY <1>0, <2>2
    <2> QED BY <2>1, <2>2
  <1> QED BY <1>3, <1>4

\* The steps of a lookup that take, keep or give back the objhead.
LEMMA LookupSteps ==
    ASSUME IInv, NEW s \in Sessions,
           hash_lookup(s) \/ LookupWait(s) \/ LookupHitTail(s)
    PROVE  IInv'
  <1> USE DEF At, headVars, ocVars, threadVars
  <1>0. /\ TypeOK /\ WaitInv /\ Holds(s) /\ ReqOK(s) /\ Sole(s)
        /\ None \notin Heads
    BY ConstantsAreDistinct DEF IInv, SessInv, SoleInv
  <1>1. ASSUME TypeOK', WaitInv', \A x \in Sessions \ {s} : Still(x),
               UNCHANGED <<objcs, alive, refcnt, head, busy, lru>>,
               UNCHANGED <<objcore, obj, parent, stream, taken, dying, purging>>,
               Holds(s)', ReqOK(s)', ~Fetching(s)',
               \A h \in Heads : Cardinality(HeadHolders(h)') <= ohref'[h]
        PROVE  IInv'
    <2>1. \A d \in OCs : Holders(d)' = Holders(d)
      BY <1>1 DEF Holders
    <2>2. \A d \in OCs : /\ Cardinality(Holders(d)') <= Cardinality(Holders(d))
                         /\ Cardinality(Holders(d)') = Cardinality(Holders(d))
      BY <2>1, HoldersFinite
    <2>3. RefInv' /\ ListInv' /\ DyingInv'
      BY <1>1, <2>2, CountsKept
    <2>4. SolesKept
      BY <1>1 DEF SolesKept
    <2>5. Sole(s)'
      BY <1>0, <1>1 DEF Sole
    <2> QED BY <1>1, <2>3, <2>4, <2>5, OwnStep
  <1>2. CASE hash_lookup(s)
    <2>1. /\ step[s] = "LOOKUP" /\ hoh[s] = None /\ req[s].head \in Heads
          /\ hoh' = [hoh EXCEPT ![s] = req[s].head]
          /\ ohref' = [ohref EXCEPT ![req[s].head] = @ + 1]
          /\ UNCHANGED <<objcs, waiters, ocVars, step, req, objcore, obj, parent,
                         nbusyobj, stream, ret, threadVars>>
      BY <1>0, <1>2 DEF hash_lookup, ReqOK
    <2>2. PICK h \in Heads : h = req[s].head
      BY <2>1
    <2>3. /\ <<"sess", s>> \notin HeadHolders(h)
          /\ HeadHolders(h)' = HeadHolders(h) \cup {<<"sess", s>>}
          /\ \A g \in Heads : g # h => HeadHolders(g)' = HeadHolders(g)
      BY <1>0, <2>1, <2>2 DEF HeadHolders, HeadTokens, TypeOK
    <2>4. /\ ohref' \in [Heads -> Nat]
          /\ \A g \in Heads : Cardinality(HeadHolders(g)') <= ohref'[g]
      BY <2>1, <2>2, <2>3, HeadCounts
    <2>5. TypeOK'
      BY <1>0, <2>1, <2>4 DEF TypeOK
    <2>6. Holds(s)' /\ ReqOK(s)' /\ ~Fetching(s)'
      BY <1>0, <2>1 DEF Holds, ReqOK, Fetching, TypeOK
    <2>7. \A x \in Sessions \ {s} : Still(x)
      BY <1>0, <2>1 DEF Still, TypeOK
    <2>8. WaitInv'
      BY <2>1, <2>7, WaitKept DEF Still
    <2> QED BY <1>1, <2>1, <2>4, <2>5, <2>6, <2>7, <2>8
  <1>3. CASE LookupHitTail(s)
    <2> DEFINE stp == IF obj[s] \in hfp THEN "HITPASS" ELSE "HIT"
    <2>1. /\ step[s] = "HITREF" /\ hoh[s] \in Heads
          /\ hoh' = [hoh EXCEPT ![s] = None]
          /\ ohref' = [ohref EXCEPT ![hoh[s]] = @ - 1]
          /\ step' = Goto(s, stp)
          /\ UNCHANGED <<objcs, waiters, ocVars, req, objcore, obj, parent,
                         nbusyobj, stream, ret, threadVars>>
      BY <1>0, <1>3 DEF LookupHitTail, Holds, TypeOK
    <2>2. PICK h \in Heads : h = hoh[s]
      BY <2>1
    <2>3. /\ <<"sess", s>> \in HeadHolders(h)
          /\ HeadHolders(h)' = HeadHolders(h) \ {<<"sess", s>>}
          /\ \A g \in Heads : g # h => HeadHolders(g)' = HeadHolders(g)
      BY <1>0, <2>1, <2>2 DEF HeadHolders, HeadTokens, TypeOK
    <2>4. /\ ohref' \in [Heads -> Nat]
          /\ \A g \in Heads : Cardinality(HeadHolders(g)') <= ohref'[g]
      BY <2>1, <2>2, <2>3, HeadCounts
    <2>5. TypeOK'
      BY <1>0, <2>1, <2>4 DEF TypeOK, Goto, Steps
    <2>6. Holds(s)' /\ ReqOK(s)' /\ ~Fetching(s)'
      BY <1>0, <2>1 DEF Holds, ReqOK, Fetching, TypeOK, Goto, NoObjSteps
    <2>7. \A x \in Sessions \ {s} : Still(x)
      BY <1>0, <2>1 DEF Still, TypeOK, Goto
    <2>8. WaitInv'
      BY <2>1, <2>7, WaitKept DEF Still
    <2> QED BY <1>1, <2>1, <2>4, <2>5, <2>6, <2>7, <2>8
  <1>4. CASE LookupWait(s)
    <2>1. /\ step[s] = "LOOKUP" /\ hoh[s] \in Heads
          /\ nbusyobj' = [nbusyobj EXCEPT ![s] = FALSE]
          /\ UNCHANGED <<objcs, ohref, ocVars, req, objcore, obj, parent, hoh,
                         stream, ret, threadVars>>
      BY <1>0, <1>4 DEF LookupWait, TypeOK
    <2>2. \A g \in Heads : Cardinality(HeadHolders(g)') <= ohref'[g]
      BY <2>1, HeadsKept
    <2>3. CASE req[s].esi
      <3>1. UNCHANGED <<waiters, step>>
        BY <1>4, <2>3 DEF LookupWait
      <3>2. TypeOK'
        BY <1>0, <2>1, <3>1 DEF TypeOK
      <3>3. Holds(s)' /\ ReqOK(s)' /\ ~Fetching(s)'
        BY <1>0, <2>1, <3>1 DEF Holds, ReqOK, Fetching
      <3>4. \A x \in Sessions \ {s} : Still(x)
        BY <2>1, <3>1 DEF Still
      <3>5. WaitInv'
        BY <2>1, <3>1, WaitKept
      <3> QED BY <1>1, <2>1, <2>2, <3>2, <3>3, <3>4, <3>5
    <2>4. CASE ~req[s].esi
      <3> DEFINE h == hoh[s]
                 q == waiters[h]
      <3>1. /\ waiters' = [waiters EXCEPT ![h] = Append(q, s)]
            /\ step' = Goto(s, "WAITING")
        BY <1>4, <2>4 DEF LookupWait
      <3>2. TypeOK'
        BY <1>0, <2>1, <3>1 DEF TypeOK, Goto, Steps
      <3>3. step'[s] = "WAITING" /\ \A x \in Sessions \ {s} : step'[x] = step[x]
        BY <1>0, <3>1 DEF TypeOK, Goto
      <3>4. Holds(s)' /\ ReqOK(s)' /\ ~Fetching(s)'
        BY <1>0, <2>1, <2>4, <3>3 DEF Holds, ReqOK, Fetching, NoObjSteps
      <3>5. \A x \in Sessions \ {s} : Still(x)
        BY <2>1, <3>3 DEF Still
      <3>6. /\ q \in Seq(Sessions) /\ Len(q) \in Nat /\ DOMAIN q = 1..Len(q)
            /\ \A g \in Heads : \A i \in DOMAIN waiters[g] :
                  waiters[g][i] \in Sessions /\ waiters[g][i] # s
        BY <1>0, <2>1 DEF TypeOK, WaitInv
      <3>7. /\ waiters'[h] = Append(q, s)
            /\ \A g \in Heads : g # h => waiters'[g] = waiters[g]
            /\ DOMAIN Append(q, s) = 1..(Len(q) + 1)
            /\ Append(q, s)[Len(q) + 1] = s
            /\ \A i \in 1..Len(q) : Append(q, s)[i] = q[i]
        BY <1>0, <2>1, <3>1, <3>6 DEF TypeOK
      <3>8. ASSUME NEW g \in Heads, NEW i \in DOMAIN waiters'[g]
            PROVE  /\ step'[waiters'[g][i]] = "WAITING" /\ hoh'[waiters'[g][i]] = g
                   /\ \A j \in DOMAIN waiters'[g] :
                         waiters'[g][i] = waiters'[g][j] => i = j
        <4>1. CASE g # h
          BY <1>0, <2>1, <3>3, <3>6, <3>7, <3>8, <4>1 DEF WaitInv
        <4>2. CASE g = h
          <5>1. i \in 1..(Len(q) + 1) /\ i \in Nat
            BY <3>6, <3>7, <3>8, <4>2
          <5>2. CASE i = Len(q) + 1
            BY <2>1, <3>3, <3>6, <3>7, <4>2, <5>2
          <5>3. CASE i \in 1..Len(q)
            <6>1. step[q[i]] = "WAITING" /\ hoh[q[i]] = h /\ q[i] \in Sessions \ {s}
              BY <1>0, <2>1, <3>6, <5>3 DEF WaitInv
            <6>2. \A j \in 1..Len(q) : q[i] = q[j] => i = j
              BY <1>0, <2>1, <3>6, <5>3 DEF WaitInv
            <6>3. \A j \in 1..(Len(q) + 1) : j \in 1..Len(q) \/ j = Len(q) + 1
              BY <3>6
            <6>4. waiters'[g][i] = q[i]
              BY <3>7, <4>2, <5>3
            <6>5. ASSUME NEW j \in DOMAIN waiters'[g],
                         waiters'[g][i] = waiters'[g][j]
                  PROVE  i = j
              <7>1. CASE j = Len(q) + 1
                BY <3>7, <4>2, <6>1, <6>4, <6>5, <7>1
              <7>2. CASE j \in 1..Len(q)
                BY <3>7, <4>2, <6>2, <6>4, <6>5, <7>2
              <7> QED BY <3>7, <4>2, <6>3, <7>1, <7>2
            <6> QED BY <2>1, <3>3, <4>2, <6>1, <6>4, <6>5
          <5> QED BY <3>6, <5>1, <5>2, <5>3
        <4> QED BY <4>1, <4>2
      <3>9. WaitInv'
        BY <3>8 DEF WaitInv
      <3> QED BY <1>1, <2>1, <2>2, <3>2, <3>4, <3>5, <3>9
    <2> QED BY <2>3, <2>4
  <1> QED BY <1>2, <1>3, <1>4

\* A lookup that finds nothing makes a new busy objcore.
LEMMA MissStep ==
    ASSUME IInv, NEW s \in Sessions, LookupMiss(s)
    PROVE  IInv'
  <1> USE DEF At, headVars, ocVars, threadVars
  <1>0. /\ TypeOK /\ RefInv /\ ListInv /\ DyingInv /\ Holds(s) /\ ReqOK(s) /\ Sole(s)
        /\ refcnt \in [OCs -> Nat] /\ None \notin OCs /\ None \notin Heads
        /\ s \in Threads
    BY ConstantsAreDistinct DEF IInv, SessInv, SoleInv, TypeOK, Threads
  <1>1. PICK h \in Heads : h = hoh[s]
    BY <1>0 DEF LookupMiss, TypeOK
  <1>2. PICK c \in OCs \ alive :
           /\ alive' = alive \cup {c}
           /\ busy' = busy \cup {c}
           /\ refcnt' = [refcnt EXCEPT ![c] = 1]
           /\ head' = [head EXCEPT ![c] = h]
           /\ vary' = [vary EXCEPT ![c] = IF VaryCompared(s, objcs[h])
                                          THEN req[s].variant ELSE NoVary]
           /\ objcs' = [objcs EXCEPT ![h] = Append(@, c)]
           /\ objcore' = [objcore EXCEPT ![s] = c]
    BY <1>1 DEF LookupMiss
  <1>3. /\ step[s] = "LOOKUP" /\ req[s].variant \in Variants
        /\ hoh' = [hoh EXCEPT ![s] = None]
        /\ nbusyobj' = [nbusyobj EXCEPT ![s] = FALSE]
        /\ step' = Goto(s, "MISS")
        /\ UNCHANGED <<ohref, waiters, hfp, hasobj, phase, lru, req, obj, parent,
                       stream, ret, taken, dying, purging>>
    BY <1>0 DEF LookupMiss, ReqOK
  <1>4. refcnt[c] = 0 /\ Holders(c) = {}
    <2>1. refcnt[c] = 0
      BY <1>0, <1>2 DEF RefInv, RefcntCovers
    <2> QED BY <1>2, <2>1, HeldFacts
  <1> DEFINE q == objcs[h]
             r == Append(q, c)
  <1>5. /\ r \in Seq(OCs)
        /\ \A i \in DOMAIN r : r[i] = c \/ \E j \in DOMAIN q : r[i] = q[j]
        /\ \A j \in DOMAIN q : \E i \in DOMAIN r : r[i] = q[j]
        /\ \E i \in DOMAIN r : r[i] = c
        /\ \A i, j \in DOMAIN r : r[i] = r[j] => i = j
    <2>1. /\ q \in Seq(OCs) /\ \A i, j \in DOMAIN q : q[i] = q[j] => i = j
          /\ \A i \in DOMAIN q : q[i] # c
      BY <1>0, <1>2 DEF ListInv, TypeOK
    <2> HIDE DEF q
    <2> QED BY <2>1, AppendFacts
  <1> HIDE DEF r
  <1>6. /\ objcs' \in [Heads -> Seq(OCs)] /\ objcs'[h] = r
        /\ \A g \in Heads : g # h => objcs'[g] = objcs[g]
    BY <1>0, <1>2, <1>5 DEF TypeOK, r
  <1>7. TypeOK'
    BY <1>0, <1>2, <1>3, <1>6 DEF TypeOK, Goto, Steps
  <1>8. /\ refcnt'[c] = 1 /\ head'[c] = h
        /\ \A d \in OCs : d # c => refcnt'[d] = refcnt[d] /\ head'[d] = head[d]
    BY <1>0, <1>2 DEF TypeOK
  <1>9. ListInv'
    <2>1. ASSUME NEW g \in Heads, NEW a \in DOMAIN objcs'[g]
          PROVE  /\ objcs'[g][a] \in alive' /\ head'[objcs'[g][a]] = g
                 /\ refcnt'[objcs'[g][a]] > 0
      <3>1. \/ g = h /\ objcs'[g][a] = c
            \/ \E j \in DOMAIN objcs[g] : objcs'[g][a] = objcs[g][j]
        BY <1>5, <1>6, <2>1
      <3>2. CASE g = h /\ objcs'[g][a] = c
        BY <1>2, <1>8, <3>2
      <3>3. ASSUME NEW j \in DOMAIN objcs[g], objcs'[g][a] = objcs[g][j]
            PROVE  /\ objcs'[g][a] \in alive' /\ head'[objcs'[g][a]] = g
                   /\ refcnt'[objcs'[g][a]] > 0
        <4>1. /\ objcs[g][j] \in alive /\ head[objcs[g][j]] = g
              /\ refcnt[objcs[g][j]] > 0 /\ objcs[g][j] \in OCs
          BY <1>0 DEF ListInv, TypeOK
        <4> QED BY <1>2, <1>8, <3>3, <4>1
      <3> QED BY <3>1, <3>2, <3>3
    <2>2. ASSUME NEW g \in Heads, NEW a \in DOMAIN objcs'[g],
                 NEW b \in DOMAIN objcs'[g], objcs'[g][a] = objcs'[g][b]
          PROVE  a = b
      <3>1. CASE g = h
        BY <1>5, <1>6, <2>2, <3>1
      <3>2. CASE g # h
        BY <1>0, <1>6, <2>2, <3>2 DEF ListInv
      <3> QED BY <3>1, <3>2
    <2>3. ASSUME NEW d \in alive', refcnt'[d] > 0
          PROVE  \E a \in DOMAIN objcs'[head'[d]] : objcs'[head'[d]][a] = d
      <3>1. CASE d = c
        BY <1>5, <1>6, <1>8, <3>1
      <3>2. CASE d # c
        <4>1. d \in alive /\ d \in OCs /\ refcnt[d] > 0 /\ head'[d] = head[d]
          BY <1>0, <1>2, <1>8, <2>3, <3>2 DEF TypeOK
        <4>2. head[d] \in Heads
          BY <1>0, <4>1 DEF RefInv, RefcntCovers
        <4>3. PICK j \in DOMAIN objcs[head[d]] : objcs[head[d]][j] = d
          BY <1>0, <4>1 DEF ListInv
        <4>4. CASE head[d] = h
          <5>1. \E a \in DOMAIN r : r[a] = d
            BY <1>5, <4>3, <4>4
          <5> QED BY <1>6, <4>1, <4>4, <5>1
        <4>5. CASE head[d] # h
          BY <1>6, <4>1, <4>2, <4>3, <4>5
        <4> QED BY <4>4, <4>5
      <3> QED BY <3>1, <3>2
    <2> QED BY <2>1, <2>2, <2>3 DEF ListInv
  <1>10. DyingInv'
    BY <1>0, <1>2, <1>3, <1>8 DEF DyingInv, TypeOK
  <1>11. RefInv'
    <2>1. Holders(c)' = Holders(c) \cup {<<"objcore", s>>}
      BY <1>0, <1>2, <1>3 DEF Holders, Tokens, TypeOK
    <2>2. \A d \in OCs : d # c =>
             /\ Holders(d)' \subseteq Holders(d)
             /\ "nostorage" \notin Faults => Holders(d)' = Holders(d)
      <3>1. "nostorage" \notin Faults => objcore[s] = None
        BY <1>0, <1>3 DEF Holds
      <3> QED BY <1>0, <1>2, <1>3, <3>1 DEF Holders, Tokens, TypeOK
    <2>3. Cardinality(Holders(c)') = 1
      <3>1. Cardinality(Holders(c)) = 0
        BY <1>4, FS_EmptySet
      <3>2. Cardinality(Holders(c)') = Cardinality(Holders(c)) + 1
        BY <1>4, <2>1, HoldersFinite, CountChange
      <3> QED BY <3>1, <3>2
    <2>4. ASSUME NEW d \in OCs
          PROVE  /\ Cardinality(Holders(d)') <= refcnt'[d]
                 /\ "nostorage" \notin Faults => refcnt'[d] = Cardinality(Holders(d)')
      <3>1. CASE d = c
        BY <1>8, <2>3, <3>1
      <3>2. CASE d # c
        <4>1. /\ Cardinality(Holders(d)') <= Cardinality(Holders(d))
              /\ Cardinality(Holders(d)') \in Nat /\ Cardinality(Holders(d)) \in Nat
          BY <2>2, <3>2, HoldersFinite, CountChange
        <4>2. /\ Cardinality(Holders(d)) <= refcnt[d] /\ refcnt[d] \in Nat
              /\ "nostorage" \notin Faults => refcnt[d] = Cardinality(Holders(d))
          BY <1>0 DEF RefInv, RefcntCovers, RefcntExact
        <4> QED BY <1>8, <2>2, <3>2, <4>1, <4>2
      <3> QED BY <3>1, <3>2
    <2>5. ASSUME NEW g \in Heads
          PROVE  Cardinality(HeadHolders(g)') <= ohref[g]
      <3>0. Cardinality(HeadHolders(g)) <= ohref[g] /\ ohref[g] \in Nat
        BY <1>0 DEF RefInv, RefcntCovers, TypeOK
      <3>1. CASE g = h
        <4>1. /\ <<"sess", s>> \in HeadHolders(g) /\ <<"oc", c>> \notin HeadHolders(g)
              /\ HeadHolders(g)' =
                    (HeadHolders(g) \ {<<"sess", s>>}) \cup {<<"oc", c>>}
          BY <1>0, <1>1, <1>2, <1>3, <3>1 DEF HeadHolders, HeadTokens, TypeOK
        <4>2. Cardinality(HeadHolders(g)') = Cardinality(HeadHolders(g))
          BY <4>1, HoldersFinite, CountChange
        <4> QED BY <3>0, <4>2
      <3>2. CASE g # h
        <4>1. HeadHolders(g)' = HeadHolders(g)
          BY <1>0, <1>1, <1>2, <1>3, <3>2 DEF HeadHolders, HeadTokens, TypeOK
        <4> QED BY <3>0, <4>1
      <3> QED BY <3>1, <3>2
    <2>6. /\ \A d \in OCs \ alive' : refcnt'[d] = 0
          /\ \A d \in alive' : head'[d] \in Heads
      BY <1>0, <1>2, <1>8 DEF RefInv, RefcntCovers, TypeOK
    <2>7. RefcntCovers'
      BY <1>3, <2>4, <2>5, <2>6 DEF RefcntCovers
    <2>8. "nostorage" \notin Faults => RefcntExact'
      BY <2>4 DEF RefcntExact
    <2> QED BY <2>7, <2>8 DEF RefInv
  <1>12. \A x \in Sessions \ {s} : Still(x)
    BY <1>0, <1>2, <1>3 DEF Still, TypeOK, Goto
  <1>13. WaitInv'
    BY <1>3, <1>12, WaitKept DEF Still
  <1>14. SolesKept
    BY <1>2, <1>4, <1>8 DEF SolesKept
  <1>15. step'[s] = "MISS" /\ hoh'[s] = None /\ objcore'[s] = c
    BY <1>0, <1>2, <1>3 DEF TypeOK, Goto
  <1>16. Holds(s)' /\ ReqOK(s)'
    BY <1>0, <1>3, <1>15 DEF Holds, ReqOK, NoObjSteps
  <1>17. Sole(s)'
    BY <1>2, <1>8, <1>15 DEF Sole, Fetching
  <1> QED BY <1>7, <1>9, <1>10, <1>11, <1>12, <1>13, <1>14, <1>16, <1>17, OwnStep

\* HSH_Deref frees an objcore whose count it took to zero.
LEMMA FreeStep ==
    ASSUME IInv, NEW t \in Threads, DerefTail(t)
    PROVE  IInv'
  <1>0. /\ TypeOK /\ RefInv /\ ListInv /\ DyingInv
        /\ refcnt \in [OCs -> Nat] /\ None \notin OCs /\ None \notin Heads
    BY ConstantsAreDistinct DEF IInv, TypeOK
  <1>1. PICK c \in OCs : c = dying[t]
    BY <1>0 DEF DerefTail, TypeOK
  <1>2. c \in alive /\ refcnt[c] = 0 /\ head[c] \in Heads
    BY <1>0, <1>1 DEF DyingInv, RefInv, RefcntCovers
  <1>3. PICK h \in Heads : h = head[c]
    BY <1>2
  <1>4. /\ dying' = [dying EXCEPT ![t] = None]
        /\ alive' = alive \ {c} /\ busy' = busy \ {c}
        /\ hfp' = hfp \ {c} /\ hasobj' = hasobj \ {c}
        /\ phase' = [phase EXCEPT ![c] = "dead"]
        /\ vary' = [vary EXCEPT ![c] = NoVary]
        /\ head' = [head EXCEPT ![c] = None]
        /\ ohref' = [ohref EXCEPT ![h] = @ - 1]
        /\ nbusyobj' = IF c \in busy /\ t \in Sessions
                       THEN [nbusyobj EXCEPT ![t] = TRUE] ELSE nbusyobj
        /\ UNCHANGED <<objcs, waiters, refcnt, lru, step, req, objcore, obj, parent,
                       hoh, stream, ret, taken, purging>>
    BY <1>1, <1>3 DEF DerefTail
  <1>5. /\ <<"oc", c>> \in HeadHolders(h)
        /\ HeadHolders(h)' = HeadHolders(h) \ {<<"oc", c>>}
        /\ \A g \in Heads : g # h => HeadHolders(g)' = HeadHolders(g)
    BY <1>0, <1>2, <1>3, <1>4 DEF HeadHolders, HeadTokens, TypeOK
  <1>6. /\ ohref' \in [Heads -> Nat]
        /\ \A g \in Heads : Cardinality(HeadHolders(g)') <= ohref'[g]
    BY <1>4, <1>5, HeadCounts
  <1>7. TypeOK'
    BY <1>0, <1>4, <1>6 DEF TypeOK
  <1>8. \A d \in OCs : Holders(d)' = Holders(d)
    BY <1>4 DEF Holders
  <1>9. \A d \in OCs : d # c => head'[d] = head[d]
    BY <1>0, <1>4 DEF TypeOK
  <1>10. RefInv'
    <2>1. \A d \in OCs \ alive' : refcnt[d] = 0
      BY <1>0, <1>2, <1>4 DEF RefInv, RefcntCovers
    <2>2. \A d \in alive' : head'[d] \in Heads
      BY <1>0, <1>4, <1>9 DEF RefInv, RefcntCovers, TypeOK
    <2>3. RefcntCovers'
      BY <1>0, <1>4, <1>6, <1>8, <2>1, <2>2 DEF RefInv, RefcntCovers
    <2> QED BY <1>0, <1>4, <1>8, <2>3 DEF RefInv, RefcntExact
  <1>11. ListInv'
    <2>1. \A g \in Heads : \A i \in DOMAIN objcs[g] :
             objcs[g][i] \in OCs /\ objcs[g][i] # c
      BY <1>0, <1>2 DEF ListInv, TypeOK
    <2>2. alive' \subseteq OCs
      BY <1>7 DEF TypeOK
    <2> QED BY <1>0, <1>4, <1>9, <2>1, <2>2 DEF ListInv
  <1>12. DyingInv'
    BY <1>0, <1>1, <1>4 DEF DyingInv, TypeOK
  <1>13. SolesKept
    BY <1>2, <1>4 DEF SolesKept
  <1> QED BY <1>4, <1>7, <1>10, <1>11, <1>12, <1>13, ThreadStep

-----------------------------------------------------------------------------
(***************************************************************************)
(* The theorems.                                                           *)
(***************************************************************************)

\* An empty cache with idle sessions satisfies the inductive invariant.
LEMMA InitIInv ==
    ASSUME Init
    PROVE  IInv
  <1>0. MaxRestarts \in Nat /\ None \notin OCs \cup Heads
    BY ParamsAreSane, ConstantsAreDistinct
  <1>1. TypeOK
    <2>1. NoReq \in Requests
      BY <1>0 DEF NoReq, Requests
    <2> QED BY <2>1 DEF Init, TypeOK, Steps
  <1>2. \A c \in OCs : Holders(c) = {}
    BY <1>0 DEF Init, Holders, Tokens, Threads
  <1>3. \A h \in Heads : HeadHolders(h) = {}
    BY <1>0 DEF Init, HeadHolders, HeadTokens
  <1>4. RefInv
    <2>1. Cardinality({}) = 0
      BY FS_EmptySet
    <2>2. \A c \in OCs : refcnt[c] = 0 /\ Cardinality(Holders(c)) = 0
      BY <1>2, <2>1 DEF Init
    <2>3. \A h \in Heads : ohref[h] = 0 /\ Cardinality(HeadHolders(h)) = 0
      BY <1>3, <2>1 DEF Init
    <2> QED BY <2>2, <2>3 DEF Init, RefInv, RefcntCovers, RefcntExact
  <1>5. ListInv /\ DyingInv /\ WaitInv
    BY DEF Init, ListInv, DyingInv, WaitInv
  <1>6. SessInv
    <2>1. NoReq.esi = FALSE
      BY DEF NoReq
    <2> QED BY <2>1 DEF Init, SessInv, Holds, ReqOK, NoObjSteps
  <1>7. SoleInv
    BY DEF Init, SoleInv, Sole, Fetching
  <1> QED BY <1>1, <1>4, <1>5, <1>6, <1>7 DEF IInv

\* Every step keeps it, one family of actions at a time.
LEMMA NextIInv ==
    ASSUME IInv, [Next]_vars
    PROVE  IInv'
  <1>1. ASSUME NEW s \in Sessions, SessStep(s)
        PROVE  IInv'
    <2>0. s \in Threads
      BY DEF Threads
    <2>1. CASE \/ cnt_recv(s) \/ cnt_pipe(s) \/ cnt_pass(s)
               \/ cnt_fetch_deliver(s) \/ cnt_fetchbody_error(s)
               \/ FetchBody_fail(s) \/ cnt_error_nostorage(s)
      BY <2>1, ProgressSteps
    <2>2. CASE hash_lookup(s) \/ LookupWait(s) \/ LookupHitTail(s)
      BY <2>2, LookupSteps
    <2>3. CASE LookupHit(s) \/ FetchBody_ok(s)
      BY <2>3, ReferencingSteps
    <2>4. CASE LookupMiss(s)
      BY <2>4, MissStep
    <2>5. CASE \/ cnt_hit(s) \/ cnt_lookup_hitpass(s) \/ cnt_miss(s)
               \/ cnt_fetch_cleanup(s) \/ cnt_prepresp(s) \/ cnt_deliver(s)
               \/ HSH_Drop_Deref(s)
      BY <2>5, DroppingSteps
    <2>6. CASE Unbusy(s) \/ HSH_Drop(s)
      BY <2>6, UnbusyingSteps
    <2>7. CASE cnt_fetchbody(s) \/ cnt_error(s) \/ cnt_done(s)
      BY <2>7, HandingSteps
    <2>8. CASE HSH_Purge_one(s) \/ TakenDeref(s)
      BY <2>0, <2>8, ReleaseSteps
    <2>9. CASE DerefTail(s)
      BY <2>0, <2>9, FreeStep
    <2> QED BY <1>1, <2>1, <2>2, <2>3, <2>4, <2>5, <2>6, <2>7, <2>8, <2>9
            DEF SessStep
  <1>2. ASSUME NEW s \in Sessions, SessChoice(s)
        PROVE  IInv'
    <2>1. CASE cnt_start(s) \/ SetObjTtl(s)
      BY <2>1, ProgressSteps
    <2>2. CASE HSH_Purge(s)
      BY <2>2, ReferencingSteps
    <2>3. CASE EXP_NukeOne(s)
      BY <2>3, CacheSteps
    <2>4. CASE ESI_include(s)
      BY <2>4, HandingSteps
    <2> QED BY <1>2, <2>1, <2>2, <2>3, <2>4 DEF SessChoice
  <1>3. CASE TimerStep
    <2>0. Timer \in Threads
      BY DEF Threads
    <2>1. CASE \E c \in OCs : exp_timer(c)
      BY <2>1, CacheSteps
    <2>2. CASE TakenDeref(Timer)
      BY <2>0, <2>2, ReleaseSteps
    <2>3. CASE DerefTail(Timer)
      BY <2>0, <2>3, FreeStep
    <2> QED BY <1>3, <2>1, <2>2, <2>3 DEF TimerStep
  <1>4. CASE \E c \in OCs : Age(c)
    BY <1>4, CacheSteps
  <1>5. CASE UNCHANGED vars
    <2> USE <1>5 DEF vars, headVars, ocVars, sessVars, threadVars
    <2>1. TypeOK' /\ ListInv' /\ DyingInv'
      BY DEF IInv, TypeOK, ListInv, DyingInv
    <2>2. (\A c \in OCs : Holders(c)' = Holders(c))
          /\ (\A h \in Heads : HeadHolders(h)' = HeadHolders(h))
      BY DEF Holders, HeadHolders
    <2>3. RefInv'
      BY <2>2 DEF IInv, RefInv, RefcntCovers, RefcntExact
    <2>4. SolesKept
      BY DEF SolesKept
    <2> QED BY <2>1, <2>3, <2>4, ThreadStep
  <1> QED BY <1>1, <1>2, <1>3, <1>4, <1>5 DEF Next

\* The inductive invariant holds in every reachable state.
THEOREM IInvAlways == Spec => []IInv
  <1>1. Init => IInv
    BY InitIInv
  <1>2. IInv /\ [Next]_vars => IInv'
    BY NextIInv
  <1> QED BY <1>1, <1>2, PTL DEF Spec

\* The state is always well typed: no count of cache_hash.c goes below zero, no
\* request is restarted more often than max_restarts.
THEOREM TypeCorrect == Spec => []TypeOK
  <1>1. IInv => TypeOK
    BY DEF IInv
  <1> QED BY <1>1, IInvAlways, PTL

\* No use after free: whatever VCL decides and whatever fails, HSH_Deref never
\* takes a count below the number of pointers that own a reference, so neither
\* an objcore nor an objhead is freed under a session, the LRU list, a purge or
\* the expiry thread.
THEOREM NoUseAfterFree == Spec => []RefcntCovers
  <1>1. IInv => RefcntCovers
    BY DEF IInv, RefInv
  <1> QED BY <1>1, IInvAlways, PTL

\* No leak either: as long as STV_NewObject finds storage, every reference on an
\* objcore belongs to something that will release it.
THEOREM NoLeak ==
    ASSUME "nostorage" \notin Faults
    PROVE  Spec => []RefcntExact
  <1>1. IInv => RefcntExact
    BY DEF IInv, RefInv
  <1> QED BY <1>1, IInvAlways, PTL

\* No step takes a reference on an objcore whose count is zero: the new holder
\* found it on a list, held it already, or allocated it.
LEMMA ZeroStep ==
    ASSUME IInv, [Next]_vars, NEW c \in alive, refcnt[c] = 0
    PROVE  refcnt'[c] = 0
  <1> USE DEF headVars, ocVars, sessVars, threadVars, At
  <1>0. /\ TypeOK /\ ListInv /\ refcnt \in [OCs -> Nat] /\ c \in OCs
        /\ None \notin OCs /\ PassObj \notin OCs
    BY ConstantsAreDistinct DEF IInv, TypeOK
  <1>1. ASSUME NEW t, NEW d \in OCs, NEW k \in Holders(d), NEW stp, NEW rq,
               HSH_Deref(t, d, stp, rq)
        PROVE  refcnt'[c] = 0
    <2>1. d # c
      BY <1>1, HeldFacts
    <2> QED BY <1>0, <2>1, <1>1 DEF HSH_Deref
  <1>2. ASSUME NEW s \in Sessions, NEW stp, NEW rq, DerefObj(s, stp, rq),
               obj[s] # None
        PROVE  refcnt'[c] = 0
    <2>1. CASE obj[s] = PassObj
      BY <1>2, <2>1 DEF DerefObj
    <2>2. CASE obj[s] # PassObj
      <3>1. PICK d \in OCs : d = obj[s]
        BY <1>0, <1>2, <2>2 DEF TypeOK
      <3>2. <<"obj", s>> \in Holders(d)
        BY <3>1 DEF Holders, Tokens, Threads
      <3> QED BY <1>1, <1>2, <2>2, <3>1, <3>2 DEF DerefObj
    <2> QED BY <2>1, <2>2
  <1>3. ASSUME NEW s \in Sessions, NEW stp, NEW rq, DerefObjcore(s, stp, rq),
               objcore[s] # None
        PROVE  refcnt'[c] = 0
    <2>1. PICK d \in OCs : d = objcore[s]
      BY <1>0, <1>3 DEF TypeOK
    <2>2. <<"objcore", s>> \in Holders(d)
      BY <2>1 DEF Holders, Tokens, Threads
    <2> QED BY <1>1, <1>3, <2>1, <2>2 DEF DerefObjcore
  <1>4. ASSUME NEW t \in Threads, TakenDeref(t)
        PROVE  refcnt'[c] = 0
    <2>1. PICK d \in OCs : d = taken[t]
      BY <1>0, <1>4 DEF TakenDeref, TypeOK
    <2>2. <<"taken", t>> \in Holders(d)
      BY <2>1 DEF Holders, Tokens
    <2> QED BY <1>1, <1>4, <2>1, <2>2 DEF TakenDeref
  <1>5. ASSUME NEW s \in Sessions, SessStep(s)
        PROVE  refcnt'[c] = 0
    <2>0. Holds(s) /\ ReqOK(s) /\ Sole(s) /\ s \in Threads
      BY DEF IInv, SessInv, SoleInv, Threads
    <2>1. CASE \/ cnt_recv(s) \/ cnt_pipe(s) \/ cnt_pass(s)
               \/ cnt_fetch_deliver(s) \/ cnt_fetchbody_error(s)
               \/ FetchBody_fail(s) \/ cnt_error_nostorage(s)
               \/ hash_lookup(s) \/ LookupWait(s) \/ LookupHitTail(s)
               \/ cnt_fetchbody(s) \/ cnt_error(s) \/ cnt_done(s) \/ DerefTail(s)
      BY <2>1 DEF cnt_recv, cnt_pipe, cnt_pass, cnt_fetch_deliver,
                  cnt_fetchbody_error, FetchBody_fail, cnt_error_nostorage,
                  hash_lookup, LookupWait, LookupHitTail, cnt_fetchbody, cnt_error,
                  cnt_done, DerefTail
    <2>2. CASE LookupHit(s)
      <3>1. PICK i \in DOMAIN objcs[hoh[s]] :
               refcnt' = [refcnt EXCEPT ![objcs[hoh[s]][i]] = @ + 1]
        BY <2>2 DEF LookupHit, Found, Usable
      <3>2. objcs[hoh[s]][i] # c
        BY <1>0, <2>2 DEF LookupHit, ListInv, TypeOK
      <3> QED BY <1>0, <3>1, <3>2
    <2>3. CASE FetchBody_ok(s)
      <3>1. CASE obj[s] = PassObj
        BY <2>3, <3>1 DEF FetchBody_ok
      <3>2. CASE obj[s] # PassObj
        <4>1. /\ obj[s] \in OCs /\ Fetching(s)
              /\ refcnt' = [refcnt EXCEPT ![obj[s]] = @ + 1]
          BY <1>0, <2>0, <2>3, <3>2
             DEF FetchBody_ok, EXP_Insert, Fetching, Holds, NoObjSteps, TypeOK
        <4>2. obj[s] # c
          BY <2>0, <4>1 DEF Sole
        <4> QED BY <1>0, <4>1, <4>2
      <3> QED BY <3>1, <3>2
    <2>4. CASE LookupMiss(s)
      BY <1>0, <2>4 DEF LookupMiss
    <2>5. CASE \/ cnt_hit(s) \/ cnt_lookup_hitpass(s) \/ cnt_prepresp(s)
               \/ cnt_deliver(s) \/ HSH_Drop_Deref(s)
      <3>1. obj[s] # None
        BY <2>0, <2>5 DEF cnt_hit, cnt_lookup_hitpass, cnt_prepresp, cnt_deliver,
                          HSH_Drop_Deref, Holds, NoObjSteps
      <3>2. (\E stp, rq : DerefObj(s, stp, rq)) \/ refcnt' = refcnt
        BY <2>5 DEF cnt_hit, cnt_lookup_hitpass, cnt_prepresp, cnt_deliver,
                    HSH_Drop_Deref
      <3> QED BY <1>2, <3>1, <3>2
    <2>6. CASE cnt_miss(s) \/ cnt_fetch_cleanup(s)
      <3>1. \/ objcore[s] # None /\ \E stp, rq : DerefObjcore(s, stp, rq)
            \/ refcnt' = refcnt
        <4>1. CASE cnt_miss(s)
          BY <2>0, <4>1 DEF cnt_miss, Holds
        <4>2. CASE cnt_fetch_cleanup(s)
          <5>1. CASE objcore[s] = None
            BY <4>2, <5>1 DEF cnt_fetch_cleanup
          <5>2. CASE objcore[s] # None
            BY <4>2, <5>2 DEF cnt_fetch_cleanup
          <5> QED BY <5>1, <5>2
        <4> QED BY <2>6, <4>1, <4>2
      <3> QED BY <1>3, <3>1
    <2>7. CASE Unbusy(s) \/ HSH_Drop(s)
      BY <2>7 DEF Unbusy, HSH_Drop, HSH_Unbusy
    <2>8. CASE HSH_Purge_one(s)
      <3>1. PICK d \in purging[s] : HSH_Deref(s, d, step, req)
        BY <2>8 DEF HSH_Purge_one
      <3>2. d \in OCs /\ <<"purge", s>> \in Holders(d)
        BY <1>0, <2>0, <3>1 DEF Holders, Tokens, TypeOK
      <3> QED BY <1>1, <3>1, <3>2
    <2>9. CASE TakenDeref(s)
      BY <1>4, <2>0, <2>9
    <2> QED BY <1>5, <2>1, <2>2, <2>3, <2>4, <2>5, <2>6, <2>7, <2>8, <2>9
            DEF SessStep
  <1>6. ASSUME NEW s \in Sessions, SessChoice(s)
        PROVE  refcnt'[c] = 0
    <2>0. Holds(s) /\ s \in Threads
      BY DEF IInv, SessInv, Threads
    <2>1. CASE cnt_start(s) \/ SetObjTtl(s) \/ EXP_NukeOne(s) \/ ESI_include(s)
      BY <2>1 DEF cnt_start, SetObjTtl, EXP_NukeOne, ESI_include, TakeOffLru
    <2>2. CASE HSH_Purge(s)
      <3>1. PICK d : d = IF step[s] = "HIT" THEN obj[s] ELSE objcore[s]
        OBVIOUS
      <3>2. d \in OCs
        BY <1>0, <2>0, <2>2, <3>1 DEF HSH_Purge, Holds, TypeOK
      <3>3. <<"obj", s>> \in Holders(d) \/ <<"objcore", s>> \in Holders(d)
        BY <2>0, <3>1 DEF Holders, Tokens
      <3>4. head[d] \in Heads
        BY <3>2, <3>3, HeldFacts
      <3>5. c \notin Elems(objcs[head[d]])
        BY <1>0, <3>4 DEF Elems, ListInv
      <3> QED BY <1>0, <2>2, <3>1, <3>5 DEF HSH_Purge
    <2> QED BY <1>6, <2>1, <2>2 DEF SessChoice
  <1>7. CASE TimerStep
    <2>1. Timer \in Threads
      BY DEF Threads
    <2>2. CASE TakenDeref(Timer)
      BY <1>4, <2>1, <2>2
    <2>3. CASE (\E d \in OCs : exp_timer(d)) \/ DerefTail(Timer)
      BY <2>3 DEF exp_timer, TakeOffLru, DerefTail
    <2> QED BY <1>7, <2>2, <2>3 DEF TimerStep
  <1>8. CASE (\E d \in OCs : Age(d)) \/ UNCHANGED vars
    BY <1>8 DEF Age, vars
  <1> QED BY <1>5, <1>6, <1>7, <1>8 DEF Next

\* A count that has reached zero stays there until the objcore is freed.
THEOREM ZeroStaysZero == Spec => ZeroIsFinal
  <1>1. IInv /\ [Next]_vars => [\A c \in alive : refcnt[c] = 0 => refcnt'[c] = 0]_vars
    BY ZeroStep
  <1> QED BY <1>1, IInvAlways, PTL DEF Spec, ZeroIsFinal


(***************************************************************************)
(* The invariant that is added.                                            *)
(***************************************************************************)

\* Whatever can be looked up or is in a session's hands has an object.
HasInv ==
    /\ alive \ busy \subseteq hasobj
    /\ \A s \in Sessions : {obj[s], parent[s]} \cap OCs \subseteq hasobj
    /\ \A c \in OCs : refcnt[c] > 1 => c \in hasobj

\* A hit is on an object of the objhead that was searched, and it is not busy.
HitInv ==
    \A s \in Sessions :
        /\ step[s] \in {"HITREF", "HITPASS", "HIT"} => obj[s] \notin busy
        /\ step[s] = "HITREF" => head[obj[s]] = hoh[s]
        /\ step[s] = "HIT" => obj[s] \notin hfp

\* A parked session is on the list of its objhead.
ParkInv ==
    \A s \in Sessions : step[s] = "WAITING" => s \in Elems(waiters[hoh[s]])

\* One pointer of one session holds a busy objcore, besides the LRU list, which
\* has it between EXP_Insert and HSH_Unbusy only.
Owned(c) ==
    /\ \A k \in Holders(c) : k[1] # "purge" /\ k[1] # "taken"
    /\ \A k, l \in Holders(c) : k[1] # "lru" /\ l[1] # "lru" => k = l

OwnInv ==
    /\ \A c \in busy : Owned(c)
    /\ \A c \in busy \cap lru : \E s \in Sessions : step[s] = "UNBUSY" /\ obj[s] = c
    /\ \A s \in Sessions :
          step[s] \in {"UNBUSY", "DROP"} => obj[s] \in busy \cup {PassObj}

\* The flags of a request are ones that VCL sets.
ReqInv ==
    \A s \in Sessions : /\ req[s].miss => "always_miss" \in Vcl
                        /\ req[s].ignore => "ignore_busy" \in Vcl

\* cnt_error never finds an objcore in sp->objcore: every Vary: parses and
\* there is storage.
FetchesEnd == {"badvary", "nostorage"} \cap Faults = {}

\* Then a session that fetches has given its worker's busyobj to the objcore,
\* and gets it back in HSH_Unbusy or HSH_Deref; what is delivered is not busy.
Spare(s) ==
    /\ objcore[s] # None => step[s] # "ERROR"
    /\ objcore[s] # None \/ obj[s] \in busy => ~nbusyobj[s] /\ dying[s] \notin busy
    /\ step[s] = "DELIVER" \/ (step[s] = "PREPRESP" /\ ~stream[s]) => obj[s] \notin busy
    /\ parent[s] \notin busy

SpareInv == FetchesEnd => \A s \in Sessions : Spare(s)

\* WRK_QueueSession refuses nobody: no objhead reference is leaked.
OhInv == "drop" \notin Faults => OhrefExact

\* Somebody other than the LRU list holds an objcore of h, or looks h up.
HasWaker(h) ==
    \/ \E s \in Sessions : hoh[s] = h /\ step[s] # "WAITING"
    \/ \E c \in OCs : head[c] = h /\ \E k \in Holders(c) : k[1] # "lru"

WakeInv ==
    {"drop", "nostorage"} \cap Faults = {} =>
        \A h \in Heads : waiters[h] # <<>> => HasWaker(h)

Extra == /\ HasInv /\ HitInv /\ ParkInv /\ OwnInv /\ BusyAtTail /\ ReqInv
         /\ Coalesced /\ SpareInv /\ OhInv /\ WakeInv

-----------------------------------------------------------------------------
(***************************************************************************)
(* Steps of a session that keep it the holder of what it holds.            *)
(***************************************************************************)

\* A reference on c stays where it is, goes from one of the session's pointers
\* to another, or is forgotten because storage ran out.
Handed(c) ==
    \/ Holders(c)' = Holders(c)
    \/ "nostorage" \in Faults /\ Holders(c)' \subseteq Holders(c)
    \/ \E k \in Holders(c), m \in Tokens :
          /\ Holders(c)' = (Holders(c) \ {k}) \cup {m}
          /\ {k[1], m[1]} \cap {"lru", "purge", "taken"} = {}

\* The session s goes on; nobody else notices, except that its objcore may
\* have become hit-for-pass.
Quiet(s) ==
    /\ UNCHANGED <<objcs, ohref, waiters, alive, refcnt, head, busy, vary, lru>>
    /\ UNCHANGED <<hoh, taken, dying, purging>>
    /\ \A x \in Sessions \ {s} :
          UNCHANGED <<step[x], req[x], stream[x], nbusyobj[x], objcore[x], obj[x], parent[x]>>
    /\ hasobj \subseteq hasobj'
    /\ hfp' \subseteq hfp \cup ({objcore[s]} \ {None})
    /\ step[s] \notin {"WAITING", "UNBUSY"}
    /\ step'[s] \notin {"WAITING", "UNBUSY", "HITREF", "HITPASS", "HIT"}
    /\ {obj'[s], parent'[s]} \cap OCs \subseteq hasobj'
    /\ step'[s] = "DROP" => obj'[s] \in busy \cup {PassObj}
    /\ req'[s].miss => "always_miss" \in Vcl
    /\ req'[s].ignore => "ignore_busy" \in Vcl
    /\ FetchesEnd => Spare(s)'
    /\ \A c \in OCs : Handed(c)

\* Nothing that has a reference on an objcore, or on an objhead, changes.
LEMMA HoldersKept ==
    /\ UNCHANGED <<objcore, obj, parent, purging, taken, lru>> =>
          \A c : Holders(c)' = Holders(c)
    /\ UNCHANGED <<alive, head, hoh>> => \A h : HeadHolders(h)' = HeadHolders(h)
  BY DEF Holders, HeadHolders

\* The objheads' counts stay exact.
LEMMA OhKept ==
    ASSUME OhInv, UNCHANGED <<ohref, alive, head>>, "drop" \notin Faults => UNCHANGED hoh
    PROVE  OhInv'
  <1>1. "drop" \notin Faults => \A h : HeadHolders(h)' = HeadHolders(h)
    BY HoldersKept
  <1> QED BY <1>1 DEF OhInv, OhrefExact

LEMMA QuietStep ==
    ASSUME IInv, Extra, NEW s \in Sessions, Quiet(s)
    PROVE  Extra'
  <1>0. TypeOK /\ Sole(s) /\ HasInv /\ HitInv /\ ParkInv /\ OwnInv /\ BusyAtTail /\ ReqInv
        /\ Coalesced /\ SpareInv /\ OhInv /\ WakeInv /\ busy \subseteq OCs
    BY DEF IInv, SoleInv, Extra, TypeOK
  <1>1. HasInv'
    <2>1. \A x \in Sessions : {obj'[x], parent'[x]} \cap OCs \subseteq hasobj'
      BY <1>0 DEF Quiet, HasInv
    <2>2. /\ alive \ busy \subseteq hasobj'
          /\ \A c \in OCs : refcnt[c] > 1 => c \in hasobj'
          /\ UNCHANGED <<alive, busy, refcnt>>
      BY <1>0 DEF Quiet, HasInv
    <2> QED BY <2>1, <2>2 DEF HasInv
  <1>2. HitInv'
    BY <1>0 DEF Quiet, HitInv, Sole
  <1>3. ParkInv'
    BY <1>0 DEF Quiet, ParkInv, Elems
  <1>4. ASSUME NEW c \in busy
        PROVE  Owned(c)'
    <2>1. Handed(c) /\ Owned(c)
      BY <1>0 DEF Quiet, OwnInv
    <2>2. CASE Holders(c)' \subseteq Holders(c)
      BY <2>1, <2>2 DEF Owned
    <2>3. ASSUME NEW a \in Holders(c), NEW m \in Tokens,
                 Holders(c)' = (Holders(c) \ {a}) \cup {m},
                 {a[1], m[1]} \cap {"lru", "purge", "taken"} = {}
          PROVE  Owned(c)'
      <3>1. \A b \in Holders(c)' : b = m \/ (b \in Holders(c) /\ b # a)
        BY <2>3
      <3>2. \A b \in Holders(c) : b # a => b[1] = "lru"
        BY <2>1, <2>3 DEF Owned
      <3> QED BY <2>3, <3>1, <3>2 DEF Owned
    <2> QED BY <2>1, <2>2, <2>3 DEF Handed
  <1>5. OwnInv'
    <2>1. \A c \in busy \cap lru : \E x \in Sessions : step'[x] = "UNBUSY" /\ obj'[x] = c
      BY <1>0 DEF Quiet, OwnInv
    <2>2. \A x \in Sessions : step'[x] \in {"UNBUSY", "DROP"} => obj'[x] \in busy \cup {PassObj}
      BY <1>0 DEF Quiet, OwnInv
    <2>3. UNCHANGED <<busy, lru>>
      BY DEF Quiet
    <2> QED BY <1>4, <2>1, <2>2, <2>3 DEF OwnInv
  <1>6. BusyAtTail' /\ Coalesced'
    BY <1>0 DEF Quiet, BusyAtTail, Coalesced
  <1>7. ReqInv'
    BY <1>0 DEF Quiet, ReqInv
  <1>8. SpareInv'
    <2>1. ASSUME FetchesEnd, NEW x \in Sessions \ {s} PROVE Spare(x)'
      BY <1>0, <2>1 DEF Quiet, SpareInv, Spare
    <2> QED BY <2>1 DEF Quiet, SpareInv
  <1>9. OhInv'
    BY <1>0, OhKept DEF Quiet
  <1>10. WakeInv'
    <2> SUFFICES ASSUME "drop" \notin Faults, "nostorage" \notin Faults,
                        NEW g \in Heads, HasWaker(g)
                 PROVE  HasWaker(g)'
      BY <1>0 DEF WakeInv, Quiet
    <2>1. ASSUME NEW x \in Sessions, hoh[x] = g, step[x] # "WAITING"
          PROVE  HasWaker(g)'
      BY <2>1 DEF HasWaker, Quiet
    <2>2. ASSUME NEW d \in OCs, head[d] = g, NEW l \in Holders(d), l[1] # "lru"
          PROVE  HasWaker(g)'
      <3>1. Handed(d) /\ head'[d] = g
        BY <2>2 DEF Quiet
      <3>2. \E m \in Holders(d)' : m[1] # "lru"
        BY <2>2, <3>1 DEF Handed
      <3> QED BY <2>2, <3>1, <3>2 DEF HasWaker
    <2> QED BY <2>1, <2>2 DEF HasWaker
  <1> QED BY <1>1, <1>2, <1>3, <1>5, <1>6, <1>7, <1>8, <1>9, <1>10 DEF Extra

\* The steps of which this is so.
QuietActions(s) ==
    \/ cnt_start(s) \/ cnt_recv(s) \/ cnt_pipe(s) \/ cnt_pass(s)
    \/ cnt_fetch_deliver(s) \/ cnt_fetchbody_error(s) \/ FetchBody_fail(s)
    \/ cnt_error_nostorage(s)

LEMMA QuietSteps ==
    ASSUME IInv, Extra, NEW s \in Sessions, QuietActions(s)
    PROVE  Extra'
  <1> USE DEF At, Goto, Exits, headVars, ocVars, sessVars, threadVars
  <1>0. /\ step \in [Sessions -> Steps] /\ req \in [Sessions -> Requests]
        /\ stream \in [Sessions -> BOOLEAN] /\ nbusyobj \in [Sessions -> BOOLEAN]
        /\ Holds(s) /\ Sole(s) /\ obj[s] \in OCs \cup {PassObj, None}
        /\ req[s].miss => "always_miss" \in Vcl
        /\ req[s].ignore => "ignore_busy" \in Vcl
        /\ FetchesEnd => "badvary" \notin Faults /\ "nostorage" \notin Faults
        /\ FetchesEnd => Spare(s)
        /\ {obj[s], parent[s]} \cap OCs \subseteq hasobj
    BY DEF IInv, TypeOK, SessInv, SoleInv, Extra, ReqInv, FetchesEnd, SpareInv, HasInv
  <1>10. UNCHANGED <<objcore, obj, parent, purging, taken, lru>> => \A c : Handed(c)
    BY HoldersKept DEF Handed
  <1>1. CASE cnt_start(s)
    <2>1. Quiet(s)
      BY <1>0, <1>10, <1>1 DEF cnt_start, Quiet, Spare, Holds
    <2> QED BY <2>1, QuietStep
  <1>2. CASE cnt_recv(s)
    <2> DEFINE To(stp) == step' = Goto(s, stp)
    <2>1. /\ step[s] = "RECV"
          /\ To("ERROR") \/ To("PASS") \/ To("PIPE") \/ To("LOOKUP")
      BY <1>2 DEF cnt_recv
    <2>2. \/ req' = req
          \/ \E h \in Heads, v \in Variants,
                m \in {b \in BOOLEAN : b => "always_miss" \in Vcl},
                i \in {b \in BOOLEAN : b => "ignore_busy" \in Vcl} :
                req' = [req EXCEPT ![s] = [head |-> h, variant |-> v, miss |-> m,
                          ignore |-> i, esi |-> @.esi, restarts |-> @.restarts]]
      BY <1>2 DEF cnt_recv
    <2>3. /\ \A x \in Sessions \ {s} : req'[x] = req[x]
          /\ req'[s].miss => "always_miss" \in Vcl
          /\ req'[s].ignore => "ignore_busy" \in Vcl
      BY <1>0, <2>2
    <2>4. /\ \A x \in Sessions \ {s} : stream'[x] = stream[x]
          /\ UNCHANGED <<headVars, ocVars, objcore, obj, parent, hoh, nbusyobj, ret,
                         threadVars>>
      BY <1>0, <1>2 DEF cnt_recv
    <2>5. FetchesEnd => objcore[s] = None
      BY <1>0, <2>1 DEF Holds
    <2>6. Quiet(s)
      BY <1>0, <1>10, <2>1, <2>3, <2>4, <2>5 DEF Quiet, Spare
    <2> QED BY <2>6, QuietStep
  <1>3. CASE cnt_pipe(s)
    <2>1. Quiet(s)
      BY <1>0, <1>10, <1>3 DEF cnt_pipe, Quiet, Spare
    <2> QED BY <2>1, QuietStep
  <1>4. CASE cnt_pass(s)
    <2>1. FetchesEnd => objcore[s] = None
      BY <1>0, <1>4 DEF Holds, cnt_pass
    <2>2. Quiet(s)
      BY <1>0, <1>10, <1>4, <2>1 DEF cnt_pass, Quiet, Spare
    <2> QED BY <2>2, QuietStep
  <1>5. CASE cnt_fetch_deliver(s)
    <2>1. Quiet(s)
      BY <1>0, <1>10, <1>5 DEF cnt_fetch_deliver, Quiet, Spare
    <2> QED BY <2>1, QuietStep
  <1>6. CASE cnt_fetchbody_error(s)
    <2>1. Quiet(s)
      BY <1>0, <1>10, <1>6 DEF cnt_fetchbody_error, Quiet, Spare
    <2> QED BY <2>1, QuietStep
  <1>7. CASE FetchBody_fail(s)
    <2>1. step'[s] = "DROP" => obj[s] \in busy \cup {PassObj}
      BY <1>0, <1>7 DEF FetchBody_fail, Sole, Fetching, Holds, NoObjSteps
    <2>2. Quiet(s)
      BY <1>0, <1>10, <1>7, <2>1 DEF FetchBody_fail, Quiet, Spare
    <2> QED BY <2>2, QuietStep
  <1>8. CASE cnt_error_nostorage(s)
    <2>1. Quiet(s)
      BY <1>0, <1>10, <1>8 DEF cnt_error_nostorage, Quiet, Spare
    <2> QED BY <2>1, QuietStep
  <1> QED BY <1>1, <1>2, <1>3, <1>4, <1>5, <1>6, <1>7, <1>8 DEF QuietActions

\* Time passes, VCL sets a ttl, or nothing happens.
LEMMA IdleSteps ==
    ASSUME Extra,
           \/ \E c \in OCs : Age(c)
           \/ \E s \in Sessions : SetObjTtl(s)
           \/ UNCHANGED vars
    PROVE  Extra'
  <1>1. /\ UNCHANGED <<objcs, ohref, waiters, alive, refcnt, head, busy, hfp, hasobj>>
        /\ UNCHANGED <<vary, lru, step, req, objcore, obj, parent, hoh, nbusyobj>>
        /\ UNCHANGED <<stream, taken, dying, purging>>
    BY DEF Age, SetObjTtl, vars, headVars, ocVars, sessVars, threadVars
  <1>2. \A c : Holders(c)' = Holders(c)
    BY <1>1, HoldersKept
  <1>3. OhInv' /\ OwnInv' /\ WakeInv'
    BY <1>1, <1>2, OhKept DEF Extra, OwnInv, Owned, WakeInv, HasWaker
  <1>4. HasInv' /\ HitInv' /\ ParkInv' /\ BusyAtTail' /\ ReqInv' /\ Coalesced' /\ SpareInv'
    BY <1>1 DEF Extra, HasInv, HitInv, ParkInv, Elems, BusyAtTail, ReqInv, Coalesced, SpareInv,
           Spare
  <1> QED BY <1>3, <1>4 DEF Extra

-----------------------------------------------------------------------------
(***************************************************************************)
(* Waking sessions.                                                        *)
(***************************************************************************)

\* Every entry after the first n is in what is left of the list.
LEMMA SuffixHas ==
    ASSUME NEW S, NEW q \in Seq(S), NEW n \in 0..Len(q), NEW j \in DOMAIN q, j > n
    PROVE  LET r == SubSeq(q, n + 1, Len(q)) IN j - n \in DOMAIN r /\ r[j - n] = q[j]
  <1> DEFINE r == SubSeq(q, n + 1, Len(q))
  <1>1. /\ Len(q) \in Nat /\ n \in Nat /\ n + 1 <= Len(q) /\ j \in 1..Len(q)
        /\ \A i \in 1..Len(q) : q[i] \in S
    OBVIOUS
  <1>2. n + 1 \in Int /\ Len(q) \in Int /\ \A i \in (n + 1)..Len(q) : q[i] \in S
    BY <1>1
  <1>3. /\ r \in Seq(S)
        /\ Len(r) = IF n + 1 <= Len(q) THEN Len(q) - (n + 1) + 1 ELSE 0
        /\ \A i \in 1..(Len(q) - (n + 1) + 1) : r[i] = q[(n + 1) + i - 1]
    BY <1>2, SubSeqProperties
  <1> HIDE DEF r
  <1>4. Len(r) = Len(q) - n /\ DOMAIN r = 1..Len(r)
    BY <1>1, <1>3
  <1>5. j - n \in 1..(Len(q) - (n + 1) + 1) /\ (n + 1) + (j - n) - 1 = j
    BY <1>1
  <1>6. r[j - n] = q[(n + 1) + (j - n) - 1]
    BY <1>3, <1>5
  <1>7. j - n \in DOMAIN r
    BY <1>1, <1>4
  <1> QED BY <1>5, <1>6, <1>7 DEF r

\* hsh_rush leaves the other waiting lists alone and keeps who it does not wake
\* on the list; when nobody is refused it wakes one if there is one.
LEMMA RushMore ==
    ASSUME IInv, ParkInv, NEW h \in Heads, NEW stp, NEW rq,
           RushArgs(stp, rq), hsh_rush(h, stp, rq)
    PROVE  /\ ParkInv'
           /\ \A g \in Heads \ {h} : waiters'[g] = waiters[g]
           /\ waiters'[h] # <<>> => waiters[h] # <<>>
           /\ "drop" \notin Faults =>
                 /\ hoh' = hoh
                 /\ waiters[h] # <<>> =>
                       \E x \in Sessions : step'[x] = "LOOKUP" /\ hoh'[x] = h
  <1> USE DEF RushArgs
  <1> DEFINE q == waiters[h]
             most == IF Len(q) < RushExponent THEN Len(q) ELSE RushExponent
  <1>1. /\ q \in Seq(Sessions) /\ Len(q) \in Nat /\ DOMAIN q = 1..Len(q)
        /\ \A i \in 1..Len(q) : q[i] \in Sessions
        /\ hoh \in [Sessions -> Heads \cup {None}]
        /\ waiters \in [Heads -> Seq(Sessions)]
        /\ \A x \in Sessions : step[x] = "WAITING" =>
              hoh[x] \in Heads /\ \E i \in DOMAIN waiters[hoh[x]] : waiters[hoh[x]][i] = x
    <2>1. TypeOK /\ \A x \in Sessions : step[x] = "WAITING" => hoh[x] # None
      BY DEF IInv, SessInv, Holds
    <2> QED BY <2>1 DEF TypeOK, ParkInv, Elems
  <1>2. most \in 0..Len(q) /\ (q # <<>> => most > 0)
    BY <1>1, ParamsAreSane
  <1>3. ASSUME NEW n \in 0..Len(q), NEW i \in DOMAIN q, i > n
        PROVE  LET r == SubSeq(q, n + 1, Len(q)) IN \E k \in DOMAIN r : r[k] = q[i]
    <2>1. LET r == SubSeq(q, n + 1, Len(q)) IN i - n \in DOMAIN r /\ r[i - n] = q[i]
      BY <1>1, <1>3, SuffixHas
    <2> QED BY <2>1
  <1> HIDE DEF most
  \* A session that stays parked was parked, and is not among the first n.
  <1>4. ASSUME NEW n \in 0..Len(q),
               waiters' = [waiters EXCEPT ![h] = SubSeq(q, n + 1, Len(q))],
               \A x \in Sessions : step'[x] = "WAITING" =>
                  step[x] = "WAITING" /\ hoh'[x] = hoh[x] /\ x \notin Requeued(q, n)
        PROVE  ParkInv' /\ \A g \in Heads \ {h} : waiters'[g] = waiters[g]
    <2>1. ASSUME NEW x \in Sessions, step'[x] = "WAITING"
          PROVE  \E i \in DOMAIN waiters'[hoh'[x]] : waiters'[hoh'[x]][i] = x
      <3>1. step[x] = "WAITING" /\ hoh'[x] = hoh[x] /\ hoh[x] \in Heads
        BY <1>1, <1>4, <2>1
      <3>2. PICK i \in DOMAIN waiters[hoh[x]] : waiters[hoh[x]][i] = x
        BY <1>1, <3>1
      <3>3. CASE hoh[x] = h
        <4>1. i \in DOMAIN q /\ q[i] = x /\ waiters'[h] = SubSeq(q, n + 1, Len(q))
          BY <1>1, <1>4, <3>2, <3>3
        <4>2. i > n
          BY <1>1, <1>4, <2>1, <4>1 DEF Requeued
        <4> DEFINE r == SubSeq(q, n + 1, Len(q))
        <4>3. \E k \in DOMAIN r : r[k] = q[i]
          BY <1>3, <4>1, <4>2
        <4> HIDE DEF r
        <4> QED BY <3>1, <3>3, <4>1, <4>3 DEF r
      <3>4. CASE hoh[x] # h
        BY <1>1, <1>4, <3>1, <3>2, <3>4
      <3> QED BY <3>3, <3>4
    <2>2. ParkInv'
      BY <2>1 DEF ParkInv, Elems
    <2> QED BY <1>1, <1>4, <2>2
  <1>7. ASSUME waiters'[h] # <<>>
        PROVE  waiters[h] # <<>>
    <2>1. TypeOK /\ WaitInv
      BY DEF IInv
    <2>2. /\ WaitInv' /\ waiters' \in [Heads -> Seq(Sessions)]
          /\ \A x \in Sessions : step'[x] = "WAITING" =>
                step[x] = "WAITING" /\ hoh'[x] = hoh[x]
      BY <2>1, RushFacts DEF Rushed
    <2>3. 1 \in DOMAIN waiters'[h] /\ waiters'[h][1] \in Sessions
      BY <1>7, <2>2
    <2>4. PICK x \in Sessions : step'[x] = "WAITING" /\ hoh'[x] = h
      BY <2>2, <2>3 DEF WaitInv
    <2>5. \E i \in DOMAIN waiters[h] : waiters[h][i] = x
      BY <1>1, <2>2, <2>4
    <2> QED BY <2>5
  <1>5. CASE /\ waiters' = [waiters EXCEPT ![h] = SubSeq(q, most + 1, Len(q))]
             /\ step' = [s \in Sessions |->
                            IF s \in Requeued(q, most) THEN "LOOKUP" ELSE stp[s]]
             /\ req' = rq
             /\ hoh' = hoh
    <2>1. ParkInv' /\ \A g \in Heads \ {h} : waiters'[g] = waiters[g]
      BY <1>2, <1>4, <1>5
    <2>2. ASSUME q # <<>>
          PROVE  \E x \in Sessions : step'[x] = "LOOKUP" /\ hoh'[x] = h
      <3>1. 1 \in 1..most /\ 1 \in DOMAIN q
        BY <1>1, <1>2, <2>2
      <3>2. q[1] \in Sessions /\ q[1] \in Requeued(q, most) /\ hoh[q[1]] = h
        BY <1>1, <3>1 DEF Requeued, IInv, WaitInv
      <3> QED BY <1>5, <3>2
    <2> QED BY <1>5, <1>7, <2>1, <2>2
  <1>6. CASE /\ "drop" \in Faults
             /\ \E n \in 0..(most - 1) :
                   /\ waiters' = [waiters EXCEPT ![h] = SubSeq(q, n + 2, Len(q))]
                   /\ step' = [s \in Sessions |->
                                  IF s \in Requeued(q, n) THEN "LOOKUP"
                                  ELSE IF s = q[n + 1] THEN "IDLE" ELSE stp[s]]
                   /\ req' = [rq EXCEPT ![q[n + 1]] = NoReq]
                   /\ hoh' = [hoh EXCEPT ![q[n + 1]] = None]
    <2>1. PICK n \in 0..(most - 1) :
                   /\ waiters' = [waiters EXCEPT ![h] = SubSeq(q, n + 2, Len(q))]
                   /\ step' = [s \in Sessions |->
                                  IF s \in Requeued(q, n) THEN "LOOKUP"
                                  ELSE IF s = q[n + 1] THEN "IDLE" ELSE stp[s]]
                   /\ hoh' = [hoh EXCEPT ![q[n + 1]] = None]
      BY <1>6
    <2>2. PICK m \in 0..Len(q) : m = n + 1 /\ m + 1 = n + 2
      BY <1>1, <1>2
    <2>3. waiters' = [waiters EXCEPT ![h] = SubSeq(q, m + 1, Len(q))]
      BY <2>1, <2>2
    <2>4. ASSUME NEW x \in Sessions, step'[x] = "WAITING"
          PROVE  step[x] = "WAITING" /\ hoh'[x] = hoh[x] /\ x \notin Requeued(q, m)
      <3>1. x \notin Requeued(q, n) /\ x # q[m] /\ stp[x] = "WAITING"
        BY <2>1, <2>2, <2>4
      <3>2. x \notin Requeued(q, m)
        <4>1. m \in Nat /\ n \in Nat /\ m = n + 1
          BY <1>1, <1>2, <2>2
        <4>2. \A i \in 1..m : i \in 1..n \/ i = m
          BY <4>1
        <4> QED BY <3>1, <4>2 DEF Requeued
      <3> QED BY <1>1, <2>1, <2>2, <3>1, <3>2
    <2> QED BY <1>4, <1>6, <1>7, <2>3, <2>4
  <1> QED BY <1>5, <1>6 DEF hsh_rush, most

-----------------------------------------------------------------------------
(***************************************************************************)
(* Steps that release a reference.                                         *)
(***************************************************************************)

\* Without keeps the order of what it keeps.
LEMMA WithoutOrder ==
    ASSUME NEW S, NEW q \in Seq(S), NEW k \in DOMAIN q,
           \A i, j \in DOMAIN q : q[i] = q[j] => i = j
    PROVE  LET r == Without(q, q[k]) IN
           \A i, j \in DOMAIN r : i < j =>
              \E a, b \in DOMAIN q : a < b /\ r[i] = q[a] /\ r[j] = q[b]
  <1> DEFINE r == Without(q, q[k])
             at(i) == IF i < k THEN i ELSE i + 1
  <1>1. Len(q) \in Nat /\ DOMAIN q = 1..Len(q) /\ k \in 1..Len(q)
    OBVIOUS
  <1>2. (CHOOSE i \in DOMAIN q : q[i] = q[k]) = k
    OBVIOUS
  <1>3. r = [i \in 1..(Len(q) - 1) |-> IF i < k THEN q[i] ELSE q[i + 1]]
    BY <1>2 DEF Without
  <1>4. \A i \in 1..(Len(q) - 1) : at(i) \in DOMAIN q /\ r[i] = q[at(i)]
    BY <1>1, <1>3
  <1>5. \A i, j \in 1..(Len(q) - 1) : i < j => at(i) < at(j)
    BY <1>1
  <1>6. DOMAIN r = 1..(Len(q) - 1)
    BY <1>3
  <1> HIDE DEF r, at
  <1> QED BY <1>4, <1>5, <1>6 DEF r

\* The thread t releases the reference k on c; if it is one of its session's
\* pointers, the session goes on to a step where it has none.
Releases(t, c, k, stp, rq) ==
    /\ RushArgs(stp, rq) /\ HSH_Deref(t, c, stp, rq)
    /\ k \in Holders(c) /\ Holders(c)' = Holders(c) \ {k}
    /\ \A d \in OCs : d # c => Holders(d)' = Holders(d)
    /\ UNCHANGED <<lru, parent, nbusyobj, stream>>
    /\ \A x \in Sessions :
          /\ rq[x].miss = req[x].miss /\ rq[x].ignore = req[x].ignore
          /\ \/ /\ stp[x] = step[x] /\ UNCHANGED <<objcore[x], obj[x]>>
                /\ x = t => k[1] \in {"purge", "taken"}
             \/ /\ x = t /\ step[x] # "UNBUSY"
                /\ stp[x] \in {"PASS", "ERROR", "RECV", "DONE"}
                /\ obj'[x] = None
                /\ "nostorage" \notin Faults => objcore'[x] = None

LEMMA ReleaseStep ==
    ASSUME IInv, Extra, NEW t \in Threads, NEW c \in OCs, NEW k, NEW stp, NEW rq,
           Releases(t, c, k, stp, rq)
    PROVE  Extra'
  <1>0. /\ TypeOK /\ ListInv /\ WaitInv /\ refcnt \in [OCs -> Nat] /\ None \notin OCs
        /\ objcs \in [Heads -> Seq(OCs)] /\ busy \subseteq OCs
        /\ dying \in [Threads -> OCs \cup {None}]
        /\ HasInv /\ HitInv /\ ParkInv /\ OwnInv /\ BusyAtTail /\ ReqInv
        /\ Coalesced /\ SpareInv /\ OhInv /\ WakeInv
    BY ConstantsAreDistinct DEF IInv, Extra, TypeOK
  <1>1. refcnt[c] > 0 /\ c \in alive /\ head[c] \in Heads
    BY HeldFacts DEF Releases
  <1>2. /\ refcnt' = [refcnt EXCEPT ![c] = @ - 1]
        /\ refcnt[c] = 1 => /\ objcs' = [objcs EXCEPT ![head[c]] = Without(@, c)]
                            /\ dying' = [dying EXCEPT ![t] = c]
        /\ refcnt[c] # 1 => UNCHANGED <<objcs, dying>>
        /\ hsh_rush(head[c], stp, rq)
        /\ UNCHANGED <<ohref, alive, head, busy, hfp, hasobj, vary>>
    BY DEF Releases, HSH_Deref
  <1>3. /\ \A x \in Sessions :
              \/ step'[x] = stp[x] /\ req'[x] = rq[x] /\ hoh'[x] = hoh[x]
              \/ /\ step[x] = "WAITING" /\ step'[x] = "LOOKUP"
                 /\ req'[x] = req[x] /\ hoh'[x] = hoh[x]
              \/ /\ step[x] = "WAITING" /\ step'[x] = "IDLE"
                 /\ req'[x] = NoReq /\ hoh'[x] = None
        /\ \A x \in Sessions : step[x] = "WAITING" <=> stp[x] = "WAITING"
    <2>1. RushArgs(stp, rq)
      BY DEF Releases
    <2>2. Rushed(stp, rq)
      BY <1>0, <1>1, <1>2, <2>1, RushFacts
    <2> QED BY <2>1, <2>2 DEF Rushed, RushArgs
  <1>4. /\ ParkInv'
        /\ \A g \in Heads \ {head[c]} : waiters'[g] = waiters[g]
        /\ waiters'[head[c]] # <<>> => waiters[head[c]] # <<>>
        /\ "drop" \notin Faults =>
              /\ hoh' = hoh
              /\ waiters[head[c]] # <<>> =>
                    \E x \in Sessions : step'[x] = "LOOKUP" /\ hoh'[x] = head[c]
    BY <1>0, <1>1, <1>2, RushMore DEF Releases
  <1>5. \A d \in OCs : refcnt'[d] <= refcnt[d] /\ refcnt'[d] \in Nat
    BY <1>0, <1>1, <1>2
  \* The session goes on as before, or it is woken, or it has let go.
  <1>6. ASSUME NEW x \in Sessions
        PROVE  \/ /\ UNCHANGED <<step[x], hoh[x], objcore[x], obj[x]>>
                  /\ x = t => k[1] \in {"purge", "taken"}
               \/ /\ step[x] = "WAITING" /\ step'[x] \in {"LOOKUP", "IDLE"}
                  /\ x = t => k[1] \in {"purge", "taken"}
                  /\ UNCHANGED <<objcore[x], obj[x]>>
               \/ /\ step[x] # "UNBUSY" /\ step'[x] \in {"PASS", "ERROR", "RECV", "DONE"}
                  /\ obj'[x] = None /\ ("nostorage" \notin Faults => objcore'[x] = None)
    BY <1>3, <1>6 DEF Releases
  <1>7. HasInv'
    <2>1. \A x \in Sessions : obj'[x] \in {obj[x], None} /\ parent'[x] = parent[x]
      BY <1>6 DEF Releases
    <2>2. \A d \in OCs : refcnt'[d] > 1 => refcnt[d] > 1
      BY <1>0, <1>5
    <2>3. \A x \in Sessions : {obj'[x], parent'[x]} \cap OCs \subseteq hasobj
      BY <1>0, <2>1 DEF HasInv
    <2> QED BY <1>0, <1>2, <2>2, <2>3 DEF HasInv
  <1>8. HitInv'
    BY <1>0, <1>2, <1>6 DEF HitInv
  <1>9. OwnInv'
    <2>1. \A d \in busy : Owned(d)'
      <3>1. \A d \in busy : Owned(d) /\ Holders(d)' \subseteq Holders(d)
        BY <1>0 DEF Releases, OwnInv
      <3> QED BY <3>1 DEF Owned
    <2>2. \A d \in busy \cap lru : \E x \in Sessions : step'[x] = "UNBUSY" /\ obj'[x] = d
      BY <1>0, <1>6 DEF OwnInv
    <2>3. \A x \in Sessions : step'[x] \in {"UNBUSY", "DROP"} => obj'[x] \in busy \cup {PassObj}
      BY <1>0, <1>6 DEF OwnInv
    <2>4. UNCHANGED <<busy, lru>>
      BY <1>2 DEF Releases
    <2> QED BY <1>0, <2>1, <2>2, <2>3, <2>4 DEF OwnInv
  <1>10. BusyAtTail'
    <2>1. CASE refcnt[c] = 1
      <3> DEFINE q == objcs[head[c]]
                 r == Without(q, c)
      <3>1. PICK p \in DOMAIN q : q[p] = c
        BY <1>0, <1>1 DEF ListInv
      <3>2. \A i, j \in DOMAIN q : q[i] = q[j] => i = j
        BY <1>0, <1>1 DEF ListInv
      <3>3. \A i, j \in DOMAIN r : i < j =>
               \E a, b \in DOMAIN q : a < b /\ r[i] = q[a] /\ r[j] = q[b]
        <4>1. q \in Seq(OCs)
          BY <1>0, <1>1
        <4> HIDE DEF q
        <4> QED BY <3>1, <3>2, <4>1, WithoutOrder
      <3>4. \A g \in Heads : objcs'[g] = IF g = head[c] THEN r ELSE objcs[g]
        BY <1>0, <1>1, <1>2, <2>1
      <3> HIDE DEF r
      <3>5. \A i, j \in DOMAIN r : i < j /\ r[i] \in busy => r[j] \in busy
        BY <1>0, <1>1, <3>3 DEF BusyAtTail
      <3> QED BY <1>0, <1>2, <3>4, <3>5 DEF BusyAtTail
    <2>2. CASE refcnt[c] # 1
      BY <1>0, <1>2, <2>2 DEF BusyAtTail
    <2> QED BY <2>1, <2>2
  <1>11. ReqInv'
    <2>1. NoReq.miss = FALSE /\ NoReq.ignore = FALSE
      BY DEF NoReq
    <2>2. \A x \in Sessions : \/ /\ req'[x].miss = req[x].miss
                                 /\ req'[x].ignore = req[x].ignore
                              \/ req'[x] = NoReq
      BY <1>3 DEF Releases
    <2> QED BY <1>0, <2>1, <2>2 DEF ReqInv
  <1>12. Coalesced'
    <2>1. \A d \in busy : refcnt'[d] > 0 => refcnt[d] > 0
      BY <1>0, <1>5
    <2> QED BY <1>0, <1>2, <2>1 DEF Coalesced
  <1>13. SpareInv'
    <2> SUFFICES ASSUME FetchesEnd, NEW x \in Sessions
                 PROVE  Spare(x)'
      BY DEF SpareInv
    <2>1. "nostorage" \notin Faults
      BY DEF FetchesEnd
    <2>2. Spare(x)
      BY <1>0 DEF SpareInv
    <2>3. dying'[x] = dying[x] \/ (x = t /\ dying'[x] = c)
      BY <1>0, <1>2 DEF Threads
    <2>4. k[1] \in {"purge", "taken"} => c \notin busy
      <3>1. k \in Holders(c) /\ (c \in busy => Owned(c))
        BY <1>0 DEF OwnInv, Releases
      <3> QED BY <3>1 DEF Owned
    <2>5. None \notin busy
      BY <1>0
    <2>6. UNCHANGED <<nbusyobj, stream, parent, busy>>
      BY <1>2 DEF Releases
    <2> QED BY <1>6, <2>1, <2>2, <2>3, <2>4, <2>5, <2>6 DEF Spare
  <1>14. OhInv'
    BY <1>0, <1>2, <1>4, OhKept
  <1>15. WakeInv'
    <2> SUFFICES ASSUME "drop" \notin Faults, "nostorage" \notin Faults,
                        NEW g \in Heads, waiters'[g] # <<>>
                 PROVE  HasWaker(g)'
      BY DEF WakeInv
    <2>1. CASE g = head[c]
      BY <1>4, <2>1 DEF HasWaker
    <2>2. CASE g # head[c]
      <3>1. HasWaker(g)
        BY <1>0, <1>4, <2>2 DEF WakeInv
      <3>2. ASSUME NEW x \in Sessions, hoh[x] = g, step[x] # "WAITING"
            PROVE  HasWaker(g)'
        BY <1>3, <1>4, <3>2 DEF HasWaker
      <3>3. ASSUME NEW d \in OCs, head[d] = g, NEW l \in Holders(d), l[1] # "lru"
            PROVE  HasWaker(g)'
        BY <1>2, <2>2, <3>3 DEF HasWaker, Releases
      <3> QED BY <3>1, <3>2, <3>3 DEF HasWaker
    <2> QED BY <2>1, <2>2
  <1> QED BY <1>4, <1>7, <1>8, <1>9, <1>10, <1>11, <1>12, <1>13, <1>14, <1>15 DEF Extra

\* A request as rq has it looks up the way it did.
SameFlags(rq) ==
    \A x \in Sessions : rq[x].miss = req[x].miss /\ rq[x].ignore = req[x].ignore

\* HSH_Deref of sp->obj, of sp->objcore ...
LEMMA DerefPointer ==
    ASSUME IInv, Extra, NEW s \in Sessions, NEW rq \in [Sessions -> Requests],
           NEW stp \in {"PASS", "ERROR", "RECV", "DONE"},
           step[s] \notin {"WAITING", "UNBUSY"}, SameFlags(rq),
           \A x \in Sessions \ {s} : rq[x] = req[x],
           \/ DerefObj(s, stp, rq) /\ obj[s] # None
           \/ DerefObjcore(s, stp, rq) /\ objcore[s] # None /\ obj[s] = None
    PROVE  Extra'
  <1>0. /\ TypeOK /\ Holds(s) /\ s \in Threads
        /\ PassObj \notin OCs /\ None \notin OCs /\ None # PassObj
    BY ConstantsAreDistinct DEF IInv, SessInv, Threads
  <1>1. RushArgs(Goto(s, stp), rq)
    BY <1>0 DEF RushArgs, Goto, TypeOK, Steps
  <1>2. \A x \in Sessions : Goto(s, stp)[x] = IF x = s THEN stp ELSE step[x]
    BY <1>0 DEF Goto, TypeOK
  <1>3. CASE DerefObj(s, stp, rq) /\ obj[s] = PassObj
    <2>1. /\ obj' = [obj EXCEPT ![s] = None] /\ step' = Goto(s, stp) /\ req' = rq
          /\ UNCHANGED <<objcs, ohref, waiters, alive, refcnt, head, busy, hfp, hasobj>>
          /\ UNCHANGED <<vary, hoh, dying, lru, objcore, parent, nbusyobj, stream>>
          /\ UNCHANGED <<taken, purging>>
      BY <1>3 DEF DerefObj
    <2>2. \A c \in OCs : Holders(c)' = Holders(c)
      BY <1>0, <1>3, <2>1 DEF Holders, TypeOK
    <2>3. FetchesEnd => Spare(s)'
      <3>1. FetchesEnd => objcore[s] = None /\ parent[s] \notin busy
        BY <1>0, <1>3 DEF Extra, SpareInv, Spare, FetchesEnd, Holds, NoObjSteps
      <3> QED BY <1>0, <1>2, <2>1, <3>1 DEF Spare, TypeOK
    <2>4. ReqInv /\ HasInv
      BY DEF Extra
    <2>5. obj'[s] = None /\ \A x \in Sessions \ {s} : obj'[x] = obj[x]
      BY <1>0, <2>1 DEF TypeOK
    <2>6. Quiet(s)
      BY <1>0, <1>2, <2>1, <2>2, <2>3, <2>4, <2>5
         DEF Quiet, Handed, ReqInv, HasInv, SameFlags
    <2> QED BY <2>6, QuietStep
  <1>4. CASE DerefObj(s, stp, rq) /\ obj[s] # PassObj /\ obj[s] # None
    <2>1. PICK c \in OCs : c = obj[s]
      BY <1>0, <1>4 DEF TypeOK
    <2>2. /\ HSH_Deref(s, c, Goto(s, stp), rq) /\ obj' = [obj EXCEPT ![s] = None]
          /\ UNCHANGED <<lru, objcore, parent, nbusyobj, stream, taken, purging>>
      BY <1>4, <2>1 DEF DerefObj
    <2>3. /\ <<"obj", s>> \in Holders(c)
          /\ Holders(c)' = Holders(c) \ {<<"obj", s>>}
          /\ \A d \in OCs : d # c => Holders(d)' = Holders(d)
      BY <1>0, <2>1, <2>2 DEF Holders, Tokens, Threads, TypeOK
    <2>4. "nostorage" \notin Faults => objcore[s] = None
      BY <1>0, <1>4 DEF Holds, NoObjSteps
    <2>5. obj'[s] = None /\ \A x \in Sessions \ {s} : obj'[x] = obj[x]
      BY <1>0, <2>2 DEF TypeOK
    <2>6. Releases(s, c, <<"obj", s>>, Goto(s, stp), rq)
      BY <1>1, <1>2, <2>2, <2>3, <2>4, <2>5 DEF Releases, SameFlags
    <2> QED BY <1>0, <2>6, ReleaseStep
  <1>5. CASE DerefObjcore(s, stp, rq) /\ objcore[s] # None /\ obj[s] = None
    <2>1. PICK c \in OCs : c = objcore[s]
      BY <1>0, <1>5 DEF TypeOK
    <2>2. /\ HSH_Deref(s, c, Goto(s, stp), rq) /\ objcore' = [objcore EXCEPT ![s] = None]
          /\ UNCHANGED <<lru, obj, parent, nbusyobj, stream, taken, purging>>
      BY <1>5, <2>1 DEF DerefObjcore
    <2>3. /\ <<"objcore", s>> \in Holders(c)
          /\ Holders(c)' = Holders(c) \ {<<"objcore", s>>}
          /\ \A d \in OCs : d # c => Holders(d)' = Holders(d)
      BY <1>0, <2>1, <2>2 DEF Holders, Tokens, Threads, TypeOK
    <2>5. objcore'[s] = None /\ \A x \in Sessions \ {s} : objcore'[x] = objcore[x]
      BY <1>0, <2>2 DEF TypeOK
    <2>6. Releases(s, c, <<"objcore", s>>, Goto(s, stp), rq)
      BY <1>1, <1>2, <1>5, <2>2, <2>3, <2>5 DEF Releases, SameFlags
    <2> QED BY <1>0, <2>6, ReleaseStep
  <1> QED BY <1>3, <1>4, <1>5

\* ... and of what HSH_Purge, exp_timer and EXP_NukeOne hold.
LEMMA DerefTaken ==
    ASSUME IInv, Extra, NEW t \in Threads,
           (t \in Sessions /\ HSH_Purge_one(t)) \/ TakenDeref(t)
    PROVE  Extra'
  <1>0. /\ TypeOK /\ RushArgs(step, req) /\ None \notin OCs
    BY ConstantsAreDistinct DEF IInv, TypeOK, RushArgs
  <1>1. CASE t \in Sessions /\ HSH_Purge_one(t)
    <2>1. PICK c \in purging[t] :
             /\ purging' = [purging EXCEPT ![t] = @ \ {c}]
             /\ HSH_Deref(t, c, step, req)
      BY <1>1 DEF HSH_Purge_one
    <2>2. c \in OCs /\ UNCHANGED <<lru, objcore, obj, parent, nbusyobj, stream, taken>>
      BY <1>0, <1>1, <2>1 DEF HSH_Purge_one, TypeOK
    <2>3. /\ <<"purge", t>> \in Holders(c)
          /\ Holders(c)' = Holders(c) \ {<<"purge", t>>}
          /\ \A d \in OCs : d # c => Holders(d)' = Holders(d)
      BY <1>0, <1>1, <2>1, <2>2 DEF Holders, Tokens, Threads, TypeOK
    <2>4. Releases(t, c, <<"purge", t>>, step, req)
      BY <1>0, <2>1, <2>2, <2>3 DEF Releases
    <2> QED BY <2>2, <2>4, ReleaseStep
  <1>2. CASE TakenDeref(t)
    <2>1. PICK c \in OCs : c = taken[t]
      BY <1>0, <1>2 DEF TakenDeref, TypeOK
    <2>2. /\ HSH_Deref(t, c, step, req) /\ taken' = [taken EXCEPT ![t] = None]
          /\ UNCHANGED <<lru, objcore, obj, parent, nbusyobj, stream, purging>>
      BY <1>2, <2>1 DEF TakenDeref
    <2>3. /\ <<"taken", t>> \in Holders(c)
          /\ Holders(c)' = Holders(c) \ {<<"taken", t>>}
          /\ \A d \in OCs : d # c => Holders(d)' = Holders(d)
      BY <1>0, <2>1, <2>2 DEF Holders, Tokens, Threads, TypeOK
    <2>4. Releases(t, c, <<"taken", t>>, step, req)
      BY <1>0, <2>2, <2>3 DEF Releases
    <2> QED BY <2>4, ReleaseStep
  <1> QED BY <1>1, <1>2

\* A restart, and the end of a response, leave the hash flags alone.
LEMMA FlagsKept ==
    ASSUME TypeOK, NEW s \in Sessions
    PROVE  SameFlags(req) /\ SameFlags(Restarted(s)) /\ SameFlags([req EXCEPT ![s].restarts = 0])
  <1>1. req \in [Sessions -> Requests]
    BY DEF TypeOK
  <1>2. SameFlags(Restarted(s))
    BY <1>1 DEF SameFlags, Restarted, Requests
  <1>3. SameFlags([req EXCEPT ![s].restarts = 0])
    BY <1>1 DEF SameFlags, Requests
  <1> QED BY <1>2, <1>3 DEF SameFlags

\* The session s goes on to the step stp with all it has.
LEMMA GoesOn ==
    ASSUME IInv, Extra, NEW s \in Sessions, NEW stp,
           step' = Goto(s, stp), SameFlags(req'), \A x \in Sessions \ {s} : req'[x] = req[x],
           UNCHANGED <<objcs, ohref, waiters, alive, refcnt, head, busy, hfp, hasobj>>,
           UNCHANGED <<vary, lru, objcore, obj, parent, hoh, nbusyobj, stream>>,
           UNCHANGED <<taken, dying, purging>>,
           step[s] \notin {"WAITING", "UNBUSY"},
           stp \notin {"WAITING", "UNBUSY", "HITREF", "HITPASS", "HIT"},
           stp = "DROP" => obj[s] \in busy \cup {PassObj},
           FetchesEnd =>
              /\ stp = "ERROR" => objcore[s] = None
              /\ stp = "DELIVER" \/ (stp = "PREPRESP" /\ ~stream[s]) => obj[s] \notin busy
    PROVE  Extra'
  <1>1. step \in [Sessions -> Steps] /\ ReqInv /\ HasInv /\ SpareInv
    BY DEF IInv, TypeOK, Extra
  <1>2. step'[s] = stp /\ \A x \in Sessions \ {s} : step'[x] = step[x]
    BY <1>1 DEF Goto
  <1>3. \A c : Handed(c)
    BY HoldersKept DEF Handed
  <1>4. FetchesEnd => Spare(s)'
    BY <1>1, <1>2 DEF SpareInv, Spare
  <1>5. Quiet(s)
    BY <1>1, <1>2, <1>3, <1>4 DEF Quiet, ReqInv, HasInv, SameFlags
  <1> QED BY <1>5, QuietStep

\* The steps that may drop the session's object or objcore.
LEMMA DroppingMore ==
    ASSUME IInv, Extra, NEW s \in Sessions,
           \/ cnt_hit(s) \/ cnt_lookup_hitpass(s) \/ cnt_miss(s)
           \/ cnt_fetch_cleanup(s) \/ cnt_prepresp(s) \/ cnt_deliver(s)
           \/ HSH_Drop_Deref(s)
    PROVE  Extra'
  <1> USE DEF At, headVars, ocVars, sessVars, threadVars
  <1>0. /\ TypeOK /\ Holds(s) /\ ReqOK(s) /\ Sole(s) /\ HitInv /\ SpareInv
        /\ MaxRestarts \in Nat /\ req \in [Sessions -> Requests]
        /\ obj[s] \in OCs \cup {PassObj, None}
    BY ParamsAreSane DEF IInv, SessInv, SoleInv, TypeOK, Extra
  <1> DEFINE Rq(stp) == IF stp = "RECV" THEN Restarted(s) ELSE req
  <1>8. ASSUME NEW stp, req[s].restarts < MaxRestarts
        PROVE  /\ Rq(stp) \in [Sessions -> Requests] /\ SameFlags(Rq(stp))
               /\ \A x \in Sessions \ {s} : Rq(stp)[x] = req[x]
    BY <1>0, <1>8, RestartFacts, FlagsKept
  <1>9. SameFlags(req)
    BY <1>0, FlagsKept
  <1>1. CASE cnt_hit(s)
    <2>1. CASE /\ step' = Goto(s, "PREPRESP")
               /\ UNCHANGED <<headVars, ocVars, req, objcore, obj, parent, hoh,
                              nbusyobj, stream, ret, threadVars>>
      <3>1. step[s] = "HIT" /\ obj[s] \notin busy
        BY <1>0, <1>1 DEF cnt_hit, HitInv
      <3> QED BY <1>9, <2>1, <3>1, GoesOn
    <2>2. ASSUME NEW stp \in Exits({"PASS", "ERROR", "RECV"}), DerefObj(s, stp, Rq(stp))
          PROVE  Extra'
      <3>1. stp \in {"PASS", "ERROR", "RECV"} /\ step[s] = "HIT"
        BY <1>1 DEF cnt_hit, Exits
      <3>2. obj[s] # None /\ req[s].restarts < MaxRestarts
        BY <1>0, <3>1 DEF Holds, NoObjSteps, ReqOK
      <3> HIDE DEF Rq
      <3> QED BY <1>8, <2>2, <3>1, <3>2, DerefPointer
    <2> QED BY <1>1, <2>1, <2>2 DEF cnt_hit
  <1>2. CASE cnt_lookup_hitpass(s)
    <2>1. step[s] = "HITPASS" /\ DerefObj(s, "PASS", req)
      BY <1>2 DEF cnt_lookup_hitpass
    <2>2. obj[s] # None
      BY <1>0, <2>1 DEF Holds, NoObjSteps
    <2> QED BY <1>0, <1>9, <2>1, <2>2, DerefPointer
  <1>3. CASE cnt_miss(s)
    <2>0. step[s] = "MISS" /\ obj[s] = None /\ objcore[s] # None
      BY <1>0, <1>3 DEF cnt_miss, Holds, NoObjSteps
    <2>1. CASE /\ step' = Goto(s, "FETCH")
               /\ UNCHANGED <<headVars, ocVars, req, objcore, obj, parent, hoh,
                              nbusyobj, stream, ret, threadVars>>
      BY <1>9, <2>0, <2>1, GoesOn
    <2>2. ASSUME NEW stp \in Exits({"PASS", "ERROR"}), DerefObjcore(s, stp, req)
          PROVE  Extra'
      <3>1. stp \in {"PASS", "ERROR"}
        BY DEF Exits
      <3> QED BY <1>0, <1>9, <2>0, <2>2, <3>1, DerefPointer
    <2> QED BY <1>3, <2>1, <2>2 DEF cnt_miss
  <1>4. CASE cnt_fetch_cleanup(s)
    <2>0. step[s] = "FETCH" /\ obj[s] = None /\ req[s].restarts < MaxRestarts
      BY <1>0, <1>4 DEF cnt_fetch_cleanup, Holds, NoObjSteps, ReqOK
    <2>1. PICK stp \in {"ERROR", "RECV"} :
             IF objcore[s] # None
             THEN DerefObjcore(s, stp, Rq(stp))
             ELSE /\ step' = Goto(s, stp)
                  /\ req' = Rq(stp)
                  /\ UNCHANGED <<headVars, ocVars, objcore, obj, parent, hoh, nbusyobj, stream, ret, threadVars>>
      BY <1>4 DEF cnt_fetch_cleanup, Exits
    <2> HIDE DEF Rq
    <2>2. CASE objcore[s] # None
      BY <1>8, <2>0, <2>1, <2>2, DerefPointer
    <2>3. CASE objcore[s] = None
      <3>1. /\ step' = Goto(s, stp) /\ req' = Rq(stp)
            /\ UNCHANGED <<headVars, ocVars, objcore, obj, parent, hoh, nbusyobj, stream, ret, threadVars>>
        BY <2>1, <2>3
      <3>2. SameFlags(req') /\ \A x \in Sessions \ {s} : req'[x] = req[x]
        BY <1>8, <2>0, <3>1
      <3> QED BY <2>0, <2>3, <3>1, <3>2, GoesOn
    <2> QED BY <2>2, <2>3
  <1>5. CASE cnt_prepresp(s)
    <2>0. step[s] = "PREPRESP" /\ obj[s] # None
      BY <1>0, <1>5 DEF cnt_prepresp, Holds, NoObjSteps
    <2>1. CASE /\ step' = Goto(s, IF stream[s] THEN "STREAMBODY" ELSE "DELIVER")
               /\ UNCHANGED <<headVars, ocVars, req, objcore, obj, parent, hoh,
                              nbusyobj, stream, ret, threadVars>>
      <3>1. PICK stp : stp = (IF stream[s] THEN "STREAMBODY" ELSE "DELIVER") /\ step' = Goto(s, stp)
        BY <2>1
      <3>2. FetchesEnd /\ stp = "DELIVER" => obj[s] \notin busy
        BY <1>0, <2>0, <3>1 DEF SpareInv, Spare
      <3> QED BY <1>9, <2>0, <2>1, <3>1, <3>2, GoesOn
    <2>2. CASE /\ req[s].restarts < MaxRestarts /\ stream[s]
               /\ step' = Goto(s, "DROP") /\ req' = Restarted(s)
               /\ UNCHANGED <<headVars, ocVars, objcore, obj, parent, hoh,
                              nbusyobj, stream, threadVars>>
      <3>1. obj[s] \in busy \cup {PassObj}
        BY <1>0, <2>0, <2>2 DEF Sole, Fetching
      <3>2. SameFlags(req') /\ \A x \in Sessions \ {s} : req'[x] = req[x]
        BY <1>0, <2>2, RestartFacts, FlagsKept
      <3> QED BY <2>0, <2>2, <3>1, <3>2, GoesOn
    <2>3. CASE req[s].restarts < MaxRestarts /\ DerefObj(s, "RECV", Restarted(s))
      <3>1. /\ Restarted(s) \in [Sessions -> Requests] /\ SameFlags(Restarted(s))
            /\ \A x \in Sessions \ {s} : Restarted(s)[x] = req[x]
        BY <1>0, <2>3, RestartFacts, FlagsKept
      <3> QED BY <2>0, <2>3, <3>1, DerefPointer
    <2> QED BY <1>5, <2>1, <2>2, <2>3 DEF cnt_prepresp
  <1>6. CASE cnt_deliver(s)
    <2>1. /\ step[s] \in {"DELIVER", "STREAMED"}
          /\ DerefObj(s, "DONE", [req EXCEPT ![s].restarts = 0])
      BY <1>6 DEF cnt_deliver
    <2>2. obj[s] # None
      BY <1>0, <2>1 DEF Holds, NoObjSteps
    <2>3. PICK rq \in [Sessions -> Requests] :
             /\ rq = [req EXCEPT ![s].restarts = 0] /\ SameFlags(rq)
             /\ \A x \in Sessions \ {s} : rq[x] = req[x]
      BY <1>0, RestartFacts, FlagsKept
    <2> QED BY <2>1, <2>2, <2>3, DerefPointer
  <1>7. CASE HSH_Drop_Deref(s)
    <2>1. step[s] = "DROPPED" /\ DerefObj(s, ret[s], req)
      BY <1>7 DEF HSH_Drop_Deref
    <2>2. obj[s] # None /\ ret[s] \in {"RECV", "ERROR"}
      BY <1>0, <2>1 DEF Holds, NoObjSteps, ReqOK
    <2>3. PICK stp \in {"RECV", "ERROR"} : stp = ret[s]
      BY <2>2
    <2> QED BY <1>0, <1>9, <2>1, <2>2, <2>3, DerefPointer
  <1> QED BY <1>1, <1>2, <1>3, <1>4, <1>5, <1>6, <1>7

-----------------------------------------------------------------------------
(***************************************************************************)
(* The life of a busy objcore.                                             *)
(***************************************************************************)

\* A fetched objcore that is held is held by this pointer alone.
LEMMA SoleHolder ==
    ASSUME OwnInv, NEW c \in busy, NEW k \in Holders(c), k[1] # "lru"
    PROVE  \A l \in Holders(c) : l[1] # "lru" => l = k
  BY DEF OwnInv, Owned

\* HSH_Unbusy moves the objcore from among the busy ones to the front.
LEMMA UnbusyMore ==
    ASSUME IInv, Extra, NEW s \in Sessions, obj[s] \in OCs,
           step[s] \in {"UNBUSY", "DROP"}, NEW ph, NEW v,
           NEW stp \in {"PREPRESP", "STREAMED", "DROPPED"},
           HSH_Unbusy(s, stp, ph, v)
    PROVE  Extra'
  <1>0. /\ TypeOK /\ ListInv /\ WaitInv /\ Holds(s)
        /\ PassObj \notin OCs /\ None \notin OCs
        /\ objcs \in [Heads -> Seq(OCs)] /\ busy \subseteq OCs
        /\ vary \in [OCs -> Variants \cup {NoVary}] /\ nbusyobj \in [Sessions -> BOOLEAN]
        /\ HasInv /\ HitInv /\ ParkInv /\ OwnInv /\ BusyAtTail /\ ReqInv
        /\ Coalesced /\ SpareInv /\ OhInv /\ WakeInv
    BY ConstantsAreDistinct DEF IInv, SessInv, Extra, TypeOK
  <1>1. PICK c \in OCs : c = obj[s]
    OBVIOUS
  <1>2. c \in busy /\ <<"obj", s>> \in Holders(c)
    BY <1>0, <1>1 DEF OwnInv, Holders, Tokens, Threads
  <1>3. refcnt[c] > 0 /\ c \in alive /\ head[c] \in Heads
    BY <1>2, HeldFacts
  <1>4. /\ objcs' = [objcs EXCEPT ![head[c]] = <<c>> \o Without(@, c)]
        /\ busy' = busy \ {c}
        /\ vary' = [vary EXCEPT ![c] = v]
        /\ nbusyobj' = [nbusyobj EXCEPT ![s] = TRUE]
        /\ hsh_rush(head[c], Goto(s, stp), req)
        /\ UNCHANGED <<ohref, alive, refcnt, head, hfp, hasobj, lru, objcore, obj>>
        /\ UNCHANGED <<parent, stream, taken, dying, purging>>
    BY <1>1 DEF HSH_Unbusy, threadVars
  <1>5. /\ RushArgs(Goto(s, stp), req)
        /\ \A x \in Sessions : Goto(s, stp)[x] = IF x = s THEN stp ELSE step[x]
    BY <1>0 DEF RushArgs, Goto, TypeOK, Steps
  <1>6. \A x \in Sessions :
           \/ /\ step'[x] = IF x = s THEN stp ELSE step[x]
              /\ req'[x] = req[x] /\ hoh'[x] = hoh[x]
           \/ /\ step[x] = "WAITING" /\ step'[x] = "LOOKUP"
              /\ req'[x] = req[x] /\ hoh'[x] = hoh[x]
           \/ /\ step[x] = "WAITING" /\ step'[x] = "IDLE"
              /\ req'[x] = NoReq /\ hoh'[x] = None
    <2>1. Rushed(Goto(s, stp), req)
      BY <1>0, <1>3, <1>4, <1>5, RushFacts
    <2> QED BY <1>5, <2>1 DEF Rushed
  <1>7. /\ ParkInv'
        /\ \A g \in Heads \ {head[c]} : waiters'[g] = waiters[g]
        /\ waiters'[head[c]] # <<>> => waiters[head[c]] # <<>>
        /\ "drop" \notin Faults =>
              /\ hoh' = hoh
              /\ waiters[head[c]] # <<>> =>
                    \E x \in Sessions : step'[x] = "LOOKUP" /\ hoh'[x] = head[c]
    BY <1>0, <1>3, <1>4, <1>5, RushMore
  <1>8. \A d : Holders(d)' = Holders(d)
    BY <1>4, HoldersKept
  <1>9. HasInv'
    BY <1>0, <1>1, <1>4 DEF HasInv
  <1>10. HitInv'
    BY <1>0, <1>4, <1>6 DEF HitInv
  <1>11. OwnInv'
    <2>1. \A d \in busy' : Owned(d)'
      BY <1>0, <1>4, <1>8 DEF OwnInv, Owned
    <2>2. \A d \in busy' \cap lru : \E x \in Sessions : step'[x] = "UNBUSY" /\ obj[x] = d
      BY <1>0, <1>1, <1>4, <1>6 DEF OwnInv
    <2>3. ASSUME NEW x \in Sessions, step'[x] \in {"UNBUSY", "DROP"}
          PROVE  obj[x] \in busy' \cup {PassObj}
      <3>1. x # s /\ step[x] \in {"UNBUSY", "DROP"}
        BY <1>6, <2>3
      <3>2. obj[x] # c
        <4> SUFFICES ASSUME obj[x] = c PROVE FALSE
          OBVIOUS
        <4>1. <<"obj", x>> \in Holders(c)
          BY <1>0 DEF Holders, Tokens, Threads
        <4>2. <<"obj", x>> = <<"obj", s>>
          BY <1>0, <1>2, <4>1, SoleHolder
        <4> QED BY <3>1, <4>2
      <3> QED BY <1>0, <1>4, <3>1, <3>2 DEF OwnInv
    <2> QED BY <1>4, <2>1, <2>2, <2>3 DEF OwnInv
  <1>12. BusyAtTail'
    <2> DEFINE q == objcs[head[c]]
               w == Without(q, c)
               r == <<c>> \o w
    <2>1. q \in Seq(OCs) /\ \E p \in DOMAIN q : q[p] = c
      BY <1>0, <1>3 DEF ListInv
    <2>2. \A i, j \in DOMAIN q : q[i] = q[j] => i = j
      BY <1>0, <1>3 DEF ListInv
    <2>3. /\ w \in Seq(OCs)
          /\ \A i \in DOMAIN w : w[i] # c
          /\ \A i, j \in DOMAIN w : i < j =>
                \E a, b \in DOMAIN q : a < b /\ w[i] = q[a] /\ w[j] = q[b]
      <3> HIDE DEF q
      <3> QED BY <2>1, <2>2, WithoutOrder, WithoutFacts
    <2>4. \A i, j \in DOMAIN q : i < j /\ q[i] \in busy => q[j] \in busy
      BY <1>0, <1>3 DEF BusyAtTail
    <2>5. \A g \in Heads : objcs'[g] = IF g = head[c] THEN r ELSE objcs[g]
      BY <1>0, <1>3, <1>4
    <2> HIDE DEF q, w
    <2>6. \A i, j \in DOMAIN w : i < j /\ w[i] \in busy' => w[j] \in busy'
      BY <1>4, <2>3, <2>4
    <2>7. /\ r[1] = c
          /\ \A i \in DOMAIN r : i \in Nat /\ (i = 1 \/ (i - 1 \in DOMAIN w /\ r[i] = w[i - 1]))
      <3>1. /\ r \in Seq(OCs) /\ Len(w) \in Nat /\ DOMAIN w = 1..Len(w)
            /\ DOMAIN r = 1..(Len(w) + 1)
        BY <2>3
      <3>2. r[1] = c
        BY <3>1
      <3>3. \A i \in DOMAIN r : i = 1 \/ (i - 1 \in DOMAIN w /\ r[i] = w[i - 1])
        BY <2>3, <3>1
      <3> QED BY <3>1, <3>2, <3>3
    <2> HIDE DEF r
    <2>8. \A i, j \in DOMAIN r : i < j /\ r[i] \in busy' => r[j] \in busy'
      <3> SUFFICES ASSUME NEW i \in DOMAIN r, NEW j \in DOMAIN r, i < j, r[i] \in busy'
                   PROVE  r[j] \in busy'
        OBVIOUS
      <3>1. i # 1 /\ i \in Nat /\ j \in Nat
        BY <1>4, <2>7
      <3>2. DOMAIN r \subseteq Nat \ {0} /\ j # 1 /\ i - 1 < j - 1
        BY <1>1, <2>3, <3>1 DEF r
      <3>3. i - 1 \in DOMAIN w /\ j - 1 \in DOMAIN w /\ r[i] = w[i - 1] /\ r[j] = w[j - 1]
        BY <2>7, <3>1, <3>2
      <3> QED BY <2>6, <3>2, <3>3
    <2>9. ASSUME NEW g \in Heads, g # head[c], NEW i \in DOMAIN objcs[g],
                 NEW j \in DOMAIN objcs[g], i < j, objcs[g][i] \in busy'
          PROVE  objcs[g][j] \in busy'
      <3>1. objcs[g][j] # c
        BY <1>0, <2>9 DEF ListInv
      <3> QED BY <1>0, <1>4, <2>9, <3>1 DEF BusyAtTail
    <2> QED BY <2>5, <2>8, <2>9 DEF BusyAtTail
  <1>13. ReqInv'
    <2>1. NoReq.miss = FALSE /\ NoReq.ignore = FALSE
      BY DEF NoReq
    <2> QED BY <1>0, <1>6, <2>1 DEF ReqInv
  <1>14. Coalesced'
    <2>1. \A d \in busy' : vary'[d] = vary[d] /\ d \in busy
      BY <1>0, <1>4
    <2> QED BY <1>0, <1>4, <2>1 DEF Coalesced
  <1>15. SpareInv'
    <2> SUFFICES ASSUME FetchesEnd, NEW x \in Sessions PROVE Spare(x)'
      BY DEF SpareInv
    <2>1. Spare(x) /\ (x = s => objcore[x] = None)
      BY <1>0 DEF SpareInv, Holds, FetchesEnd
    <2>2. x # s => nbusyobj'[x] = nbusyobj[x]
      BY <1>0, <1>4
    <2>3. step'[x] \in {"ERROR", "DELIVER", "PREPRESP"} => x = s \/ step'[x] = step[x]
      BY <1>6
    <2> QED BY <1>1, <1>4, <1>6, <2>1, <2>2, <2>3 DEF Spare
  <1>16. OhInv'
    BY <1>0, <1>4, <1>7, OhKept
  <1>17. WakeInv'
    <2> SUFFICES ASSUME "drop" \notin Faults, "nostorage" \notin Faults,
                        NEW g \in Heads, waiters'[g] # <<>>
                 PROVE  HasWaker(g)'
      BY DEF WakeInv
    <2>1. CASE g = head[c]
      BY <1>7, <2>1 DEF HasWaker
    <2>2. CASE g # head[c]
      <3>1. HasWaker(g)
        BY <1>0, <1>7, <2>2 DEF WakeInv
      <3>2. ASSUME NEW x \in Sessions, hoh[x] = g, step[x] # "WAITING"
            PROVE  HasWaker(g)'
        BY <1>6, <1>7, <3>2 DEF HasWaker
      <3>3. ASSUME NEW d \in OCs, head[d] = g, NEW l \in Holders(d), l[1] # "lru"
            PROVE  HasWaker(g)'
        BY <1>4, <1>8, <3>3 DEF HasWaker
      <3> QED BY <3>1, <3>2, <3>3 DEF HasWaker
    <2> QED BY <2>1, <2>2
  <1> QED BY <1>7, <1>9, <1>10, <1>11, <1>12, <1>13, <1>14, <1>15, <1>16, <1>17 DEF Extra

\* The steps that make an object visible or kill it.
LEMMA UnbusyingMore ==
    ASSUME IInv, Extra, NEW s \in Sessions, Unbusy(s) \/ HSH_Drop(s)
    PROVE  Extra'
  <1> USE DEF At, headVars, ocVars, threadVars
  <1>0. /\ TypeOK /\ Holds(s) /\ ReqOK(s) /\ obj[s] \in OCs \cup {PassObj, None}
    BY DEF IInv, SessInv, TypeOK
  <1>1. CASE Unbusy(s)
    <2>1. PICK ph \in {"fresh", "dead"}, v \in {NoVary, req[s].variant} \ {None} :
             HSH_Unbusy(s, ret[s], ph, v)
      BY <1>1 DEF Unbusy
    <2>2. step[s] = "UNBUSY" /\ obj[s] \in OCs /\ ret[s] \in {"PREPRESP", "STREAMED"}
      BY <1>0, <1>1 DEF Unbusy, Holds, ReqOK
    <2>3. PICK stp \in {"PREPRESP", "STREAMED"} : stp = ret[s]
      BY <2>2
    <2> QED BY <2>1, <2>2, <2>3, UnbusyMore
  <1>2. CASE HSH_Drop(s)
    <2>1. step[s] = "DROP" /\ obj[s] # None
      BY <1>0, <1>2 DEF HSH_Drop, Holds, NoObjSteps
    <2>2. CASE obj[s] = PassObj
      <3>1. /\ step' = Goto(s, "DROPPED")
            /\ UNCHANGED <<headVars, ocVars, req, objcore, obj, parent, hoh,
                           nbusyobj, stream, threadVars>>
        BY <1>2, <2>2 DEF HSH_Drop
      <3>2. SameFlags(req') /\ \A x \in Sessions \ {s} : req'[x] = req[x]
        BY <1>0, <3>1, FlagsKept
      <3> QED BY <2>1, <3>1, <3>2, GoesOn
    <2>3. CASE obj[s] # PassObj
      <3>1. HSH_Unbusy(s, "DROPPED", "dead", vary[obj[s]])
        BY <1>2, <2>3 DEF HSH_Drop
      <3> QED BY <1>0, <2>1, <2>3, <3>1, UnbusyMore
    <2> QED BY <2>2, <2>3
  <1> QED BY <1>1, <1>2

\* EXP_Insert gives the LRU list a reference on the object that was fetched.
LEMMA InsertingMore ==
    ASSUME IInv, Extra, NEW s \in Sessions, FetchBody_ok(s)
    PROVE  Extra'
  <1> USE DEF At, headVars, ocVars, sessVars, threadVars
  <1>0. /\ TypeOK /\ Holds(s) /\ Sole(s) /\ obj[s] \in OCs \cup {PassObj, None}
        /\ step \in [Sessions -> Steps] /\ refcnt \in [OCs -> Nat] /\ busy \subseteq OCs
        /\ PassObj \notin OCs /\ None \notin OCs
        /\ HasInv /\ HitInv /\ ParkInv /\ OwnInv /\ BusyAtTail /\ ReqInv
        /\ Coalesced /\ SpareInv /\ OhInv /\ WakeInv
    BY ConstantsAreDistinct DEF IInv, SessInv, SoleInv, TypeOK, Extra
  <1>1. step[s] \in {"BODY", "STREAMBODY"} /\ obj[s] # None
    BY <1>0 DEF FetchBody_ok, Holds, NoObjSteps
  <1>2. CASE obj[s] = PassObj
    <2>1. PICK stp \in {"PREPRESP", "STREAMED"} :
             step' = Goto(s, stp) /\ UNCHANGED <<headVars, ocVars, ret>>
      BY <1>2 DEF FetchBody_ok
    <2>2. UNCHANGED <<req, objcore, obj, parent, hoh, nbusyobj, stream, threadVars>>
      BY DEF FetchBody_ok
    <2>3. SameFlags(req') /\ \A x \in Sessions \ {s} : req'[x] = req[x]
      BY <1>0, <2>2, FlagsKept
    <2>4. obj[s] \notin busy
      BY <1>0, <1>2
    <2> QED BY <1>1, <2>1, <2>2, <2>3, <2>4, GoesOn
  <1>3. CASE obj[s] # PassObj
    <2>1. PICK c \in OCs : c = obj[s]
      BY <1>0, <1>1, <1>3
    <2>2. /\ refcnt' = [refcnt EXCEPT ![c] = @ + 1]
          /\ lru' = lru \cup {c}
          /\ step' = Goto(s, "UNBUSY")
          /\ UNCHANGED <<headVars, alive, head, busy, hfp, hasobj, phase, vary>>
          /\ UNCHANGED <<req, objcore, obj, parent, hoh, nbusyobj, stream, threadVars>>
      BY <1>3, <2>1 DEF FetchBody_ok, EXP_Insert
    <2>3. step'[s] = "UNBUSY" /\ \A x \in Sessions \ {s} : step'[x] = step[x]
      BY <1>0, <2>2 DEF Goto
    <2>4. c \in busy /\ refcnt[c] = 1
      BY <1>0, <1>1, <2>1 DEF Sole, Fetching
    <2>5. /\ \A d \in OCs : d # c => Holders(d)' = Holders(d)
          /\ Holders(c)' = Holders(c) \cup {<<"lru", Timer>>}
      BY <1>0, <2>2 DEF Holders, Tokens, Threads, TypeOK
    <2>6. HasInv'
      <3>1. c \in hasobj
        BY <1>0, <2>1 DEF HasInv
      <3>2. \A d \in OCs : d # c => refcnt'[d] = refcnt[d]
        BY <1>0, <2>2
      <3> QED BY <1>0, <2>2, <3>1, <3>2 DEF HasInv
    <2>7. HitInv' /\ ParkInv' /\ ReqInv'
      BY <1>0, <1>1, <2>2, <2>3 DEF HitInv, ParkInv, ReqInv, Elems
    <2>8. OwnInv'
      <3>1. ASSUME NEW d \in busy PROVE Owned(d)'
        <4>1. Owned(d) /\ d \in OCs
          BY <1>0 DEF OwnInv
        <4>2. CASE d = c
          <5>1. \A k \in Holders(d)' : k \in Holders(d) \/ k[1] = "lru"
            BY <2>5, <4>2
          <5> QED BY <4>1, <5>1 DEF Owned
        <4>3. CASE d # c
          BY <2>5, <4>1, <4>3 DEF Owned
        <4> QED BY <4>2, <4>3
      <3>2. \A d \in busy \cap lru' : \E x \in Sessions : step'[x] = "UNBUSY" /\ obj[x] = d
        BY <1>0, <1>1, <2>1, <2>2, <2>3 DEF OwnInv
      <3>3. \A x \in Sessions : step'[x] \in {"UNBUSY", "DROP"} => obj[x] \in busy \cup {PassObj}
        BY <1>0, <2>1, <2>3, <2>4 DEF OwnInv
      <3> QED BY <2>2, <3>1, <3>2, <3>3 DEF OwnInv
    <2>9. BusyAtTail'
      BY <1>0, <2>2 DEF BusyAtTail
    <2>10. Coalesced'
      <3>1. \A d \in OCs : refcnt'[d] > 0 => refcnt[d] > 0
        BY <1>0, <2>2, <2>4
      <3> QED BY <1>0, <2>2, <3>1 DEF Coalesced
    <2>11. SpareInv'
      BY <1>0, <2>2, <2>3 DEF SpareInv, Spare
    <2>12. OhInv'
      BY <1>0, <2>2, OhKept
    <2>13. WakeInv'
      <3>1. \A d \in OCs : Holders(d) \subseteq Holders(d)'
        BY <2>5
      <3>2. \A g \in Heads : HasWaker(g) => HasWaker(g)'
        BY <1>1, <2>2, <2>3, <3>1 DEF HasWaker
      <3> QED BY <1>0, <2>2, <3>2 DEF WakeInv
    <2> QED BY <2>6, <2>7, <2>8, <2>9, <2>10, <2>11, <2>12, <2>13 DEF Extra
  <1> QED BY <1>2, <1>3

\* Making an object out of sp->objcore, and the object around an ESI include,
\* pass a reference on; so does the end of an include.
LEMMA HandingMore ==
    ASSUME IInv, Extra, NEW s \in Sessions,
           cnt_fetchbody(s) \/ cnt_error(s) \/ ESI_include(s) \/ cnt_done(s)
    PROVE  Extra'
  <1> USE DEF At, headVars, ocVars, threadVars
  <1>0. /\ TypeOK /\ Holds(s) /\ ReqOK(s) /\ Sole(s) /\ MaxRestarts \in Nat
        /\ s \in Threads /\ busy \subseteq OCs
        /\ PassObj \notin OCs /\ None \notin OCs /\ None # PassObj
        /\ FetchesEnd => Spare(s) /\ "nostorage" \notin Faults
        /\ {obj[s], parent[s]} \cap OCs \subseteq hasobj
        /\ req[s].miss => "always_miss" \in Vcl
        /\ req[s].ignore => "ignore_busy" \in Vcl
        /\ obj \in [Sessions -> OCs \cup {PassObj, None}]
        /\ parent \in [Sessions -> OCs \cup {PassObj, None}]
        /\ objcore \in [Sessions -> OCs \cup {None}]
        /\ step \in [Sessions -> Steps] /\ req \in [Sessions -> Requests]
        /\ stream \in [Sessions -> BOOLEAN] /\ nbusyobj \in [Sessions -> BOOLEAN]
    BY ConstantsAreDistinct, ParamsAreSane
       DEF IInv, SessInv, SoleInv, Threads, Extra, SpareInv, HasInv, ReqInv, TypeOK, FetchesEnd
  <1>1. \A stp : \A x \in Sessions : Goto(s, stp)[x] = IF x = s THEN stp ELSE step[x]
    BY <1>0 DEF Goto
  \* STV_MkObject at a step without an object.
  <1>2. ASSUME STV_MkObject(s), obj[s] = None, UNCHANGED <<parent, lru, taken, purging>>
        PROVE  /\ \A c \in OCs : Handed(c)
               /\ objcore'[s] = None
               /\ obj'[s] = IF objcore[s] = None THEN PassObj ELSE objcore[s]
               /\ \A x \in Sessions \ {s} : UNCHANGED <<objcore[x], obj[x], parent[x]>>
               /\ hasobj \subseteq hasobj'
               /\ {obj'[s], parent'[s]} \cap OCs \subseteq hasobj'
               /\ obj'[s] \in busy \cup {PassObj}
    <2>1. /\ obj' = [obj EXCEPT ![s] = IF objcore[s] = None THEN PassObj ELSE objcore[s]]
          /\ hasobj' = hasobj \cup ({objcore[s]} \ {None})
          /\ objcore' = [objcore EXCEPT ![s] = None]
          /\ UNCHANGED <<parent, lru, taken, purging>>
      BY <1>2 DEF STV_MkObject
    <2>2. ASSUME NEW c \in OCs PROVE Handed(c)
      <3>1. CASE c = objcore[s]
        <4>1. <<"objcore", s>> \in Holders(c) /\ <<"obj", s>> \in Tokens
          BY <1>0, <3>1 DEF Holders, Tokens
        <4>2. Holders(c)' = (Holders(c) \ {<<"objcore", s>>}) \cup {<<"obj", s>>}
          BY <1>0, <1>2, <2>1, <3>1 DEF Holders, Tokens, Threads
        <4> QED BY <4>1, <4>2 DEF Handed
      <3>2. CASE c # objcore[s]
        <4>1. Holders(c)' = Holders(c)
          BY <1>0, <1>2, <2>1, <3>2 DEF Holders, Tokens, Threads
        <4> QED BY <4>1 DEF Handed
      <3> QED BY <3>1, <3>2
    <2>3. /\ objcore'[s] = None
          /\ obj'[s] = IF objcore[s] = None THEN PassObj ELSE objcore[s]
          /\ \A x \in Sessions \ {s} : UNCHANGED <<objcore[x], obj[x], parent[x]>>
      BY <1>0, <2>1
    <2>4. obj'[s] \in busy \cup {PassObj}
      BY <1>0, <2>3 DEF Sole
    <2>5. {obj'[s], parent'[s]} \cap OCs \subseteq hasobj'
      BY <1>0, <2>1, <2>3
    <2> QED BY <2>1, <2>2, <2>3, <2>4, <2>5
  <1>3. CASE cnt_fetchbody(s)
    <2>1. /\ STV_MkObject(s) /\ step[s] = "FETCHBODY" /\ obj[s] = None /\ dying[s] = None
          /\ UNCHANGED <<headVars, alive, refcnt, head, busy, hfp, phase, vary, lru>>
          /\ UNCHANGED <<req, parent, hoh, nbusyobj, ret, threadVars>>
      BY <1>0, <1>3 DEF cnt_fetchbody, Holds, NoObjSteps
    <2>2. /\ step'[s] = "BODY" \/ (step'[s] = "PREPRESP" /\ stream'[s])
          /\ \A x \in Sessions \ {s} : UNCHANGED <<step[x], stream[x]>>
      BY <1>0, <1>1, <1>3 DEF cnt_fetchbody
    <2>3. /\ \A c \in OCs : Handed(c)
          /\ objcore'[s] = None
          /\ obj'[s] = IF objcore[s] = None THEN PassObj ELSE objcore[s]
          /\ \A x \in Sessions \ {s} : UNCHANGED <<objcore[x], obj[x], parent[x]>>
          /\ hasobj \subseteq hasobj'
          /\ {obj'[s], parent'[s]} \cap OCs \subseteq hasobj'
      BY <1>2, <2>1
    <2>4. FetchesEnd => Spare(s)'
      BY <1>0, <2>1, <2>2, <2>3 DEF Spare
    <2>5. Quiet(s)
      BY <1>0, <2>1, <2>2, <2>3, <2>4 DEF Quiet
    <2> QED BY <2>5, QuietStep
  <1>4. CASE cnt_error(s)
    <2>1. /\ STV_MkObject(s) /\ step[s] = "ERROR" /\ obj[s] = None /\ dying[s] = None
          /\ UNCHANGED <<headVars, alive, refcnt, head, busy, hfp, phase, vary, lru>>
          /\ UNCHANGED <<parent, hoh, threadVars>>
          /\ nbusyobj' = [nbusyobj EXCEPT ![s] = TRUE]
          /\ stream' = [stream EXCEPT ![s] = FALSE]
      BY <1>0, <1>4 DEF cnt_error, Holds, NoObjSteps
    <2>2. /\ step'[s] \in {"PREPRESP", "DROP"}
          /\ \A x \in Sessions \ {s} : UNCHANGED <<step[x], stream[x], nbusyobj[x]>>
      BY <1>0, <1>1, <1>4, <2>1 DEF cnt_error
    <2>3. /\ \A c \in OCs : Handed(c)
          /\ objcore'[s] = None
          /\ obj'[s] = IF objcore[s] = None THEN PassObj ELSE objcore[s]
          /\ \A x \in Sessions \ {s} : UNCHANGED <<objcore[x], obj[x], parent[x]>>
          /\ hasobj \subseteq hasobj'
          /\ {obj'[s], parent'[s]} \cap OCs \subseteq hasobj'
          /\ obj'[s] \in busy \cup {PassObj}
      BY <1>2, <2>1
    <2>4. FetchesEnd => Spare(s)'
      BY <1>0, <2>1, <2>2, <2>3 DEF Spare
    <2>5. SameFlags(req') /\ \A x \in Sessions \ {s} : req'[x] = req[x]
      <3>1. req' = req \/ (req[s].restarts < MaxRestarts /\ req' = Restarted(s))
        BY <1>4 DEF cnt_error
      <3>2. /\ SameFlags(req) /\ SameFlags(Restarted(s))
            /\ \A x \in Sessions \ {s} : Restarted(s)[x] = req[x]
        BY <1>0, RestartFacts, FlagsKept
      <3>3. PICK rq \in {req, Restarted(s)} : req' = rq
        BY <3>1
      <3>4. SameFlags(rq) /\ \A x \in Sessions \ {s} : rq[x] = req[x]
        BY <3>2, <3>3
      <3> QED BY <3>3, <3>4
    <2>6. Quiet(s)
      BY <1>0, <2>1, <2>2, <2>3, <2>4, <2>5 DEF Quiet, SameFlags
    <2> QED BY <2>6, QuietStep
  <1>5. CASE ESI_include(s)
    <2>1. /\ step[s] = "DELIVER" /\ ~req[s].esi
          /\ parent' = [parent EXCEPT ![s] = obj[s]]
          /\ obj' = [obj EXCEPT ![s] = None]
          /\ req' = [req EXCEPT ![s] = [NoReq EXCEPT !.esi = TRUE]]
          /\ step' = Goto(s, "RECV")
          /\ UNCHANGED <<headVars, ocVars, objcore, hoh, nbusyobj, stream, ret, threadVars>>
      BY <1>5 DEF ESI_include
    <2>2. parent[s] = None /\ (FetchesEnd => objcore[s] = None)
      BY <1>0, <2>1 DEF ReqOK, Holds
    <2>3. /\ step'[s] = "RECV" /\ obj'[s] = None /\ parent'[s] = obj[s]
          /\ ~req'[s].miss /\ ~req'[s].ignore
          /\ \A x \in Sessions \ {s} : UNCHANGED <<step[x], req[x], obj[x], parent[x]>>
      <3>1. [NoReq EXCEPT !.esi = TRUE].miss = FALSE /\ [NoReq EXCEPT !.esi = TRUE].ignore = FALSE
        BY DEF NoReq
      <3> QED BY <1>0, <1>1, <2>1, <3>1
    <2>4. ASSUME NEW c \in OCs PROVE Handed(c)
      <3>1. CASE c = obj[s]
        <4>1. <<"obj", s>> \in Holders(c) /\ <<"parent", s>> \in Tokens
          BY <1>0, <3>1 DEF Holders, Tokens
        <4>2. Holders(c)' = (Holders(c) \ {<<"obj", s>>}) \cup {<<"parent", s>>}
          BY <1>0, <2>1, <2>2, <2>3, <3>1 DEF Holders, Tokens, Threads
        <4> QED BY <4>1, <4>2 DEF Handed
      <3>2. CASE c # obj[s]
        <4>1. Holders(c)' = Holders(c)
          BY <1>0, <2>1, <2>2, <2>3, <3>2 DEF Holders, Tokens, Threads
        <4> QED BY <4>1 DEF Handed
      <3> QED BY <3>1, <3>2
    <2>5. FetchesEnd => Spare(s)'
      BY <1>0, <2>1, <2>2, <2>3 DEF Spare
    <2>6. {obj'[s], parent'[s]} \cap OCs \subseteq hasobj'
      BY <1>0, <2>1, <2>3
    <2>7. Quiet(s)
      BY <1>0, <2>1, <2>3, <2>4, <2>5, <2>6 DEF Quiet
    <2> QED BY <2>7, QuietStep
  <1>6. CASE cnt_done(s)
    <2>1. /\ step[s] = "DONE" /\ obj[s] = None /\ stream' = [stream EXCEPT ![s] = FALSE]
          /\ req' = [req EXCEPT ![s] = NoReq]
          /\ UNCHANGED <<headVars, ocVars, hoh, ret, threadVars>>
          /\ "nostorage" \notin Faults => objcore[s] = None
      BY <1>0, <1>6 DEF cnt_done, Holds, NoObjSteps
    <2>2. /\ ~req'[s].miss /\ ~req'[s].ignore
          /\ \A x \in Sessions \ {s} : UNCHANGED <<req[x], stream[x]>>
      <3>1. NoReq.miss = FALSE /\ NoReq.ignore = FALSE
        BY DEF NoReq
      <3> QED BY <1>0, <2>1, <3>1
    <2>3. CASE req[s].esi
      <3>1. /\ step' = Goto(s, "DELIVER")
            /\ obj' = [obj EXCEPT ![s] = parent[s]]
            /\ parent' = [parent EXCEPT ![s] = None]
            /\ UNCHANGED <<objcore, nbusyobj>>
        BY <1>6, <2>3 DEF cnt_done
      <3>2. /\ step'[s] = "DELIVER" /\ obj'[s] = parent[s] /\ parent'[s] = None
            /\ \A x \in Sessions \ {s} : UNCHANGED <<step[x], obj[x], parent[x]>>
        BY <1>0, <1>1, <3>1
      <3>3. ASSUME NEW c \in OCs PROVE Handed(c)
        <4>1. CASE c = parent[s]
          <5>1. <<"parent", s>> \in Holders(c) /\ <<"obj", s>> \in Tokens
            BY <1>0, <4>1 DEF Holders, Tokens
          <5>2. Holders(c)' = (Holders(c) \ {<<"parent", s>>}) \cup {<<"obj", s>>}
            BY <1>0, <2>1, <3>1, <3>2, <4>1 DEF Holders, Tokens, Threads
          <5> QED BY <5>1, <5>2 DEF Handed
        <4>2. CASE c # parent[s]
          <5>1. Holders(c)' = Holders(c)
            BY <1>0, <2>1, <3>1, <3>2, <4>2 DEF Holders, Tokens, Threads
          <5> QED BY <5>1 DEF Handed
        <4> QED BY <4>1, <4>2
      <3>4. FetchesEnd => Spare(s)'
        BY <1>0, <2>1, <3>1, <3>2 DEF Spare
      <3>5. {obj'[s], parent'[s]} \cap OCs \subseteq hasobj'
        BY <1>0, <2>1, <3>2
      <3>6. Quiet(s)
        BY <1>0, <2>1, <2>2, <3>1, <3>2, <3>3, <3>4, <3>5 DEF Quiet
      <3> QED BY <3>6, QuietStep
    <2>4. CASE ~req[s].esi
      <3>1. /\ step' = Goto(s, "IDLE")
            /\ objcore' = [objcore EXCEPT ![s] = None]
            /\ nbusyobj' = [nbusyobj EXCEPT ![s] = FALSE]
            /\ UNCHANGED <<obj, parent>>
        BY <1>6, <2>4 DEF cnt_done
      <3>2. /\ step'[s] = "IDLE" /\ objcore'[s] = None /\ nbusyobj'[s] = FALSE
            /\ \A x \in Sessions \ {s} : UNCHANGED <<step[x], objcore[x], nbusyobj[x]>>
        BY <1>0, <1>1, <3>1
      <3>3. ASSUME NEW c \in OCs PROVE Handed(c)
        <4>1. Holders(c)' \subseteq Holders(c)
          BY <1>0, <2>1, <3>1, <3>2 DEF Holders, Tokens, Threads
        <4>2. "nostorage" \notin Faults => Holders(c)' = Holders(c)
          BY <1>0, <2>1, <3>1, <3>2 DEF Holders, Tokens, Threads
        <4> QED BY <4>1, <4>2 DEF Handed
      <3>4. FetchesEnd => Spare(s)'
        BY <1>0, <2>1, <3>1, <3>2 DEF Spare
      <3>6. Quiet(s)
        BY <1>0, <2>1, <2>2, <3>1, <3>2, <3>3, <3>4 DEF Quiet
      <3> QED BY <3>6, QuietStep
    <2> QED BY <2>3, <2>4
  <1> QED BY <1>3, <1>4, <1>5, <1>6

-----------------------------------------------------------------------------
(***************************************************************************)
(* Lookups.                                                                *)
(***************************************************************************)

\* Nothing changes on the lists, and no busy objcore comes back to life.
LEMMA ListsSame ==
    ASSUME Extra, UNCHANGED <<objcs, busy, vary, head, req>>,
           \A c \in busy : refcnt'[c] > 0 => refcnt[c] > 0
    PROVE  BusyAtTail' /\ Coalesced' /\ ReqInv'
  BY DEF Extra, BusyAtTail, Coalesced, ReqInv

\* One objhead gets one more holder, or loses one, and its count follows.
LEMMA OhMoved ==
    ASSUME IInv, OhInv, NEW h \in Heads, NEW k,
           \/ /\ k \notin HeadHolders(h) /\ HeadHolders(h)' = HeadHolders(h) \cup {k}
              /\ ohref' = [ohref EXCEPT ![h] = @ + 1]
           \/ /\ k \in HeadHolders(h) /\ HeadHolders(h)' = HeadHolders(h) \ {k}
              /\ ohref' = [ohref EXCEPT ![h] = @ - 1],
           \A g \in Heads : g # h => HeadHolders(g)' = HeadHolders(g)
    PROVE  OhInv'
  <1> SUFFICES ASSUME "drop" \notin Faults, NEW g \in Heads
               PROVE  ohref'[g] = Cardinality(HeadHolders(g)')
    BY DEF OhInv, OhrefExact
  <1>0. /\ ohref \in [Heads -> Nat]
        /\ \A i \in Heads : Cardinality(HeadHolders(i)) = ohref[i]
    BY DEF IInv, TypeOK, OhInv, OhrefExact
  <1>1. /\ k \notin HeadHolders(h) /\ HeadHolders(h)' = HeadHolders(h) \cup {k} =>
              Cardinality(HeadHolders(h)') = Cardinality(HeadHolders(h)) + 1
        /\ k \in HeadHolders(h) /\ HeadHolders(h)' = HeadHolders(h) \ {k} =>
              Cardinality(HeadHolders(h)') = Cardinality(HeadHolders(h)) - 1
    BY HoldersFinite, CountChange
  <1>2. CASE g = h
    BY <1>0, <1>1, <1>2
  <1>3. CASE g # h
    BY <1>0, <1>3
  <1> QED BY <1>2, <1>3

\* A busy objcore on a list is in the hands of a session.
LEMMA BusyHeld ==
    ASSUME IInv, OwnInv, "nostorage" \notin Faults, NEW c \in busy, refcnt[c] > 0
    PROVE  \E k \in Holders(c) : k[1] # "lru"
  <1>0. TypeOK /\ RefcntExact /\ c \in OCs
    BY DEF IInv, RefInv, TypeOK
  <1>1. Holders(c) # {}
    <2>1. Cardinality({}) = 0
      BY FS_EmptySet
    <2> QED BY <1>0, <2>1 DEF RefcntExact
  <1>2. CASE \E k \in Holders(c) : k[1] # "lru"
    BY <1>2
  <1>3. CASE \A k \in Holders(c) : k[1] = "lru"
    <2>1. c \in lru
      BY <1>1, <1>3 DEF Holders
    <2>2. PICK s \in Sessions : obj[s] = c
      BY <2>1 DEF OwnInv
    <2>3. <<"obj", s>> \in Holders(c)
      BY <2>2 DEF Holders, Tokens, Threads
    <2> QED BY <1>3, <2>3
  <1> QED BY <1>2, <1>3

\* The steps of a lookup that take, keep or give back the objhead.
LEMMA LookupMore ==
    ASSUME IInv, Extra, NEW s \in Sessions,
           hash_lookup(s) \/ LookupWait(s) \/ LookupHitTail(s)
    PROVE  Extra'
  <1> USE DEF At, headVars, ocVars, threadVars
  <1>0. /\ TypeOK /\ WaitInv /\ ListInv /\ Holds(s) /\ ReqOK(s) /\ Sole(s)
        /\ None \notin Heads /\ None \notin OCs
        /\ step \in [Sessions -> Steps] /\ hoh \in [Sessions -> Heads \cup {None}]
        /\ nbusyobj \in [Sessions -> BOOLEAN] /\ busy \subseteq OCs
        /\ waiters \in [Heads -> Seq(Sessions)]
        /\ HasInv /\ HitInv /\ ParkInv /\ OwnInv /\ SpareInv /\ OhInv /\ WakeInv
    BY ConstantsAreDistinct DEF IInv, SessInv, SoleInv, TypeOK, Extra
  <1>1. /\ UNCHANGED <<objcs, alive, refcnt, head, busy, hfp, hasobj, vary, lru>>
        /\ UNCHANGED <<req, objcore, obj, parent, stream, taken, dying, purging>>
    BY DEF hash_lookup, LookupWait, LookupHitTail
  <1>2. HasInv' /\ BusyAtTail' /\ Coalesced' /\ ReqInv'
    BY <1>0, <1>1, ListsSame DEF HasInv
  <1>3. \A c : Holders(c)' = Holders(c)
    BY <1>1, HoldersKept
  <1>4. ASSUME \A x \in Sessions \ {s} : step'[x] = step[x],
               step[s] \in {"LOOKUP", "HITREF"},
               step'[s] \in {"LOOKUP", "WAITING", "HITPASS", "HIT"}
        PROVE  OwnInv'
    <2>1. \A c \in busy : Owned(c)'
      BY <1>0, <1>3 DEF OwnInv, Owned
    <2> QED BY <1>0, <1>1, <1>4, <2>1 DEF OwnInv
  <1>5. CASE hash_lookup(s)
    <2>1. /\ step[s] = "LOOKUP" /\ hoh[s] = None
          /\ hoh' = [hoh EXCEPT ![s] = req[s].head]
          /\ ohref' = [ohref EXCEPT ![req[s].head] = @ + 1]
          /\ UNCHANGED <<waiters, step, nbusyobj>>
      BY <1>5 DEF hash_lookup
    <2>2. PICK h \in Heads : h = req[s].head
      BY <1>0, <2>1 DEF ReqOK
    <2>3. hoh'[s] = h /\ \A x \in Sessions \ {s} : hoh'[x] = hoh[x]
      BY <1>0, <2>1, <2>2
    <2>4. OwnInv'
      BY <1>4, <2>1
    <2>5. HitInv' /\ ParkInv'
      <3>1. HitInv'
        BY <1>0, <1>1, <2>1, <2>3 DEF HitInv
      <3>2. \A x \in Sessions : step'[x] = "WAITING" => x # s /\ x \in Elems(waiters[hoh[x]])
        BY <1>0, <2>1, <2>3 DEF ParkInv
      <3>3. ParkInv'
        BY <2>1, <2>3, <3>2 DEF ParkInv, Elems
      <3> QED BY <3>1, <3>3
    <2>6. SpareInv'
      BY <1>0, <1>1, <2>1 DEF SpareInv, Spare
    <2>7. /\ <<"sess", s>> \notin HeadHolders(h)
          /\ HeadHolders(h)' = HeadHolders(h) \cup {<<"sess", s>>}
          /\ \A g \in Heads : g # h => HeadHolders(g)' = HeadHolders(g)
      BY <1>0, <1>1, <2>1, <2>3 DEF HeadHolders, HeadTokens
    <2>8. OhInv'
      BY <1>0, <2>1, <2>2, <2>7, OhMoved
    <2>9. WakeInv'
      <3>1. \A g \in Heads : HasWaker(g) => HasWaker(g)'
        BY <1>0, <1>1, <1>3, <2>1, <2>3 DEF HasWaker
      <3> QED BY <1>0, <2>1, <3>1 DEF WakeInv
    <2> QED BY <1>2, <2>4, <2>5, <2>6, <2>8, <2>9 DEF Extra
  <1>6. CASE LookupHitTail(s)
    <2>1. /\ step[s] = "HITREF"
          /\ ohref' = [ohref EXCEPT ![hoh[s]] = @ - 1]
          /\ hoh' = [hoh EXCEPT ![s] = None]
          /\ step' = Goto(s, IF obj[s] \in hfp THEN "HITPASS" ELSE "HIT")
          /\ UNCHANGED <<waiters, nbusyobj>>
      BY <1>6 DEF LookupHitTail
    <2>2. PICK h \in Heads : h = hoh[s]
      BY <1>0, <2>1 DEF Holds
    <2>3. /\ hoh'[s] = None /\ step'[s] = IF obj[s] \in hfp THEN "HITPASS" ELSE "HIT"
          /\ \A x \in Sessions \ {s} : hoh'[x] = hoh[x] /\ step'[x] = step[x]
      BY <1>0, <2>1 DEF Goto
    <2>4. OwnInv'
      BY <1>4, <2>1, <2>3
    <2>5. HitInv' /\ ParkInv'
      <3>1. HitInv'
        BY <1>0, <1>1, <2>1, <2>3 DEF HitInv
      <3>2. \A x \in Sessions : step'[x] = "WAITING" => x # s /\ x \in Elems(waiters[hoh[x]])
        BY <1>0, <2>1, <2>3 DEF ParkInv
      <3>3. ParkInv'
        BY <2>1, <2>3, <3>2 DEF ParkInv, Elems
      <3> QED BY <3>1, <3>3
    <2>6. SpareInv'
      BY <1>0, <1>1, <2>1, <2>3 DEF SpareInv, Spare
    <2>7. /\ <<"sess", s>> \in HeadHolders(h)
          /\ HeadHolders(h)' = HeadHolders(h) \ {<<"sess", s>>}
          /\ \A g \in Heads : g # h => HeadHolders(g)' = HeadHolders(g)
      BY <1>0, <1>1, <2>1, <2>2, <2>3 DEF HeadHolders, HeadTokens
    <2>8. OhInv'
      BY <1>0, <2>1, <2>2, <2>7, OhMoved
    <2>9. WakeInv'
      <3>1. HasWaker(h)'
        <4>1. obj[s] \in OCs /\ head[obj[s]] = h
          BY <1>0, <2>1, <2>2 DEF Holds, HitInv
        <4>2. <<"obj", s>> \in Holders(obj[s])'
          BY <1>1, <4>1 DEF Holders, Tokens, Threads
        <4> QED BY <1>1, <4>1, <4>2 DEF HasWaker
      <3>2. \A g \in Heads : g # h /\ HasWaker(g) => HasWaker(g)'
        BY <1>0, <1>1, <1>3, <2>1, <2>2, <2>3 DEF HasWaker
      <3> QED BY <1>0, <2>1, <3>1, <3>2 DEF WakeInv
    <2> QED BY <1>2, <2>4, <2>5, <2>6, <2>8, <2>9 DEF Extra
  <1>7. CASE LookupWait(s)
    <2>1. /\ step[s] = "LOOKUP" /\ hoh[s] # None
          /\ BusyMatch(s, objcs[hoh[s]]) # {}
          /\ nbusyobj' = [nbusyobj EXCEPT ![s] = FALSE]
          /\ \/ UNCHANGED <<waiters, step>>
             \/ /\ waiters' = [waiters EXCEPT ![hoh[s]] = Append(@, s)]
                /\ step' = Goto(s, "WAITING")
          /\ UNCHANGED <<ohref, hoh>>
      BY <1>7 DEF LookupWait
    <2>2. PICK h \in Heads : h = hoh[s]
      BY <1>0, <2>1
    <2>3. \A x \in Sessions \ {s} : step'[x] = step[x]
      BY <1>0, <2>1 DEF Goto
    <2>4. step'[s] \in {"LOOKUP", "WAITING"}
      BY <1>0, <2>1 DEF Goto
    <2>5. OwnInv'
      BY <1>4, <2>1, <2>3, <2>4
    <2>6. HitInv'
      BY <1>0, <1>1, <2>1, <2>3, <2>4 DEF HitInv
    <2>7. ParkInv'
      <3>1. CASE UNCHANGED <<waiters, step>>
        BY <1>0, <2>1, <3>1 DEF ParkInv, Elems
      <3>2. CASE /\ waiters' = [waiters EXCEPT ![h] = Append(@, s)]
                 /\ step' = Goto(s, "WAITING")
        <4>1. /\ waiters'[h] = Append(waiters[h], s) /\ waiters[h] \in Seq(Sessions)
              /\ \A g \in Heads \ {h} : waiters'[g] = waiters[g]
          BY <1>0, <3>2
        <4>2. /\ \E i \in DOMAIN Append(waiters[h], s) : Append(waiters[h], s)[i] = s
              /\ \A i \in DOMAIN waiters[h] :
                    /\ i \in DOMAIN Append(waiters[h], s)
                    /\ Append(waiters[h], s)[i] = waiters[h][i]
          <5>1. Len(waiters[h]) + 1 \in DOMAIN Append(waiters[h], s)
                /\ Append(waiters[h], s)[Len(waiters[h]) + 1] = s
            BY <4>1
          <5> QED BY <4>1, <5>1
        <4>3. ASSUME NEW x \in Sessions, step'[x] = "WAITING"
              PROVE  \E i \in DOMAIN waiters'[hoh[x]] : waiters'[hoh[x]][i] = x
          <5>1. CASE x = s
            BY <2>2, <4>1, <4>2, <5>1
          <5>2. CASE x # s
            <6>1. step[x] = "WAITING" /\ hoh[x] \in Heads
              BY <1>0, <2>3, <4>3, <5>2 DEF IInv, SessInv, Holds
            <6>2. PICK i \in DOMAIN waiters[hoh[x]] : waiters[hoh[x]][i] = x
              BY <1>0, <6>1 DEF ParkInv, Elems
            <6>3. CASE hoh[x] = h
              BY <4>1, <4>2, <6>2, <6>3
            <6>4. CASE hoh[x] # h
              BY <4>1, <6>1, <6>2, <6>4
            <6> QED BY <6>3, <6>4
          <5> QED BY <5>1, <5>2
        <4> QED BY <2>1, <4>3 DEF ParkInv, Elems
      <3> QED BY <2>1, <2>2, <3>1, <3>2
    <2>8. SpareInv'
      <3>1. \A x \in Sessions : nbusyobj'[x] => nbusyobj[x]
        BY <1>0, <2>1
      <3> QED BY <1>0, <1>1, <2>3, <2>4, <3>1 DEF SpareInv, Spare
    <2>9. OhInv'
      BY <1>0, <1>1, <2>1, OhKept
    <2>10. WakeInv'
      <3> SUFFICES ASSUME "drop" \notin Faults, "nostorage" \notin Faults,
                          NEW g \in Heads, waiters'[g] # <<>>
                   PROVE  HasWaker(g)'
        BY DEF WakeInv
      <3>1. CASE g = h
        <4>1. PICK i \in DOMAIN objcs[h] : objcs[h][i] \in busy
          BY <2>1, <2>2 DEF BusyMatch, BusySeen, Scanned
        <4>2. PICK c \in busy : c = objcs[h][i] /\ head[c] = h /\ refcnt[c] > 0
          BY <1>0, <4>1 DEF ListInv
        <4>3. \E k \in Holders(c)' : k[1] # "lru"
          BY <1>0, <1>3, <4>2, BusyHeld
        <4> QED BY <1>0, <1>1, <3>1, <4>2, <4>3 DEF HasWaker
      <3>2. CASE g # h
        <4>1. waiters'[g] = waiters[g]
          BY <1>0, <2>1, <2>2, <3>2
        <4>2. HasWaker(g)
          BY <1>0, <4>1 DEF WakeInv
        <4> QED BY <1>1, <1>3, <2>1, <2>2, <2>3, <3>2, <4>2 DEF HasWaker
      <3> QED BY <3>1, <3>2
    <2> QED BY <1>2, <2>5, <2>6, <2>7, <2>8, <2>9, <2>10 DEF Extra
  <1> QED BY <1>5, <1>6, <1>7

\* A new reference on something that is not busy: a hit, a purge.
LEMMA ReferencingMore ==
    ASSUME IInv, Extra, NEW s \in Sessions, LookupHit(s) \/ HSH_Purge(s)
    PROVE  Extra'
  <1> USE DEF At, headVars, ocVars, sessVars, threadVars
  <1>0. /\ TypeOK /\ ListInv /\ Holds(s) /\ s \in Threads
        /\ PassObj \notin OCs /\ None \notin OCs /\ None \notin Heads
        /\ refcnt \in [OCs -> Nat] /\ busy \subseteq OCs /\ alive \subseteq OCs
        /\ step \in [Sessions -> Steps] /\ obj \in [Sessions -> OCs \cup {PassObj, None}]
        /\ nbusyobj \in [Sessions -> BOOLEAN]
        /\ HasInv /\ HitInv /\ ParkInv /\ OwnInv /\ SpareInv /\ OhInv /\ WakeInv
    BY ConstantsAreDistinct DEF IInv, SessInv, TypeOK, Extra, Threads
  <1>1. CASE LookupHit(s)
    <2>1. PICK c : /\ \E i \in Found(s, objcs[hoh[s]]) : c = objcs[hoh[s]][i]
                   /\ refcnt' = [refcnt EXCEPT ![c] = @ + 1]
                   /\ obj' = [obj EXCEPT ![s] = c]
      BY <1>1 DEF LookupHit
    <2>2. hoh[s] \in Heads /\ step[s] = "LOOKUP" /\ obj[s] = None
      BY <1>0, <1>1 DEF LookupHit, TypeOK, Holds, NoObjSteps
    <2>3. PICK i \in DOMAIN objcs[hoh[s]] : c = objcs[hoh[s]][i] /\ c \notin busy
      BY <2>1 DEF Found, Usable
    <2>4. c \in OCs /\ refcnt[c] > 0 /\ c \in alive /\ head[c] = hoh[s] /\ c \in hasobj
      BY <1>0, <2>2, <2>3 DEF ListInv, TypeOK, HasInv
    <2>5. /\ nbusyobj' = [nbusyobj EXCEPT ![s] = TRUE]
          /\ step' = Goto(s, "HITREF")
          /\ UNCHANGED <<objcs, ohref, waiters, alive, head, busy, hfp, hasobj, vary, lru>>
          /\ UNCHANGED <<req, objcore, parent, hoh, stream, taken, dying, purging>>
      BY <1>1 DEF LookupHit
    <2>6. /\ step'[s] = "HITREF" /\ obj'[s] = c /\ nbusyobj'[s] = TRUE
          /\ \A x \in Sessions \ {s} : UNCHANGED <<step[x], obj[x], nbusyobj[x]>>
          /\ \A d \in OCs \ {c} : refcnt'[d] = refcnt[d]
      BY <1>0, <2>1, <2>4, <2>5 DEF Goto
    <2>7. /\ Holders(c)' = Holders(c) \cup {<<"obj", s>>}
          /\ \A d \in OCs \ {c} : Holders(d)' = Holders(d)
      BY <1>0, <2>1, <2>2, <2>4, <2>5 DEF Holders, Tokens
    <2>8. HasInv'
      <3>1. \A x \in Sessions : {obj'[x], parent[x]} \cap OCs \subseteq hasobj
        BY <1>0, <2>4, <2>6 DEF HasInv
      <3>2. \A d \in OCs : refcnt'[d] > 1 => d \in hasobj
        BY <1>0, <2>4, <2>6 DEF HasInv
      <3> QED BY <1>0, <2>5, <3>1, <3>2 DEF HasInv
    <2>9. HitInv'
      BY <1>0, <2>3, <2>4, <2>5, <2>6 DEF HitInv
    <2>10. ParkInv'
      BY <1>0, <2>5, <2>6 DEF ParkInv, Elems
    <2>11. OwnInv'
      <3>1. \A d \in busy : Owned(d)'
        BY <1>0, <2>3, <2>7 DEF OwnInv, Owned
      <3> QED BY <1>0, <2>2, <2>5, <2>6, <3>1 DEF OwnInv
    <2>12. BusyAtTail' /\ Coalesced' /\ ReqInv'
      BY <1>0, <2>3, <2>5, <2>6, ListsSame
    <2>13. SpareInv'
      <3>1. "nostorage" \notin Faults => objcore[s] = None
        BY <1>0, <2>2 DEF Holds
      <3> QED BY <1>0, <2>3, <2>5, <2>6, <3>1 DEF SpareInv, Spare, FetchesEnd
    <2>14. OhInv'
      BY <1>0, <2>5, OhKept
    <2>15. WakeInv'
      <3>1. \A d \in OCs : Holders(d) \subseteq Holders(d)'
        BY <2>7
      <3>2. \A g \in Heads : HasWaker(g) => HasWaker(g)'
        BY <2>5, <2>6, <3>1 DEF HasWaker
      <3> QED BY <1>0, <2>5, <3>2 DEF WakeInv
    <2> QED BY <2>8, <2>9, <2>10, <2>11, <2>12, <2>13, <2>14, <2>15 DEF Extra
  <1>2. CASE HSH_Purge(s)
    <2>1. PICK h : h = head[IF step[s] = "HIT" THEN obj[s] ELSE objcore[s]]
      OBVIOUS
    <2> DEFINE D == Elems(objcs[h]) \ busy
    <2>2. /\ purging[s] = {} /\ purging' = [purging EXCEPT ![s] = D]
          /\ refcnt' = [c \in OCs |-> IF c \in D THEN refcnt[c] + 1 ELSE refcnt[c]]
          /\ UNCHANGED <<objcs, ohref, waiters, alive, head, busy, hfp, hasobj, vary, lru>>
          /\ UNCHANGED <<step, req, objcore, obj, parent, hoh, nbusyobj, stream, taken, dying>>
      BY <1>2, <2>1 DEF HSH_Purge
    <2>3. h \in Heads
      <3>1. PICK c \in OCs : /\ c = (IF step[s] = "HIT" THEN obj[s] ELSE objcore[s])
                             /\ \E k : k \in Holders(c)
        <4>1. CASE step[s] = "HIT"
          <5>1. obj[s] \in OCs /\ <<"obj", s>> \in Holders(obj[s])
            BY <1>0, <4>1 DEF Holds, Holders, Tokens
          <5> QED BY <4>1, <5>1
        <4>2. CASE step[s] # "HIT"
          <5>1. step[s] = "MISS"
            BY <1>2, <4>2 DEF HSH_Purge
          <5>2. objcore[s] \in OCs /\ <<"objcore", s>> \in Holders(objcore[s])
            BY <1>0, <5>1 DEF Holds, Holders, Tokens, TypeOK
          <5> QED BY <4>2, <5>2
        <4> QED BY <4>1, <4>2
      <3> QED BY <2>1, <3>1, HeldFacts
    <2>4. D \subseteq OCs /\ D \subseteq hasobj /\ \A c \in D : refcnt[c] > 0 /\ c \notin busy
      BY <1>0, <2>3 DEF Elems, ListInv, HasInv
    <2> HIDE DEF D
    <2>5. /\ \A c \in OCs : Holders(c) \subseteq Holders(c)'
          /\ \A c \in OCs \ D : Holders(c)' = Holders(c)
      BY <1>0, <2>2 DEF Holders, Tokens, TypeOK
    <2>6. HasInv'
      <3>1. \A d \in OCs : refcnt'[d] > 1 => d \in hasobj
        BY <1>0, <2>2, <2>4 DEF HasInv
      <3> QED BY <1>0, <2>2, <3>1 DEF HasInv
    <2>7. HitInv' /\ ParkInv'
      BY <1>0, <2>2 DEF HitInv, ParkInv, Elems
    <2>8. OwnInv'
      <3>1. \A d \in busy : Owned(d)'
        BY <1>0, <2>4, <2>5 DEF OwnInv, Owned
      <3> QED BY <1>0, <2>2, <3>1 DEF OwnInv
    <2>9. BusyAtTail' /\ Coalesced' /\ ReqInv'
      BY <1>0, <2>2, <2>4, ListsSame
    <2>10. SpareInv'
      BY <1>0, <2>2 DEF SpareInv, Spare
    <2>11. OhInv'
      BY <1>0, <2>2, OhKept
    <2>12. WakeInv'
      <3>1. \A g \in Heads : HasWaker(g) => HasWaker(g)'
        BY <2>2, <2>5 DEF HasWaker
      <3> QED BY <1>0, <2>2, <3>1 DEF WakeInv
    <2> QED BY <2>6, <2>7, <2>8, <2>9, <2>10, <2>11, <2>12 DEF Extra
  <1> QED BY <1>1, <1>2

\* exp_timer and EXP_NukeOne take an objcore that is not busy.
LEMMA TakingMore ==
    ASSUME IInv, Extra,
           (\E c \in OCs : exp_timer(c)) \/ (\E s \in Sessions : EXP_NukeOne(s))
    PROVE  Extra'
  <1> USE DEF At, headVars, ocVars, sessVars, threadVars
  <1>0. /\ TypeOK /\ None \notin OCs /\ lru \subseteq OCs /\ busy \subseteq OCs
        /\ HasInv /\ HitInv /\ ParkInv /\ OwnInv /\ SpareInv /\ OhInv /\ WakeInv
    BY ConstantsAreDistinct DEF IInv, TypeOK, Extra
  <1>1. PICK t \in Threads, c \in lru \ busy : taken[t] = None /\ TakeOffLru(t, c)
    <2>1. CASE \E c \in OCs : exp_timer(c)
      BY <2>1 DEF exp_timer, Threads
    <2>2. CASE \E s \in Sessions : EXP_NukeOne(s)
      BY <2>2 DEF EXP_NukeOne, Threads
    <2> QED BY <2>1, <2>2
  <1>2. /\ lru' = lru \ {c} /\ taken' = [taken EXCEPT ![t] = c]
        /\ UNCHANGED <<objcs, ohref, waiters, alive, refcnt, head, busy, hfp, hasobj, vary>>
        /\ UNCHANGED <<step, req, objcore, obj, parent, hoh, nbusyobj, stream, dying, purging>>
    BY <1>1 DEF TakeOffLru
  <1>3. /\ Holders(c)' = (Holders(c) \ {<<"lru", Timer>>}) \cup {<<"taken", t>>}
        /\ \A d \in OCs : d # c => Holders(d)' = Holders(d)
    BY <1>0, <1>1, <1>2 DEF Holders, Tokens, Threads, TypeOK
  <1>4. HasInv' /\ HitInv' /\ ParkInv'
    BY <1>0, <1>2 DEF HasInv, HitInv, ParkInv, Elems
  <1>5. OwnInv'
    <2>1. \A d \in busy : Owned(d)'
      BY <1>0, <1>1, <1>3 DEF OwnInv, Owned
    <2> QED BY <1>0, <1>2, <2>1 DEF OwnInv
  <1>6. BusyAtTail' /\ Coalesced' /\ ReqInv'
    BY <1>0, <1>2, ListsSame
  <1>7. SpareInv' /\ OhInv'
    BY <1>0, <1>2, OhKept DEF SpareInv, Spare
  <1>8. WakeInv'
    <2>1. \A d \in OCs : \A k \in Holders(d) : k[1] # "lru" => k \in Holders(d)'
      BY <1>0, <1>3
    <2>2. \A g \in Heads : HasWaker(g) => HasWaker(g)'
      BY <1>2, <2>1 DEF HasWaker
    <2> QED BY <1>0, <1>2, <2>2 DEF WakeInv
  <1> QED BY <1>4, <1>5, <1>6, <1>7, <1>8 DEF Extra

\* What has no holder is nowhere.
LEMMA Unheld ==
    ASSUME NEW c, Holders(c) = {}
    PROVE  c \notin lru /\ \A x \in Sessions : obj[x] # c /\ parent[x] # c /\ objcore[x] # c
  <1>1. c \in lru => <<"lru", Timer>> \in Holders(c)
    BY DEF Holders, Tokens, Threads
  <1>2. ASSUME NEW x \in Sessions
        PROVE  /\ obj[x] = c => <<"obj", x>> \in Holders(c)
               /\ parent[x] = c => <<"parent", x>> \in Holders(c)
               /\ objcore[x] = c => <<"objcore", x>> \in Holders(c)
    BY DEF Holders, Tokens, Threads
  <1> QED BY <1>1, <1>2

\* A new busy objcore at the tail.
LEMMA MissMore ==
    ASSUME IInv, Extra, NEW s \in Sessions, LookupMiss(s)
    PROVE  Extra'
  <1> USE DEF At, headVars, ocVars, threadVars
  <1>0. /\ TypeOK /\ RefInv /\ ListInv /\ DyingInv /\ Holds(s) /\ ReqOK(s) /\ s \in Threads
        /\ None \notin OCs /\ None \notin Heads /\ NoVary \notin Variants
        /\ refcnt \in [OCs -> Nat] /\ busy \subseteq alive /\ alive \subseteq OCs
        /\ step \in [Sessions -> Steps] /\ nbusyobj \in [Sessions -> BOOLEAN]
        /\ objcore \in [Sessions -> OCs \cup {None}]
        /\ hoh \in [Sessions -> Heads \cup {None}]
        /\ HasInv /\ HitInv /\ ParkInv /\ OwnInv /\ SpareInv /\ OhInv /\ WakeInv
        /\ BusyAtTail /\ ReqInv /\ Coalesced
    BY ConstantsAreDistinct DEF IInv, SessInv, TypeOK, Extra, Threads
  <1>1. PICK h \in Heads : h = hoh[s]
    BY <1>0 DEF LookupMiss
  <1>2. PICK c \in OCs \ alive :
           /\ alive' = alive \cup {c}
           /\ busy' = busy \cup {c}
           /\ refcnt' = [refcnt EXCEPT ![c] = 1]
           /\ head' = [head EXCEPT ![c] = h]
           /\ vary' = [vary EXCEPT ![c] = IF VaryCompared(s, objcs[h])
                                          THEN req[s].variant ELSE NoVary]
           /\ objcs' = [objcs EXCEPT ![h] = Append(@, c)]
           /\ objcore' = [objcore EXCEPT ![s] = c]
    BY <1>1 DEF LookupMiss
  <1>3. /\ step[s] = "LOOKUP" /\ req[s].variant \in Variants /\ obj[s] = None
        /\ dying[s] = None
        /\ NothingFound(s, objcs[h]) /\ BusyMatch(s, objcs[h]) = {}
        /\ hoh' = [hoh EXCEPT ![s] = None]
        /\ nbusyobj' = [nbusyobj EXCEPT ![s] = FALSE]
        /\ step' = Goto(s, "MISS")
        /\ UNCHANGED <<ohref, waiters, hfp, hasobj, lru, req, obj, parent>>
        /\ UNCHANGED <<stream, taken, dying, purging>>
    BY <1>0, <1>1 DEF LookupMiss, ReqOK, Holds, NoObjSteps
  <1>4. refcnt[c] = 0 /\ Holders(c) = {}
    <2>1. refcnt[c] = 0
      BY <1>0, <1>2 DEF RefInv, RefcntCovers
    <2> QED BY <1>2, <2>1, HeldFacts
  <1>5. /\ c \notin lru
        /\ \A x \in Sessions : obj[x] # c /\ parent[x] # c /\ objcore[x] # c /\ dying[x] # c
    <2>1. c \notin lru /\ \A x \in Sessions : obj[x] # c /\ parent[x] # c /\ objcore[x] # c
      BY <1>4, Unheld
    <2>2. \A x \in Sessions : dying[x] # c
      BY <1>0, <1>2 DEF DyingInv, Threads
    <2> QED BY <2>1, <2>2
  <1>6. /\ step'[s] = "MISS" /\ hoh'[s] = None /\ objcore'[s] = c /\ nbusyobj'[s] = FALSE
        /\ \A x \in Sessions \ {s} : UNCHANGED <<step[x], hoh[x], objcore[x], nbusyobj[x]>>
        /\ refcnt'[c] = 1 /\ head'[c] = h
        /\ \A d \in OCs \ {c} : UNCHANGED <<refcnt[d], head[d], vary[d]>>
    BY <1>0, <1>1, <1>2, <1>3 DEF Goto, TypeOK
  <1>7. /\ Holders(c)' = {<<"objcore", s>>}
        /\ \A d \in OCs : d # c =>
              /\ Holders(d)' \subseteq Holders(d)
              /\ "nostorage" \notin Faults => Holders(d)' = Holders(d)
    <2>1. Holders(c)' = Holders(c) \cup {<<"objcore", s>>}
      BY <1>0, <1>2, <1>3 DEF Holders, Tokens, TypeOK
    <2>2. \A d \in OCs : d # c =>
             /\ Holders(d)' \subseteq Holders(d)
             /\ "nostorage" \notin Faults => Holders(d)' = Holders(d)
      <3>1. "nostorage" \notin Faults => objcore[s] = None
        BY <1>0, <1>3 DEF Holds
      <3> QED BY <1>0, <1>2, <1>3, <3>1 DEF Holders, Tokens, TypeOK
    <2> QED BY <1>4, <2>1, <2>2
  <1>8. HasInv'
    <2>1. \A d \in OCs : refcnt'[d] > 1 => d \in hasobj
      BY <1>0, <1>6 DEF HasInv
    <2> QED BY <1>0, <1>2, <1>3, <2>1 DEF HasInv
  <1>9. HitInv'
    <2>1. \A x \in Sessions : step[x] = "HITREF" => obj[x] \in OCs
      BY DEF IInv, SessInv, Holds
    <2> QED BY <1>0, <1>2, <1>3, <1>5, <1>6, <2>1 DEF HitInv
  <1>10. ParkInv'
    <2>1. \A x \in Sessions : step'[x] = "WAITING" => x # s /\ x \in Elems(waiters[hoh[x]])
      BY <1>0, <1>6 DEF ParkInv
    <2> QED BY <1>3, <1>6, <2>1 DEF ParkInv, Elems
  <1>11. OwnInv'
    <2>1. \A d \in busy' : Owned(d)'
      <3>1. Owned(c)'
        BY <1>7 DEF Owned
      <3>2. \A d \in busy : Owned(d)'
        BY <1>0, <1>2, <1>7 DEF OwnInv, Owned
      <3> QED BY <1>2, <3>1, <3>2
    <2>2. \A d \in busy' \cap lru' : \E x \in Sessions : step'[x] = "UNBUSY" /\ obj'[x] = d
      BY <1>0, <1>2, <1>3, <1>5, <1>6 DEF OwnInv
    <2>3. \A x \in Sessions : step'[x] \in {"UNBUSY", "DROP"} => obj'[x] \in busy' \cup {PassObj}
      BY <1>0, <1>2, <1>3, <1>6 DEF OwnInv
    <2> QED BY <2>1, <2>2, <2>3 DEF OwnInv
  <1> DEFINE q == objcs[h]
             r == Append(q, c)
  <1>12. BusyAtTail'
    <2>1. /\ q \in Seq(OCs) /\ DOMAIN q = 1..Len(q) /\ Len(q) \in Nat
          /\ \A g \in Heads : objcs'[g] = IF g = h THEN r ELSE objcs[g]
      BY <1>0, <1>2 DEF TypeOK
    <2> HIDE DEF q
    <2>2. /\ DOMAIN r = 1..(Len(q) + 1) /\ r[Len(q) + 1] = c
          /\ \A i \in DOMAIN q : r[i] = q[i]
      BY <2>1, <1>2
    <2>3. \A i, j \in DOMAIN q : i < j /\ q[i] \in busy => q[j] \in busy
      BY <1>0 DEF BusyAtTail, q
    <2>4. \A i \in DOMAIN q : q[i] # c
      BY <1>0, <1>2 DEF ListInv, q
    <2> HIDE DEF r
    <2>5. ASSUME NEW i \in DOMAIN r, NEW j \in DOMAIN r, i < j, r[i] \in busy'
          PROVE  r[j] \in busy'
      <3>1. CASE j = Len(q) + 1
        BY <1>2, <2>2, <3>1
      <3>2. CASE j # Len(q) + 1
        <4>1. i \in DOMAIN q /\ j \in DOMAIN q
          BY <2>1, <2>2, <2>5, <3>2
        <4>2. q[i] \in busy
          BY <1>2, <2>2, <2>4, <2>5, <4>1
        <4> QED BY <1>2, <2>2, <2>3, <2>5, <4>1, <4>2
      <3> QED BY <3>1, <3>2
    <2>6. ASSUME NEW g \in Heads \ {h}, NEW i \in DOMAIN objcs[g], NEW j \in DOMAIN objcs[g],
                 i < j, objcs[g][i] \in busy'
          PROVE  objcs[g][j] \in busy'
      <3>1. objcs[g][i] # c
        BY <1>0, <1>2 DEF ListInv
      <3> QED BY <1>0, <1>2, <2>6, <3>1 DEF BusyAtTail
    <2> QED BY <2>1, <2>5, <2>6 DEF BusyAtTail
  \* The search has seen every busy objcore of h, and none matches.
  <1>13. Coalesced'
    <2> SUFFICES ASSUME Vcl \cap {"always_miss", "ignore_busy"} = {}
                 PROVE  \A a, b \in busy' :
                           a # b /\ head'[a] = head'[b] /\ refcnt'[a] > 0 /\ refcnt'[b] > 0 =>
                              NoVary # vary'[a] /\ vary'[a] # vary'[b] /\ vary'[b] # NoVary
      BY DEF Coalesced
    <2>1. ~req[s].miss /\ ~req[s].ignore
      BY <1>0 DEF ReqInv
    <2>2. Usable(s, q, "fresh") = {}
      BY <1>3, <2>1 DEF NothingFound
    <2>3. Scanned(s, q) = DOMAIN q
      BY <2>2 DEF Scanned
    <2>4. ASSUME NEW d \in busy, head[d] = h, refcnt[d] > 0
          PROVE  vary'[d] # NoVary /\ vary'[c] # NoVary /\ vary'[c] # vary'[d]
      <3>1. PICK j \in DOMAIN q : q[j] = d
        BY <1>0, <2>4 DEF ListInv
      <3>2. j \in BusySeen(s, q)
        BY <2>1, <2>3, <2>4, <3>1 DEF BusySeen
      <3>3. vary[d] # NoVary /\ vary[d] # req[s].variant
        BY <1>3, <3>1, <3>2 DEF BusyMatch, VRY_Match
      <3>4. VaryCompared(s, q)
        BY <2>3, <3>1, <3>2, <3>3 DEF VaryCompared
      <3>5. vary'[c] = req[s].variant /\ vary'[d] = vary[d]
        BY <1>0, <1>2, <1>6, <2>4, <3>4 DEF TypeOK
      <3> QED BY <1>0, <1>3, <3>3, <3>5
    <2>5. \A d \in busy : d \in OCs \ {c}
      BY <1>0, <1>2
    <2>6. \A d \in busy : UNCHANGED <<refcnt[d], head[d], vary[d]>>
      BY <1>6, <2>5
    <2>7. \A a, b \in busy : a # b /\ head[a] = head[b] /\ refcnt[a] > 0 /\ refcnt[b] > 0 =>
             NoVary # vary[a] /\ vary[a] # vary[b] /\ vary[b] # NoVary
      BY <1>0 DEF Coalesced
    <2> QED BY <1>2, <1>6, <2>4, <2>6, <2>7
  <1>14. ReqInv'
    BY <1>0, <1>3 DEF ReqInv
  <1>15. SpareInv'
    <2> SUFFICES ASSUME FetchesEnd, NEW x \in Sessions
                 PROVE  Spare(x)'
      BY DEF SpareInv
    <2>1. Spare(x)
      BY <1>0 DEF SpareInv
    <2>2. CASE x = s
      BY <1>0, <1>2, <1>3, <1>5, <1>6, <2>1, <2>2 DEF Spare
    <2>3. CASE x # s
      BY <1>0, <1>2, <1>3, <1>5, <1>6, <2>1, <2>3 DEF Spare
    <2> QED BY <2>2, <2>3
  <1>16. OhInv'
    <2> SUFFICES ASSUME "drop" \notin Faults, NEW g \in Heads
                 PROVE  ohref'[g] = Cardinality(HeadHolders(g)')
      BY DEF OhInv, OhrefExact
    <2>0. ohref[g] = Cardinality(HeadHolders(g))
      BY <1>0 DEF OhInv, OhrefExact
    <2>1. CASE g = h
      <3>1. /\ <<"sess", s>> \in HeadHolders(g) /\ <<"oc", c>> \notin HeadHolders(g)
            /\ HeadHolders(g)' = (HeadHolders(g) \ {<<"sess", s>>}) \cup {<<"oc", c>>}
        BY <1>0, <1>1, <1>2, <1>3, <2>1 DEF HeadHolders, HeadTokens, TypeOK
      <3>2. Cardinality(HeadHolders(g)') = Cardinality(HeadHolders(g))
        <4>1. IsFiniteSet(HeadHolders(g))
          BY HoldersFinite
        <4> HIDE DEF HeadHolders
        <4> QED BY <3>1, <4>1, CountChange
      <3> QED BY <1>3, <2>0, <3>2
    <2>2. CASE g # h
      <3>1. HeadHolders(g)' = HeadHolders(g)
        BY <1>0, <1>1, <1>2, <1>3, <2>2 DEF HeadHolders, HeadTokens, TypeOK
      <3> QED BY <1>3, <2>0, <3>1
    <2> QED BY <2>1, <2>2
  <1>17. WakeInv'
    <2> SUFFICES ASSUME "drop" \notin Faults, "nostorage" \notin Faults,
                        NEW g \in Heads, waiters'[g] # <<>>
                 PROVE  HasWaker(g)'
      BY DEF WakeInv
    <2>1. CASE g = h
      <3>1. <<"objcore", s>> \in Holders(c)' /\ <<"objcore", s>>[1] # "lru"
        BY <1>7
      <3> QED BY <1>2, <1>6, <2>1, <3>1 DEF HasWaker
    <2>2. CASE g # h
      <3>1. HasWaker(g)
        BY <1>0, <1>3 DEF WakeInv
      <3>2. ASSUME NEW x \in Sessions, hoh[x] = g, step[x] # "WAITING"
            PROVE  HasWaker(g)'
        BY <1>1, <1>6, <2>2, <3>2 DEF HasWaker
      <3>3. ASSUME NEW d \in OCs, head[d] = g, NEW l \in Holders(d), l[1] # "lru"
            PROVE  HasWaker(g)'
        BY <1>4, <1>6, <1>7, <3>3 DEF HasWaker
      <3> QED BY <3>1, <3>2, <3>3 DEF HasWaker
    <2> QED BY <2>1, <2>2
  <1> QED BY <1>8, <1>9, <1>10, <1>11, <1>12, <1>13, <1>14, <1>15, <1>16, <1>17 DEF Extra

\* HSH_Deref frees an objcore; its busyobj goes back to the worker.
LEMMA FreeMore ==
    ASSUME IInv, Extra, NEW t \in Threads, DerefTail(t)
    PROVE  Extra'
  <1>0. /\ TypeOK /\ RefInv /\ ListInv /\ DyingInv
        /\ None \notin OCs /\ None \notin Heads /\ PassObj \notin OCs
        /\ refcnt \in [OCs -> Nat] /\ busy \subseteq alive /\ alive \subseteq OCs
        /\ nbusyobj \in [Sessions -> BOOLEAN]
        /\ HasInv /\ HitInv /\ ParkInv /\ OwnInv /\ SpareInv /\ OhInv /\ WakeInv
        /\ BusyAtTail /\ ReqInv /\ Coalesced
    BY ConstantsAreDistinct DEF IInv, TypeOK, Extra
  <1>1. PICK c \in OCs : c = dying[t]
    BY <1>0 DEF DerefTail, TypeOK
  <1>2. c \in alive /\ refcnt[c] = 0 /\ head[c] \in Heads
    BY <1>0, <1>1 DEF DyingInv, RefInv, RefcntCovers
  <1>3. PICK h \in Heads : h = head[c]
    BY <1>2
  <1>4. /\ dying' = [dying EXCEPT ![t] = None]
        /\ alive' = alive \ {c} /\ busy' = busy \ {c}
        /\ hfp' = hfp \ {c} /\ hasobj' = hasobj \ {c}
        /\ vary' = [vary EXCEPT ![c] = NoVary]
        /\ head' = [head EXCEPT ![c] = None]
        /\ ohref' = [ohref EXCEPT ![h] = @ - 1]
        /\ nbusyobj' = IF c \in busy /\ t \in Sessions
                       THEN [nbusyobj EXCEPT ![t] = TRUE] ELSE nbusyobj
        /\ UNCHANGED <<objcs, waiters, refcnt, lru, step, req, objcore, obj>>
        /\ UNCHANGED <<parent, hoh, stream, taken, purging>>
    BY <1>1, <1>3 DEF DerefTail
  <1>5. Holders(c) = {} /\ \A d : Holders(d)' = Holders(d)
    BY <1>2, <1>4, HeldFacts, HoldersKept
  <1>6. \A x \in Sessions : obj[x] # c /\ parent[x] # c /\ objcore[x] # c
    BY <1>5, Unheld
  <1>7. \A d \in OCs \ {c} : UNCHANGED <<head[d], vary[d]>>
    BY <1>0, <1>4 DEF TypeOK
  <1>8. HasInv'
    <2>1. \A x \in Sessions : {obj[x], parent[x]} \cap OCs \subseteq hasobj \ {c}
      BY <1>0, <1>6 DEF HasInv
    <2>2. \A d \in OCs : refcnt[d] > 1 => d \in hasobj \ {c}
      BY <1>0, <1>2 DEF HasInv
    <2>3. alive' \ busy' \subseteq hasobj'
      BY <1>0, <1>4 DEF HasInv
    <2> QED BY <1>4, <2>1, <2>2, <2>3 DEF HasInv
  <1>9. HitInv'
    <2>1. \A x \in Sessions : step[x] = "HITREF" => obj[x] \in OCs
      BY DEF IInv, SessInv, Holds
    <2> QED BY <1>0, <1>4, <1>6, <1>7, <2>1 DEF HitInv
  <1>10. ParkInv'
    BY <1>0, <1>4 DEF ParkInv, Elems
  <1>11. OwnInv'
    <2>1. \A d \in busy' : Owned(d)'
      BY <1>0, <1>4, <1>5 DEF OwnInv, Owned
    <2> QED BY <1>0, <1>4, <1>6, <2>1 DEF OwnInv
  <1>12. BusyAtTail'
    <2>1. \A g \in Heads : \A i \in DOMAIN objcs[g] : objcs[g][i] # c
      BY <1>0, <1>2 DEF ListInv
    <2> QED BY <1>0, <1>4, <2>1 DEF BusyAtTail
  <1>13. Coalesced'
    <2>1. \A d \in busy' : UNCHANGED <<head[d], vary[d]>>
      BY <1>0, <1>4, <1>7
    <2> QED BY <1>0, <1>4, <2>1 DEF Coalesced
  <1>14. ReqInv'
    BY <1>0, <1>4 DEF ReqInv
  <1>15. SpareInv'
    <2> SUFFICES ASSUME FetchesEnd, NEW x \in Sessions
                 PROVE  Spare(x)'
      BY DEF SpareInv
    <2>1. Spare(x) /\ x \in Threads
      BY <1>0 DEF SpareInv, Threads
    <2>2. CASE x = t /\ c \in busy
      BY <1>0, <1>1, <1>4, <2>1, <2>2 DEF Spare
    <2>3. CASE ~(x = t /\ c \in busy)
      <3>1. nbusyobj'[x] = nbusyobj[x] /\ dying'[x] \in {dying[x], None}
        BY <1>0, <1>4, <2>1, <2>3 DEF TypeOK
      <3>2. /\ busy' \subseteq busy /\ None \notin busy
            /\ UNCHANGED <<step, objcore, obj, parent, stream>>
        BY <1>0, <1>4
      <3> QED BY <2>1, <3>1, <3>2 DEF Spare
    <2> QED BY <2>2, <2>3
  <1>16. OhInv'
    <2>1. /\ <<"oc", c>> \in HeadHolders(h)
          /\ HeadHolders(h)' = HeadHolders(h) \ {<<"oc", c>>}
          /\ \A g \in Heads : g # h => HeadHolders(g)' = HeadHolders(g)
      BY <1>0, <1>2, <1>3, <1>4 DEF HeadHolders, HeadTokens, TypeOK
    <2> QED BY <1>0, <1>4, <2>1, OhMoved
  <1>17. WakeInv'
    <2>1. \A g \in Heads : HasWaker(g) => HasWaker(g)'
      BY <1>4, <1>5, <1>7 DEF HasWaker
    <2> QED BY <1>0, <1>4, <2>1 DEF WakeInv
  <1> QED BY <1>8, <1>9, <1>10, <1>11, <1>12, <1>13, <1>14, <1>15, <1>16, <1>17 DEF Extra

-----------------------------------------------------------------------------
(***************************************************************************)
(* The theorems.                                                           *)
(***************************************************************************)

\* An empty cache.
LEMMA InitExtra ==
    ASSUME Init
    PROVE  Extra
  <1>0. None \notin OCs \cup Heads
    BY ConstantsAreDistinct
  <1>1. HasInv /\ HitInv /\ ParkInv /\ BusyAtTail /\ Coalesced
    BY <1>0 DEF Init, HasInv, HitInv, ParkInv, BusyAtTail, Coalesced
  <1>2. ReqInv
    <2>1. NoReq.miss = FALSE /\ NoReq.ignore = FALSE
      BY DEF NoReq
    <2> QED BY <2>1 DEF Init, ReqInv
  <1>3. OwnInv /\ SpareInv /\ WakeInv
    BY DEF Init, OwnInv, SpareInv, Spare, WakeInv
  <1>4. OhInv
    <2>1. \A h \in Heads : HeadHolders(h) = {}
      BY <1>0 DEF Init, HeadHolders, HeadTokens
    <2> QED BY <2>1, FS_EmptySet DEF Init, OhInv, OhrefExact
  <1> QED BY <1>1, <1>2, <1>3, <1>4 DEF Extra

\* Every step keeps what is added to the inductive invariant.
LEMMA NextExtra ==
    ASSUME IInv, Extra, [Next]_vars
    PROVE  Extra'
  <1>1. ASSUME NEW s \in Sessions, SessStep(s)
        PROVE  Extra'
    <2>0. s \in Threads
      BY DEF Threads
    <2>1. CASE QuietActions(s)
      BY <2>1, QuietSteps
    <2>2. CASE hash_lookup(s) \/ LookupWait(s) \/ LookupHitTail(s)
      BY <2>2, LookupMore
    <2>3. CASE LookupHit(s)
      BY <2>3, ReferencingMore
    <2>4. CASE LookupMiss(s)
      BY <2>4, MissMore
    <2>5. CASE \/ cnt_hit(s) \/ cnt_lookup_hitpass(s) \/ cnt_miss(s)
               \/ cnt_fetch_cleanup(s) \/ cnt_prepresp(s) \/ cnt_deliver(s)
               \/ HSH_Drop_Deref(s)
      BY <2>5, DroppingMore
    <2>6. CASE Unbusy(s) \/ HSH_Drop(s)
      BY <2>6, UnbusyingMore
    <2>7. CASE cnt_fetchbody(s) \/ cnt_error(s) \/ cnt_done(s)
      BY <2>7, HandingMore
    <2>8. CASE HSH_Purge_one(s) \/ TakenDeref(s)
      BY <2>0, <2>8, DerefTaken
    <2>9. CASE DerefTail(s)
      BY <2>0, <2>9, FreeMore
    <2>10. CASE FetchBody_ok(s)
      BY <2>10, InsertingMore
    <2> QED BY <1>1, <2>1, <2>2, <2>3, <2>4, <2>5, <2>6, <2>7, <2>8, <2>9, <2>10
            DEF SessStep, QuietActions
  <1>2. ASSUME NEW s \in Sessions, SessChoice(s)
        PROVE  Extra'
    <2>1. CASE cnt_start(s)
      BY <2>1, QuietSteps DEF QuietActions
    <2>2. CASE SetObjTtl(s)
      BY <2>2, IdleSteps
    <2>3. CASE HSH_Purge(s)
      BY <2>3, ReferencingMore
    <2>4. CASE EXP_NukeOne(s)
      BY <2>4, TakingMore
    <2>5. CASE ESI_include(s)
      BY <2>5, HandingMore
    <2> QED BY <1>2, <2>1, <2>2, <2>3, <2>4, <2>5 DEF SessChoice
  <1>3. CASE TimerStep
    <2>0. Timer \in Threads
      BY DEF Threads
    <2>1. CASE \E c \in OCs : exp_timer(c)
      BY <2>1, TakingMore
    <2>2. CASE TakenDeref(Timer)
      BY <2>0, <2>2, DerefTaken
    <2>3. CASE DerefTail(Timer)
      BY <2>0, <2>3, FreeMore
    <2> QED BY <1>3, <2>1, <2>2, <2>3 DEF TimerStep
  <1>4. CASE (\E c \in OCs : Age(c)) \/ UNCHANGED vars
    BY <1>4, IdleSteps
  <1> QED BY <1>1, <1>2, <1>3, <1>4 DEF Next

\* Both invariants hold in every reachable state.
THEOREM ExtraAlways == Spec => [](IInv /\ Extra)
  <1>1. Init => IInv /\ Extra
    BY InitIInv, InitExtra
  <1>2. IInv /\ Extra /\ [Next]_vars => (IInv /\ Extra)'
    BY NextIInv, NextExtra
  <1> QED BY <1>1, <1>2, PTL DEF Spec

\* A list without duplicates has as many entries as elements; f names them.
LEMMA ListSize ==
    ASSUME NEW S, NEW q \in Seq(S), NEW T, NEW f \in [1..Len(q) -> T],
           \A i, j \in 1..Len(q) : f[i] = f[j] => i = j,
           \A y \in T : \E i \in 1..Len(q) : f[i] = y
    PROVE  Cardinality(T) = Len(q)
  <1>1. Len(q) \in Nat
    OBVIOUS
  <1>2. f \in Bijection(1..Len(q), T)
    BY DEF Bijection, Injection, Surjection, IsInjective
  <1> QED BY <1>1, <1>2, FS_CountingElements DEF ExistsBijection

\* The list of an objhead holds exactly its referenced objcores, each once: no
\* step of HSH_Lookup, HSH_Unbusy or HSH_Deref puts one on twice, leaves one
\* behind or takes off another, and HSH_Lookup's oc_getobj finds an object.
THEOREM ListsAlwaysExact == Spec => []ListsExact
  <1>1. ASSUME IInv, Extra
        PROVE  ListsExact
    <2>0. TypeOK /\ ListInv /\ HasInv
      BY <1>1 DEF IInv, Extra
    <2> SUFFICES ASSUME NEW h \in Heads
                 PROVE  /\ Elems(objcs[h]) = {c \in alive : head[c] = h /\ refcnt[c] > 0}
                        /\ Cardinality(Elems(objcs[h])) = Len(objcs[h])
                        /\ Elems(objcs[h]) \ busy \subseteq hasobj
      BY DEF ListsExact
    <2>1. Elems(objcs[h]) = {c \in alive : head[c] = h /\ refcnt[c] > 0}
      BY <2>0 DEF Elems, ListInv
    <2>2. Cardinality(Elems(objcs[h])) = Len(objcs[h])
      <3>1. /\ objcs[h] \in Seq(OCs)
            /\ objcs[h] \in [1..Len(objcs[h]) -> Elems(objcs[h])]
        BY <2>0 DEF TypeOK, Elems
      <3>2. \A y \in Elems(objcs[h]) : \E i \in 1..Len(objcs[h]) : objcs[h][i] = y
        BY <3>1 DEF Elems
      <3>3. \A i, j \in 1..Len(objcs[h]) : objcs[h][i] = objcs[h][j] => i = j
        BY <2>0, <3>1 DEF ListInv
      <3> QED BY <3>1, <3>2, <3>3, ListSize
    <2>3. Elems(objcs[h]) \ busy \subseteq hasobj
      BY <2>0, <2>1 DEF HasInv
    <2> QED BY <2>1, <2>2, <2>3
  <1> QED BY <1>1, ExtraAlways, PTL

\* "Busy objects go on the tail, so they will not trip up searches": whatever
\* order the sessions' HSH_Lookup, HSH_Unbusy and HSH_Deref come in, no busy
\* objcore is in front of one that a search could use.
THEOREM BusyStayAtTail == Spec => []BusyAtTail
  <1>1. Extra => BusyAtTail
    BY DEF Extra
  <1> QED BY <1>1, ExtraAlways, PTL

\* HSH_Lookup coalesces requests: two fetches for one objhead are under way only
\* for different variants, unless VCL asks not to wait.
THEOREM FetchesCoalesce == Spec => []Coalesced
  <1>1. Extra => Coalesced
    BY DEF Extra
  <1> QED BY <1>1, ExtraAlways, PTL

\* As long as WRK_QueueSession refuses nobody, oh->refcnt is exactly the number
\* of objcores and of sessions that hold the objhead: nothing leaks it.
THEOREM NoObjheadLeak ==
    ASSUME "drop" \notin Faults
    PROVE  Spec => []OhrefExact
  <1>1. Extra => OhrefExact
    BY DEF Extra, OhInv
  <1> QED BY <1>1, ExtraAlways, PTL

\* AZ(sp->objcore) in HSH_Lookup cannot fire while there is storage.
THEOREM LookupsStartClean ==
    ASSUME "nostorage" \notin Faults
    PROVE  Spec => []NoLeftoverObjcore
  <1>1. IInv => NoLeftoverObjcore
    BY DEF IInv, SessInv, Holds, NoLeftoverObjcore
  <1> QED BY <1>1, IInvAlways, PTL

\* AZ(sp->wrk->nbusyobj) in HSH_Unbusy cannot fire as long as every Vary: parses
\* and there is storage: whoever fetches has given its busyobj away.
THEOREM UnbusyHasRoom ==
    ASSUME {"badvary", "nostorage"} \cap Faults = {}
    PROVE  Spec => []NoSpareBusyobj
  <1>1. IInv /\ Extra => NoSpareBusyobj
    BY DEF IInv, TypeOK, Extra, OwnInv, SpareInv, Spare, FetchesEnd, NoSpareBusyobj
  <1> QED BY <1>1, ExtraAlways, PTL

\* A busy objcore has one owner, as long as there is storage: a session, through
\* one of its pointers, so that HSH_Unbusy and HSH_Drop race with nobody; the
\* expiry thread, LRU nuking and purges keep off.
THEOREM BusyHasOneOwner ==
    ASSUME "nostorage" \notin Faults
    PROVE  Spec => []BusyOwned
  <1>1. ASSUME IInv, Extra
        PROVE  BusyOwned
    <2>0. OwnInv /\ TypeOK
      BY <1>1 DEF IInv, Extra
    <2> SUFFICES ASSUME NEW c \in busy, refcnt[c] > 0
                 PROVE  \E s \in Sessions :
                           Holders(c) \ {<<"lru", Timer>>}
                              \in {{<<"objcore", s>>}, {<<"obj", s>>}, {<<"parent", s>>}}
      BY DEF BusyOwned
    <2>1. Owned(c)
      BY <2>0 DEF OwnInv
    <2>2. PICK k \in Holders(c) : k[1] # "lru"
      BY <1>1, <2>0, BusyHeld
    <2>3. \A l \in Holders(c) : l = k \/ l = <<"lru", Timer>>
      <3>1. \A l \in Holders(c) : l[1] # "lru" => l = k
        BY <2>1, <2>2 DEF Owned
      <3>2. \A l \in Holders(c) : l[1] = "lru" => l = <<"lru", Timer>>
        BY DEF Holders, Tokens
      <3> QED BY <3>1, <3>2
    <2>4. k # <<"lru", Timer>>
      BY <2>2
    <2>5. Holders(c) \ {<<"lru", Timer>>} = {k}
      BY <2>2, <2>3, <2>4
    <2>6. k[1] # "purge" /\ k[1] # "taken"
      BY <2>1, <2>2 DEF Owned
    <2>7. \E s \in Sessions : k \in {<<"objcore", s>>, <<"obj", s>>, <<"parent", s>>}
      BY <2>2, <2>6 DEF Holders, Tokens
    <2> QED BY <2>5, <2>7
  <1> QED BY <1>1, ExtraAlways, PTL

\* No lost wake-up: while sessions are parked on an objhead, some session or the
\* expiry thread is still to call hsh_rush on it or to search it, as long as
\* nothing is lost to a refused session or for want of storage.
THEOREM NoLostWakeup ==
    ASSUME {"drop", "nostorage"} \cap Faults = {}
    PROVE  Spec => []WaiterHasWaker
  <1>1. ASSUME Extra
        PROVE  WaiterHasWaker
    <2>0. None \notin OCs
      BY ConstantsAreDistinct
    <2> SUFFICES ASSUME NEW h \in Heads, waiters[h] # <<>>
                 PROVE  \/ \E s \in Sessions : Waker(s, h) \/ \E c \in purging[s] : head[c] = h
                        \/ \E t \in Threads : taken[t] # None /\ head[taken[t]] = h
      BY DEF WaiterHasWaker
    <2>1. HasWaker(h)
      BY <1>1 DEF Extra, WakeInv
    <2>2. CASE \E s \in Sessions : hoh[s] = h /\ step[s] # "WAITING"
      BY <2>2 DEF Waker
    <2>3. ASSUME NEW c \in OCs, head[c] = h, NEW k \in Holders(c), k[1] # "lru"
          PROVE  \/ \E s \in Sessions : Waker(s, h) \/ \E d \in purging[s] : head[d] = h
                 \/ \E t \in Threads : taken[t] # None /\ head[taken[t]] = h
      <3>1. \/ \E s \in Sessions : c \in {objcore[s], obj[s], parent[s]}
            \/ \E s \in Sessions : c \in purging[s]
            \/ \E t \in Threads : taken[t] = c
        BY <2>3 DEF Holders, Tokens
      <3> QED BY <2>0, <2>3, <3>1 DEF Waker
    <2> QED BY <2>1, <2>2, <2>3 DEF HasWaker
  <1> QED BY <1>1, ExtraAlways, PTL

\* A session that holds an objhead is counted besides the objcores on its list.
LEMMA HeadCounted ==
    ASSUME IInv, NEW s \in Sessions, hoh[s] # None
    PROVE  ohref[hoh[s]] > Len(objcs[hoh[s]])
  <1>0. TypeOK /\ ListInv /\ RefcntCovers
    BY DEF IInv, RefInv
  <1>1. PICK h \in Heads : h = hoh[s]
    BY <1>0 DEF TypeOK
  <1>2. PICK q \in Seq(OCs) : q = objcs[h]
    BY <1>0 DEF TypeOK
  <1> DEFINE T == {<<"oc", q[i]>> : i \in 1..Len(q)}
             f == [i \in 1..Len(q) |-> <<"oc", q[i]>>]
  <1>3. Cardinality(T) = Len(q)
    <2>1. f \in [1..Len(q) -> T] /\ \A y \in T : \E i \in 1..Len(q) : f[i] = y
      OBVIOUS
    <2>2. \A i, j \in 1..Len(q) : f[i] = f[j] => i = j
      BY <1>0, <1>2 DEF ListInv
    <2> HIDE DEF T, f
    <2> QED BY <2>1, <2>2, ListSize
  <1>4. T \subseteq HeadHolders(h) /\ <<"sess", s>> \in HeadHolders(h) /\ <<"sess", s>> \notin T
    BY <1>0, <1>1, <1>2 DEF HeadHolders, HeadTokens, ListInv, TypeOK
  <1> HIDE DEF T, f
  <1>5. IsFiniteSet(T) /\ Cardinality(T \cup {<<"sess", s>>}) = Cardinality(T) + 1
    <2>1. IsFiniteSet(HeadHolders(h))
      BY HoldersFinite
    <2>2. IsFiniteSet(T)
      BY <1>4, <2>1, FS_Subset
    <2> QED BY <1>4, <2>2, CountChange
  <1>6. Cardinality(T \cup {<<"sess", s>>}) <= Cardinality(HeadHolders(h))
    <2>1. T \cup {<<"sess", s>>} \subseteq HeadHolders(h)
      BY <1>4
    <2> QED BY <2>1, HoldersFinite, CountChange
  <1>7. Cardinality(HeadHolders(h)) <= ohref[h] /\ ohref[h] \in Nat
    BY <1>0 DEF RefcntCovers, TypeOK
  <1>8. Len(q) \in Nat /\ Cardinality(HeadHolders(h)) \in Nat
    BY HoldersFinite
  <1>9. \A a, b, c \in Nat : a + 1 <= b /\ b <= c => c > a
    OBVIOUS
  <1> QED BY <1>1, <1>2, <1>3, <1>5, <1>6, <1>7, <1>8, <1>9

\* The assertions of cache_hash.c and cache_center.c that rest on what several
\* threads do hold in every state, whatever VCL decides and whatever fails.
THEOREM AssertionsHold == Spec => []AssertsHold
  <1>1. ASSUME IInv, Extra
        PROVE  AssertsHold
    <2>0. /\ TypeOK /\ ListInv /\ RefcntCovers /\ WaitInv /\ SessInv /\ SoleInv
          /\ HasInv /\ HitInv /\ ParkInv /\ OwnInv /\ busy \subseteq OCs
          /\ None \notin OCs /\ PassObj \notin OCs /\ None # PassObj
      BY <1>1, ConstantsAreDistinct DEF IInv, RefInv, Extra, TypeOK
    <2>1. ASSUME NEW s \in Sessions
          PROVE  /\ hoh[s] # None => ohref[hoh[s]] > Len(objcs[hoh[s]])
                 /\ step[s] = "HITREF" => ohref[hoh[s]] > 1
      <3>1. hoh[s] # None => ohref[hoh[s]] > Len(objcs[hoh[s]])
        BY <1>1, HeadCounted
      <3>2. ASSUME step[s] = "HITREF"
            PROVE  ohref[hoh[s]] > 1
        <4>1. /\ hoh[s] # None /\ hoh[s] \in Heads /\ obj[s] \in OCs /\ head[obj[s]] = hoh[s]
          BY <2>0, <3>2 DEF SessInv, Holds, HitInv, TypeOK
        <4>2. <<"obj", s>> \in Holders(obj[s])
          BY DEF Holders, Tokens, Threads
        <4>3. obj[s] \in alive /\ refcnt[obj[s]] > 0
          BY <1>1, <4>1, <4>2, HeldFacts
        <4>4. \E i \in DOMAIN objcs[hoh[s]] : objcs[hoh[s]][i] = obj[s]
          BY <2>0, <4>1, <4>3 DEF ListInv
        <4>5. objcs[hoh[s]] \in Seq(OCs) /\ ohref[hoh[s]] \in Nat
          BY <2>0, <4>1 DEF TypeOK
        <4>6. Len(objcs[hoh[s]]) \in Nat /\ Len(objcs[hoh[s]]) >= 1
          BY <4>4, <4>5
        <4> QED BY <3>1, <4>1, <4>5, <4>6
      <3> QED BY <3>1, <3>2
    <2>2. ASSUME NEW s \in Sessions
          PROVE  /\ objcore[s] # None => refcnt[objcore[s]] = 1
                 /\ step[s] \in {"IDLE", "RECV", "LOOKUP", "WAITING", "MISS", "PASS",
                                 "ERROR", "DONE"} => obj[s] = None
                 /\ step[s] \in {"BODY", "STREAMBODY", "UNBUSY", "DROP"} =>
                       obj[s] \in busy \cup {PassObj}
                 /\ step[s] = "HIT" => obj[s] \in hasobj \ (hfp \cup busy)
      <3>1. Sole(s) /\ Holds(s)
        BY <2>0 DEF SoleInv, SessInv
      <3>2. step[s] \in {"BODY", "STREAMBODY"} => obj[s] \in busy \cup {PassObj}
        BY <2>0, <3>1 DEF Sole, Fetching, Holds, NoObjSteps, TypeOK
      <3>3. step[s] = "HIT" => obj[s] \in hasobj \ (hfp \cup busy)
        <4>1. step[s] = "HIT" => obj[s] \in OCs
          BY <3>1 DEF Holds
        <4>2. obj[s] \in OCs => obj[s] \in hasobj
          BY <2>0 DEF HasInv
        <4> QED BY <2>0, <4>1, <4>2 DEF HitInv
      <3> QED BY <2>0, <3>1, <3>2, <3>3 DEF Sole, Holds, NoObjSteps, OwnInv
    <2>3. ASSUME NEW s \in Sessions
          PROVE  step[s] = "WAITING" <=> \E h \in Heads : s \in Elems(waiters[h])
      <3>1. step[s] = "WAITING" => hoh[s] \in Heads /\ s \in Elems(waiters[hoh[s]])
        BY <2>0 DEF SessInv, Holds, ParkInv, TypeOK
      <3>2. ASSUME NEW h \in Heads, s \in Elems(waiters[h])
            PROVE  step[s] = "WAITING"
        BY <2>0, <3>2 DEF Elems, WaitInv
      <3> QED BY <3>1, <3>2
    <2>4. \A c \in OCs : refcnt[c] > 1 => c \in hasobj
      BY <2>0 DEF HasInv
    <2>5. ASSUME NEW h \in Heads, ohref[h] = 0
          PROVE  objcs[h] = <<>> /\ waiters[h] = <<>>
      <3>1. HeadHolders(h) = {}
        <4>1. Cardinality(HeadHolders(h)) <= 0 /\ Cardinality(HeadHolders(h)) \in Nat
          BY <2>0, <2>5, HoldersFinite DEF RefcntCovers
        <4>2. IsFiniteSet(HeadHolders(h))
          BY HoldersFinite
        <4>3. \A k : k \in HeadHolders(h) => Cardinality(HeadHolders(h)) >= 1
          BY <4>2, CountChange
        <4>4. \A k : k \notin HeadHolders(h)
          BY <4>1, <4>3
        <4> QED BY <4>4
      <3>2. ASSUME objcs[h] # <<>>
            PROVE  FALSE
        <4>1. objcs[h] \in Seq(OCs)
          BY <2>0 DEF TypeOK
        <4>2. 1 \in DOMAIN objcs[h]
          BY <3>2, <4>1
        <4>3. PICK c \in OCs : c \in alive /\ head[c] = h
          BY <2>0, <4>2 DEF ListInv, TypeOK
        <4>4. <<"oc", c>> \in HeadHolders(h)
          BY <4>3 DEF HeadHolders, HeadTokens
        <4> QED BY <3>1, <4>4
      <3>3. ASSUME waiters[h] # <<>>
            PROVE  FALSE
        <4>1. waiters[h] \in Seq(Sessions)
          BY <2>0 DEF TypeOK
        <4>2. 1 \in DOMAIN waiters[h] /\ waiters[h][1] \in Sessions
          BY <3>3, <4>1
        <4>3. PICK x \in Sessions : hoh[x] = h
          BY <2>0, <4>2 DEF WaitInv
        <4>4. <<"sess", x>> \in HeadHolders(h)
          BY <4>3 DEF HeadHolders, HeadTokens
        <4> QED BY <3>1, <4>4
      <3> QED BY <3>2, <3>3
    <2> QED BY <2>1, <2>2, <2>3, <2>4, <2>5 DEF AssertsHold
  <1> QED BY <1>1, ExtraAlways, PTL

=============================================================================
