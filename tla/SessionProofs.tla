--------------------------- MODULE SessionProofs ---------------------------
(***************************************************************************)
(* Proofs about SessionLife, for any number of pools, workers and sessions *)
(* and any setting of the parameters: a session is in one place at a time  *)
(* and its memory is never lost, the lists that are used without a lock    *)
(* are used by one thread only, and a queued session is not forgotten.     *)
(***************************************************************************)
EXTENDS SessionLife, ListLemmas

(***************************************************************************)
(* The inductive invariant: the worker pools.                              *)
(***************************************************************************)

\* A call of WRK_Queue that has taken a worker off the idle list owns it, until it has
\* given it a session and signalled it.
CallInv ==
    \A t \in Threads :
        /\ call[t].pc \in {"none", "herd"} => call[t].sp = NULL /\ call[t].w = NULL
        /\ call[t].pc = "assign" => call[t].sp \in Sessions
        /\ call[t].pc = "signal" => call[t].sp = NULL
        /\ call[t].pc \in {"assign", "signal"} =>
              /\ call[t].w \in Workers /\ wpc[call[t].w] = "idle"
              /\ call[t].w \notin woken /\ call[t].w # kissed
              /\ wsp[call[t].w] = NULL <=> call[t].pc = "assign"
        /\ \A u \in Threads : call[t].w # NULL /\ call[u].w = call[t].w => t = u

\* Who is idle is on the list, about to get a session, woken with one, or told to go.
OnIdle(p, w) ==
    /\ wpc[w] = "idle" /\ w \notin woken /\ wsp[w] = NULL /\ wpool[w] = p
    /\ w # kissed /\ \A t \in Threads : call[t].w # w
Assigned(w) == \E t \in Threads : call[t].pc = "assign" /\ call[t].w = w
IdleInv ==
    /\ \A p \in Pools : /\ Distinct(idle[p])
                        /\ \A w \in ToSet(idle[p]) : OnIdle(p, w)
                        /\ queue[p] # <<>> => idle[p] = <<>>
    /\ kissed # NULL => wpc[kissed] = "idle" /\ wsp[kissed] = NULL
    /\ \A w \in woken : wpc[w] = "idle"
    /\ Prompt => /\ \A w \in woken : wsp[w] = NULL => w = kissed
                 /\ \A w \in Workers : wpc[w] = "idle" =>
                       \/ w \in ToSet(idle[wpool[w]]) \/ wsp[w] # NULL
                       \/ Assigned(w) \/ w = kissed

\* The pool a thread counts in.
Post == [w \in Workers |-> IF wpc[w] \in {"none", "created"} THEN -1 ELSE wpool[w]]
CountInv == \A p \in Pools : nthr[p] = Cardinality(Entries(Workers, Post, p))

\* Only the thread that was told to go leaves, and its pool has more than the minimum;
\* the herder goes on from a pool only when it has the minimum.
HerdInv ==
    Prompt =>
        /\ kissed # NULL => nthr[wpool[kissed]] > ThreadMin
        /\ herder.pc \in {"breed", "breed_last"} => herder.w = FirstPool
        /\ herder.pc \in {"min", "min_last"} =>
              \A p \in Pools : p < herder.w => nthr[p] >= ThreadMin
        /\ herder.pc \in {"sleep", "waiting"} => \A p \in Pools : nthr[p] >= ThreadMin

PoolInv == PoolTypeOK /\ CallInv /\ IdleInv /\ CountInv /\ HerdInv

(***************************************************************************)
(* The sessions.                                                           *)
(***************************************************************************)
SessTypeOK ==
    /\ vca_act \in Waiters /\ ses_qp \in 0..1
    /\ ses_free_mem \in [0..1 -> SUBSET Sessions]
    /\ ses_mem_mtx \in [t : Threads \cup {NULL}, list : 0..1]
    /\ n_sess_mem \in Nat
    /\ apc \in [pc : {"accept", "flip", "remove", "alloc", "count", "queue"},
                sp : Sessions \cup {NULL}]
    /\ del \in [Threads -> [pc : {"none", "delete", "insert", "spare", "spare_insert"},
                            sp : Sessions \cup {NULL}]]
    /\ pipe \in Seq(Sessions) /\ sesshead \in Seq(Sessions)
    /\ armed \subseteq Sessions /\ pending \subseteq Sessions
    /\ old \subseteq Sessions /\ parked \subseteq Sessions

\* The acceptor, and the lock and list of free memory.
MemInv ==
    /\ apc.pc \in {"accept", "flip", "alloc"} <=> apc.sp = NULL
    /\ apc.pc # "accept" => Ready(acceptor)
    /\ apc.pc = "remove" => apc.sp \in ses_free_mem[ses_qp]
    /\ \A t \in Threads : /\ del[t].pc = "none" <=> del[t].sp = NULL
                          /\ del[t].pc \in {"insert", "spare_insert"} <=> ses_mem_mtx.t = t
    /\ ses_mem_mtx # NoLock => ses_mem_mtx.t # NULL /\ ses_mem_mtx.list = 1 - ses_qp

\* What the kernel watches.
WatchInv ==
    /\ WatchedIsListed
    /\ armed \cap pending = {} /\ (vca_act # "kqueue" => pending = {})

\* A session has a worker while that worker runs it.
WrkInv ==
    /\ \A s \in Sessions : wrk[s] # NULL => wpc[wrk[s]] = "run" /\ wsp[wrk[s]] = s
    /\ \A w \in Workers : wpc[w] \in {"start", "run", "return"} => wsp[w] \in Sessions

\* The session each thread has: in a call of WRK_Queue, in one of SES_Delete, as spare
\* memory there, and on a worker.
CallSp == [t \in Threads |-> call[t].sp]
DelSp == [t \in Threads |-> IF del[t].pc = "spare" THEN NULL ELSE del[t].sp]
SpareSp == [t \in Threads |-> IF del[t].pc = "spare" THEN del[t].sp ELSE NULL]
RunSp == [w \in Workers |-> IF wpc[w] \in {"idle", "start", "run", "return"}
                            THEN wsp[w] ELSE NULL]
Vals(S, f) == {f[u] : u \in S} \ {NULL}
Inj(S, f) == \A t, u \in S : f[t] # NULL /\ f[t] = f[u] => t = u
InjInv ==
    /\ Inj(Threads, CallSp) /\ Inj(Threads, DelSp) /\ Inj(Threads, SpareSp)
    /\ Inj(Workers, RunSp)
\* No session is on a list twice, or on two queues.
ListInv == Distinct(pipe) /\ Distinct(sesshead)
QueueInv ==
    /\ \A p \in Pools : Distinct(queue[p])
    /\ \A p, q \in Pools : \A s \in ToSet(queue[p]) \cap ToSet(queue[q]) : p = q

\* Where a session can be, and which ones are there.
Spots == {"none", "free0", "free1", "new", "accepted", "queue", "call", "run", "parked",
          "pipe", "head", "deleted", "spare"}
Queued == UNION {ToSet(queue[p]) : p \in Pools}
New == IF apc.pc = "count" THEN {apc.sp} ELSE {}
Accepted == IF apc.pc = "queue" THEN {apc.sp} ELSE {}
Called == Vals(Threads, CallSp)
Running == Vals(Workers, RunSp)
Deleted == Vals(Threads, DelSp)
Spared == Vals(Threads, SpareSp)
Held ==
    [free0 |-> ses_free_mem[0], free1 |-> ses_free_mem[1], new |-> New, accepted |-> Accepted,
     queue |-> Queued, call |-> Called, run |-> Running, parked |-> parked,
     pipe |-> ToSet(pipe), head |-> ToSet(sesshead), deleted |-> Deleted, spare |-> Spared]

\* Every session is in one spot; n_sess_mem counts it once ses_sm_alloc is done with it.
Fits(at, H) == \A s \in Sessions : \A x \in Spots \ {"none"} : at[s] = x <=> s \in H[x]
Counts(x) == x \notin {"none", "new", "spare"}
Counted(at) == {s \in Sessions : Counts(at[s])}
SpotInv ==
    \E at \in [Sessions -> Spots] : Fits(at, Held) /\ n_sess_mem = Cardinality(Counted(at))

SessInv ==
    SessTypeOK /\ MemInv /\ WatchInv /\ WrkInv /\ InjInv /\ ListInv /\ QueueInv /\ SpotInv

IInv == PoolInv /\ SessInv

-----------------------------------------------------------------------------
(***************************************************************************)
(* Facts about lists and tables.                                           *)
(***************************************************************************)

\* What is on a list of sessions, or of workers, is one.
LEMMA ListedIn ==
    ASSUME NEW S, NEW q \in Seq(S)
    PROVE  ToSet(q) \subseteq S
BY DEF ToSet

\* VTAILQ_INSERT_HEAD and VTAILQ_INSERT_TAIL of s; VTAILQ_REMOVE of the first entry, and
\* of s.
LEMMA ListFacts ==
    ASSUME NEW S, NEW q \in Seq(S), Distinct(q)
    PROVE  /\ \A s \in S : /\ Append(q, s) \in Seq(S) /\ <<s>> \o q \in Seq(S)
                           /\ ToSet(Append(q, s)) = ToSet(q) \cup {s}
                           /\ ToSet(<<s>> \o q) = ToSet(q) \cup {s}
                           /\ s \notin ToSet(q) => Distinct(Append(q, s)) /\ Distinct(<<s>> \o q)
           /\ q # <<>> => /\ Head(q) \in S /\ Head(q) \in ToSet(q)
                          /\ Tail(q) \in Seq(S) /\ Distinct(Tail(q))
                          /\ ToSet(Tail(q)) = ToSet(q) \ {Head(q)}
           /\ \A s \in ToSet(q) : /\ s \in S
                                  /\ Without(q, s) \in Seq(S) /\ Distinct(Without(q, s))
                                  /\ ToSet(Without(q, s)) = ToSet(q) \ {s}
<1>0. \A r : ToSet(r) = Range(r)
    BY DEF ToSet, Range
<1>1. ASSUME NEW s \in S
      PROVE  /\ Append(q, s) \in Seq(S) /\ <<s>> \o q \in Seq(S)
             /\ Range(Append(q, s)) = Range(q) \cup {s}
             /\ Range(<<s>> \o q) = Range(q) \cup {s}
             /\ s \notin Range(q) => Distinct(Append(q, s)) /\ Distinct(<<s>> \o q)
    BY AppendEntry, FrontEntry
<1>2. ASSUME q # <<>>
      PROVE  /\ Head(q) \in S /\ Head(q) \in Range(q)
             /\ Tail(q) \in Seq(S) /\ Distinct(Tail(q))
             /\ Range(Tail(q)) = Range(q) \ {Head(q)}
    BY <1>2, TailEntry
<1>3. ASSUME NEW s \in Range(q)
      PROVE  /\ s \in S /\ Without(q, s) \in Seq(S) /\ Distinct(Without(q, s))
             /\ Range(Without(q, s)) = Range(q) \ {s}
  <2> DEFINE k == CHOOSE i \in DOMAIN q : q[i] = s
  <2>1. k \in 1..Len(q) /\ q[k] = s
      BY DEF Range
  <2> HIDE DEF k
  <2>2. /\ RemoveAt(q, k) \in Seq(S) /\ Distinct(RemoveAt(q, k))
        /\ Range(RemoveAt(q, k)) = Range(q) \ {s}
      BY <2>1, RemoveEntry
  <2> QED BY <2>1, <2>2 DEF Without, k
<1>4. /\ \A s \in S : /\ Append(q, s) \in Seq(S) /\ <<s>> \o q \in Seq(S)
                      /\ ToSet(Append(q, s)) = ToSet(q) \cup {s}
                      /\ ToSet(<<s>> \o q) = ToSet(q) \cup {s}
                      /\ s \notin ToSet(q) => Distinct(Append(q, s)) /\ Distinct(<<s>> \o q)
    BY <1>0, <1>1
<1>5. q # <<>> => /\ Head(q) \in S /\ Head(q) \in ToSet(q)
                  /\ Tail(q) \in Seq(S) /\ Distinct(Tail(q))
                  /\ ToSet(Tail(q)) = ToSet(q) \ {Head(q)}
    BY <1>0, <1>2
<1>6. \A s \in ToSet(q) : /\ s \in S
                          /\ Without(q, s) \in Seq(S) /\ Distinct(Without(q, s))
                          /\ ToSet(Without(q, s)) = ToSet(q) \ {s}
    BY <1>0, <1>3
<1> QED BY <1>4, <1>5, <1>6

\* VTAILQ_REMOVE of the last entry.
LEMMA DropLast ==
    ASSUME NEW S, NEW q \in Seq(S), Distinct(q), q # <<>>
    PROVE  LET n == Len(q) IN
           /\ q[n] \in S /\ q[n] \in ToSet(q)
           /\ SubSeq(q, 1, n - 1) \in Seq(S) /\ Distinct(SubSeq(q, 1, n - 1))
           /\ ToSet(SubSeq(q, 1, n - 1)) = ToSet(q) \ {q[n]}
<1> DEFINE n == Len(q)
           r == SubSeq(q, 1, n - 1)
<1>1. n \in Nat /\ n >= 1 /\ DOMAIN q = 1..n /\ \A i \in 1..n : q[i] \in S
    OBVIOUS
<1>2. r \in Seq(S) /\ Len(r) = n - 1 /\ DOMAIN r = 1..(n - 1)
    BY <1>1
<1>3. \A i \in 1..(n - 1) : r[i] = q[i]
    BY <1>1, <1>2
<1> HIDE DEF r, n
<1>4. q[n] \in S /\ q[n] \in ToSet(q)
    BY <1>1 DEF ToSet
<1>5. Distinct(r)
    BY <1>1, <1>2, <1>3 DEF Distinct
<1>6. \A i \in 1..(n - 1) : i \in 1..n /\ i # n
    BY <1>1
<1>7. \A i \in 1..n : i = n \/ i \in 1..(n - 1)
    BY <1>1
<1>8. n \in 1..n
    BY <1>1
<1>9. ToSet(r) = ToSet(q) \ {q[n]}
  <2>1. \A u \in ToSet(r) : u \in ToSet(q) \ {q[n]}
      BY <1>1, <1>2, <1>3, <1>6, <1>8 DEF ToSet, Distinct
  <2>2. \A u \in ToSet(q) \ {q[n]} : u \in ToSet(r)
      BY <1>1, <1>2, <1>3, <1>7 DEF ToSet
  <2> QED BY <2>1, <2>2
<1> QED BY <1>2, <1>4, <1>5, <1>9 DEF r, n

\* One list after the other.
LEMMA ConcatEntries ==
    ASSUME NEW S, NEW q \in Seq(S), NEW r \in Seq(S), Distinct(q), Distinct(r)
    PROVE  /\ q \o r \in Seq(S) /\ ToSet(q \o r) = ToSet(q) \cup ToSet(r)
           /\ ToSet(q) \cap ToSet(r) = {} => Distinct(q \o r)
<1> DEFINE c == q \o r
           m == Len(q)
           n == Len(r)
<1>1. m \in Nat /\ n \in Nat /\ DOMAIN q = 1..m /\ DOMAIN r = 1..n
    OBVIOUS
<1>2. c \in Seq(S) /\ DOMAIN c = 1..(m + n)
    OBVIOUS
<1>3. \A i \in 1..(m + n) : c[i] = IF i <= m THEN q[i] ELSE r[i - m]
    OBVIOUS
<1> HIDE DEF c, m, n
<1>4. /\ \A i \in 1..m : i \in DOMAIN c /\ c[i] = q[i]
      /\ \A j \in 1..n : m + j \in DOMAIN c /\ c[m + j] = r[j]
  <2>1. \A j \in 1..n : m + j \in 1..(m + n) /\ ~(m + j <= m) /\ (m + j) - m = j
      BY <1>1
  <2>2. \A i \in 1..m : i \in 1..(m + n) /\ i <= m
      BY <1>1
  <2> QED BY <1>2, <1>3, <2>1, <2>2
<1>5. \A i \in DOMAIN c : \/ i \in 1..m /\ c[i] = q[i]
                          \/ i - m \in 1..n /\ c[i] = r[i - m] /\ i \in Int
  <2> SUFFICES ASSUME NEW i \in DOMAIN c
               PROVE  \/ i \in 1..m /\ c[i] = q[i]
                      \/ i - m \in 1..n /\ c[i] = r[i - m] /\ i \in Int
      OBVIOUS
  <2>1. i \in 1..m \/ (i - m \in 1..n /\ ~(i <= m) /\ i \in Int)
      BY <1>1, <1>2
  <2> QED BY <1>1, <1>2, <1>3, <2>1
<1>6. ToSet(c) = ToSet(q) \cup ToSet(r)
  <2>1. \A u \in ToSet(c) : u \in ToSet(q) \cup ToSet(r)
      BY <1>1, <1>5 DEF ToSet
  <2>2. \A u \in ToSet(q) : u \in ToSet(c)
      BY <1>1, <1>4 DEF ToSet
  <2>3. \A u \in ToSet(r) : u \in ToSet(c)
      BY <1>1, <1>4 DEF ToSet
  <2> QED BY <2>1, <2>2, <2>3
<1>7. ASSUME ToSet(q) \cap ToSet(r) = {}, NEW i \in DOMAIN c, NEW j \in DOMAIN c, c[i] = c[j]
      PROVE  i = j
  <2>1. CASE i \in 1..m /\ c[i] = q[i] /\ j \in 1..m /\ c[j] = q[j]
      BY <1>1, <1>7, <2>1 DEF Distinct
  <2>2. CASE i - m \in 1..n /\ c[i] = r[i - m] /\ j - m \in 1..n /\ c[j] = r[j - m]
             /\ i \in Int /\ j \in Int
    <3>1. i - m = j - m
        BY <1>1, <1>7, <2>2 DEF Distinct
    <3> QED BY <1>1, <2>2, <3>1
  <2>3. ASSUME NEW a \in 1..m, NEW b \in 1..n
        PROVE  q[a] # r[b]
      BY <1>1, <1>7 DEF ToSet
  <2> QED BY <1>5, <1>7, <2>1, <2>2, <2>3
<1> QED BY <1>2, <1>6, <1>7 DEF Distinct, c

\* A holder gives up its session or gets one that no other holder has.
LEMMA HolderMoved ==
    ASSUME NEW S, NEW f, NEW g, NEW k, ChangedAt(S, k, f, g), Inj(S, f),
           g[k] = NULL \/ g[k] = f[k] \/ g[k] \notin Vals(S, f)
    PROVE  /\ Inj(S, g)
           /\ Vals(S, g) = (Vals(S, f) \ {f[k]}) \cup ({g[k]} \ {NULL})
<1>1. k \in S /\ \A u \in S : u = k \/ g[u] = f[u]
    BY DEF ChangedAt
<1>2. \A u : u \in Vals(S, f) <=> u # NULL /\ \E t \in S : f[t] = u
    BY DEF Vals
<1>3. \A u : u \in Vals(S, g) <=> u # NULL /\ \E t \in S : g[t] = u
    BY DEF Vals
<1>4. Inj(S, g)
    BY <1>1, <1>2 DEF Inj
<1>5. ASSUME NEW u \in Vals(S, g) PROVE u \in (Vals(S, f) \ {f[k]}) \cup ({g[k]} \ {NULL})
  <2>1. u # NULL
      BY <1>3
  <2>2. PICK t \in S : g[t] = u
      BY <1>3
  <2>3. CASE t = k
      BY <2>1, <2>2, <2>3
  <2>4. CASE t # k
      BY <1>1, <1>2, <2>1, <2>2, <2>4 DEF Inj
  <2> QED BY <2>3, <2>4
<1>6. ASSUME NEW u \in Vals(S, f) \ {f[k]} PROVE u \in Vals(S, g)
    BY <1>1, <1>2, <1>3
<1>7. g[k] # NULL => g[k] \in Vals(S, g)
    BY <1>1, <1>3
<1> QED BY <1>4, <1>5, <1>6, <1>7

-----------------------------------------------------------------------------
(***************************************************************************)
(* The worker pools keep their invariant.                                  *)
(***************************************************************************)

\* The herder goes through the pools from the first to the last.
LEMMA PoolFacts ==
    /\ FirstPool \in Pools /\ LastPool \in Pools
    /\ \A q \in Pools : q \in Int /\ ~(q < FirstPool) /\ q <= LastPool
    /\ \A p \in Pools : NextPool(p) \in Pools
    /\ \A p \in Pools : p # LastPool => \A q \in Pools : q < NextPool(p) => q < p \/ q = p
<1>1. PICK n \in Nat : Pools = 0..n
    BY PoolAssumption
<1>2. FirstPool \in Pools /\ \A q \in Pools : FirstPool <= q
  <2>1. 0 \in Pools /\ \A q \in Pools : 0 <= q
      BY <1>1
  <2> QED BY <2>1 DEF FirstPool
<1>3. LastPool \in Pools /\ \A q \in Pools : q <= LastPool
  <2>1. n \in Pools /\ \A q \in Pools : q <= n
      BY <1>1
  <2> QED BY <2>1 DEF LastPool
<1>4. \A q \in Pools : q \in Int
    BY <1>1
<1>5. ASSUME NEW p \in Pools, p # LastPool
      PROVE  NextPool(p) \in Pools /\ \A q \in Pools : q < NextPool(p) => q < p \/ q = p
  <2> DEFINE P(q) == q > p /\ \A r \in Pools : r > p => q <= r
  <2>1. p < LastPool /\ p \in Int
      BY <1>3, <1>4, <1>5
  <2>2. p + 1 \in Pools /\ P(p + 1)
      BY <1>1, <1>3, <2>1
  <2>3. NextPool(p) = CHOOSE q \in Pools : P(q)
      BY <1>5 DEF NextPool
  <2>4. NextPool(p) \in Pools /\ P(NextPool(p))
      BY <2>2, <2>3
  <2> QED BY <1>4, <2>4
<1>6. NextPool(LastPool) \in Pools
    BY <1>2 DEF NextPool
<1> QED BY <1>2, <1>3, <1>4, <1>5, <1>6

\* wrk_breed_flock makes a thread that nobody knows yet.
LEMMA BreedKeeps ==
    ASSUME PoolInv, NEW p \in Pools, wrk_breed_flock(p),
           UNCHANGED <<idle, queue, nthr, wsp, woken, call, kissed>>
    PROVE  /\ wpc' \in [Workers -> {"none", "created", "idle", "start", "run", "return", "after"}]
           /\ wpool' \in [Workers -> Pools]
           /\ CallInv' /\ IdleInv' /\ CountInv'
           /\ kissed # NULL => wpool'[kissed] = wpool[kissed]
<1>0. PoolTypeOK /\ CallInv /\ IdleInv /\ CountInv
    BY DEF PoolInv
<1>1. CASE UNCHANGED <<wpc, wpool>>
  <2>1. Post' = Post
      BY <1>1 DEF Post
  <2> QED BY <1>0, <1>1, <2>1 DEF PoolTypeOK, CallInv, IdleInv, OnIdle, Assigned, CountInv, Entries
<1>2. ASSUME NEW w \in Workers, wpc[w] = "none",
             wpc' = [wpc EXCEPT ![w] = "created"], wpool' = [wpool EXCEPT ![w] = p]
      PROVE  /\ wpc' \in [Workers -> {"none", "created", "idle", "start", "run", "return", "after"}]
             /\ wpool' \in [Workers -> Pools]
             /\ CallInv' /\ IdleInv' /\ CountInv'
             /\ kissed # NULL => wpool'[kissed] = wpool[kissed]
  <2>1. /\ wpc' \in [Workers -> {"none", "created", "idle", "start", "run", "return", "after"}]
        /\ wpool' \in [Workers -> Pools]
        /\ \A v \in Workers : v # w => wpc'[v] = wpc[v] /\ wpool'[v] = wpool[v]
        /\ wpc'[w] = "created"
      BY <1>0, <1>2 DEF PoolTypeOK
  <2>2. CallInv'
      BY <1>0, <1>2, <2>1 DEF CallInv
  <2>3. kissed # NULL => kissed \in Workers /\ kissed # w
      BY <1>0, <1>2 DEF PoolTypeOK, IdleInv
  <2>4. ASSUME NEW q \in Pools, NEW v \in ToSet(idle[q]) PROVE OnIdle(q, v)'
    <3>1. idle[q] \in Seq(Workers)
        BY <1>0 DEF PoolTypeOK
    <3>2. v \in Workers
        BY <3>1, ListedIn
    <3>3. OnIdle(q, v)
        BY <1>0 DEF IdleInv
    <3> QED BY <1>2, <2>1, <3>2, <3>3 DEF OnIdle
  <2>5. \A v \in woken : v \in Workers
      BY <1>0 DEF PoolTypeOK
  <2>6. \A v : Assigned(v)' <=> Assigned(v)
      BY DEF Assigned
  <2>7. IdleInv'
      BY <1>0, <1>2, <2>1, <2>3, <2>4, <2>5, <2>6 DEF IdleInv
  <2>8. Post' = Post
      BY <1>2, <2>1 DEF Post
  <2>9. CountInv'
      BY <1>0, <2>8 DEF CountInv, Entries
  <2> QED BY <2>1, <2>2, <2>3, <2>7, <2>9
<1> QED BY <1>1, <1>2 DEF wrk_breed_flock

\* The herder.
LEMMA HerderKeeps ==
    ASSUME PoolInv, HerderStep
    PROVE  PoolInv' /\ UNCHANGED <<idle, queue, wsp, woken, wrk, call, kissed>>
           /\ \A w \in Workers : wpc'[w] = wpc[w] \/ (wpc[w] = "none" /\ wpc'[w] = "created")
<1>0. PoolTypeOK /\ CallInv /\ IdleInv /\ CountInv /\ HerdInv
    BY DEF PoolInv
<1>1. herder \in [pc : {"breed", "breed_last", "min", "min_last", "sleep", "waiting"},
                  u : Pools, w : Pools]
    BY <1>0 DEF PoolTypeOK
<1> DEFINE Same == UNCHANGED <<idle, queue, wsp, woken, wrk, call, kissed>>
           Made == \A w \in Workers : wpc'[w] = wpc[w] \/ (wpc[w] = "none" /\ wpc'[w] = "created")
<1>2. ASSUME NEW p \in Pools, wrk_breed_flock(p) PROVE Made
    BY <1>0, <1>2 DEF wrk_breed_flock, PoolTypeOK
<1>3. CASE herder_breed
  <2>1. /\ wrk_breed_flock(herder.u) /\ Same /\ UNCHANGED <<nthr, last_lqueue>>
        /\ herder' = [herder EXCEPT !.pc = "breed_last"] /\ herder.pc = "breed"
      BY <1>3 DEF herder_breed
  <2>2. herder' \in [pc : {"breed", "breed_last", "min", "min_last", "sleep", "waiting"},
                     u : Pools, w : Pools] /\ herder'.pc = "breed_last" /\ herder'.w = herder.w
      BY <1>1, <2>1
  <2>3. /\ wpc' \in [Workers -> {"none", "created", "idle", "start", "run", "return", "after"}]
        /\ wpool' \in [Workers -> Pools]
        /\ CallInv' /\ IdleInv' /\ CountInv'
        /\ kissed # NULL => wpool'[kissed] = wpool[kissed]
      BY <1>1, <2>1, BreedKeeps
  <2>4. HerdInv'
      BY <1>0, <2>1, <2>2, <2>3 DEF HerdInv
  <2>5. PoolTypeOK'
      BY <1>0, <2>1, <2>2, <2>3 DEF PoolTypeOK
  <2> QED BY <1>1, <1>2, <2>1, <2>3, <2>4, <2>5 DEF PoolInv
<1>4. CASE herder_last
  <2>1. /\ Same /\ UNCHANGED <<nthr, wpc, wpool>>
        /\ herder' = [herder EXCEPT !.pc = "min"] /\ herder.pc \in {"breed_last", "min_last"}
      BY <1>4 DEF herder_last
  <2>2. last_lqueue' \in [Pools -> Nat]
      BY <1>0, <1>1, <1>4 DEF herder_last, PoolTypeOK
  <2>3. herder' \in [pc : {"breed", "breed_last", "min", "min_last", "sleep", "waiting"},
                     u : Pools, w : Pools] /\ herder'.pc = "min" /\ herder'.w = herder.w
      BY <1>1, <2>1
  <2>4. PoolTypeOK'
      BY <1>0, <2>1, <2>2, <2>3 DEF PoolTypeOK
  <2>5. CallInv' /\ IdleInv' /\ CountInv'
      BY <1>0, <2>1 DEF CallInv, IdleInv, OnIdle, Assigned, CountInv, Entries, Post
  <2>6. HerdInv'
      BY <1>0, <2>1, <2>3, PoolFacts DEF HerdInv
  <2> QED BY <2>1, <2>4, <2>5, <2>6 DEF PoolInv
<1>5. CASE herder_min
  <2>1. Same /\ UNCHANGED <<nthr, last_lqueue>> /\ herder.pc = "min"
      BY <1>5 DEF herder_min
  <2>2. CASE /\ nthr[herder.w] < ThreadMin
             /\ wrk_breed_flock(herder.w)
             /\ herder' = [herder EXCEPT !.pc = "min_last"]
    <3>1. herder' \in [pc : {"breed", "breed_last", "min", "min_last", "sleep", "waiting"},
                       u : Pools, w : Pools] /\ herder'.pc = "min_last" /\ herder'.w = herder.w
        BY <1>1, <2>2
    <3>2. /\ wpc' \in [Workers -> {"none", "created", "idle", "start", "run", "return", "after"}]
          /\ wpool' \in [Workers -> Pools]
          /\ CallInv' /\ IdleInv' /\ CountInv'
          /\ kissed # NULL => wpool'[kissed] = wpool[kissed]
        BY <1>1, <2>1, <2>2, BreedKeeps
    <3>3. HerdInv'
        BY <1>0, <2>1, <3>1, <3>2 DEF HerdInv
    <3>4. PoolTypeOK'
        BY <1>0, <2>1, <3>1, <3>2 DEF PoolTypeOK
    <3> QED BY <1>1, <1>2, <2>1, <2>2, <3>2, <3>3, <3>4 DEF PoolInv
  <2>3. CASE /\ nthr[herder.w] >= ThreadMin
             /\ herder' = IF herder.w = LastPool THEN [herder EXCEPT !.pc = "sleep"]
                          ELSE [herder EXCEPT !.w = NextPool(@)]
             /\ UNCHANGED <<wpc, wpool>>
    <3>0. /\ nthr \in [Pools -> Nat] /\ ThreadMin \in Nat
          /\ Prompt => \A p \in Pools : p < herder.w => nthr[p] >= ThreadMin
        BY <1>0, <2>1, PoolAssumption DEF PoolTypeOK, HerdInv
    <3>1. CASE herder.w = LastPool /\ herder' = [herder EXCEPT !.pc = "sleep"]
      <4>1. herder' \in [pc : {"breed", "breed_last", "min", "min_last", "sleep", "waiting"},
                         u : Pools, w : Pools] /\ herder'.pc = "sleep"
          BY <1>1, <3>1
      <4>2. PoolTypeOK'
          BY <1>0, <2>1, <2>3, <4>1 DEF PoolTypeOK
      <4>3. CallInv' /\ IdleInv' /\ CountInv'
          BY <1>0, <2>1, <2>3 DEF CallInv, IdleInv, OnIdle, Assigned, CountInv, Entries, Post
      <4>4. Prompt => \A p \in Pools : nthr[p] >= ThreadMin
          BY <2>3, <3>0, <3>1, PoolFacts
      <4>5. HerdInv'
          BY <1>0, <2>1, <2>3, <4>1, <4>4 DEF HerdInv
      <4> QED BY <2>1, <2>3, <4>2, <4>3, <4>5 DEF PoolInv
    <3>2. CASE herder.w # LastPool /\ herder' = [herder EXCEPT !.w = NextPool(@)]
      <4>1. herder' \in [pc : {"breed", "breed_last", "min", "min_last", "sleep", "waiting"},
                         u : Pools, w : Pools] /\ herder'.pc = "min"
            /\ herder'.w = NextPool(herder.w)
          BY <1>1, <2>1, <3>2, PoolFacts
      <4>2. PoolTypeOK'
          BY <1>0, <2>1, <2>3, <4>1 DEF PoolTypeOK
      <4>3. CallInv' /\ IdleInv' /\ CountInv'
          BY <1>0, <2>1, <2>3 DEF CallInv, IdleInv, OnIdle, Assigned, CountInv, Entries, Post
      <4>4. Prompt => \A p \in Pools : p < herder'.w => nthr[p] >= ThreadMin
          BY <1>1, <2>3, <3>0, <3>2, <4>1, PoolFacts
      <4>5. HerdInv'
          BY <1>0, <2>1, <2>3, <4>1, <4>4 DEF HerdInv
      <4> QED BY <2>1, <2>3, <4>2, <4>3, <4>5 DEF PoolInv
    <3> QED BY <2>3, <3>1, <3>2
  <2> QED BY <1>5, <2>2, <2>3 DEF herder_min
<1>6. CASE herder_wait
  <2>1. /\ Same /\ UNCHANGED <<nthr, last_lqueue, wpc, wpool>>
        /\ herder' = [herder EXCEPT !.pc = "waiting"] /\ herder.pc = "sleep"
      BY <1>6 DEF herder_wait
  <2>2. herder' \in [pc : {"breed", "breed_last", "min", "min_last", "sleep", "waiting"},
                     u : Pools, w : Pools] /\ herder'.pc = "waiting"
      BY <1>1, <2>1
  <2>3. PoolTypeOK'
      BY <1>0, <2>1, <2>2 DEF PoolTypeOK
  <2>4. CallInv' /\ IdleInv' /\ CountInv'
      BY <1>0, <2>1 DEF CallInv, IdleInv, OnIdle, Assigned, CountInv, Entries, Post
  <2>5. HerdInv'
      BY <1>0, <2>1, <2>2 DEF HerdInv
  <2> QED BY <2>1, <2>3, <2>4, <2>5 DEF PoolInv
<1> QED BY <1>3, <1>4, <1>5, <1>6 DEF HerderStep

\* What WRK_Queue does after it has let go of the pool's lock.
LEMMA CallKeeps ==
    ASSUME PoolInv, NEW t \in Threads, CallStep(t)
    PROVE  PoolInv'
<1>0. PoolTypeOK /\ CallInv /\ IdleInv /\ CountInv /\ HerdInv
    BY DEF PoolInv
<1> DEFINE w == call[t].w
<1>1. /\ call \in [Threads -> [pc : {"none", "assign", "signal", "herd"},
                               sp : Sessions \cup {NULL}, w : Workers \cup {NULL}]]
      /\ wsp \in [Workers -> Sessions \cup {NULL}] /\ woken \subseteq Workers
      /\ NULL \notin Workers /\ NULL \notin Sessions
    BY <1>0, PoolAssumption DEF PoolTypeOK
<1>2. ASSUME NEW q \in Pools, NEW v \in ToSet(idle[q])
      PROVE  v \in Workers /\ OnIdle(q, v)
  <2>1. idle[q] \in Seq(Workers)
      BY <1>0 DEF PoolTypeOK
  <2> QED BY <1>0, <2>1, ListedIn DEF IdleInv
<1>3. CASE WRK_Queue_assign(t)
  <2>1. /\ UNCHANGED <<idle, queue, nthr, last_lqueue, wpc, wpool, woken, wrk, herder, kissed>>
        /\ wsp' = [wsp EXCEPT ![w] = call[t].sp]
        /\ call' = [call EXCEPT ![t].pc = "signal", ![t].sp = NULL]
      BY <1>3 DEF WRK_Queue_assign
  <2>2. /\ w \in Workers /\ call[t].sp \in Sessions /\ w # kissed /\ w \notin woken
        /\ wpc[w] = "idle"
      BY <1>0, <1>3 DEF WRK_Queue_assign, CallInv
  <2>3. /\ wsp' \in [Workers -> Sessions \cup {NULL}] /\ wsp'[w] = call[t].sp
        /\ \A v \in Workers : v # w => wsp'[v] = wsp[v]
      BY <1>1, <2>1, <2>2
  <2>4. /\ call' \in [Threads -> [pc : {"none", "assign", "signal", "herd"},
                                  sp : Sessions \cup {NULL}, w : Workers \cup {NULL}]]
        /\ call'[t].pc = "signal" /\ call'[t].sp = NULL /\ call'[t].w = w
        /\ \A u \in Threads : u # t => call'[u] = call[u]
      BY <1>1, <2>1
  <2>5. \A u \in Threads : u # t => call[u].w # w
      BY <1>0, <1>1, <2>2 DEF CallInv
  <2> HIDE DEF w
  <2>6. CallInv'
    <3> SUFFICES ASSUME NEW u \in Threads
                 PROVE  /\ call'[u].pc \in {"none", "herd"} => call'[u].sp = NULL /\ call'[u].w = NULL
                        /\ call'[u].pc = "assign" => call'[u].sp \in Sessions
                        /\ call'[u].pc = "signal" => call'[u].sp = NULL
                        /\ call'[u].pc \in {"assign", "signal"} =>
                              /\ call'[u].w \in Workers /\ wpc[call'[u].w] = "idle"
                              /\ call'[u].w \notin woken /\ call'[u].w # kissed
                              /\ wsp'[call'[u].w] = NULL <=> call'[u].pc = "assign"
                        /\ \A v \in Threads : call'[u].w # NULL /\ call'[v].w = call'[u].w => u = v
        BY <2>1 DEF CallInv
    <3>1. CASE u = t
        BY <1>1, <2>2, <2>3, <2>4, <2>5, <3>1
    <3>2. CASE u # t
        BY <1>0, <1>1, <2>2, <2>3, <2>4, <2>5, <3>2 DEF CallInv
    <3> QED BY <3>1, <3>2
  <2>7. ASSUME NEW q \in Pools, NEW v \in ToSet(idle[q]) PROVE OnIdle(q, v)'
    <3>1. v \in Workers /\ OnIdle(q, v)
        BY <1>2
    <3>2. v # w
        BY <3>1 DEF OnIdle, w
    <3>3. \A u \in Threads : call'[u].w # v
        BY <2>4, <3>1, <3>2 DEF OnIdle
    <3> QED BY <2>1, <2>3, <3>1, <3>2, <3>3 DEF OnIdle
  <2>8. ASSUME NEW v, v # w, Assigned(v) PROVE Assigned(v)'
    <3>1. PICK u \in Threads : call[u].pc = "assign" /\ call[u].w = v
        BY <2>8 DEF Assigned
    <3>2. u # t
        BY <2>8, <3>1 DEF w
    <3> QED BY <2>4, <3>1, <3>2 DEF Assigned
  <2>9. wsp'[w] # NULL
      BY <1>1, <2>2, <2>3
  <2>10. IdleInv'
    <3>1. kissed # NULL => wpc[kissed] = "idle" /\ wsp'[kissed] = NULL
        BY <1>0, <2>2, <2>3 DEF IdleInv, PoolTypeOK
    <3>2. Prompt => /\ \A v \in woken : wsp'[v] = NULL => v = kissed
                    /\ \A v \in Workers : wpc[v] = "idle" =>
                          \/ v \in ToSet(idle[wpool[v]]) \/ wsp'[v] # NULL
                          \/ Assigned(v)' \/ v = kissed
        BY <1>0, <1>1, <2>2, <2>3, <2>8, <2>9 DEF IdleInv
    <3> QED BY <1>0, <2>1, <2>7, <3>1, <3>2 DEF IdleInv
  <2>11. CountInv' /\ HerdInv'
      BY <1>0, <2>1 DEF CountInv, HerdInv, Entries, Post
  <2>12. PoolTypeOK'
      BY <1>0, <2>1, <2>3, <2>4 DEF PoolTypeOK
  <2> QED BY <2>6, <2>10, <2>11, <2>12 DEF PoolInv
<1>4. ASSUME call[t].pc \in {"signal", "herd"}, call' = [call EXCEPT ![t] = NoCall],
             UNCHANGED <<idle, queue, nthr, last_lqueue, wpc, wpool, wsp, wrk, kissed>>,
             \/ call[t].pc = "herd" /\ woken' = woken
             \/ call[t].pc = "signal" /\ Signal(w)
      PROVE  /\ call' \in [Threads -> [pc : {"none", "assign", "signal", "herd"},
                                       sp : Sessions \cup {NULL}, w : Workers \cup {NULL}]]
             /\ woken' \subseteq Workers
             /\ CallInv' /\ IdleInv' /\ CountInv'
  <2>1. /\ call' \in [Threads -> [pc : {"none", "assign", "signal", "herd"},
                                  sp : Sessions \cup {NULL}, w : Workers \cup {NULL}]]
        /\ call'[t] = NoCall
        /\ \A u \in Threads : u # t => call'[u] = call[u]
      BY <1>1, <1>4 DEF NoCall
  <2>2. \/ woken' = woken
        \/ /\ woken' = woken \cup {w} /\ w \in Workers /\ wpc[w] = "idle" /\ wsp[w] # NULL
           /\ \A u \in Threads : u # t => call[u].w # w
           /\ w # kissed
      BY <1>0, <1>1, <1>4 DEF Signal, CallInv
  <2>3. call'[t].pc = "none" /\ call'[t].sp = NULL /\ call'[t].w = NULL
      BY <2>1 DEF NoCall
  <2>4. \A q \in Pools : \A v \in ToSet(idle[q]) : v # w \/ woken' = woken
    <3> SUFFICES ASSUME NEW q \in Pools, NEW v \in ToSet(idle[q]) PROVE v # w \/ woken' = woken
        OBVIOUS
    <3> QED BY <1>2 DEF OnIdle
  <2> HIDE DEF w
  <2>5. CallInv'
    <3> SUFFICES ASSUME NEW u \in Threads
                 PROVE  /\ call'[u].pc \in {"none", "herd"} => call'[u].sp = NULL /\ call'[u].w = NULL
                        /\ call'[u].pc = "assign" => call'[u].sp \in Sessions
                        /\ call'[u].pc = "signal" => call'[u].sp = NULL
                        /\ call'[u].pc \in {"assign", "signal"} =>
                              /\ call'[u].w \in Workers /\ wpc[call'[u].w] = "idle"
                              /\ call'[u].w \notin woken' /\ call'[u].w # kissed
                              /\ wsp[call'[u].w] = NULL <=> call'[u].pc = "assign"
                        /\ \A v \in Threads : call'[u].w # NULL /\ call'[v].w = call'[u].w => u = v
        BY <1>4 DEF CallInv
    <3>1. CASE u = t
        BY <2>3, <3>1
    <3>2. CASE u # t
        BY <1>0, <1>1, <2>1, <2>2, <2>3, <3>2 DEF CallInv
    <3> QED BY <3>1, <3>2
  <2>6. ASSUME NEW q \in Pools, NEW v \in ToSet(idle[q]) PROVE OnIdle(q, v)'
    <3>1. v \in Workers /\ OnIdle(q, v)
        BY <1>2
    <3>2. v \notin woken'
        BY <2>2, <2>4, <3>1 DEF OnIdle
    <3>3. \A u \in Threads : call'[u].w # v
        BY <1>1, <2>1, <2>3, <3>1 DEF OnIdle
    <3> QED BY <1>4, <3>1, <3>2, <3>3 DEF OnIdle
  <2>7. ASSUME NEW v, Assigned(v) PROVE Assigned(v)'
      BY <1>4, <2>1, <2>7 DEF Assigned
  <2>8. /\ \A v \in woken' : wpc[v] = "idle"
        /\ Prompt => \A v \in woken' : wsp[v] = NULL => v = kissed
      BY <1>0, <2>2 DEF IdleInv
  <2>9. IdleInv'
      BY <1>0, <1>4, <2>6, <2>7, <2>8 DEF IdleInv
  <2>10. CountInv'
      BY <1>0, <1>4 DEF CountInv, Entries, Post
  <2> QED BY <1>1, <2>1, <2>2, <2>5, <2>9, <2>10
<1>5. CASE WRK_Queue_signal(t)
  <2>1. /\ call[t].pc = "signal" /\ Signal(w) /\ call' = [call EXCEPT ![t] = NoCall]
        /\ UNCHANGED <<idle, queue, nthr, last_lqueue, wpc, wpool, wsp, wrk, herder, kissed>>
      BY <1>5 DEF WRK_Queue_signal
  <2>2. /\ call' \in [Threads -> [pc : {"none", "assign", "signal", "herd"},
                                  sp : Sessions \cup {NULL}, w : Workers \cup {NULL}]]
        /\ woken' \subseteq Workers
        /\ CallInv' /\ IdleInv' /\ CountInv'
      BY <1>4, <2>1
  <2>3. HerdInv'
      BY <1>0, <2>1 DEF HerdInv
  <2>4. PoolTypeOK'
      BY <1>0, <2>1, <2>2 DEF PoolTypeOK
  <2> QED BY <2>2, <2>3, <2>4 DEF PoolInv
<1>6. CASE WRK_Queue_herd(t)
  <2>1. /\ call[t].pc = "herd" /\ call' = [call EXCEPT ![t] = NoCall]
        /\ UNCHANGED <<idle, queue, nthr, last_lqueue, wpc, wpool, wsp, woken, wrk, kissed>>
        /\ herder' = IF herder.pc = "waiting"
                     THEN [pc |-> "breed", u |-> NextPool(herder.u), w |-> FirstPool]
                     ELSE herder
      BY <1>6 DEF WRK_Queue_herd
  <2>2. /\ call' \in [Threads -> [pc : {"none", "assign", "signal", "herd"},
                                  sp : Sessions \cup {NULL}, w : Workers \cup {NULL}]]
        /\ woken' \subseteq Workers
        /\ CallInv' /\ IdleInv' /\ CountInv'
      BY <1>4, <2>1
  <2>3. /\ herder' \in [pc : {"breed", "breed_last", "min", "min_last", "sleep", "waiting"},
                        u : Pools, w : Pools]
        /\ herder' = herder \/ (herder'.pc = "breed" /\ herder'.w = FirstPool)
      BY <1>0, <2>1, PoolFacts DEF PoolTypeOK
  <2>4. HerdInv'
      BY <1>0, <2>1, <2>3 DEF HerdInv
  <2>5. PoolTypeOK'
      BY <1>0, <2>1, <2>2, <2>3 DEF PoolTypeOK
  <2> QED BY <2>2, <2>4, <2>5 DEF PoolInv
<1> QED BY <1>3, <1>5, <1>6 DEF CallStep

\* The herd timer.
LEMMA TimerKeeps ==
    ASSUME PoolInv, TimerStep
    PROVE  PoolInv'
<1>0. PoolTypeOK /\ CallInv /\ IdleInv /\ CountInv /\ HerdInv
    BY DEF PoolInv
<1>1. NULL \notin Workers /\ kissed \in Workers \cup {NULL} /\ woken \subseteq Workers
    BY <1>0, PoolAssumption DEF PoolTypeOK
<1>2. ASSUME NEW q \in Pools
      PROVE  /\ idle[q] \in Seq(Workers) /\ Distinct(idle[q])
             /\ \A v \in ToSet(idle[q]) : v \in Workers /\ OnIdle(q, v)
  <2>1. idle[q] \in Seq(Workers)
      BY <1>0 DEF PoolTypeOK
  <2> QED BY <1>0, <2>1, ListedIn DEF IdleInv
<1>3. CASE wrk_decimate_kiss
  <2>1. /\ UNCHANGED <<idle, queue, nthr, last_lqueue, wpc, wpool, wsp, wrk, call, herder>>
        /\ kissed # NULL /\ kissed' = (IF Prompt THEN kissed ELSE NULL)
        /\ wpc[kissed] = "idle" /\ wsp[kissed] = NULL
        /\ woken' = woken \cup {kissed}
      BY <1>0, <1>3 DEF wrk_decimate_kiss, Signal, IdleInv
  <2>2. CallInv'
      BY <1>0, <1>1, <2>1 DEF CallInv
  <2>3. ASSUME NEW q \in Pools, NEW v \in ToSet(idle[q]) PROVE OnIdle(q, v)'
      BY <1>1, <1>2, <2>1 DEF OnIdle
  <2>4. \A v : Assigned(v)' <=> Assigned(v)
      BY <2>1 DEF Assigned
  <2>5. IdleInv'
      BY <1>0, <2>1, <2>3, <2>4 DEF IdleInv
  <2>6. CountInv' /\ HerdInv'
      BY <1>0, <2>1 DEF CountInv, HerdInv, Entries, Post
  <2>7. PoolTypeOK'
      BY <1>0, <1>1, <2>1 DEF PoolTypeOK
  <2> QED BY <2>2, <2>5, <2>6, <2>7 DEF PoolInv
<1>4. ASSUME NEW p \in Pools, wrk_decimate_flock(p) PROVE PoolInv'
  <2> DEFINE n == Len(idle[p])
             k == idle[p][n]
             r == SubSeq(idle[p], 1, n - 1)
  <2>1. /\ UNCHANGED <<queue, nthr, last_lqueue, wpc, wpool, wsp, woken, wrk, call, herder>>
        /\ kissed = NULL /\ nthr[p] > ThreadMin /\ idle[p] # <<>>
        /\ kissed' = k /\ idle' = [idle EXCEPT ![p] = r]
      BY <1>4 DEF wrk_decimate_flock
  <2>2. k \in Workers /\ k \in ToSet(idle[p]) /\ r \in Seq(Workers) /\ Distinct(r)
        /\ ToSet(r) = ToSet(idle[p]) \ {k}
      BY <1>2, <2>1, DropLast
  <2> HIDE DEF n, k, r
  <2>3. OnIdle(p, k)
      BY <1>2, <2>2
  <2>4. /\ idle' \in [Pools -> Seq(Workers)] /\ idle'[p] = r
        /\ \A q \in Pools : q # p => idle'[q] = idle[q]
      BY <1>0, <2>1, <2>2 DEF PoolTypeOK
  <2>5. CallInv'
      BY <1>0, <1>1, <2>1, <2>2, <2>3 DEF CallInv, OnIdle
  <2>6. ASSUME NEW q \in Pools, NEW v \in ToSet(idle'[q]) PROVE OnIdle(q, v)'
    <3>1. OnIdle(q, v)
        BY <1>2, <2>2, <2>4
    <3>2. v # k
      <4>1. CASE q = p
          BY <2>2, <2>4, <4>1
      <4>2. CASE q # p
          BY <2>3, <3>1, <4>2 DEF OnIdle
      <4> QED BY <4>1, <4>2
    <3> QED BY <2>1, <3>1, <3>2 DEF OnIdle
  <2>7. \A v : Assigned(v)' <=> Assigned(v)
      BY <2>1 DEF Assigned
  <2>8. \A v \in Workers : v \in ToSet(idle[wpool[v]]) => v \in ToSet(idle'[wpool[v]]) \/ v = k
      BY <1>0, <2>2, <2>4 DEF PoolTypeOK
  <2>9. wpc[k] = "idle" /\ wsp[k] = NULL /\ wpool[k] = p
      BY <2>3 DEF OnIdle
  <2>10. \A q \in Pools : Distinct(idle'[q]) /\ (queue[q] # <<>> => idle'[q] = <<>>)
      BY <1>0, <2>1, <2>2, <2>4 DEF IdleInv
  <2>11. IdleInv'
      BY <1>0, <1>1, <2>1, <2>6, <2>7, <2>8, <2>9, <2>10 DEF IdleInv
  <2>12. CountInv' /\ HerdInv'
      BY <1>0, <2>1, <2>9 DEF CountInv, HerdInv, Entries, Post
  <2>13. PoolTypeOK'
      BY <1>0, <2>1, <2>2, <2>4 DEF PoolTypeOK
  <2> QED BY <2>5, <2>11, <2>12, <2>13 DEF PoolInv
<1> QED BY <1>3, <1>4 DEF TimerStep

\* CNT_Session starts, gives up its session and returns: the pool does not notice.
LEMMA BusyKeeps ==
    ASSUME PoolInv, NEW w \in Workers, NEW x \in {"start", "run", "return", "after"},
           wpc[w] \in {"start", "run", "return", "after"},
           wpc' = [wpc EXCEPT ![w] = x], wrk' \in [Sessions -> Workers \cup {NULL}],
           UNCHANGED <<idle, queue, nthr, last_lqueue, wpool, wsp, woken, call, herder, kissed>>
    PROVE  PoolInv'
<1>0. PoolTypeOK /\ CallInv /\ IdleInv /\ CountInv /\ HerdInv
    BY DEF PoolInv
<1>1. /\ wpc' \in [Workers -> {"none", "created", "idle", "start", "run", "return", "after"}]
      /\ wpc'[w] = x /\ \A v \in Workers : v # w => wpc'[v] = wpc[v]
    BY <1>0 DEF PoolTypeOK
<1>2. \A v \in Workers : wpc'[v] = "idle" <=> wpc[v] = "idle"
    BY <1>1
<1>3. CallInv'
    BY <1>0, <1>2 DEF CallInv
<1>4. ASSUME NEW q \in Pools, NEW v \in ToSet(idle[q]) PROVE OnIdle(q, v)'
  <2>1. idle[q] \in Seq(Workers)
      BY <1>0 DEF PoolTypeOK
  <2>2. v \in Workers /\ OnIdle(q, v)
      BY <1>0, <2>1, ListedIn DEF IdleInv
  <2> QED BY <1>2, <2>2 DEF OnIdle
<1>5. \A v : Assigned(v)' <=> Assigned(v)
    BY DEF Assigned
<1>6. IdleInv'
    BY <1>0, <1>2, <1>4, <1>5 DEF IdleInv, PoolTypeOK
<1>7. Post' = Post
    BY <1>1 DEF Post
<1>8. CountInv' /\ HerdInv'
    BY <1>0, <1>7 DEF CountInv, HerdInv, Entries
<1>9. PoolTypeOK'
    BY <1>0, <1>1 DEF PoolTypeOK
<1> QED BY <1>3, <1>6, <1>8, <1>9 DEF PoolInv

\* The top of a worker's loop.
LEMMA LoopTopKeeps ==
    ASSUME PoolInv, NEW w \in Workers, wpc[w] \in {"created", "after"}, LoopTop(w, wpool[w]),
           UNCHANGED <<wpool, woken, call, kissed>>
    PROVE  /\ idle' \in [Pools -> Seq(Workers)] /\ queue' \in [Pools -> Seq(Sessions)]
           /\ wpc' \in [Workers -> {"none", "created", "idle", "start", "run", "return", "after"}]
           /\ wsp' \in [Workers -> Sessions \cup {NULL}]
           /\ CallInv' /\ IdleInv'
           /\ Post' = [Post EXCEPT ![w] = wpool[w]]
<1>0. PoolTypeOK /\ CallInv /\ IdleInv
    BY DEF PoolInv
<1> DEFINE p == wpool[w]
<1>1. /\ p \in Pools /\ queue[p] \in Seq(Sessions) /\ idle[p] \in Seq(Workers)
      /\ idle \in [Pools -> Seq(Workers)] /\ queue \in [Pools -> Seq(Sessions)]
      /\ wpc \in [Workers -> {"none", "created", "idle", "start", "run", "return", "after"}]
      /\ wsp \in [Workers -> Sessions \cup {NULL}] /\ NULL \notin Workers
      /\ wpool \in [Workers -> Pools] /\ woken \subseteq Workers
    BY <1>0, PoolAssumption DEF PoolTypeOK
<1>2. ASSUME NEW q \in Pools, NEW v \in ToSet(idle[q])
      PROVE  v \in Workers /\ OnIdle(q, v) /\ v # w
  <2>1. idle[q] \in Seq(Workers)
      BY <1>1
  <2>2. v \in Workers /\ OnIdle(q, v)
      BY <1>0, <2>1, ListedIn DEF IdleInv
  <2> QED BY <2>2 DEF OnIdle
<1>3. w \notin woken /\ w # kissed /\ \A t \in Threads : call[t].w # w
  <2>1. w \notin woken /\ w # kissed
      BY <1>0, <1>1 DEF IdleInv
  <2>2. ASSUME NEW t \in Threads, call[t].w = w PROVE FALSE
    <3>1. call[t].pc \in {"none", "assign", "signal", "herd"}
        BY <1>0 DEF PoolTypeOK
    <3> QED BY <1>0, <1>1, <2>2, <3>1 DEF CallInv
  <2> QED BY <2>1, <2>2
<1>4. \A v : Assigned(v)' <=> Assigned(v)
    BY DEF Assigned
<1>5. ASSUME wpc' = [wpc EXCEPT ![w] = "start"] \/ wpc' = [wpc EXCEPT ![w] = "idle"]
      PROVE  /\ wpc' \in [Workers -> {"none", "created", "idle", "start", "run", "return", "after"}]
             /\ \A v \in Workers : v # w => wpc'[v] = wpc[v]
             /\ Post' = [Post EXCEPT ![w] = wpool[w]]
  <2>1. /\ wpc' \in [Workers -> {"none", "created", "idle", "start", "run", "return", "after"}]
        /\ \A v \in Workers : v # w => wpc'[v] = wpc[v]
        /\ wpc'[w] \in {"start", "idle"}
      BY <1>1, <1>5
  <2> QED BY <2>1 DEF Post
<1>6. ASSUME \A v \in Workers : v # w => wpc'[v] = wpc[v],
             \A v \in Workers : v # w => wsp'[v] = wsp[v]
      PROVE  /\ CallInv'
             /\ kissed' # NULL => wpc'[kissed'] = "idle" /\ wsp'[kissed'] = NULL
             /\ \A v \in woken' : wpc'[v] = "idle"
             /\ Prompt => \A v \in woken' : wsp'[v] = NULL => v = kissed'
             /\ \A q \in Pools : \A v \in ToSet(idle[q]) : OnIdle(q, v)'
  <2>1. CallInv'
      BY <1>0, <1>3, <1>6 DEF CallInv
  <2>2. ASSUME NEW q \in Pools, NEW v \in ToSet(idle[q]) PROVE OnIdle(q, v)'
      BY <1>2, <1>6 DEF OnIdle
  <2>3. kissed' # NULL => wpc'[kissed'] = "idle" /\ wsp'[kissed'] = NULL
      BY <1>0, <1>3, <1>6 DEF IdleInv, PoolTypeOK
  <2>4. /\ \A v \in woken' : wpc'[v] = "idle"
        /\ Prompt => \A v \in woken' : wsp'[v] = NULL => v = kissed'
      BY <1>0, <1>1, <1>3, <1>6 DEF IdleInv
  <2> QED BY <2>1, <2>2, <2>3, <2>4
<1>7. CASE queue[p] # <<>>
  <2>1. /\ wsp' = [wsp EXCEPT ![w] = Head(queue[p])]
        /\ queue' = [queue EXCEPT ![p] = Tail(queue[p])]
        /\ wpc' = [wpc EXCEPT ![w] = "start"] /\ idle' = idle
      BY <1>7 DEF LoopTop
  <2>2. Head(queue[p]) \in Sessions /\ Tail(queue[p]) \in Seq(Sessions)
      BY <1>1, <1>7
  <2>3. /\ wsp' \in [Workers -> Sessions \cup {NULL}]
        /\ \A v \in Workers : v # w => wsp'[v] = wsp[v]
        /\ queue' \in [Pools -> Seq(Sessions)] /\ queue'[p] = Tail(queue[p])
        /\ \A q \in Pools : q # p => queue'[q] = queue[q]
      BY <1>1, <2>1, <2>2
  <2>4. wpc'[w] = "start"
      BY <1>1, <2>1
  <2> HIDE DEF p
  <2>5. \A q \in Pools : queue'[q] # <<>> => idle'[q] = <<>>
      BY <1>0, <1>7, <2>1, <2>3 DEF IdleInv
  <2>6. Prompt => \A v \in Workers : wpc'[v] = "idle" =>
                          \/ v \in ToSet(idle'[wpool'[v]]) \/ wsp'[v] # NULL
                          \/ Assigned(v)' \/ v = kissed'
      BY <1>0, <1>4, <1>5, <2>1, <2>3, <2>4 DEF IdleInv
  <2>7. IdleInv'
      BY <1>0, <1>5, <1>6, <2>1, <2>3, <2>5, <2>6 DEF IdleInv
  <2> QED BY <1>1, <1>5, <1>6, <2>1, <2>3, <2>7
<1>8. CASE queue[p] = <<>>
  <2>1. /\ wsp' = [wsp EXCEPT ![w] = NULL]
        /\ idle' = [idle EXCEPT ![p] = <<w>> \o idle[p]]
        /\ wpc' = [wpc EXCEPT ![w] = "idle"] /\ queue' = queue
      BY <1>8 DEF LoopTop
  <2>2. Distinct(idle[p]) /\ w \notin ToSet(idle[p])
      BY <1>0, <1>1, <1>2 DEF IdleInv
  <2>3. /\ <<w>> \o idle[p] \in Seq(Workers) /\ Distinct(<<w>> \o idle[p])
        /\ ToSet(<<w>> \o idle[p]) = ToSet(idle[p]) \cup {w}
      BY <1>1, <2>2, ListFacts
  <2>4. /\ wsp' \in [Workers -> Sessions \cup {NULL}] /\ wsp'[w] = NULL
        /\ \A v \in Workers : v # w => wsp'[v] = wsp[v]
        /\ idle' \in [Pools -> Seq(Workers)] /\ idle'[p] = <<w>> \o idle[p]
        /\ \A q \in Pools : q # p => idle'[q] = idle[q]
      BY <1>1, <2>1, <2>3
  <2>5. wpc'[w] = "idle" /\ wpool[w] = p
      BY <1>1, <2>1
  <2>6. \A q \in Pools : Distinct(idle'[q]) /\ (queue'[q] # <<>> => idle'[q] = <<>>)
      BY <1>0, <1>8, <2>1, <2>3, <2>4 DEF IdleInv
  <2>7. OnIdle(p, w)'
      BY <1>3, <2>4, <2>5 DEF OnIdle
  <2>8. ASSUME NEW q \in Pools, NEW v \in ToSet(idle'[q]) PROVE OnIdle(q, v)'
    <3>1. v \in ToSet(idle[q]) \/ (q = p /\ v = w)
        BY <2>3, <2>4
    <3> QED BY <1>5, <1>6, <2>1, <2>4, <2>7, <3>1
  <2>9. Prompt => \A v \in Workers : wpc'[v] = "idle" =>
                          \/ v \in ToSet(idle'[wpool'[v]]) \/ wsp'[v] # NULL
                          \/ Assigned(v)' \/ v = kissed'
    <3> SUFFICES ASSUME Prompt, NEW v \in Workers, wpc'[v] = "idle"
                 PROVE  \/ v \in ToSet(idle'[wpool[v]]) \/ wsp'[v] # NULL
                        \/ Assigned(v)' \/ v = kissed
        OBVIOUS
    <3>1. CASE v = w
        BY <2>3, <2>4, <2>5, <3>1
    <3>2. CASE v # w
      <4>1. wpc[v] = "idle" /\ wsp'[v] = wsp[v] /\ wpool[v] \in Pools
          BY <1>1, <1>5, <2>1, <2>4, <3>2
      <4>2. v \in ToSet(idle[wpool[v]]) \/ wsp[v] # NULL \/ Assigned(v) \/ v = kissed
          BY <1>0, <4>1 DEF IdleInv
      <4>3. v \in ToSet(idle[wpool[v]]) => v \in ToSet(idle'[wpool[v]])
          BY <2>3, <2>4, <4>1
      <4> QED BY <1>4, <4>1, <4>2, <4>3
    <3> QED BY <3>1, <3>2
  <2>10. IdleInv'
      BY <1>0, <1>5, <1>6, <2>1, <2>4, <2>6, <2>8, <2>9 DEF IdleInv
  <2> QED BY <1>1, <1>5, <1>6, <2>1, <2>4, <2>10
<1> QED BY <1>7, <1>8

\* How many threads a pool has after one of them came or went.
LEMMA PostMoved ==
    ASSUME PoolInv, NEW w \in Workers, NEW x, Post' = [Post EXCEPT ![w] = x], NEW p \in Pools
    PROVE  /\ Cardinality(Entries(Workers, Post', p)) \in Nat
           /\ Cardinality(Entries(Workers, Post', p)) = nthr[p] + Unit(x, p) - Unit(Post[w], p)
<1>1. Post \in [Workers -> Pools \cup {-1}]
    BY DEF Post, PoolInv, PoolTypeOK
<1>2. ChangedAt(Workers, w, Post, Post') /\ Post'[w] = x
    BY <1>1 DEF ChangedAt
<1>3. IsFiniteSet(Workers) /\ nthr[p] = Cardinality(Entries(Workers, Post, p))
    BY PoolAssumption DEF PoolInv, CountInv
<1> HIDE DEF Post
<1>4. ASSUME NEW f, NEW g, f = Post, g = Post'
      PROVE  /\ Cardinality(Entries(Workers, g, p)) \in Nat
             /\ Cardinality(Entries(Workers, g, p))
                  = Cardinality(Entries(Workers, f, p)) + Unit(g[w], p) - Unit(f[w], p)
  <2>1. ChangedAt(Workers, w, f, g)
      BY <1>2, <1>4
  <2> QED BY <1>3, <2>1, EntriesMoved
<1> QED BY <1>2, <1>3, <1>4

\* A worker thread.
LEMMA WorkerKeeps ==
    ASSUME PoolInv, WrkInv, NEW w \in Workers, WorkerStep(w)
    PROVE  PoolInv'
<1>0. PoolTypeOK /\ CallInv /\ IdleInv /\ CountInv /\ HerdInv
    BY DEF PoolInv
<1>a. \A p \in Pools : p \in Nat /\ p # -1
    BY PoolAssumption
<1>1. /\ wpool[w] \in Pools /\ nthr \in [Pools -> Nat] /\ wpool \in [Workers -> Pools]
      /\ wpc \in [Workers -> {"none", "created", "idle", "start", "run", "return", "after"}]
      /\ \A p \in Pools : p \in Nat /\ p # -1
      /\ ThreadMin \in Nat /\ NULL \notin Workers /\ woken \subseteq Workers
      /\ kissed \in Workers \cup {NULL}
    BY <1>0, <1>a, PoolAssumption DEF PoolTypeOK
<1>2. CASE wrk_thread_start(w)
  <2>1. /\ wpc[w] = "created" /\ LoopTop(w, wpool[w])
        /\ nthr' = [nthr EXCEPT ![wpool[w]] = nthr[wpool[w]] + 1]
        /\ UNCHANGED <<last_lqueue, wpool, woken, wrk, call, herder, kissed>>
      BY <1>2 DEF wrk_thread_start
  <2>2. /\ idle' \in [Pools -> Seq(Workers)] /\ queue' \in [Pools -> Seq(Sessions)]
        /\ wpc' \in [Workers -> {"none", "created", "idle", "start", "run", "return", "after"}]
        /\ wsp' \in [Workers -> Sessions \cup {NULL}]
        /\ CallInv' /\ IdleInv'
        /\ Post' = [Post EXCEPT ![w] = wpool[w]]
      BY <2>1, LoopTopKeeps
  <2>3. Post[w] = -1
      BY <2>1 DEF Post
  <2>4. /\ nthr' \in [Pools -> Nat] /\ \A p \in Pools : nthr'[p] >= nthr[p]
        /\ \A p \in Pools : nthr'[p] = nthr[p] + Unit(wpool[w], p)
      BY <1>1, <2>1 DEF Unit
  <2>5. ASSUME NEW p \in Pools PROVE nthr'[p] = Cardinality(Entries(Workers, Post', p))
    <3>1. Cardinality(Entries(Workers, Post', p)) = nthr[p] + Unit(wpool[w], p) - Unit(Post[w], p)
        BY <2>2, PostMoved
    <3>2. Unit(Post[w], p) = 0 /\ Unit(wpool[w], p) \in Nat
        BY <1>1, <2>3 DEF Unit
    <3> QED BY <1>1, <2>4, <3>1, <3>2
  <2>6. CountInv'
      BY <2>5 DEF CountInv, Entries
  <2>7. HerdInv'
      BY <1>0, <1>1, <2>1, <2>4 DEF HerdInv
  <2>8. PoolTypeOK'
      BY <1>0, <2>1, <2>2, <2>4 DEF PoolTypeOK
  <2> QED BY <2>2, <2>6, <2>7, <2>8 DEF PoolInv
<1>3. CASE wrk_thread_again(w)
  <2>1. /\ wpc[w] = "after" /\ LoopTop(w, wpool[w])
        /\ UNCHANGED <<nthr, last_lqueue, wpool, woken, wrk, call, herder, kissed>>
      BY <1>3 DEF wrk_thread_again
  <2>2. /\ idle' \in [Pools -> Seq(Workers)] /\ queue' \in [Pools -> Seq(Sessions)]
        /\ wpc' \in [Workers -> {"none", "created", "idle", "start", "run", "return", "after"}]
        /\ wsp' \in [Workers -> Sessions \cup {NULL}]
        /\ CallInv' /\ IdleInv'
        /\ Post' = [Post EXCEPT ![w] = wpool[w]]
      BY <2>1, LoopTopKeeps
  <2>3. Post' = Post
      BY <1>1, <2>1, <2>2 DEF Post
  <2>4. CountInv' /\ HerdInv'
      BY <1>0, <2>1, <2>3 DEF CountInv, HerdInv, Entries
  <2>5. PoolTypeOK'
      BY <1>0, <2>1, <2>2 DEF PoolTypeOK
  <2> QED BY <2>2, <2>4, <2>5 DEF PoolInv
<1>4. CASE wrk_thread_session(w)
  <2>1. /\ wpc[w] = "start" /\ wpc' = [wpc EXCEPT ![w] = "run"]
        /\ UNCHANGED <<idle, queue, nthr, last_lqueue, wpool, wsp, woken, call, herder, kissed>>
        /\ wrk' = [wrk EXCEPT ![wsp[w]] = w]
      BY <1>4 DEF wrk_thread_session
  <2>2. wrk' \in [Sessions -> Workers \cup {NULL}]
      BY <1>0, <2>1 DEF WrkInv, PoolTypeOK
  <2> QED BY <2>1, <2>2, BusyKeeps
<1>5. CASE wrk_thread_wakeup(w)
  <2>1. /\ wpc[w] = "idle" /\ w \in woken /\ woken' = woken \ {w}
        /\ UNCHANGED <<idle, queue, last_lqueue, wsp, wrk, call, herder>>
      BY <1>5 DEF wrk_thread_wakeup
  <2>2. /\ \A t \in Threads : call[t].w # w
        /\ \A q \in Pools : \A v \in ToSet(idle[q]) : v # w /\ v \in Workers /\ OnIdle(q, v)
    <3>1. ASSUME NEW t \in Threads, call[t].w = w PROVE FALSE
      <4>1. call[t].pc \in {"none", "assign", "signal", "herd"}
          BY <1>0 DEF PoolTypeOK
      <4> QED BY <1>0, <1>1, <2>1, <3>1, <4>1 DEF CallInv
    <3>2. ASSUME NEW q \in Pools, NEW v \in ToSet(idle[q])
          PROVE  v # w /\ v \in Workers /\ OnIdle(q, v)
      <4>1. idle[q] \in Seq(Workers)
          BY <1>0 DEF PoolTypeOK
      <4>2. v \in Workers /\ OnIdle(q, v)
          BY <1>0, <4>1, ListedIn DEF IdleInv
      <4> QED BY <2>1, <4>2 DEF OnIdle
    <3> QED BY <3>1, <3>2
  <2>3. ASSUME \A v \in Workers : v # w => wpc'[v] = wpc[v] /\ wpool'[v] = wpool[v],
               wpc'[w] # "idle",
               (kissed' = kissed /\ kissed # w) \/ (kissed' = NULL /\ kissed = w)
        PROVE  CallInv' /\ IdleInv'
    <3>1. CallInv'
        BY <1>0, <1>1, <2>1, <2>2, <2>3 DEF CallInv
    <3>2. ASSUME NEW q \in Pools, NEW v \in ToSet(idle[q]) PROVE OnIdle(q, v)'
        BY <1>1, <2>1, <2>2, <2>3 DEF OnIdle
    <3>3. \A v : Assigned(v)' <=> Assigned(v)
        BY <2>1 DEF Assigned
    <3>4. /\ kissed' # NULL => wpc'[kissed'] = "idle" /\ wsp[kissed'] = NULL
          /\ \A v \in woken' : wpc'[v] = "idle"
          /\ Prompt => \A v \in woken' : wsp[v] = NULL => v = kissed'
        BY <1>0, <1>1, <2>1, <2>3 DEF IdleInv
    <3>5. Prompt => \A v \in Workers : wpc'[v] = "idle" =>
                        \/ v \in ToSet(idle[wpool'[v]]) \/ wsp[v] # NULL
                        \/ Assigned(v)' \/ v = kissed'
        BY <1>0, <2>3, <3>3 DEF IdleInv
    <3> QED BY <1>0, <2>1, <3>1, <3>2, <3>4, <3>5 DEF IdleInv
  <2>4. CASE wsp[w] # NULL /\ wpc' = [wpc EXCEPT ![w] = "start"]
             /\ UNCHANGED <<nthr, wpool, kissed>>
    <3>1. /\ wpc' \in [Workers -> {"none", "created", "idle", "start", "run", "return", "after"}]
          /\ wpc'[w] = "start" /\ \A v \in Workers : v # w => wpc'[v] = wpc[v]
        BY <1>1, <2>4
    <3>2. kissed # w
        BY <1>0, <1>1, <2>4 DEF IdleInv
    <3>3a. /\ \A v \in Workers : v # w => wpc'[v] = wpc[v] /\ wpool'[v] = wpool[v]
           /\ wpc'[w] # "idle"
           /\ (kissed' = kissed /\ kissed # w) \/ (kissed' = NULL /\ kissed = w)
        BY <2>4, <3>1, <3>2
    <3>3. CallInv' /\ IdleInv'
        BY <2>3, <3>3a
    <3>4. Post' = Post
        BY <2>1, <2>4, <3>1 DEF Post
    <3>5. CountInv' /\ HerdInv'
        BY <1>0, <2>1, <2>4, <3>4 DEF CountInv, HerdInv, Entries
    <3>6. PoolTypeOK'
        BY <1>0, <2>1, <2>4, <3>1 DEF PoolTypeOK
    <3> QED BY <3>3, <3>5, <3>6 DEF PoolInv
  <2>5. CASE /\ wsp[w] = NULL
             /\ nthr' = [nthr EXCEPT ![wpool[w]] = nthr[wpool[w]] - 1]
             /\ wpc' = [wpc EXCEPT ![w] = "none"]
             /\ wpool' = [wpool EXCEPT ![w] = FirstPool]
             /\ kissed' = IF kissed = w THEN NULL ELSE kissed
    <3>1. /\ wpc' \in [Workers -> {"none", "created", "idle", "start", "run", "return", "after"}]
          /\ wpool' \in [Workers -> Pools]
          /\ wpc'[w] = "none" 
          /\ \A v \in Workers : v # w => wpc'[v] = wpc[v] /\ wpool'[v] = wpool[v]
        BY <1>1, <2>5, PoolFacts
    <3>2a. /\ \A v \in Workers : v # w => wpc'[v] = wpc[v] /\ wpool'[v] = wpool[v]
           /\ wpc'[w] # "idle"
           /\ (kissed' = kissed /\ kissed # w) \/ (kissed' = NULL /\ kissed = w)
        BY <2>5, <3>1
    <3>2. CallInv' /\ IdleInv'
        BY <2>3, <3>2a
    <3>3. Post' = [Post EXCEPT ![w] = -1] /\ Post[w] = wpool[w]
        BY <2>1, <3>1 DEF Post
    <3>4. ASSUME NEW p \in Pools
          PROVE  /\ nthr[p] - Unit(wpool[w], p) \in Nat
                 /\ nthr[p] - Unit(wpool[w], p) = Cardinality(Entries(Workers, Post', p))
      <4>1. /\ Cardinality(Entries(Workers, Post', p)) \in Nat
            /\ Cardinality(Entries(Workers, Post', p)) = nthr[p] + Unit(-1, p) - Unit(Post[w], p)
          BY <3>3, PostMoved
      <4>2. Unit(-1, p) = 0 /\ Unit(wpool[w], p) \in Nat
          BY <1>1 DEF Unit
      <4> QED BY <1>1, <3>3, <4>1, <4>2
    <3>5. /\ nthr' \in [Pools -> Nat]
          /\ \A p \in Pools : nthr'[p] = nthr[p] - Unit(wpool[w], p)
      <4>1. Unit(wpool[w], wpool[w]) = 1 /\ \A p \in Pools : p # wpool[w] => Unit(wpool[w], p) = 0
          BY DEF Unit
      <4>2. nthr[wpool[w]] - 1 \in Nat
          BY <1>1, <3>4, <4>1
      <4> QED BY <1>1, <2>5, <4>1, <4>2
    <3>6. CountInv'
        BY <3>4, <3>5 DEF CountInv, Entries
    <3>7. ASSUME Prompt PROVE w = kissed /\ kissed' = NULL /\ nthr[wpool[w]] > ThreadMin
        BY <1>0, <1>1, <2>1, <2>5, <3>7 DEF IdleInv, HerdInv
    <3>8. ASSUME Prompt, NEW p \in Pools, nthr[p] >= ThreadMin PROVE nthr'[p] >= ThreadMin
        BY <1>1, <2>5, <3>7, <3>8
    <3>9. HerdInv'
        BY <1>0, <2>1, <3>7, <3>8 DEF HerdInv
    <3>10. PoolTypeOK'
        BY <1>0, <2>1, <2>5, <3>1, <3>5 DEF PoolTypeOK
    <3> QED BY <3>2, <3>6, <3>9, <3>10 DEF PoolInv
  <2> QED BY <1>5, <2>4, <2>5 DEF wrk_thread_wakeup
<1> QED BY <1>2, <1>3, <1>4, <1>5 DEF WorkerStep

\* WRK_Queue: what is done under the pool's lock.
LEMMA QueueKeeps ==
    ASSUME PoolInv, NEW t \in Threads, NEW s \in Sessions,
           WRK_Queue_tickle(t, s) \/ WRK_Queue_enqueue(t, s)
    PROVE  PoolInv'
<1>0. PoolTypeOK /\ CallInv /\ IdleInv /\ CountInv /\ HerdInv
    BY DEF PoolInv
<1>1. /\ call \in [Threads -> [pc : {"none", "assign", "signal", "herd"},
                               sp : Sessions \cup {NULL}, w : Workers \cup {NULL}]]
      /\ NULL \notin Workers /\ NULL \notin Sessions /\ woken \subseteq Workers
      /\ idle \in [Pools -> Seq(Workers)] /\ queue \in [Pools -> Seq(Sessions)]
    BY <1>0, PoolAssumption DEF PoolTypeOK
<1>2. ASSUME NEW q \in Pools
      PROVE  /\ idle[q] \in Seq(Workers) /\ Distinct(idle[q])
             /\ \A v \in ToSet(idle[q]) : v \in Workers /\ OnIdle(q, v)
  <2>1. idle[q] \in Seq(Workers)
      BY <1>1
  <2> QED BY <1>0, <2>1, ListedIn DEF IdleInv
<1>3. CASE WRK_Queue_tickle(t, s)
  <2>1. PICK p \in Pools :
            /\ idle[p] # <<>>
            /\ idle' = [idle EXCEPT ![p] = Tail(idle[p])]
            /\ call' = [call EXCEPT ![t] = [pc |-> "assign", sp |-> s, w |-> Head(idle[p])]]
      BY <1>3 DEF WRK_Queue_tickle
  <2>2. /\ UNCHANGED <<queue, nthr, last_lqueue, wpc, wpool, wsp, woken, wrk, herder, kissed>>
        /\ call[t] = NoCall
      BY <1>3 DEF WRK_Queue_tickle
  <2>3. PICK w : w = Head(idle[p])
      OBVIOUS
  <2>4. /\ w \in Workers /\ w \in ToSet(idle[p]) /\ Tail(idle[p]) \in Seq(Workers)
        /\ Distinct(Tail(idle[p])) /\ ToSet(Tail(idle[p])) = ToSet(idle[p]) \ {w}
      BY <1>2, <2>1, <2>3, ListFacts
  <2>5. OnIdle(p, w)
      BY <1>2, <2>4
  <2>6. /\ idle' \in [Pools -> Seq(Workers)] /\ idle'[p] = Tail(idle[p])
        /\ \A q \in Pools : q # p => idle'[q] = idle[q]
      BY <1>1, <2>1, <2>4
  <2>7. /\ call' \in [Threads -> [pc : {"none", "assign", "signal", "herd"},
                                  sp : Sessions \cup {NULL}, w : Workers \cup {NULL}]]
        /\ call'[t].pc = "assign" /\ call'[t].sp = s /\ call'[t].w = w
        /\ \A u \in Threads : u # t => call'[u] = call[u]
      BY <1>1, <2>1, <2>3, <2>4
  <2>8. CallInv'
    <3> SUFFICES ASSUME NEW u \in Threads
                 PROVE  /\ call'[u].pc \in {"none", "herd"} => call'[u].sp = NULL /\ call'[u].w = NULL
                        /\ call'[u].pc = "assign" => call'[u].sp \in Sessions
                        /\ call'[u].pc = "signal" => call'[u].sp = NULL
                        /\ call'[u].pc \in {"assign", "signal"} =>
                              /\ call'[u].w \in Workers /\ wpc[call'[u].w] = "idle"
                              /\ call'[u].w \notin woken /\ call'[u].w # kissed
                              /\ wsp[call'[u].w] = NULL <=> call'[u].pc = "assign"
                        /\ \A v \in Threads : call'[u].w # NULL /\ call'[v].w = call'[u].w => u = v
        BY <2>2 DEF CallInv
    <3>1. CASE u = t
        BY <2>4, <2>5, <2>7, <3>1 DEF OnIdle
    <3>2. CASE u # t
      <4>1. call'[u] = call[u]
          BY <2>7, <3>2
      <4>2. /\ call[u].pc \in {"none", "herd"} => call[u].sp = NULL /\ call[u].w = NULL
            /\ call[u].pc = "assign" => call[u].sp \in Sessions
            /\ call[u].pc = "signal" => call[u].sp = NULL
            /\ call[u].pc \in {"assign", "signal"} =>
                  /\ call[u].w \in Workers /\ wpc[call[u].w] = "idle"
                  /\ call[u].w \notin woken /\ call[u].w # kissed
                  /\ wsp[call[u].w] = NULL <=> call[u].pc = "assign"
            /\ \A v \in Threads : call[u].w # NULL /\ call[v].w = call[u].w => u = v
          BY <1>0 DEF CallInv
      <4>3. ASSUME NEW v \in Threads, call'[u].w # NULL, call'[v].w = call'[u].w PROVE u = v
        <5>1. v # t
            BY <2>5, <2>7, <4>1, <4>3 DEF OnIdle
        <5> QED BY <2>7, <4>1, <4>2, <4>3, <5>1
      <4> QED BY <4>1, <4>2, <4>3
    <3> QED BY <3>1, <3>2
  <2>9. ASSUME NEW q \in Pools, NEW v \in ToSet(idle'[q]) PROVE OnIdle(q, v)'
    <3>1. OnIdle(q, v)
        BY <1>2, <2>4, <2>6
    <3>2. v # w
      <4>1. CASE q = p
          BY <2>4, <2>6, <4>1
      <4>2. CASE q # p
          BY <2>5, <3>1, <4>2 DEF OnIdle
      <4> QED BY <4>1, <4>2
    <3>3. \A u \in Threads : call'[u].w # v
        BY <2>7, <3>1, <3>2 DEF OnIdle
    <3> QED BY <2>2, <3>1, <3>2, <3>3 DEF OnIdle
  <2>10. /\ Assigned(w)' /\ \A v : Assigned(v) => Assigned(v)'
    <3>1. call[t].pc = "none"
        BY <2>2 DEF NoCall
    <3> QED BY <2>7, <3>1 DEF Assigned
  <2>11. \A q \in Pools : Distinct(idle'[q]) /\ (queue[q] # <<>> => idle'[q] = <<>>)
      BY <1>0, <2>1, <2>4, <2>6 DEF IdleInv
  <2>12. Prompt => \A v \in Workers : wpc[v] = "idle" =>
                        \/ v \in ToSet(idle'[wpool[v]]) \/ wsp[v] # NULL
                        \/ Assigned(v)' \/ v = kissed
    <3> SUFFICES ASSUME Prompt, NEW v \in Workers, wpc[v] = "idle"
                 PROVE  \/ v \in ToSet(idle'[wpool[v]]) \/ wsp[v] # NULL
                        \/ Assigned(v)' \/ v = kissed
        OBVIOUS
    <3>1. v \in ToSet(idle[wpool[v]]) \/ wsp[v] # NULL \/ Assigned(v) \/ v = kissed
        BY <1>0 DEF IdleInv
    <3>2. wpool[v] \in Pools
        BY <1>0 DEF PoolTypeOK
    <3>3. v \in ToSet(idle[wpool[v]]) => v \in ToSet(idle'[wpool[v]]) \/ v = w
        BY <2>4, <2>6, <3>2
    <3> QED BY <2>10, <3>1, <3>3
  <2>13. IdleInv'
      BY <1>0, <2>2, <2>9, <2>11, <2>12 DEF IdleInv
  <2>14. CountInv' /\ HerdInv'
      BY <1>0, <2>2 DEF CountInv, HerdInv, Entries, Post
  <2>15. PoolTypeOK'
      BY <1>0, <2>2, <2>6, <2>7 DEF PoolTypeOK
  <2> QED BY <2>8, <2>13, <2>14, <2>15 DEF PoolInv
<1>4. CASE WRK_Queue_enqueue(t, s)
  <2>1. PICK p \in Pools : idle[p] = <<>> /\ queue' = [queue EXCEPT ![p] = Append(queue[p], s)]
      BY <1>4 DEF WRK_Queue_enqueue
  <2>2. /\ UNCHANGED <<idle, nthr, last_lqueue, wpc, wpool, wsp, woken, wrk, herder, kissed>>
        /\ call[t] = NoCall
        /\ call' = [call EXCEPT ![t] = [pc |-> "herd", sp |-> NULL, w |-> NULL]]
      BY <1>4 DEF WRK_Queue_enqueue
  <2>3. /\ queue' \in [Pools -> Seq(Sessions)]
        /\ \A q \in Pools : q # p => queue'[q] = queue[q]
      BY <1>1, <2>1
  <2>4. /\ call' \in [Threads -> [pc : {"none", "assign", "signal", "herd"},
                                  sp : Sessions \cup {NULL}, w : Workers \cup {NULL}]]
        /\ call'[t].pc = "herd" /\ call'[t].sp = NULL /\ call'[t].w = NULL
        /\ \A u \in Threads : u # t => call'[u] = call[u]
      BY <1>1, <2>2
  <2>5. CallInv'
    <3> SUFFICES ASSUME NEW u \in Threads
                 PROVE  /\ call'[u].pc \in {"none", "herd"} => call'[u].sp = NULL /\ call'[u].w = NULL
                        /\ call'[u].pc = "assign" => call'[u].sp \in Sessions
                        /\ call'[u].pc = "signal" => call'[u].sp = NULL
                        /\ call'[u].pc \in {"assign", "signal"} =>
                              /\ call'[u].w \in Workers /\ wpc[call'[u].w] = "idle"
                              /\ call'[u].w \notin woken /\ call'[u].w # kissed
                              /\ wsp[call'[u].w] = NULL <=> call'[u].pc = "assign"
                        /\ \A v \in Threads : call'[u].w # NULL /\ call'[v].w = call'[u].w => u = v
        BY <2>2 DEF CallInv
    <3>1. CASE u = t
        BY <2>4, <3>1
    <3>2. CASE u # t
      <4>1. call'[u] = call[u]
          BY <2>4, <3>2
      <4>2. /\ call[u].pc \in {"none", "herd"} => call[u].sp = NULL /\ call[u].w = NULL
            /\ call[u].pc = "assign" => call[u].sp \in Sessions
            /\ call[u].pc = "signal" => call[u].sp = NULL
            /\ call[u].pc \in {"assign", "signal"} =>
                  /\ call[u].w \in Workers /\ wpc[call[u].w] = "idle"
                  /\ call[u].w \notin woken /\ call[u].w # kissed
                  /\ wsp[call[u].w] = NULL <=> call[u].pc = "assign"
            /\ \A v \in Threads : call[u].w # NULL /\ call[v].w = call[u].w => u = v
          BY <1>0 DEF CallInv
      <4>3. ASSUME NEW v \in Threads, call'[u].w # NULL, call'[v].w = call'[u].w PROVE u = v
        <5>1. v # t
            BY <2>4, <4>1, <4>3
        <5> QED BY <2>4, <4>1, <4>2, <4>3, <5>1
      <4> QED BY <4>1, <4>2, <4>3
    <3> QED BY <3>1, <3>2
  <2>6. ASSUME NEW q \in Pools, NEW v \in ToSet(idle[q]) PROVE OnIdle(q, v)'
      BY <1>1, <1>2, <2>2, <2>4 DEF OnIdle
  <2>7. \A v : Assigned(v) => Assigned(v)'
    <3>1. call[t].pc = "none"
        BY <2>2 DEF NoCall
    <3> QED BY <2>4, <3>1 DEF Assigned
  <2>8. \A q \in Pools : queue'[q] # <<>> => idle[q] = <<>>
      BY <1>0, <2>1, <2>3 DEF IdleInv
  <2>9. IdleInv'
      BY <1>0, <2>2, <2>6, <2>7, <2>8 DEF IdleInv
  <2>10. CountInv' /\ HerdInv'
      BY <1>0, <2>2 DEF CountInv, HerdInv, Entries, Post
  <2>11. PoolTypeOK'
      BY <1>0, <2>2, <2>3, <2>4 DEF PoolTypeOK
  <2> QED BY <2>5, <2>9, <2>10, <2>11 DEF PoolInv
<1> QED BY <1>3, <1>4

-----------------------------------------------------------------------------
(***************************************************************************)
(* A session moves from one spot to another.                               *)
(***************************************************************************)
Num(x) == IF Counts(x) THEN 1 ELSE 0
Goes(s, o, x, F, G) ==
    /\ \A y \in Spots \ {"none", o, x} : G[y] = F[y]
    /\ x # "none" => G[x] = F[x] \cup {s}
    /\ o \notin {"none", x} => G[o] = F[o] \ {s}

\* One session gets another spot: the spots fit again, and the count follows.
LEMMA SpotMoved ==
    ASSUME NEW at \in [Sessions -> Spots], NEW b \in [Sessions -> Spots], NEW s,
           ChangedAt(Sessions, s, at, b), NEW F, NEW G, Fits(at, F), Goes(s, at[s], b[s], F, G)
    PROVE  /\ Fits(b, G)
           /\ Cardinality(Counted(at)) \in Nat /\ Cardinality(Counted(b)) \in Nat
           /\ Cardinality(Counted(b)) = Cardinality(Counted(at)) + Num(b[s]) - Num(at[s])
<1>1. PICK o, x : o = at[s] /\ x = b[s]
    OBVIOUS
<1>2. /\ s \in Sessions /\ o = at[s] /\ b[s] = x /\ \A r \in Sessions \ {s} : b[r] = at[r]
      /\ Goes(s, o, x, F, G)
    BY <1>1 DEF ChangedAt
<1>3. o \in Spots
    BY <1>2
<1>4. ASSUME NEW r \in Sessions, NEW y \in Spots \ {"none"}
      PROVE  b[r] = y <=> r \in G[y]
  <2>1. at[r] = y <=> r \in F[y]
      BY DEF Fits
  <2>2. o = y <=> s \in F[y]
      BY <1>2 DEF Fits
  <2>3. CASE y \notin {o, x}
      BY <1>2, <2>1, <2>2, <2>3 DEF Goes
  <2>4. CASE y = x
      BY <1>2, <2>1, <2>2, <2>4 DEF Goes
  <2>5. CASE y = o /\ y # x
      BY <1>2, <2>1, <2>2, <2>5 DEF Goes
  <2> QED BY <2>3, <2>4, <2>5
<1>5. Fits(b, G)
    BY <1>4 DEF Fits
<1> DEFINE A == Counted(at)
           B == Counted(b)
<1>6. IsFiniteSet(A) /\ IsFiniteSet(B)
  <2>1. A \subseteq Sessions /\ B \subseteq Sessions
      BY DEF Counted
  <2> QED BY <2>1, SessionAssumption, FS_Subset
<1>7. (s \in A <=> Counts(o)) /\ (s \in B <=> Counts(x)) /\ A \ {s} = B \ {s}
  <2>1. (s \in A <=> Counts(o)) /\ (s \in B <=> Counts(x))
      BY <1>2 DEF Counted
  <2>2. \A r \in Sessions \ {s} : r \in A <=> r \in B
      BY <1>2 DEF Counted
  <2>3. A \subseteq Sessions /\ B \subseteq Sessions
      BY DEF Counted
  <2> QED BY <2>1, <2>2, <2>3
<1> HIDE DEF A, B
<1>8. Cardinality(A) \in Nat /\ Cardinality(B) \in Nat
    BY <1>6, FS_CardinalityType
<1>9. Cardinality(B) = Cardinality(A) + Num(x) - Num(o)
  <2>1. CASE Counts(x) <=> Counts(o)
    <3>1. A = B
        BY <1>7, <2>1
    <3>2. Num(x) = Num(o) /\ Num(x) \in Nat
        BY <2>1 DEF Num
    <3> QED BY <1>8, <3>1, <3>2
  <2>2. CASE Counts(x) /\ ~Counts(o)
    <3>1. B = A \cup {s} /\ s \notin A
        BY <1>7, <2>2
    <3>2. Cardinality(B) = Cardinality(A) + 1
        BY <1>6, <3>1, FS_AddElement
    <3>3. Num(x) = 1 /\ Num(o) = 0
        BY <2>2 DEF Num
    <3> QED BY <1>8, <3>2, <3>3
  <2>3. CASE ~Counts(x) /\ Counts(o)
    <3>1. B = A \ {s} /\ s \in A
        BY <1>7, <2>3
    <3>2. Cardinality(B) = Cardinality(A) - 1
        BY <1>6, <3>1, FS_RemoveElement
    <3>3. Num(x) = 0 /\ Num(o) = 1
        BY <2>3 DEF Num
    <3> QED BY <1>8, <3>2, <3>3
  <2> QED BY <2>1, <2>2, <2>3
<1>10. /\ Cardinality(Counted(at)) \in Nat /\ Cardinality(Counted(b)) \in Nat
       /\ Cardinality(Counted(b)) = Cardinality(Counted(at)) + Num(x) - Num(o)
    BY <1>8, <1>9 DEF A, B
<1> QED BY <1>2, <1>5, <1>10

\* Where s is: at o, or nowhere if o is "none".
IsAt(s, o, F) == IF o = "none" THEN \A y \in Spots \ {"none"} : s \notin F[y] ELSE s \in F[o]

\* A step that takes s from spot o to spot x keeps SpotInv, if n_sess_mem follows.
LEMMA SpotKept ==
    ASSUME SpotInv, NEW s \in Sessions, NEW o \in Spots, NEW x \in Spots, IsAt(s, o, Held),
           Goes(s, o, x, Held, Held'), n_sess_mem' = n_sess_mem + Num(x) - Num(o)
    PROVE  SpotInv' /\ n_sess_mem' \in Nat
<1>1. PICK at \in [Sessions -> Spots] : Fits(at, Held) /\ n_sess_mem = Cardinality(Counted(at))
    BY DEF SpotInv
<1>2. at[s] \in Spots
    OBVIOUS
<1>3. at[s] = o
    BY <1>1, <1>2 DEF IsAt, Fits
<1>4. PICK b \in [Sessions -> Spots] : ChangedAt(Sessions, s, at, b) /\ b[s] = x
  <2>1. [at EXCEPT ![s] = x] \in [Sessions -> Spots]
      OBVIOUS
  <2> QED BY <2>1 DEF ChangedAt
<1>5. ASSUME NEW F, NEW G, F = Held, G = Held'
      PROVE  /\ Fits(b, G)
             /\ Cardinality(Counted(at)) \in Nat /\ Cardinality(Counted(b)) \in Nat
             /\ Cardinality(Counted(b)) = Cardinality(Counted(at)) + Num(x) - Num(o)
  <2>1. Fits(at, F) /\ Goes(s, at[s], b[s], F, G)
      BY <1>1, <1>3, <1>4, <1>5
  <2>2. /\ Fits(b, G)
        /\ Cardinality(Counted(at)) \in Nat /\ Cardinality(Counted(b)) \in Nat
        /\ Cardinality(Counted(b)) = Cardinality(Counted(at)) + Num(b[s]) - Num(at[s])
      BY <1>4, <2>1, SpotMoved
  <2> QED BY <1>3, <1>4, <2>2
<1>6. /\ b \in [Sessions -> Spots] /\ Fits(b, Held')
      /\ n_sess_mem' = Cardinality(Counted(b)) /\ n_sess_mem' \in Nat
    BY <1>1, <1>5
<1>7. Fits(b, Held)'
    BY <1>6 DEF Fits
<1> QED BY <1>6, <1>7 DEF SpotInv

\* Nothing moves.
LEMMA SpotStill ==
    ASSUME SpotInv, Held' = Held, n_sess_mem' = n_sess_mem
    PROVE  SpotInv'
<1>1. PICK at \in [Sessions -> Spots] : Fits(at, Held) /\ n_sess_mem = Cardinality(Counted(at))
    BY DEF SpotInv
<1>2. Fits(at, Held)'
    BY <1>1 DEF Fits
<1> QED BY <1>1, <1>2 DEF SpotInv

\* A session is in one spot, and its memory exists.
LEMMA OneSpot ==
    ASSUME SpotInv, NEW s \in Sessions, NEW x \in Spots \ {"none"}, s \in Held[x]
    PROVE  \A y \in Spots \ {"none", x} : s \notin Held[y]
BY DEF SpotInv, Fits

\* The spots by name.
LEMMA HeldIs ==
    /\ Held.free0 = ses_free_mem[0] /\ Held.free1 = ses_free_mem[1] /\ Held.new = New
    /\ Held.accepted = Accepted /\ Held.queue = Queued /\ Held.call = Called
    /\ Held.run = Running /\ Held.parked = parked /\ Held.pipe = ToSet(pipe)
    /\ Held.head = ToSet(sesshead) /\ Held.deleted = Deleted /\ Held.spare = Spared
BY DEF Held

\* The same after a step.
LEMMA HeldNext ==
    /\ Held'.free0 = ses_free_mem'[0] /\ Held'.free1 = ses_free_mem'[1] /\ Held'.new = New'
    /\ Held'.accepted = Accepted' /\ Held'.queue = Queued' /\ Held'.call = Called'
    /\ Held'.run = Running' /\ Held'.parked = parked' /\ Held'.pipe = ToSet(pipe')
    /\ Held'.head = ToSet(sesshead') /\ Held'.deleted = Deleted' /\ Held'.spare = Spared'
BY DEF Held

\* A call of WRK_Queue gets or gives up its session.
LEMMA CallMoved ==
    ASSUME InjInv, NEW t \in Threads, \A u \in Threads \ {t} : call'[u] = call[u],
           NEW y, call'[t].sp = y, y = NULL \/ y = call[t].sp \/ y \notin Called
    PROVE  /\ Inj(Threads, CallSp)'
           /\ Called' = (Called \ {call[t].sp}) \cup ({y} \ {NULL})
<1>1. ASSUME NEW f, NEW g, f = CallSp, g = CallSp'
      PROVE  Inj(Threads, g) /\ Vals(Threads, g) = (Vals(Threads, f) \ {f[t]}) \cup ({g[t]} \ {NULL})
  <2>1. \A u \in Threads : f[u] = call[u].sp /\ g[u] = call'[u].sp
      BY <1>1 DEF CallSp
  <2>2. ChangedAt(Threads, t, f, g)
      BY <2>1 DEF ChangedAt
  <2>3. Inj(Threads, f)
      BY <1>1 DEF InjInv
  <2>4. g[t] = NULL \/ g[t] = f[t] \/ g[t] \notin Vals(Threads, f)
      BY <1>1, <2>1 DEF Called
  <2> QED BY <2>2, <2>3, <2>4, HolderMoved
<1>2. CallSp[t] = call[t].sp /\ CallSp'[t] = y
    BY DEF CallSp
<1> QED BY <1>1, <1>2 DEF Called, Inj, Vals

\* A call of SES_Delete gets, changes or gives up its session.
LEMMA DelMoved ==
    ASSUME InjInv, NEW t \in Threads, \A u \in Threads \ {t} : del'[u] = del[u],
           DelSp'[t] = NULL \/ DelSp'[t] = DelSp[t] \/ DelSp'[t] \notin Deleted,
           SpareSp'[t] = NULL \/ SpareSp'[t] = SpareSp[t] \/ SpareSp'[t] \notin Spared
    PROVE  /\ Inj(Threads, DelSp)' /\ Inj(Threads, SpareSp)'
           /\ Deleted' = (Deleted \ {DelSp[t]}) \cup ({DelSp'[t]} \ {NULL})
           /\ Spared' = (Spared \ {SpareSp[t]}) \cup ({SpareSp'[t]} \ {NULL})
<1>1. ASSUME NEW f, NEW g, f = DelSp, g = DelSp'
      PROVE  Inj(Threads, g) /\ Vals(Threads, g) = (Vals(Threads, f) \ {f[t]}) \cup ({g[t]} \ {NULL})
  <2>1. \A u \in Threads \ {t} : g[u] = f[u]
      BY <1>1 DEF DelSp
  <2>2. ChangedAt(Threads, t, f, g)
      BY <2>1 DEF ChangedAt
  <2>3. Inj(Threads, f)
      BY <1>1 DEF InjInv
  <2>4. g[t] = NULL \/ g[t] = f[t] \/ g[t] \notin Vals(Threads, f)
      BY <1>1 DEF Deleted
  <2> QED BY <2>2, <2>3, <2>4, HolderMoved
<1>2. ASSUME NEW f, NEW g, f = SpareSp, g = SpareSp'
      PROVE  Inj(Threads, g) /\ Vals(Threads, g) = (Vals(Threads, f) \ {f[t]}) \cup ({g[t]} \ {NULL})
  <2>1. \A u \in Threads \ {t} : g[u] = f[u]
      BY <1>2 DEF SpareSp
  <2>2. ChangedAt(Threads, t, f, g)
      BY <2>1 DEF ChangedAt
  <2>3. Inj(Threads, f)
      BY <1>2 DEF InjInv
  <2>4. g[t] = NULL \/ g[t] = f[t] \/ g[t] \notin Vals(Threads, f)
      BY <1>2 DEF Spared
  <2> QED BY <2>2, <2>3, <2>4, HolderMoved
<1>3. Inj(Threads, DelSp)' /\ Inj(Threads, SpareSp)'
    BY <1>1, <1>2 DEF Inj
<1>4. Deleted' = (Deleted \ {DelSp[t]}) \cup ({DelSp'[t]} \ {NULL})
    BY <1>1 DEF Deleted, Vals
<1>5. Spared' = (Spared \ {SpareSp[t]}) \cup ({SpareSp'[t]} \ {NULL})
    BY <1>2 DEF Spared, Vals
<1> QED BY <1>3, <1>4, <1>5

\* A worker gets or gives up its session.
LEMMA RunMoved ==
    ASSUME InjInv, NEW w \in Workers,
           \A v \in Workers \ {w} : wpc'[v] = wpc[v] /\ wsp'[v] = wsp[v],
           RunSp'[w] = NULL \/ RunSp'[w] = RunSp[w] \/ RunSp'[w] \notin Running
    PROVE  /\ Inj(Workers, RunSp)'
           /\ Running' = (Running \ {RunSp[w]}) \cup ({RunSp'[w]} \ {NULL})
<1>1. ASSUME NEW f, NEW g, f = RunSp, g = RunSp'
      PROVE  Inj(Workers, g) /\ Vals(Workers, g) = (Vals(Workers, f) \ {f[w]}) \cup ({g[w]} \ {NULL})
  <2>1. \A u \in Workers \ {w} : g[u] = f[u]
      BY <1>1 DEF RunSp
  <2>2. ChangedAt(Workers, w, f, g)
      BY <2>1 DEF ChangedAt
  <2>3. Inj(Workers, f)
      BY <1>1 DEF InjInv
  <2>4. g[w] = NULL \/ g[w] = f[w] \/ g[w] \notin Vals(Workers, f)
      BY <1>1 DEF Running
  <2> QED BY <2>2, <2>3, <2>4, HolderMoved
<1> QED BY <1>1 DEF Running, Inj, Vals

\* A session is put on a queue.
LEMMA QueueGiven ==
    ASSUME queue \in [Pools -> Seq(Sessions)], QueueInv, NEW p \in Pools, NEW s \in Sessions,
           s \notin Queued, queue' = [queue EXCEPT ![p] = Append(queue[p], s)]
    PROVE  QueueInv' /\ Queued' = Queued \cup {s}
<1>1. queue[p] \in Seq(Sessions) /\ Distinct(queue[p]) /\ s \notin ToSet(queue[p])
    BY DEF QueueInv, Queued
<1>2. Distinct(Append(queue[p], s)) /\ ToSet(Append(queue[p], s)) = ToSet(queue[p]) \cup {s}
    BY <1>1, ListFacts
<1>3. queue'[p] = Append(queue[p], s) /\ \A q \in Pools : q # p => queue'[q] = queue[q]
    OBVIOUS
<1>4. \A q \in Pools : Distinct(queue'[q])
    BY <1>2, <1>3 DEF QueueInv
<1>5. /\ \A q \in Pools : s \notin ToSet(queue[q])
      /\ \A q \in Pools : ToSet(queue'[q]) = ToSet(queue[q]) \cup (IF q = p THEN {s} ELSE {})
    BY <1>2, <1>3 DEF Queued
<1>6. \A a, b \in Pools : \A r \in ToSet(queue'[a]) \cap ToSet(queue'[b]) : a = b
    BY <1>5 DEF QueueInv
<1>7. Queued' = Queued \cup {s}
    BY <1>5 DEF Queued
<1> QED BY <1>4, <1>6, <1>7 DEF QueueInv

\* The first session of a queue is taken off.
LEMMA QueueTaken ==
    ASSUME queue \in [Pools -> Seq(Sessions)], QueueInv, NEW p \in Pools, queue[p] # <<>>,
           queue' = [queue EXCEPT ![p] = Tail(queue[p])]
    PROVE  /\ QueueInv' /\ Queued' = Queued \ {Head(queue[p])}
           /\ Head(queue[p]) \in Queued /\ Head(queue[p]) \in Sessions
<1>1. queue[p] \in Seq(Sessions) /\ Distinct(queue[p])
    BY DEF QueueInv
<1>2. PICK s : s = Head(queue[p])
    OBVIOUS
<1>3. /\ s \in Sessions /\ s \in ToSet(queue[p]) /\ Distinct(Tail(queue[p]))
      /\ ToSet(Tail(queue[p])) = ToSet(queue[p]) \ {s}
    BY <1>1, <1>2, ListFacts
<1>4. queue'[p] = Tail(queue[p]) /\ \A q \in Pools : q # p => queue'[q] = queue[q]
    OBVIOUS
<1>5. \A q \in Pools : Distinct(queue'[q])
    BY <1>3, <1>4 DEF QueueInv
<1>6. \A q \in Pools : q # p => s \notin ToSet(queue[q])
    BY <1>3 DEF QueueInv
<1>7. \A q \in Pools : ToSet(queue'[q]) = ToSet(queue[q]) \ {s}
    BY <1>3, <1>4, <1>6
<1>8. \A a, b \in Pools : \A r \in ToSet(queue'[a]) \cap ToSet(queue'[b]) : a = b
    BY <1>7 DEF QueueInv
<1>9. Queued' = Queued \ {s} /\ s \in Queued
    BY <1>3, <1>7 DEF Queued
<1> QED BY <1>2, <1>3, <1>5, <1>8, <1>9 DEF QueueInv

\* What the pools' own steps leave alone.
LEMMA SessStill ==
    ASSUME SessInv, UNCHANGED sessVars, apc.pc # "accept" => call'[acceptor] = call[acceptor]
    PROVE  /\ SessTypeOK' /\ MemInv' /\ WatchInv' /\ ListInv'
           /\ Inj(Threads, DelSp)' /\ Inj(Threads, SpareSp)'
           /\ New' = New /\ Accepted' = Accepted /\ Deleted' = Deleted /\ Spared' = Spared
<1>1. /\ SessTypeOK /\ MemInv /\ WatchInv /\ ListInv
      /\ Inj(Threads, DelSp) /\ Inj(Threads, SpareSp)
    BY DEF SessInv, InjInv
<1>2. UNCHANGED <<vca_act, ses_qp, ses_free_mem, ses_mem_mtx, n_sess_mem, apc, del,
                  pipe, sesshead, armed, pending, old, parked>>
    BY DEF sessVars
<1>3. SessTypeOK' /\ WatchInv' /\ ListInv'
    BY <1>1, <1>2 DEF SessTypeOK, WatchInv, WatchedIsListed, ListInv
<1>4. MemInv'
    BY <1>1, <1>2 DEF MemInv, Ready
<1>5. DelSp' = DelSp /\ SpareSp' = SpareSp
    BY <1>2 DEF DelSp, SpareSp
<1>6. Inj(Threads, DelSp)' /\ Inj(Threads, SpareSp)'
    BY <1>1, <1>5 DEF Inj
<1>7. New' = New /\ Accepted' = Accepted /\ Deleted' = Deleted /\ Spared' = Spared
    BY <1>2, <1>5 DEF New, Accepted, Deleted, Spared, Vals
<1> QED BY <1>3, <1>4, <1>6, <1>7

\* A step of a pool that moves no session.
LEMMA PoolStill ==
    ASSUME SessInv, UNCHANGED <<sessVars, queue>>, CallSp' = CallSp, RunSp' = RunSp, WrkInv',
           apc.pc # "accept" => call'[acceptor] = call[acceptor]
    PROVE  SessInv'
<1>1. UNCHANGED sessVars
    OBVIOUS
<1>2. /\ SessTypeOK' /\ MemInv' /\ WatchInv' /\ ListInv'
      /\ Inj(Threads, DelSp)' /\ Inj(Threads, SpareSp)'
      /\ New' = New /\ Accepted' = Accepted /\ Deleted' = Deleted /\ Spared' = Spared
    BY <1>1, SessStill
<1>3. InjInv' /\ QueueInv'
    BY <1>2 DEF SessInv, InjInv, QueueInv, Inj
<1>4. Called' = Called /\ Running' = Running /\ Queued' = Queued
    BY DEF Called, Running, Queued, Vals
<1>5. UNCHANGED <<ses_free_mem, parked, pipe, sesshead, n_sess_mem>>
    BY DEF sessVars
<1>6. Held' = Held
    BY <1>2, <1>4, <1>5 DEF Held
<1>7. SpotInv'
    BY <1>5, <1>6, SpotStill DEF SessInv
<1> QED BY <1>2, <1>3, <1>7 DEF SessInv

\* The herder and the herd timer move none.
LEMMA HerdSess ==
    ASSUME IInv, HerderStep \/ TimerStep, UNCHANGED sessVars
    PROVE  SessInv'
<1>0. PoolInv /\ SessInv /\ WrkInv /\ PoolTypeOK
    BY DEF IInv, SessInv, PoolInv
<1>1. /\ UNCHANGED <<queue, call, wsp, wrk>>
      /\ \A w \in Workers : wpc'[w] = wpc[w] \/ (wpc[w] = "none" /\ wpc'[w] = "created")
  <2>1. CASE HerderStep
      BY <1>0, <2>1, HerderKeeps
  <2>2. CASE TimerStep
      BY <2>2 DEF TimerStep, wrk_decimate_kiss, wrk_decimate_flock
  <2> QED BY <2>1, <2>2
<1>2. CallSp' = CallSp /\ RunSp' = RunSp
    BY <1>1 DEF CallSp, RunSp
<1>3. WrkInv'
    BY <1>0, <1>1 DEF WrkInv, PoolTypeOK
<1> QED BY <1>0, <1>1, <1>2, <1>3, PoolStill

\* What WRK_Queue does after the unlock: the session goes to the worker.
LEMMA CallSess ==
    ASSUME IInv, NEW t \in Threads, CallStep(t), UNCHANGED sessVars
    PROVE  SessInv'
<1>0. PoolInv /\ SessInv /\ WrkInv /\ PoolTypeOK /\ CallInv /\ InjInv /\ MemInv /\ SpotInv
      /\ QueueInv
    BY DEF IInv, SessInv, PoolInv
<1>1. /\ call \in [Threads -> [pc : {"none", "assign", "signal", "herd"},
                               sp : Sessions \cup {NULL}, w : Workers \cup {NULL}]]
      /\ wsp \in [Workers -> Sessions \cup {NULL}] /\ NULL \notin Sessions
    BY <1>0, PoolAssumption DEF PoolTypeOK
<1>2. ASSUME call[t].pc # "none", \A u \in Threads \ {t} : call'[u] = call[u]
      PROVE  apc.pc # "accept" => call'[acceptor] = call[acceptor]
  <2>1. acceptor \in Threads
      BY SessionAssumption DEF Threads
  <2> QED BY <1>0, <1>2, <2>1 DEF MemInv, Ready, NoCall
<1>3. CASE WRK_Queue_assign(t)
  <2>1. /\ UNCHANGED <<idle, queue, nthr, last_lqueue, wpc, wpool, woken, wrk, herder, kissed>>
        /\ wsp' = [wsp EXCEPT ![call[t].w] = call[t].sp]
        /\ call' = [call EXCEPT ![t].pc = "signal", ![t].sp = NULL] /\ call[t].pc = "assign"
      BY <1>3 DEF WRK_Queue_assign
  <2>2. PICK w, s : w = call[t].w /\ s = call[t].sp
      OBVIOUS
  <2>3. w \in Workers /\ s \in Sessions /\ wpc[w] = "idle" /\ wsp[w] = NULL
      BY <1>0, <2>1, <2>2 DEF CallInv
  <2>4. wsp'[w] = s /\ \A v \in Workers \ {w} : wpc'[v] = wpc[v] /\ wsp'[v] = wsp[v]
      BY <1>1, <2>1, <2>2, <2>3
  <2>5. call'[t].sp = NULL /\ \A u \in Threads \ {t} : call'[u] = call[u]
      BY <1>1, <2>1
  <2>6. RunSp[w] = NULL /\ RunSp'[w] = s
      BY <2>1, <2>3, <2>4 DEF RunSp
  <2>7. s \in Called
      BY <1>1, <2>2, <2>3 DEF Called, Vals, CallSp
  <2>8. s \in Held.call
      BY <2>7, HeldIs
  <2>9. s \notin Running
      BY <1>0, <2>3, <2>8, HeldIs, OneSpot DEF Spots
  <2>10. Inj(Threads, CallSp)' /\ Called' = Called \ {s}
      BY <1>0, <2>2, <2>5, CallMoved
  <2>11. Inj(Workers, RunSp)' /\ Running' = (Running \ {NULL}) \cup {s}
      BY <1>0, <1>1, <2>3, <2>4, <2>6, <2>9, RunMoved
  <2>12. Running' = Running \cup {s}
      BY <2>11 DEF Running, Vals
  <2>13. /\ SessTypeOK' /\ MemInv' /\ WatchInv' /\ ListInv'
         /\ Inj(Threads, DelSp)' /\ Inj(Threads, SpareSp)'
         /\ New' = New /\ Accepted' = Accepted /\ Deleted' = Deleted /\ Spared' = Spared
      BY <1>0, <1>2, <2>1, <2>5, SessStill
  <2>14. UNCHANGED <<ses_free_mem, parked, pipe, sesshead, n_sess_mem>>
      BY DEF sessVars
  <2>15. Queued' = Queued /\ QueueInv'
      BY <1>0, <2>1 DEF Queued, QueueInv
  <2>16. Goes(s, "call", "run", Held, Held')
      BY <2>10, <2>12, <2>13, <2>14, <2>15, HeldIs, HeldNext DEF Goes, Spots
  <2>17. SpotInv'
    <3>1. IsAt(s, "call", Held)
        BY <2>8 DEF IsAt
    <3>2. n_sess_mem' = n_sess_mem + Num("run") - Num("call") /\ "call" \in Spots /\ "run" \in Spots
        BY <1>0, <2>14 DEF SessInv, SessTypeOK, Num, Counts, Spots
    <3> QED BY <1>0, <2>3, <2>16, <3>1, <3>2, SpotKept
  <2>18. WrkInv'
      BY <1>0, <1>1, <2>1, <2>3, <2>4 DEF WrkInv, PoolTypeOK
  <2>19. InjInv'
      BY <2>10, <2>11, <2>13 DEF InjInv
  <2> QED BY <2>13, <2>15, <2>17, <2>18, <2>19 DEF SessInv
<1>4. CASE WRK_Queue_signal(t) \/ WRK_Queue_herd(t)
  <2>1. /\ UNCHANGED <<queue, wpc, wsp, wrk>> /\ call' = [call EXCEPT ![t] = NoCall]
        /\ call[t].pc \in {"signal", "herd"}
      BY <1>4 DEF WRK_Queue_signal, WRK_Queue_herd
  <2>2. call[t].sp = NULL
      BY <1>0, <2>1 DEF CallInv
  <2>3. call'[t].sp = NULL /\ \A u \in Threads \ {t} : call'[u] = call[u]
      BY <1>1, <2>1 DEF NoCall
  <2>4. CallSp' = CallSp /\ RunSp' = RunSp
    <3>1. \A u \in Threads : call'[u].sp = call[u].sp
        BY <2>2, <2>3
    <3> QED BY <2>1, <3>1 DEF CallSp, RunSp
  <2>5. WrkInv'
      BY <1>0, <2>1 DEF WrkInv
  <2>6. apc.pc # "accept" => call'[acceptor] = call[acceptor]
      BY <1>2, <2>1, <2>3
  <2> QED BY <1>0, <2>1, <2>4, <2>5, <2>6, PoolStill
<1> QED BY <1>3, <1>4 DEF CallStep

\* A worker takes a session off the queue, starts it, or has none.
LEMMA WorkerSess ==
    ASSUME IInv, NEW w \in Workers, WorkerStep(w), UNCHANGED sessVars
    PROVE  SessInv'
<1>0. PoolInv /\ SessInv /\ WrkInv /\ PoolTypeOK /\ InjInv /\ SpotInv /\ QueueInv
    BY DEF IInv, SessInv, PoolInv
<1>1. /\ wpc \in [Workers -> {"none", "created", "idle", "start", "run", "return", "after"}]
      /\ wsp \in [Workers -> Sessions \cup {NULL}] /\ NULL \notin Sessions /\ NULL \notin Workers
      /\ wrk \in [Sessions -> Workers \cup {NULL}]
      /\ queue \in [Pools -> Seq(Sessions)] /\ wpool[w] \in Pools
    BY <1>0, PoolAssumption DEF PoolTypeOK
<1>2. ASSUME wpc[w] \in {"created", "after"}, LoopTop(w, wpool[w]), UNCHANGED <<wrk, call>>
      PROVE  SessInv'
  <2>0. PICK p : p = wpool[w]
      OBVIOUS
  <2>1. CASE queue[p] # <<>>
    <3>1. PICK s : s = Head(queue[p])
        OBVIOUS
    <3>2. /\ wsp' = [wsp EXCEPT ![w] = s] /\ queue' = [queue EXCEPT ![p] = Tail(queue[p])]
          /\ wpc' = [wpc EXCEPT ![w] = "start"]
        BY <1>2, <2>0, <2>1, <3>1 DEF LoopTop
    <3>3. QueueInv' /\ Queued' = Queued \ {s} /\ s \in Queued /\ s \in Sessions
        BY <1>0, <1>1, <2>0, <2>1, <3>1, <3>2, QueueTaken
    <3>4. /\ wsp'[w] = s /\ wpc'[w] = "start"
          /\ \A v \in Workers \ {w} : wpc'[v] = wpc[v] /\ wsp'[v] = wsp[v]
        BY <1>1, <3>2
    <3>5. RunSp[w] = NULL /\ RunSp'[w] = s
        BY <1>2, <3>4 DEF RunSp
    <3>6. s \in Held.queue
        BY <3>3, HeldIs
    <3>7. s \notin Running
        BY <1>0, <3>3, <3>6, HeldIs, OneSpot DEF Spots
    <3>8. Inj(Workers, RunSp)' /\ Running' = (Running \ {NULL}) \cup ({s} \ {NULL})
        BY <1>0, <3>4, <3>5, <3>7, RunMoved
    <3>9. Running' = Running \cup {s}
        BY <1>1, <3>3, <3>8 DEF Running, Vals
    <3>10. /\ SessTypeOK' /\ MemInv' /\ WatchInv' /\ ListInv'
           /\ Inj(Threads, DelSp)' /\ Inj(Threads, SpareSp)'
           /\ New' = New /\ Accepted' = Accepted /\ Deleted' = Deleted /\ Spared' = Spared
        BY <1>0, <1>2, SessStill
    <3>11. UNCHANGED <<ses_free_mem, parked, pipe, sesshead, n_sess_mem>>
        BY DEF sessVars
    <3>12. Called' = Called /\ Inj(Threads, CallSp)'
        BY <1>0, <1>2 DEF Called, Vals, CallSp, InjInv, Inj
    <3>13. Goes(s, "queue", "run", Held, Held')
        BY <3>3, <3>9, <3>10, <3>11, <3>12, HeldIs, HeldNext DEF Goes, Spots
    <3>14. SpotInv'
      <4>1. IsAt(s, "queue", Held)
          BY <3>6 DEF IsAt
      <4>2. n_sess_mem' = n_sess_mem + Num("run") - Num("queue") /\ "queue" \in Spots
            /\ "run" \in Spots
          BY <1>0, <3>11 DEF SessInv, SessTypeOK, Num, Counts, Spots
      <4> QED BY <1>0, <3>3, <3>13, <4>1, <4>2, SpotKept
    <3>15. WrkInv'
        BY <1>0, <1>1, <1>2, <3>3, <3>4 DEF WrkInv
    <3>16. InjInv'
        BY <3>8, <3>10, <3>12 DEF InjInv
    <3> QED BY <3>3, <3>10, <3>14, <3>15, <3>16 DEF SessInv
  <2>2. CASE queue[p] = <<>>
    <3>1. wsp' = [wsp EXCEPT ![w] = NULL] /\ wpc' = [wpc EXCEPT ![w] = "idle"] /\ queue' = queue
        BY <1>2, <2>0, <2>2 DEF LoopTop
    <3>2. /\ wsp'[w] = NULL /\ wpc'[w] = "idle"
          /\ \A v \in Workers \ {w} : wpc'[v] = wpc[v] /\ wsp'[v] = wsp[v]
        BY <1>1, <3>1
    <3>3. CallSp' = CallSp /\ RunSp' = RunSp
        BY <1>2, <3>2 DEF CallSp, RunSp
    <3>4. WrkInv'
        BY <1>0, <1>1, <1>2, <3>2 DEF WrkInv
    <3> QED BY <1>0, <1>2, <3>1, <3>3, <3>4, PoolStill
  <2> QED BY <2>1, <2>2
<1>3. CASE wrk_thread_start(w)
    BY <1>2, <1>3 DEF wrk_thread_start
<1>4. CASE wrk_thread_again(w)
    BY <1>2, <1>4 DEF wrk_thread_again
<1>5. CASE wrk_thread_session(w)
  <2>1. /\ wpc[w] = "start" /\ wpc' = [wpc EXCEPT ![w] = "run"]
        /\ UNCHANGED <<queue, wsp, call>> /\ wrk' = [wrk EXCEPT ![wsp[w]] = w]
      BY <1>5 DEF wrk_thread_session
  <2>2. wpc'[w] = "run" /\ \A v \in Workers \ {w} : wpc'[v] = wpc[v]
      BY <1>1, <2>1
  <2>3. CallSp' = CallSp /\ RunSp' = RunSp
      BY <2>1, <2>2 DEF CallSp, RunSp
  <2>4. wsp[w] \in Sessions /\ wrk'[wsp[w]] = w /\ \A s \in Sessions \ {wsp[w]} : wrk'[s] = wrk[s]
      BY <1>0, <1>1, <2>1 DEF WrkInv
  <2>5. WrkInv'
      BY <1>0, <1>1, <2>1, <2>2, <2>4 DEF WrkInv
  <2> QED BY <1>0, <2>1, <2>3, <2>5, PoolStill
<1>6. CASE wrk_thread_wakeup(w)
  <2>1. /\ wpc[w] = "idle" /\ UNCHANGED <<queue, wsp, wrk, call>>
        /\ \/ wsp[w] # NULL /\ wpc' = [wpc EXCEPT ![w] = "start"]
           \/ wsp[w] = NULL /\ wpc' = [wpc EXCEPT ![w] = "none"]
      BY <1>6 DEF wrk_thread_wakeup
  <2>2. /\ \/ wpc'[w] = "start" /\ wsp[w] # NULL
           \/ wpc'[w] = "none" /\ wsp[w] = NULL
        /\ \A v \in Workers \ {w} : wpc'[v] = wpc[v]
      BY <1>1, <2>1
  <2>3. CallSp' = CallSp /\ RunSp' = RunSp
      BY <2>1, <2>2 DEF CallSp, RunSp
  <2>4. WrkInv'
      BY <1>0, <1>1, <2>1, <2>2 DEF WrkInv
  <2> QED BY <1>0, <2>1, <2>3, <2>4, PoolStill
<1> QED BY <1>3, <1>4, <1>5, <1>6 DEF WorkerStep

-----------------------------------------------------------------------------
(***************************************************************************)
(* The acceptor, the state engine and the waiter.                          *)
(***************************************************************************)
DelType == [pc : {"none", "delete", "insert", "spare", "spare_insert"},
            sp : Sessions \cup {NULL}]

\* A thread calls SES_Delete for a session that is in no such call.
LEMMA DeleteCalled ==
    ASSUME InjInv, SessTypeOK, NEW t \in Threads, del[t] = NoDel, NEW s \in Sessions,
           s \notin Deleted, Delete(t, s)
    PROVE  /\ del' \in [Threads -> DelType] /\ del'[t] = [pc |-> "delete", sp |-> s]
           /\ \A u \in Threads \ {t} : del'[u] = del[u]
           /\ Inj(Threads, DelSp)' /\ Inj(Threads, SpareSp)'
           /\ Deleted' = Deleted \cup {s} /\ Spared' = Spared
<1>1. /\ del \in [Threads -> DelType] /\ NULL \notin Sessions
      /\ del' = [del EXCEPT ![t] = [pc |-> "delete", sp |-> s]]
    BY PoolAssumption DEF SessTypeOK, DelType, Delete
<1>2. /\ del' \in [Threads -> DelType] /\ del'[t] = [pc |-> "delete", sp |-> s]
      /\ \A u \in Threads \ {t} : del'[u] = del[u]
    BY <1>1 DEF DelType
<1>3. /\ DelSp[t] = NULL /\ SpareSp[t] = NULL
      /\ DelSp'[t] = s /\ SpareSp'[t] = NULL
    BY <1>2 DEF DelSp, SpareSp, NoDel
<1>4. /\ Inj(Threads, DelSp)' /\ Inj(Threads, SpareSp)'
      /\ Deleted' = (Deleted \ {NULL}) \cup ({s} \ {NULL})
      /\ Spared' = (Spared \ {NULL}) \cup ({NULL} \ {NULL})
    BY <1>2, <1>3, DelMoved
<1>5. NULL \notin Deleted /\ NULL \notin Spared
    BY DEF Deleted, Spared, Vals
<1> QED BY <1>1, <1>2, <1>4, <1>5

\* SES_Delete is not called.
LEMMA DelStill ==
    ASSUME InjInv, del' = del
    PROVE  Inj(Threads, DelSp)' /\ Inj(Threads, SpareSp)' /\ Deleted' = Deleted /\ Spared' = Spared
<1>1. DelSp' = DelSp /\ SpareSp' = SpareSp
    BY DEF DelSp, SpareSp
<1> QED BY <1>1 DEF InjInv, Inj, Deleted, Spared, Vals

\* The pools do not change.
LEMMA PoolSame ==
    ASSUME PoolInv, SessInv, UNCHANGED poolVars
    PROVE  /\ PoolInv' /\ WrkInv' /\ QueueInv'
           /\ Called' = Called /\ Running' = Running /\ Queued' = Queued
           /\ Inj(Threads, CallSp)' /\ Inj(Workers, RunSp)' /\ UNCHANGED call
<1>0. PoolTypeOK /\ CallInv /\ IdleInv /\ CountInv /\ HerdInv /\ WrkInv /\ QueueInv /\ InjInv
    BY DEF PoolInv, SessInv
<1>1. UNCHANGED <<idle, queue, nthr, last_lqueue, wpc, wpool, wsp, woken, wrk, call, herder, kissed>>
    BY DEF poolVars
<1>2. PoolTypeOK'
    BY <1>0, <1>1 DEF PoolTypeOK
<1>3. CallInv' /\ HerdInv' /\ WrkInv' /\ QueueInv'
    BY <1>0, <1>1 DEF CallInv, HerdInv, WrkInv, QueueInv
<1>4. IdleInv' /\ CountInv'
    BY <1>0, <1>1 DEF IdleInv, OnIdle, Assigned, CountInv, Entries, Post
<1>5. CallSp' = CallSp /\ RunSp' = RunSp
    BY <1>1 DEF CallSp, RunSp
<1>6. /\ Called' = Called /\ Running' = Running /\ Queued' = Queued
      /\ Inj(Threads, CallSp)' /\ Inj(Workers, RunSp)'
    BY <1>0, <1>1, <1>5 DEF Called, Running, Queued, Vals, InjInv, Inj
<1> QED BY <1>1, <1>2, <1>3, <1>4, <1>6 DEF PoolInv

\* WRK_QueueSession for a session that its caller has: it goes to a worker, to a queue or
\* to SES_Delete, and the waiter's close is the last of the three.
LEMMA HandedOver ==
    ASSUME IInv, NEW t \in Threads, Ready(t), NEW s \in Sessions,
           NEW o \in {"accepted", "parked", "head"}, s \in Held[o],
           WRK_QueueSession(t, s) \/ (Delete(t, s) /\ UNCHANGED poolVars),
           \A y \in {"free0", "free1", "new", "accepted", "parked", "pipe", "head"} \ {o} :
                Held'[y] = Held[y],
           Held'[o] = Held[o] \ {s}, n_sess_mem' = n_sess_mem
    PROVE  /\ PoolInv' /\ InjInv' /\ QueueInv' /\ SpotInv' /\ WrkInv'
           /\ \A u \in Threads \ {t} : call'[u] = call[u] /\ del'[u] = del[u]
           /\ del' \in [Threads -> DelType]
           /\ del'[t] = NoDel \/ del'[t] = [pc |-> "delete", sp |-> s]
<1>0. PoolInv /\ SessInv /\ WrkInv /\ PoolTypeOK /\ InjInv /\ SpotInv /\ QueueInv /\ SessTypeOK
    BY DEF IInv, SessInv, PoolInv
<1>1. /\ call \in [Threads -> [pc : {"none", "assign", "signal", "herd"},
                               sp : Sessions \cup {NULL}, w : Workers \cup {NULL}]]
      /\ queue \in [Pools -> Seq(Sessions)] /\ NULL \notin Sessions
      /\ del \in [Threads -> DelType] /\ del[t] = NoDel /\ call[t] = NoCall /\ n_sess_mem \in Nat
    BY <1>0, PoolAssumption DEF PoolTypeOK, SessTypeOK, DelType, Ready
<1>2. s \notin Queued /\ s \notin Called /\ s \notin Deleted
  <2>1. \A y \in Spots \ {"none", o} : s \notin Held[y]
      BY <1>0, OneSpot DEF Spots
  <2> QED BY <2>1, HeldIs DEF Spots
<1>3. ASSUME NEW x \in {"queue", "call", "deleted"},
             Queued' = Queued \cup (IF x = "queue" THEN {s} ELSE {}),
             Called' = Called \cup (IF x = "call" THEN {s} ELSE {}),
             Deleted' = Deleted \cup (IF x = "deleted" THEN {s} ELSE {}),
             Running' = Running, Spared' = Spared
      PROVE  SpotInv'
  <2>1. /\ Held'.queue = Held.queue \cup (IF x = "queue" THEN {s} ELSE {})
        /\ Held'.call = Held.call \cup (IF x = "call" THEN {s} ELSE {})
        /\ Held'.deleted = Held.deleted \cup (IF x = "deleted" THEN {s} ELSE {})
        /\ Held'.run = Held.run /\ Held'.spare = Held.spare
      BY <1>3, HeldIs, HeldNext
  <2>2. /\ x # "none" /\ x # o /\ o # "none" /\ Held'[x] = Held[x] \cup {s}
      BY <2>1
  <2>3. ASSUME NEW y \in Spots \ {"none", o, x} PROVE Held'[y] = Held[y]
    <3>1. CASE y \in {"free0", "free1", "new", "accepted", "parked", "pipe", "head"}
        BY <2>3, <3>1
    <3>2. CASE y \in {"queue", "call", "deleted", "run", "spare"}
        BY <2>1, <2>3, <3>2
    <3> QED BY <3>1, <3>2 DEF Spots
  <2>4. Goes(s, o, x, Held, Held')
      BY <2>2, <2>3 DEF Goes
  <2>5. /\ IsAt(s, o, Held) /\ o \in Spots /\ x \in Spots
        /\ n_sess_mem' = n_sess_mem + Num(x) - Num(o)
      BY <1>1 DEF IsAt, Spots, Num, Counts
  <2> QED BY <1>0, <2>4, <2>5, SpotKept
<1>4. CASE WRK_Queue_tickle(t, s) /\ del' = del
  <2>1. PICK p \in Pools :
            call' = [call EXCEPT ![t] = [pc |-> "assign", sp |-> s, w |-> Head(idle[p])]]
      BY <1>4 DEF WRK_Queue_tickle
  <2>2. UNCHANGED <<queue, wpc, wsp, wrk>>
      BY <1>4 DEF WRK_Queue_tickle
  <2>3. call'[t].sp = s /\ \A u \in Threads \ {t} : call'[u] = call[u]
      BY <1>1, <2>1
  <2>4. Inj(Threads, CallSp)' /\ Called' = Called \cup {s}
    <3>1. Inj(Threads, CallSp)' /\ Called' = (Called \ {call[t].sp}) \cup ({s} \ {NULL})
        BY <1>0, <1>2, <2>3, CallMoved
    <3>2. call[t].sp = NULL /\ NULL \notin Called
        BY <1>1 DEF NoCall, Called, Vals
    <3> QED BY <1>1, <3>1, <3>2
  <2>5. Running' = Running /\ Inj(Workers, RunSp)' /\ Queued' = Queued /\ QueueInv' /\ WrkInv'
    <3>1. RunSp' = RunSp
        BY <2>2 DEF RunSp
    <3> QED BY <1>0, <2>2, <3>1 DEF Running, Vals, InjInv, Inj, Queued, QueueInv, WrkInv
  <2>6. Inj(Threads, DelSp)' /\ Inj(Threads, SpareSp)' /\ Deleted' = Deleted /\ Spared' = Spared
      BY <1>0, <1>4, DelStill
  <2>7. SpotInv'
    <3>1. /\ Queued' = Queued \cup (IF "call" = "queue" THEN {s} ELSE {})
          /\ Called' = Called \cup (IF "call" = "call" THEN {s} ELSE {})
          /\ Deleted' = Deleted \cup (IF "call" = "deleted" THEN {s} ELSE {})
        BY <2>4, <2>5, <2>6
    <3> QED BY <1>3, <2>5, <2>6, <3>1
  <2>8. PoolInv'
      BY <1>0, <1>4, QueueKeeps
  <2> QED BY <1>1, <1>4, <2>3, <2>4, <2>5, <2>6, <2>7, <2>8 DEF InjInv
<1>5. CASE WRK_Queue_enqueue(t, s) /\ del' = del
  <2>1. PICK p \in Pools : queue' = [queue EXCEPT ![p] = Append(queue[p], s)]
      BY <1>5 DEF WRK_Queue_enqueue
  <2>2. /\ UNCHANGED <<wpc, wsp, wrk>>
        /\ call' = [call EXCEPT ![t] = [pc |-> "herd", sp |-> NULL, w |-> NULL]]
      BY <1>5 DEF WRK_Queue_enqueue
  <2>3. call'[t].sp = NULL /\ \A u \in Threads \ {t} : call'[u] = call[u]
      BY <1>1, <2>2
  <2>4. Inj(Threads, CallSp)' /\ Called' = Called
    <3>1. CallSp' = CallSp
        BY <1>1, <2>3 DEF CallSp, NoCall
    <3> QED BY <1>0, <3>1 DEF InjInv, Inj, Called, Vals
  <2>5. Running' = Running /\ Inj(Workers, RunSp)' /\ WrkInv'
    <3>1. RunSp' = RunSp
        BY <2>2 DEF RunSp
    <3> QED BY <1>0, <2>2, <3>1 DEF Running, Vals, InjInv, Inj, WrkInv
  <2>6. QueueInv' /\ Queued' = Queued \cup {s}
      BY <1>0, <1>1, <1>2, <2>1, QueueGiven
  <2>7. Inj(Threads, DelSp)' /\ Inj(Threads, SpareSp)' /\ Deleted' = Deleted /\ Spared' = Spared
      BY <1>0, <1>5, DelStill
  <2>8. SpotInv'
    <3>1. /\ Queued' = Queued \cup (IF "queue" = "queue" THEN {s} ELSE {})
          /\ Called' = Called \cup (IF "queue" = "call" THEN {s} ELSE {})
          /\ Deleted' = Deleted \cup (IF "queue" = "deleted" THEN {s} ELSE {})
        BY <2>4, <2>6, <2>7
    <3> QED BY <1>3, <2>5, <2>7, <3>1
  <2>9. PoolInv'
      BY <1>0, <1>5, QueueKeeps
  <2> QED BY <1>1, <1>5, <2>3, <2>4, <2>5, <2>6, <2>7, <2>8, <2>9 DEF InjInv
<1>6. CASE Delete(t, s) /\ UNCHANGED poolVars
  <2>1. /\ del' \in [Threads -> DelType] /\ del'[t] = [pc |-> "delete", sp |-> s]
        /\ \A u \in Threads \ {t} : del'[u] = del[u]
        /\ Inj(Threads, DelSp)' /\ Inj(Threads, SpareSp)'
        /\ Deleted' = Deleted \cup {s} /\ Spared' = Spared
      BY <1>0, <1>1, <1>2, <1>6, DeleteCalled
  <2>5. /\ PoolInv' /\ WrkInv' /\ QueueInv'
        /\ Called' = Called /\ Running' = Running /\ Queued' = Queued
        /\ Inj(Threads, CallSp)' /\ Inj(Workers, RunSp)' /\ UNCHANGED call
      BY <1>0, <1>6, PoolSame
  <2>6. SpotInv'
    <3>1. /\ Queued' = Queued \cup (IF "deleted" = "queue" THEN {s} ELSE {})
          /\ Called' = Called \cup (IF "deleted" = "call" THEN {s} ELSE {})
          /\ Deleted' = Deleted \cup (IF "deleted" = "deleted" THEN {s} ELSE {})
        BY <2>1, <2>5
    <3> QED BY <1>3, <2>1, <2>5, <3>1
  <2> QED BY <2>1, <2>5, <2>6 DEF InjInv
<1>7. WRK_Queue_refuse(t) => UNCHANGED poolVars
    BY DEF WRK_Queue_refuse
<1> QED BY <1>4, <1>5, <1>6, <1>7 DEF WRK_QueueSession

\* A session that malloc can return is nowhere.
LEMMA Fresh ==
    ASSUME IInv, NEW s \in Unallocated
    PROVE  s \in Sessions /\ IsAt(s, "none", Held)
<1>0. SessTypeOK /\ MemInv /\ NULL \notin Sessions
    BY PoolAssumption DEF IInv, SessInv
<1>1. s \in Sessions /\ s # NULL /\ s \notin Free /\ s \notin InUse
    BY <1>0 DEF Unallocated
<1>2. s \notin ses_free_mem[0] /\ s \notin ses_free_mem[1]
    BY <1>1 DEF Free
<1> DEFINE Hands == UNION {InHand(t) : t \in Threads}
           Runs == UNION {Run(w) : w \in Workers}
<1>a. InUse = Queued \cup ToSet(pipe) \cup ToSet(sesshead) \cup parked \cup ({apc.sp} \ {NULL})
              \cup Hands \cup Runs
    BY DEF InUse, Queued
<1>5. s \notin Hands => \A t \in Threads : s \notin InHand(t)
    OBVIOUS
<1>6. s \notin Runs => \A w \in Workers : s \notin Run(w)
    OBVIOUS
<1> HIDE DEF Hands, Runs
<1>3. /\ s \notin Queued /\ s \notin parked /\ s \notin ToSet(pipe) /\ s \notin ToSet(sesshead)
      /\ s # apc.sp /\ s \notin Hands /\ s \notin Runs
    BY <1>1, <1>a
<1>4. s \notin New /\ s \notin Accepted
    BY <1>3 DEF New, Accepted
<1>7. s \notin Called
    BY <1>1, <1>3, <1>5 DEF InHand, Called, Vals, CallSp
<1>8. s \notin Deleted /\ s \notin Spared
    BY <1>1, <1>3, <1>5 DEF InHand, Deleted, Spared, Vals, DelSp, SpareSp
<1>9. s \notin Running
    BY <1>1, <1>3, <1>6 DEF Run, Running, Vals, RunSp
<1> QED BY <1>1, <1>2, <1>3, <1>4, <1>7, <1>8, <1>9, HeldIs DEF IsAt, Spots

\* The acceptor takes memory and queues its session.
LEMMA AcceptorKeeps ==
    ASSUME IInv, Acceptor
    PROVE  IInv'
<1>0. /\ PoolInv /\ SessInv /\ WrkInv /\ InjInv /\ SpotInv /\ QueueInv /\ SessTypeOK
      /\ MemInv /\ WatchInv /\ ListInv
    BY DEF IInv, SessInv
<1>1. /\ acceptor \in Threads /\ NULL \notin Sessions /\ ses_qp \in {0, 1} /\ 1 - ses_qp \in {0, 1}
      /\ ses_free_mem \in [0..1 -> SUBSET Sessions] /\ 0..1 = {0, 1}
      /\ n_sess_mem \in Nat
      /\ apc \in [pc : {"accept", "flip", "remove", "alloc", "count", "queue"},
                  sp : Sessions \cup {NULL}]
    BY <1>0, PoolAssumption, SessionAssumption DEF Threads, SessTypeOK
<1> DEFINE Rest == UNCHANGED <<vca_act, pipe, sesshead, armed, pending, old, parked>>
<1>2. ASSUME Rest PROVE WatchInv' /\ ListInv'
    BY <1>0, <1>2 DEF WatchInv, WatchedIsListed, ListInv
<1>3. CASE vca_accept \/ SES_New_flip
  <2>1. /\ UNCHANGED <<poolVars, ses_free_mem, ses_mem_mtx, n_sess_mem, del>> /\ Rest
        /\ ses_qp' \in {0, 1}
        /\ ses_qp' = ses_qp \/ (ses_mem_mtx = NoLock /\ ses_qp' = 1 - ses_qp)
        /\ \/ apc' \in [pc : {"flip", "alloc"}, sp : {NULL}]
           \/ \E s \in ses_free_mem[ses_qp'] : apc' = [pc |-> "remove", sp |-> s]
        /\ apc.pc \in {"accept", "flip"} /\ Ready(acceptor)
      BY <1>0, <1>1, <1>3 DEF vca_accept, SES_New_flip, acceptRest, MemInv
  <2>2. /\ PoolInv' /\ WrkInv' /\ QueueInv'
        /\ Called' = Called /\ Running' = Running /\ Queued' = Queued
        /\ Inj(Threads, CallSp)' /\ Inj(Workers, RunSp)' /\ UNCHANGED call
      BY <1>0, <2>1, PoolSame
  <2>3. Inj(Threads, DelSp)' /\ Inj(Threads, SpareSp)' /\ Deleted' = Deleted /\ Spared' = Spared
      BY <1>0, <2>1, DelStill
  <2>4. /\ apc' \in [pc : {"accept", "flip", "remove", "alloc", "count", "queue"},
                     sp : Sessions \cup {NULL}]
        /\ apc'.pc \in {"flip", "alloc", "remove"}
        /\ apc'.pc = "remove" => apc'.sp \in ses_free_mem[ses_qp'] /\ apc'.sp \in Sessions
        /\ apc'.pc # "remove" => apc'.sp = NULL
      BY <1>1, <2>1
  <2>5. SessTypeOK'
      BY <1>0, <1>1, <2>1, <2>4 DEF SessTypeOK
  <2>6. MemInv'
      BY <1>0, <1>1, <2>1, <2>2, <2>4 DEF MemInv, Ready
  <2>7. New' = New /\ Accepted' = Accepted
      BY <2>1, <2>4 DEF New, Accepted
  <2>8. Held' = Held
      BY <2>1, <2>2, <2>3, <2>7 DEF Held
  <2>9. SpotInv'
      BY <1>0, <2>1, <2>8, SpotStill
  <2> QED BY <1>2, <2>1, <2>2, <2>3, <2>5, <2>6, <2>9 DEF IInv, SessInv, InjInv
<1>4. CASE SES_New_remove
  <2>1. /\ UNCHANGED <<poolVars, ses_qp, ses_mem_mtx, n_sess_mem, del>> /\ Rest
        /\ apc.pc = "remove" /\ apc' = [apc EXCEPT !.pc = "queue"]
        /\ ses_free_mem' = [ses_free_mem EXCEPT ![ses_qp] = ses_free_mem[ses_qp] \ {apc.sp}]
      BY <1>4 DEF SES_New_remove, acceptRest
  <2>2. /\ PoolInv' /\ WrkInv' /\ QueueInv'
        /\ Called' = Called /\ Running' = Running /\ Queued' = Queued
        /\ Inj(Threads, CallSp)' /\ Inj(Workers, RunSp)' /\ UNCHANGED call
      BY <1>0, <2>1, PoolSame
  <2>3. Inj(Threads, DelSp)' /\ Inj(Threads, SpareSp)' /\ Deleted' = Deleted /\ Spared' = Spared
      BY <1>0, <2>1, DelStill
  <2>4. PICK s : s = apc.sp
      OBVIOUS
  <2>5. s \in ses_free_mem[ses_qp] /\ s \in Sessions /\ Ready(acceptor)
      BY <1>0, <1>1, <2>1, <2>4 DEF MemInv
  <2>6. /\ apc' \in [pc : {"accept", "flip", "remove", "alloc", "count", "queue"},
                     sp : Sessions \cup {NULL}]
        /\ apc'.pc = "queue" /\ apc'.sp = s
        /\ ses_free_mem' \in [0..1 -> SUBSET Sessions]
        /\ ses_free_mem'[ses_qp] = ses_free_mem[ses_qp] \ {s}
        /\ ses_free_mem'[1 - ses_qp] = ses_free_mem[1 - ses_qp]
      BY <1>1, <2>1, <2>4
  <2>7. SessTypeOK'
      BY <1>0, <2>1, <2>6 DEF SessTypeOK
  <2>8. MemInv'
      BY <1>0, <1>1, <2>1, <2>2, <2>5, <2>6 DEF MemInv, Ready
  <2>9. New' = New /\ Accepted' = {s} /\ Accepted = {}
      BY <2>1, <2>6 DEF New, Accepted
  <2>10. SpotInv'
    <3>1. PICK o \in {"free0", "free1"} : o = IF ses_qp = 0 THEN "free0" ELSE "free1"
        OBVIOUS
    <3>2. /\ Held[o] = ses_free_mem[ses_qp] /\ Held'[o] = ses_free_mem[ses_qp] \ {s}
          /\ \A y \in {"free0", "free1"} \ {o} : Held'[y] = Held[y]
        BY <1>1, <2>6, <3>1, HeldIs, HeldNext
    <3>3. Goes(s, o, "accepted", Held, Held')
        BY <2>1, <2>2, <2>3, <2>9, <3>2, HeldIs, HeldNext DEF Goes, Spots
    <3>4. /\ IsAt(s, o, Held) /\ o \in Spots /\ "accepted" \in Spots
          /\ n_sess_mem' = n_sess_mem + Num("accepted") - Num(o)
        BY <1>1, <2>1, <2>5, <3>2 DEF IsAt, Spots, Num, Counts
    <3> QED BY <1>0, <2>5, <3>3, <3>4, SpotKept
  <2> QED BY <1>2, <2>1, <2>2, <2>3, <2>7, <2>8, <2>10 DEF IInv, SessInv, InjInv
<1>5. CASE SES_New_count
  <2>1. /\ UNCHANGED <<poolVars, ses_qp, ses_mem_mtx, ses_free_mem, del>> /\ Rest
        /\ apc.pc = "count" /\ apc' = [apc EXCEPT !.pc = "queue"] /\ n_sess_mem' = n_sess_mem + 1
      BY <1>5 DEF SES_New_count
  <2>2. /\ PoolInv' /\ WrkInv' /\ QueueInv'
        /\ Called' = Called /\ Running' = Running /\ Queued' = Queued
        /\ Inj(Threads, CallSp)' /\ Inj(Workers, RunSp)' /\ UNCHANGED call
      BY <1>0, <2>1, PoolSame
  <2>3. Inj(Threads, DelSp)' /\ Inj(Threads, SpareSp)' /\ Deleted' = Deleted /\ Spared' = Spared
      BY <1>0, <2>1, DelStill
  <2>4. PICK s : s = apc.sp
      OBVIOUS
  <2>5. s \in Sessions /\ Ready(acceptor)
      BY <1>0, <1>1, <2>1, <2>4 DEF MemInv
  <2>6. /\ apc' \in [pc : {"accept", "flip", "remove", "alloc", "count", "queue"},
                     sp : Sessions \cup {NULL}]
        /\ apc'.pc = "queue" /\ apc'.sp = s
      BY <1>1, <2>1, <2>4
  <2>7. SessTypeOK'
      BY <1>0, <1>1, <2>1, <2>6 DEF SessTypeOK
  <2>8. MemInv'
      BY <1>0, <1>1, <2>1, <2>2, <2>5, <2>6 DEF MemInv, Ready
  <2>9. New = {s} /\ New' = {} /\ Accepted' = {s} /\ Accepted = {}
      BY <2>1, <2>4, <2>6 DEF New, Accepted
  <2>10. SpotInv'
    <3>1. Goes(s, "new", "accepted", Held, Held')
        BY <2>1, <2>2, <2>3, <2>9, HeldIs, HeldNext DEF Goes, Spots
    <3>2. /\ IsAt(s, "new", Held) /\ "new" \in Spots /\ "accepted" \in Spots
          /\ n_sess_mem' = n_sess_mem + Num("accepted") - Num("new")
        BY <1>1, <2>1, <2>9, HeldIs DEF IsAt, Spots, Num, Counts
    <3> QED BY <1>0, <2>5, <3>1, <3>2, SpotKept
  <2> QED BY <1>2, <2>1, <2>2, <2>3, <2>7, <2>8, <2>10 DEF IInv, SessInv, InjInv
<1>6. CASE vca_acct_queue
  <2>1. /\ UNCHANGED <<ses_qp, ses_free_mem, ses_mem_mtx, n_sess_mem>> /\ Rest
        /\ apc.pc = "queue" /\ WRK_QueueSession(acceptor, apc.sp)
        /\ apc' = [pc |-> "accept", sp |-> NULL]
      BY <1>6 DEF vca_acct_queue
  <2>2. PICK s : s = apc.sp
      OBVIOUS
  <2>3. s \in Sessions /\ Ready(acceptor)
      BY <1>0, <1>1, <2>1, <2>2 DEF MemInv
  <2>4. Accepted = {s} /\ Accepted' = {} /\ New' = New
      BY <2>1, <2>2 DEF Accepted, New
  <2>5. /\ s \in Held.accepted /\ Held'.accepted = Held.accepted \ {s}
        /\ \A y \in {"free0", "free1", "new", "accepted", "parked", "pipe", "head"} \ {"accepted"} :
                Held'[y] = Held[y]
      BY <2>1, <2>4, HeldIs, HeldNext
  <2>6. /\ PoolInv' /\ InjInv' /\ QueueInv' /\ SpotInv' /\ WrkInv'
        /\ \A u \in Threads \ {acceptor} : call'[u] = call[u] /\ del'[u] = del[u]
        /\ del' \in [Threads -> DelType]
        /\ del'[acceptor] = NoDel \/ del'[acceptor] = [pc |-> "delete", sp |-> s]
      BY <1>1, <2>1, <2>2, <2>3, <2>5, HandedOver
  <2>7. SessTypeOK'
      BY <1>0, <2>1, <2>6 DEF SessTypeOK, DelType
  <2>8. MemInv'
      BY <1>0, <1>1, <2>1, <2>3, <2>6 DEF MemInv, Ready, NoDel
  <2> QED BY <1>2, <2>1, <2>6, <2>7, <2>8 DEF IInv, SessInv

<1>7. CASE SES_New_alloc
  <2>1. /\ UNCHANGED <<poolVars, ses_qp, ses_free_mem, ses_mem_mtx, n_sess_mem, del>> /\ Rest
        /\ apc.pc = "alloc"
      BY <1>7 DEF SES_New_alloc, acceptRest
  <2>2. /\ PoolInv' /\ WrkInv' /\ QueueInv'
        /\ Called' = Called /\ Running' = Running /\ Queued' = Queued
        /\ Inj(Threads, CallSp)' /\ Inj(Workers, RunSp)' /\ UNCHANGED call
      BY <1>0, <2>1, PoolSame
  <2>3. Inj(Threads, DelSp)' /\ Inj(Threads, SpareSp)' /\ Deleted' = Deleted /\ Spared' = Spared
      BY <1>0, <2>1, DelStill
  <2>4. Ready(acceptor) /\ New = {} /\ Accepted = {}
      BY <1>0, <2>1 DEF MemInv, New, Accepted
  <2>5. CASE apc' = [pc |-> "accept", sp |-> NULL]
    <3>1. SessTypeOK'
        BY <1>0, <2>1, <2>5 DEF SessTypeOK
    <3>2. MemInv'
        BY <1>0, <2>1, <2>2, <2>4, <2>5 DEF MemInv, Ready
    <3>3. New' = {} /\ Accepted' = {}
        BY <2>5 DEF New, Accepted
    <3>4. Held' = Held
        BY <2>1, <2>2, <2>3, <2>4, <3>3 DEF Held
    <3>5. SpotInv'
        BY <1>0, <2>1, <3>4, SpotStill
    <3> QED BY <1>2, <2>1, <2>2, <2>3, <3>1, <3>2, <3>5 DEF IInv, SessInv, InjInv
  <2>6. ASSUME NEW s \in Unallocated, apc' = [pc |-> "count", sp |-> s] PROVE IInv'
    <3>1. s \in Sessions /\ IsAt(s, "none", Held)
        BY Fresh
    <3>2. SessTypeOK'
        BY <1>0, <2>1, <2>6, <3>1 DEF SessTypeOK
    <3>3. MemInv'
        BY <1>0, <1>1, <2>1, <2>2, <2>4, <2>6, <3>1 DEF MemInv, Ready
    <3>4. New' = {s} /\ Accepted' = {}
        BY <2>6 DEF New, Accepted
    <3>5. Goes(s, "none", "new", Held, Held')
        BY <2>1, <2>2, <2>3, <2>4, <3>4, HeldIs, HeldNext DEF Goes, Spots
    <3>6. /\ "none" \in Spots /\ "new" \in Spots
          /\ n_sess_mem' = n_sess_mem + Num("new") - Num("none")
        BY <1>1, <2>1 DEF Spots, Num, Counts
    <3>7. SpotInv'
        BY <1>0, <3>1, <3>5, <3>6, SpotKept
    <3> QED BY <1>2, <2>1, <2>2, <2>3, <3>2, <3>3, <3>7 DEF IInv, SessInv, InjInv
  <2> QED BY <1>7, <2>5, <2>6 DEF SES_New_alloc
<1> QED BY <1>3, <1>4, <1>5, <1>6, <1>7 DEF Acceptor

\* CNT_Session gives up its session.
LEMMA LeavesWorker ==
    ASSUME IInv, NEW w \in Workers, NEW s, s = wsp[w], wpc[w] \in {"run", "return"},
           NEW x \in {"return", "after"}, wpc' = [wpc EXCEPT ![w] = x], UNCHANGED poolRest,
           wrk' = [wrk EXCEPT ![s] = NULL] \/ (wpc[w] = "return" /\ wrk' = wrk)
    PROVE  /\ s \in Sessions /\ s \in Held.run /\ s \in Running
           /\ PoolInv' /\ WrkInv' /\ QueueInv' /\ Called' = Called /\ Queued' = Queued
           /\ Inj(Threads, CallSp)' /\ Inj(Workers, RunSp)' /\ call' = call
           /\ Running' = IF x = "return" THEN Running ELSE Running \ {s}
<1>0. PoolInv /\ SessInv /\ WrkInv /\ PoolTypeOK /\ InjInv /\ QueueInv
    BY DEF IInv, SessInv, PoolInv
<1>1. /\ wpc \in [Workers -> {"none", "created", "idle", "start", "run", "return", "after"}]
      /\ wrk \in [Sessions -> Workers \cup {NULL}] /\ NULL \notin Sessions /\ NULL \notin Workers
      /\ s \in Sessions
    BY <1>0, PoolAssumption DEF PoolTypeOK, WrkInv
<1>2. UNCHANGED <<idle, queue, nthr, last_lqueue, wpool, wsp, woken, call, herder, kissed>>
    BY DEF poolRest
<1>3. wpc'[w] = x /\ \A v \in Workers \ {w} : wpc'[v] = wpc[v] /\ wsp'[v] = wsp[v]
    BY <1>1, <1>2
<1>4. wrk' \in [Sessions -> Workers \cup {NULL}]
    BY <1>1
<1>5. PoolInv'
    BY <1>0, <1>2, <1>4, BusyKeeps
<1>6. WrkInv'
  <2>1. ASSUME NEW r \in Sessions, wrk'[r] # NULL PROVE wpc'[wrk'[r]] = "run" /\ wsp[wrk'[r]] = r
    <3>1. wrk'[r] = wrk[r] /\ wrk[r] # w
        BY <1>0, <1>1, <2>1 DEF WrkInv
    <3> QED BY <1>0, <1>1, <1>3, <2>1, <3>1 DEF WrkInv
  <2>2. \A v \in Workers : wpc'[v] \in {"start", "run", "return"} => wsp[v] \in Sessions
      BY <1>0, <1>3 DEF WrkInv
  <2> QED BY <1>2, <2>1, <2>2 DEF WrkInv
<1>7. CallSp' = CallSp
    BY <1>2 DEF CallSp
<1>8. /\ QueueInv' /\ Called' = Called /\ Queued' = Queued /\ Inj(Threads, CallSp)'
    BY <1>0, <1>2, <1>7 DEF QueueInv, Called, Vals, Queued, InjInv, Inj
<1>9. RunSp[w] = s /\ RunSp'[w] = IF x = "return" THEN s ELSE NULL
    BY <1>2, <1>3 DEF RunSp
<1>10. s \in Running
    BY <1>1, <1>9 DEF Running, Vals
<1>11. /\ Inj(Workers, RunSp)' 
       /\ Running' = (Running \ {s}) \cup ({RunSp'[w]} \ {NULL})
    BY <1>0, <1>3, <1>9, RunMoved
<1>12. Running' = IF x = "return" THEN Running ELSE Running \ {s}
    BY <1>1, <1>9, <1>10, <1>11
<1> QED BY <1>1, <1>2, <1>5, <1>6, <1>8, <1>10, <1>11, <1>12, HeldIs

\* The state engine.
LEMMA EngineKeeps ==
    ASSUME IInv, NEW w \in Workers, Engine(w) \/ vca_return_session(w) \/ hsh_rush(w)
    PROVE  IInv'
<1>0. /\ PoolInv /\ SessInv /\ WrkInv /\ InjInv /\ SpotInv /\ QueueInv /\ SessTypeOK
      /\ MemInv /\ WatchInv /\ ListInv
    BY DEF IInv, SessInv
<1>1. /\ w \in Threads /\ w # acceptor /\ NULL \notin Sessions /\ n_sess_mem \in Nat
      /\ del \in [Threads -> DelType] /\ parked \subseteq Sessions /\ pipe \in Seq(Sessions)
    BY <1>0, PoolAssumption, SessionAssumption DEF Threads, SessTypeOK, DelType
<1>2. PICK s : s = wsp[w]
    OBVIOUS
<1>3. ASSUME UNCHANGED workRest
      PROVE  /\ UNCHANGED <<vca_act, ses_qp, ses_free_mem, ses_mem_mtx, n_sess_mem, apc, sesshead,
                            armed, pending>>
             /\ WatchInv' /\ Distinct(sesshead)' /\ New' = New /\ Accepted' = Accepted
    BY <1>0, <1>3 DEF workRest, WatchInv, WatchedIsListed, ListInv, New, Accepted
<1>4. ASSUME Ready(w), UNCHANGED workRest, \A u \in Threads \ {w} : call'[u] = call[u] /\ del'[u] = del[u],
             NEW r \in Sessions, del'[w] = NoDel \/ del'[w] = [pc |-> "delete", sp |-> r]
      PROVE  MemInv'
    BY <1>0, <1>1, <1>3, <1>4, PoolAssumption, SessionAssumption DEF MemInv, Ready, NoDel, Threads
<1>5. CASE cnt_wait_herd(w)
  <2>1. /\ wpc[w] = "run" /\ Ready(w) /\ wrk' = [wrk EXCEPT ![s] = NULL]
        /\ wpc' = [wpc EXCEPT ![w] = "return"] /\ UNCHANGED <<poolRest, workRest, del, pipe, old, parked>>
      BY <1>2, <1>5 DEF cnt_wait_herd
  <2>2. /\ s \in Sessions
        /\ PoolInv' /\ WrkInv' /\ QueueInv' /\ Called' = Called /\ Queued' = Queued
        /\ Inj(Threads, CallSp)' /\ Inj(Workers, RunSp)' /\ call' = call
        /\ Running' = Running
      BY <1>2, <2>1, LeavesWorker
  <2>3. Inj(Threads, DelSp)' /\ Inj(Threads, SpareSp)' /\ Deleted' = Deleted /\ Spared' = Spared
      BY <1>0, <2>1, DelStill
  <2>4. MemInv'
      BY <1>4, <2>1, <2>2 DEF Ready
  <2>5. SessTypeOK' /\ ListInv'
      BY <1>0, <1>3, <2>1 DEF SessTypeOK, ListInv
  <2>6. Held' = Held
      BY <1>3, <2>1, <2>2, <2>3 DEF Held
  <2>7. SpotInv'
      BY <1>0, <1>3, <2>1, <2>6, SpotStill
  <2> QED BY <1>3, <2>1, <2>2, <2>3, <2>4, <2>5, <2>7 DEF IInv, SessInv, InjInv
<1>6. CASE HSH_Lookup_park(w)
  <2>1. /\ wpc[w] = "run" /\ Ready(w) /\ wrk' = [wrk EXCEPT ![s] = NULL]
        /\ wpc' = [wpc EXCEPT ![w] = "after"] /\ UNCHANGED <<poolRest, workRest, del, pipe, old>>
        /\ parked' = parked \cup {s}
      BY <1>2, <1>6 DEF HSH_Lookup_park
  <2>2. /\ s \in Sessions /\ s \in Held.run /\ s \in Running
        /\ PoolInv' /\ WrkInv' /\ QueueInv' /\ Called' = Called /\ Queued' = Queued
        /\ Inj(Threads, CallSp)' /\ Inj(Workers, RunSp)' /\ call' = call
        /\ Running' = Running \ {s}
      BY <1>2, <2>1, LeavesWorker
  <2>3. Inj(Threads, DelSp)' /\ Inj(Threads, SpareSp)' /\ Deleted' = Deleted /\ Spared' = Spared
      BY <1>0, <2>1, DelStill
  <2>4. MemInv'
      BY <1>4, <2>1, <2>2 DEF Ready
  <2>5. SessTypeOK' /\ ListInv'
      BY <1>0, <1>3, <2>1, <2>2 DEF SessTypeOK, ListInv
  <2>6. Goes(s, "run", "parked", Held, Held')
      BY <1>3, <2>1, <2>2, <2>3, HeldIs, HeldNext DEF Goes, Spots
  <2>7. /\ IsAt(s, "run", Held) /\ "run" \in Spots /\ "parked" \in Spots
        /\ n_sess_mem' = n_sess_mem + Num("parked") - Num("run")
      BY <1>1, <1>3, <2>1, <2>2 DEF IsAt, Spots, Num, Counts
  <2>8. SpotInv'
      BY <1>0, <2>2, <2>6, <2>7, SpotKept
  <2> QED BY <1>3, <2>1, <2>2, <2>3, <2>4, <2>5, <2>8 DEF IInv, SessInv, InjInv
<1>7. ASSUME wpc[w] \in {"run", "return"}, Ready(w), wpc' = [wpc EXCEPT ![w] = "after"],
             wrk' = [wrk EXCEPT ![s] = NULL] \/ (wpc[w] = "return" /\ wrk' = wrk),
             UNCHANGED <<poolRest, workRest, pipe, parked>>, old' \subseteq Sessions, Delete(w, s)
      PROVE  IInv'
  <2>1. UNCHANGED <<poolRest, pipe, parked>> /\ UNCHANGED workRest
      BY <1>7
  <2>2. /\ s \in Sessions /\ s \in Held.run /\ s \in Running
        /\ PoolInv' /\ WrkInv' /\ QueueInv' /\ Called' = Called /\ Queued' = Queued
        /\ Inj(Threads, CallSp)' /\ Inj(Workers, RunSp)' /\ call' = call
        /\ Running' = Running \ {s}
      BY <1>2, <1>7, <2>1, LeavesWorker
  <2>3. s \notin Deleted
      BY <1>0, <2>2, HeldIs, OneSpot DEF Spots
  <2>4. /\ del' \in [Threads -> DelType] /\ del'[w] = [pc |-> "delete", sp |-> s]
        /\ \A u \in Threads \ {w} : del'[u] = del[u]
        /\ Inj(Threads, DelSp)' /\ Inj(Threads, SpareSp)'
        /\ Deleted' = Deleted \cup {s} /\ Spared' = Spared
      BY <1>0, <1>1, <1>7, <2>2, <2>3, DeleteCalled DEF Ready
  <2>5. MemInv'
      BY <1>4, <1>7, <2>1, <2>2, <2>4
  <2>6. SessTypeOK' /\ ListInv'
      BY <1>0, <1>3, <1>7, <2>1, <2>2, <2>4 DEF SessTypeOK, ListInv, DelType
  <2>7. Goes(s, "run", "deleted", Held, Held')
      BY <1>3, <2>1, <2>2, <2>4, HeldIs, HeldNext DEF Goes, Spots
  <2>8. /\ IsAt(s, "run", Held) /\ "run" \in Spots /\ "deleted" \in Spots
        /\ n_sess_mem' = n_sess_mem + Num("deleted") - Num("run")
      BY <1>1, <1>3, <2>1, <2>2 DEF IsAt, Spots, Num, Counts
  <2>9. SpotInv'
      BY <1>0, <2>2, <2>7, <2>8, SpotKept
  <2> QED BY <1>3, <2>1, <2>2, <2>4, <2>5, <2>6, <2>9 DEF IInv, SessInv, InjInv
<1>8. CASE cnt_done_close(w)
  <2>1. /\ wpc[w] = "run" /\ Ready(w) /\ wrk' = [wrk EXCEPT ![s] = NULL]
        /\ wpc' = [wpc EXCEPT ![w] = "after"] /\ UNCHANGED <<poolRest, workRest, pipe, old, parked>>
        /\ Delete(w, s)
      BY <1>2, <1>8 DEF cnt_done_close
  <2>2. old' \subseteq Sessions
      BY <1>0, <2>1 DEF SessTypeOK
  <2> QED BY <1>7, <2>1, <2>2
<1>9. CASE vca_return_session(w)
  <2>1. /\ wpc[w] = "return" /\ Ready(w) /\ wpc' = [wpc EXCEPT ![w] = "after"]
        /\ UNCHANGED <<poolRest, wrk, workRest, parked>>
        /\ \/ Len(pipe) < PipeSize /\ pipe' = Append(pipe, s) /\ del' = del
           \/ Delete(w, s) /\ pipe' = pipe
        /\ old' = old \ {s}
      BY <1>2, <1>9 DEF vca_return_session
  <2>2. old' \subseteq Sessions
      BY <1>0, <2>1 DEF SessTypeOK
  <2>3. CASE Delete(w, s) /\ pipe' = pipe
      BY <1>7, <2>1, <2>2, <2>3
  <2>4. CASE pipe' = Append(pipe, s) /\ del' = del
    <3>1. UNCHANGED poolRest /\ UNCHANGED workRest /\ UNCHANGED <<wrk, parked>>
        BY <2>1
    <3>2. /\ s \in Sessions /\ s \in Held.run /\ s \in Running
          /\ PoolInv' /\ WrkInv' /\ QueueInv' /\ Called' = Called /\ Queued' = Queued
          /\ Inj(Threads, CallSp)' /\ Inj(Workers, RunSp)' /\ call' = call
          /\ Running' = Running \ {s}
        BY <1>2, <2>1, <3>1, LeavesWorker
    <3>3. Inj(Threads, DelSp)' /\ Inj(Threads, SpareSp)' /\ Deleted' = Deleted /\ Spared' = Spared
        BY <1>0, <2>4, DelStill
    <3>4. MemInv'
        BY <1>4, <2>1, <2>4, <3>1, <3>2 DEF Ready
    <3>5. s \notin ToSet(pipe)
        BY <1>0, <3>2, HeldIs, OneSpot DEF Spots
    <3>6. pipe' \in Seq(Sessions) /\ Distinct(pipe') /\ ToSet(pipe') = ToSet(pipe) \cup {s}
        BY <1>0, <1>1, <2>4, <3>2, <3>5, ListFacts DEF ListInv
    <3>7. SessTypeOK' /\ ListInv'
        BY <1>0, <1>3, <2>2, <2>4, <3>1, <3>6 DEF SessTypeOK, ListInv
    <3>8. Goes(s, "run", "pipe", Held, Held')
        BY <1>3, <3>1, <3>2, <3>3, <3>6, HeldIs, HeldNext DEF Goes, Spots
    <3>9. /\ IsAt(s, "run", Held) /\ "run" \in Spots /\ "pipe" \in Spots
          /\ n_sess_mem' = n_sess_mem + Num("pipe") - Num("run")
        BY <1>1, <1>3, <3>1, <3>2 DEF IsAt, Spots, Num, Counts
    <3>10. SpotInv'
        BY <1>0, <3>2, <3>8, <3>9, SpotKept
    <3> QED BY <1>3, <3>1, <3>2, <3>3, <3>4, <3>7, <3>10 DEF IInv, SessInv, InjInv
  <2> QED BY <2>1, <2>3, <2>4
<1>10. CASE hsh_rush(w)
  <2>1. Ready(w) /\ UNCHANGED workRest /\ UNCHANGED <<pipe, old>>
      BY <1>10 DEF hsh_rush
  <2>2. PICK r \in parked : parked' = parked \ {r} /\ WRK_QueueSession(w, r)
      BY <1>10 DEF hsh_rush
  <2>3. /\ r \in Sessions /\ r \in Held.parked /\ Held'.parked = Held.parked \ {r}
        /\ \A y \in {"free0", "free1", "new", "accepted", "parked", "pipe", "head"} \ {"parked"} :
                Held'[y] = Held[y]
      BY <1>1, <1>3, <2>1, <2>2, HeldIs, HeldNext
  <2>4. n_sess_mem' = n_sess_mem
      BY <1>3, <2>1
  <2>5. /\ PoolInv' /\ InjInv' /\ QueueInv' /\ SpotInv' /\ WrkInv'
        /\ \A u \in Threads \ {w} : call'[u] = call[u] /\ del'[u] = del[u]
        /\ del' \in [Threads -> DelType]
        /\ del'[w] = NoDel \/ del'[w] = [pc |-> "delete", sp |-> r]
      BY <1>1, <2>1, <2>2, <2>3, <2>4, HandedOver
  <2>6. MemInv'
      BY <1>4, <2>1, <2>3, <2>5
  <2>7. SessTypeOK' /\ ListInv'
      BY <1>0, <1>3, <2>1, <2>2, <2>5 DEF SessTypeOK, ListInv, DelType
  <2> QED BY <1>3, <2>1, <2>5, <2>6, <2>7 DEF IInv, SessInv
<1> QED BY <1>5, <1>6, <1>8, <1>9, <1>10 DEF Engine

-----------------------------------------------------------------------------
(***************************************************************************)
(* SES_Delete.                                                             *)
(***************************************************************************)

\* One session is put away and another is made as a spare.
LEMMA SpotSwapped ==
    ASSUME SpotInv, NEW s \in Sessions, NEW r \in Sessions, s # r, IsAt(s, "deleted", Held),
           IsAt(r, "none", Held), NEW x \in {"none", "free0", "free1"},
           \A y \in Spots \ {"none", "deleted", "spare", x} : Held'[y] = Held[y],
           Held'["deleted"] = Held["deleted"] \ {s}, Held'["spare"] = Held["spare"] \cup {r},
           x # "none" => Held'[x] = Held[x] \cup {s}, n_sess_mem' = n_sess_mem + Num(x) - 1
    PROVE  SpotInv' /\ n_sess_mem' \in Nat
<1>1. PICK at \in [Sessions -> Spots] : Fits(at, Held) /\ n_sess_mem = Cardinality(Counted(at))
    BY DEF SpotInv
<1>2. at[s] = "deleted" /\ at[r] = "none"
  <2>1. at[s] \in Spots /\ at[r] \in Spots /\ "deleted" \in Spots
      BY DEF Spots
  <2> QED BY <1>1, <2>1 DEF IsAt, Fits
<1>3. x \in Spots /\ "spare" \in Spots /\ Num(x) \in {0, 1}
    BY DEF Spots, Num
<1>4. PICK b \in [Sessions -> Spots] :
          ChangedAt(Sessions, s, at, b) /\ b[s] = x /\ b[r] = "none"
  <2>1. [at EXCEPT ![s] = x] \in [Sessions -> Spots]
      BY <1>3
  <2> QED BY <1>2, <2>1 DEF ChangedAt
<1>5. PICK c \in [Sessions -> Spots] : ChangedAt(Sessions, r, b, c) /\ c[r] = "spare"
  <2>1. [b EXCEPT ![r] = "spare"] \in [Sessions -> Spots]
      BY <1>3
  <2> QED BY <2>1 DEF ChangedAt
<1>6. ASSUME NEW F, NEW G, F = Held, G = Held'
      PROVE  /\ Fits(c, G) /\ n_sess_mem' = Cardinality(Counted(c)) /\ n_sess_mem' \in Nat
  <2>1. PICK M : M = [y \in Spots |-> IF y = "spare" THEN F["spare"] ELSE G[y]]
      OBVIOUS
  <2>2. M["spare"] = F["spare"] /\ \A y \in Spots \ {"spare"} : M[y] = G[y]
      BY <1>3, <2>1
  <2>3. \A y \in Spots \ {"none", "deleted", x} : M[y] = F[y]
      BY <1>6, <2>2
  <2>4. M["deleted"] = F["deleted"] \ {s}
      BY <1>6, <2>2 DEF Spots
  <2>5. x # "none" => M[x] = F[x] \cup {s}
      BY <1>3, <1>6, <2>2
  <2>6. Goes(s, at[s], b[s], F, M)
      BY <1>2, <1>4, <2>3, <2>4, <2>5 DEF Goes
  <2>7. /\ Fits(b, M)
        /\ Cardinality(Counted(at)) \in Nat /\ Cardinality(Counted(b)) \in Nat
        /\ Cardinality(Counted(b)) = Cardinality(Counted(at)) + Num(b[s]) - Num(at[s])
    <3>1. Fits(at, F)
        BY <1>1, <1>6
    <3> QED BY <1>4, <2>6, <3>1, SpotMoved
  <2>8. G["spare"] = M["spare"] \cup {r}
      BY <1>6, <2>2
  <2>9. Goes(r, b[r], c[r], M, G)
      BY <1>4, <1>5, <2>2, <2>8 DEF Goes
  <2>10. /\ Fits(c, G)
         /\ Cardinality(Counted(b)) \in Nat /\ Cardinality(Counted(c)) \in Nat
         /\ Cardinality(Counted(c)) = Cardinality(Counted(b)) + Num(c[r]) - Num(b[r])
      BY <1>5, <2>7, <2>9, SpotMoved
  <2>11. Num(at[s]) = 1 /\ Num(b[r]) = 0 /\ Num(c[r]) = 0 /\ Num(b[s]) = Num(x)
      BY <1>2, <1>4, <1>5 DEF Num, Counts
  <2> QED BY <1>1, <1>3, <2>7, <2>10, <2>11
<1>7. Fits(c, Held') /\ n_sess_mem' = Cardinality(Counted(c)) /\ n_sess_mem' \in Nat
    BY <1>6
<1>8. Fits(c, Held)'
    BY <1>7 DEF Fits
<1> QED BY <1>7, <1>8 DEF SpotInv

\* A thread in SES_Delete is done with its session s, which is at x now, and has made the
\* spare r, which may be the memory of s again, or none.
LEMMA DeleteDone ==
    ASSUME IInv, NEW t \in Threads, NEW s, s = del[t].sp,
           del[t].pc \in {"delete", "insert", "spare_insert"},
           NEW x \in {"none", "free0", "free1"}, UNCHANGED <<poolVars, apc, pipe, sesshead, parked>>,
           NEW r \in Sessions \cup {NULL}, r # NULL => r \in Unallocated \/ (r = s /\ x = "none"),
           del' = [del EXCEPT ![t] = IF r = NULL THEN NoDel ELSE [pc |-> "spare", sp |-> r]],
           \A y \in {"free0", "free1"} \ {x} : Held'[y] = Held[y],
           x # "none" => Held'[x] = Held[x] \cup {s}, n_sess_mem' = n_sess_mem + Num(x) - 1
    PROVE  /\ PoolInv' /\ WrkInv' /\ QueueInv' /\ InjInv' /\ SpotInv' /\ n_sess_mem' \in Nat
           /\ del' \in [Threads -> DelType] /\ UNCHANGED call
           /\ del'[t] = NoDel \/ (del'[t] = [pc |-> "spare", sp |-> r] /\ r # NULL)
           /\ \A u \in Threads \ {t} : del'[u] = del[u]
<1>0. PoolInv /\ SessInv /\ InjInv /\ SpotInv /\ SessTypeOK /\ MemInv
    BY DEF IInv, SessInv
<1>1. /\ NULL \notin Sessions /\ n_sess_mem \in Nat /\ del \in [Threads -> DelType]
      /\ s \in Sessions
    BY <1>0, PoolAssumption DEF SessTypeOK, DelType, MemInv
<1>2. /\ PoolInv' /\ WrkInv' /\ QueueInv'
      /\ Called' = Called /\ Running' = Running /\ Queued' = Queued
      /\ Inj(Threads, CallSp)' /\ Inj(Workers, RunSp)' /\ UNCHANGED call
  <2>1. UNCHANGED poolVars
      OBVIOUS
  <2> QED BY <1>0, <2>1, PoolSame
<1>3. /\ del' \in [Threads -> DelType]
      /\ del'[t] = (IF r = NULL THEN NoDel ELSE [pc |-> "spare", sp |-> r])
      /\ \A u \in Threads \ {t} : del'[u] = del[u]
    BY <1>1 DEF DelType, NoDel
<1>4. DelSp[t] = s /\ SpareSp[t] = NULL /\ DelSp'[t] = NULL /\ SpareSp'[t] = r
    BY <1>3 DEF DelSp, SpareSp, NoDel
<1>5. s \in Deleted
    BY <1>1, <1>4 DEF Deleted, Vals
<1>6. IsAt(s, "deleted", Held)
    BY <1>5, HeldIs DEF IsAt
<1>7. r # NULL => r \notin Spared
  <2>1. CASE r = s
      BY <1>0, <1>1, <1>5, <2>1, HeldIs, OneSpot DEF Spots
  <2>2. CASE r \in Unallocated
    <3>1. IsAt(r, "none", Held)
        BY <2>2, Fresh
    <3> QED BY <3>1, HeldIs DEF IsAt, Spots
  <2> QED BY <2>1, <2>2
<1>8. /\ Inj(Threads, DelSp)' /\ Inj(Threads, SpareSp)'
      /\ Deleted' = (Deleted \ {s}) \cup ({NULL} \ {NULL})
      /\ Spared' = (Spared \ {NULL}) \cup ({r} \ {NULL})
    BY <1>0, <1>3, <1>4, <1>7, DelMoved
<1>9. Deleted' = Deleted \ {s} /\ Spared' = Spared \cup ({r} \ {NULL})
    BY <1>8 DEF Spared, Vals
<1>10. New' = New /\ Accepted' = Accepted
    BY DEF New, Accepted
<1>11. /\ Held'["deleted"] = Held["deleted"] \ {s} /\ Held'["spare"] = Held["spare"] \cup ({r} \ {NULL})
       /\ \A y \in Spots \ {"none", "deleted", "spare", "free0", "free1"} : Held'[y] = Held[y]
    BY <1>2, <1>9, <1>10, HeldIs, HeldNext DEF Spots
<1>12. /\ \A y \in Spots \ {"none", "deleted", "spare", x} : Held'[y] = Held[y]
    BY <1>11
<1>13. /\ x \in Spots /\ "deleted" \in Spots /\ "spare" \in Spots /\ Num("deleted") = 1
       /\ Num("spare") = 0 /\ Num("none") = 0
    BY DEF Spots, Num, Counts
<1>14. CASE r = NULL
  <2>1. Held'["spare"] = Held["spare"]
      BY <1>11, <1>14
  <2>2. Goes(s, "deleted", x, Held, Held')
      BY <1>11, <1>12, <2>1 DEF Goes
  <2>3. SpotInv' /\ n_sess_mem' \in Nat
      BY <1>0, <1>1, <1>6, <1>13, <2>2, SpotKept
  <2> QED BY <1>2, <1>3, <1>8, <2>3 DEF InjInv
<1>15. CASE r = s /\ x = "none"
  <2>1. Goes(s, "deleted", "spare", Held, Held')
      BY <1>1, <1>11, <1>12, <1>15 DEF Goes
  <2>2. n_sess_mem' = n_sess_mem + Num("spare") - Num("deleted")
      BY <1>13, <1>15
  <2>3. SpotInv' /\ n_sess_mem' \in Nat
      BY <1>0, <1>1, <1>6, <1>13, <2>1, <2>2, SpotKept
  <2> QED BY <1>1, <1>2, <1>3, <1>8, <1>15, <2>3 DEF InjInv
<1>16. CASE r # NULL /\ r \in Unallocated
  <2>1. r \in Sessions /\ IsAt(r, "none", Held)
      BY <1>16, Fresh
  <2>2. s # r
      BY <1>6, <1>13, <2>1 DEF IsAt
  <2>3. Held'["spare"] = Held["spare"] \cup {r}
      BY <1>11, <1>16
  <2>4. SpotInv' /\ n_sess_mem' \in Nat
      BY <1>0, <1>1, <1>6, <1>11, <1>12, <2>1, <2>2, <2>3, SpotSwapped
  <2> QED BY <1>2, <1>3, <1>8, <1>16, <2>4 DEF InjInv
<1> QED BY <1>14, <1>15, <1>16

\* SES_Delete keeps the lists of free memory, the lock and the count right.
LEMMA DeleteKeeps ==
    ASSUME IInv, NEW t \in Threads, SES_Delete(t)
    PROVE  IInv'
<1>0. /\ PoolInv /\ SessInv /\ WrkInv /\ InjInv /\ SpotInv /\ QueueInv /\ SessTypeOK
      /\ MemInv /\ WatchInv /\ ListInv
    BY DEF IInv, SessInv
<1>1. /\ acceptor \in Threads /\ NULL \notin Sessions /\ NULL \notin Threads
      /\ ses_qp \in {0, 1} /\ 1 - ses_qp \in {0, 1}
      /\ ses_free_mem \in [0..1 -> SUBSET Sessions] /\ 0..1 = {0, 1}
      /\ n_sess_mem \in Nat /\ del \in [Threads -> DelType]
      /\ ses_mem_mtx \in [t : Threads \cup {NULL}, list : 0..1]
    BY <1>0, PoolAssumption, SessionAssumption DEF Threads, SessTypeOK, DelType
<1> DEFINE Rest == UNCHANGED <<vca_act, ses_qp, apc, pipe, sesshead, armed, pending, old, parked>>
<1>2. ASSUME Rest PROVE WatchInv' /\ ListInv' /\ New' = New /\ Accepted' = Accepted
    BY <1>0, <1>2 DEF WatchInv, WatchedIsListed, ListInv, New, Accepted
<1>3. PICK s : s = del[t].sp
    OBVIOUS
<1>4. CASE SES_Delete_lock(t)
  <2>1. /\ UNCHANGED <<poolVars, ses_free_mem>> /\ Rest
        /\ del[t].pc \in {"delete", "spare"} /\ ses_mem_mtx = NoLock
        /\ ses_mem_mtx' = [t |-> t, list |-> 1 - ses_qp]
        /\ n_sess_mem' = IF del[t].pc = "spare" THEN n_sess_mem + 1 ELSE n_sess_mem
        /\ del' = [del EXCEPT ![t].pc = IF @ = "delete" THEN "insert" ELSE "spare_insert"]
      BY <1>4 DEF SES_Delete_lock
  <2>2. /\ PoolInv' /\ WrkInv' /\ QueueInv'
        /\ Called' = Called /\ Running' = Running /\ Queued' = Queued
        /\ Inj(Threads, CallSp)' /\ Inj(Workers, RunSp)' /\ UNCHANGED call
      BY <1>0, <2>1, PoolSame
  <2>3. /\ del' \in [Threads -> DelType] /\ del'[t].sp = s
        /\ del'[t].pc = IF del[t].pc = "delete" THEN "insert" ELSE "spare_insert"
        /\ \A u \in Threads \ {t} : del'[u] = del[u]
      BY <1>1, <1>3, <2>1 DEF DelType
  <2>4. s \in Sessions
      BY <1>0, <1>1, <1>3, <2>1 DEF MemInv, DelType
  <2>5. /\ ses_mem_mtx' \in [t : Threads \cup {NULL}, list : 0..1]
        /\ ses_mem_mtx'.t = t /\ ses_mem_mtx'.list = 1 - ses_qp /\ ses_mem_mtx.t = NULL
      BY <1>1, <2>1 DEF NoLock
  <2>6. SessTypeOK'
      BY <1>0, <1>1, <2>1, <2>3, <2>5 DEF SessTypeOK, DelType
  <2>7. apc.pc # "accept" => t # acceptor
      BY <1>0, <2>1 DEF MemInv, Ready, NoDel
  <2>8. MemInv'
    <3>1. \A u \in Threads : /\ del'[u].pc = "none" <=> del'[u].sp = NULL
                             /\ del'[u].pc \in {"insert", "spare_insert"} <=> ses_mem_mtx'.t = u
        BY <1>0, <1>1, <2>1, <2>3, <2>4, <2>5 DEF MemInv
    <3>2. apc.pc # "accept" => call'[acceptor] = NoCall /\ del'[acceptor] = NoDel
        BY <1>0, <1>1, <2>2, <2>3, <2>7 DEF MemInv, Ready
    <3> QED BY <1>0, <1>1, <2>1, <2>5, <3>1, <3>2 DEF MemInv, Ready
  <2>9. CASE del[t].pc = "delete"
    <3>1. DelSp' = DelSp /\ SpareSp' = SpareSp
        BY <1>3, <2>3, <2>9 DEF DelSp, SpareSp
    <3>2. /\ Inj(Threads, DelSp)' /\ Inj(Threads, SpareSp)' /\ Deleted' = Deleted /\ Spared' = Spared
        BY <1>0, <3>1 DEF InjInv, Inj, Deleted, Spared, Vals
    <3>3. Held' = Held
        BY <1>2, <2>1, <2>2, <3>2 DEF Held
    <3>4. SpotInv'
        BY <1>0, <2>1, <2>9, <3>3, SpotStill
    <3> QED BY <1>2, <2>1, <2>2, <2>6, <2>8, <3>2, <3>4 DEF IInv, SessInv, InjInv
  <2>10. CASE del[t].pc = "spare"
    <3>1. DelSp[t] = NULL /\ SpareSp[t] = s /\ DelSp'[t] = s /\ SpareSp'[t] = NULL
        BY <1>3, <2>3, <2>10 DEF DelSp, SpareSp
    <3>2. s \in Spared /\ NULL \notin Deleted
        BY <1>1, <2>4, <3>1 DEF Spared, Deleted, Vals
    <3>3. s \notin Deleted
        BY <1>0, <2>4, <3>2, HeldIs, OneSpot DEF Spots
    <3>4. /\ Inj(Threads, DelSp)' /\ Inj(Threads, SpareSp)'
          /\ Deleted' = (Deleted \ {NULL}) \cup ({s} \ {NULL})
          /\ Spared' = (Spared \ {s}) \cup ({NULL} \ {NULL})
        BY <1>0, <2>3, <3>1, <3>3, DelMoved
    <3>5. Deleted' = Deleted \cup {s} /\ Spared' = Spared \ {s}
        BY <1>1, <2>4, <3>2, <3>4
    <3>6. Goes(s, "spare", "deleted", Held, Held')
        BY <1>2, <2>1, <2>2, <3>5, HeldIs, HeldNext DEF Goes, Spots
    <3>7. /\ IsAt(s, "spare", Held) /\ "spare" \in Spots /\ "deleted" \in Spots
          /\ n_sess_mem' = n_sess_mem + Num("deleted") - Num("spare")
        BY <1>1, <2>1, <2>10, <3>2, HeldIs DEF IsAt, Spots, Num, Counts
    <3>8. SpotInv'
        BY <1>0, <2>4, <3>6, <3>7, SpotKept
    <3> QED BY <1>2, <2>1, <2>2, <2>6, <2>8, <3>4, <3>8 DEF IInv, SessInv, InjInv
  <2> QED BY <2>1, <2>9, <2>10
<1>5. ASSUME Rest, UNCHANGED poolVars, ses_free_mem' \in [0..1 -> SUBSET Sessions],
             ses_free_mem[ses_qp] = ses_free_mem'[ses_qp],
             del[t].pc \in {"delete", "insert", "spare_insert"},
             ses_mem_mtx' = IF del[t].pc = "delete" THEN ses_mem_mtx ELSE NoLock,
             NEW x \in {"none", "free0", "free1"},
             NEW r \in Sessions \cup {NULL}, r # NULL => r \in Unallocated \/ (r = s /\ x = "none"),
             del' = [del EXCEPT ![t] = IF r = NULL THEN NoDel ELSE [pc |-> "spare", sp |-> r]],
             \A y \in {"free0", "free1"} \ {x} : Held'[y] = Held[y],
             x # "none" => Held'[x] = Held[x] \cup {s}, n_sess_mem' = n_sess_mem + Num(x) - 1
      PROVE  IInv'
  <2>1. UNCHANGED <<poolVars, apc, pipe, sesshead, parked>>
      BY <1>5
  <2>2. /\ PoolInv' /\ WrkInv' /\ QueueInv' /\ InjInv' /\ SpotInv' /\ n_sess_mem' \in Nat
        /\ del' \in [Threads -> DelType] /\ UNCHANGED call
        /\ del'[t] = NoDel \/ (del'[t] = [pc |-> "spare", sp |-> r] /\ r # NULL)
        /\ \A u \in Threads \ {t} : del'[u] = del[u]
      BY <1>3, <1>5, <2>1, DeleteDone
  <2>3. ses_mem_mtx' \in [t : Threads \cup {NULL}, list : 0..1]
      BY <1>1, <1>5 DEF NoLock
  <2>4. SessTypeOK'
      BY <1>0, <1>5, <2>2, <2>3 DEF SessTypeOK, DelType
  <2>5. apc.pc # "accept" => t # acceptor
      BY <1>0, <1>5 DEF MemInv, Ready, NoDel
  <2>6. apc.pc # "accept" => call'[acceptor] = NoCall /\ del'[acceptor] = NoDel
      BY <1>0, <1>1, <2>2, <2>5 DEF MemInv, Ready
  <2>7. \A u \in Threads : /\ del'[u].pc = "none" <=> del'[u].sp = NULL
                           /\ del'[u].pc \in {"insert", "spare_insert"} <=> ses_mem_mtx'.t = u
    <3>1. ASSUME NEW u \in Threads, u = t
          PROVE  /\ del'[u].pc = "none" <=> del'[u].sp = NULL
                 /\ del'[u].pc \notin {"insert", "spare_insert"} /\ ses_mem_mtx'.t # u
        BY <1>0, <1>1, <1>5, <2>2, <3>1 DEF MemInv, NoDel, NoLock
    <3>2. ASSUME NEW u \in Threads, u # t
          PROVE  /\ del'[u].pc = "none" <=> del'[u].sp = NULL
                 /\ del'[u].pc \in {"insert", "spare_insert"} <=> ses_mem_mtx'.t = u
      <4>1. /\ del'[u] = del[u] /\ del[u].pc = "none" <=> del[u].sp = NULL
            /\ del[u].pc \in {"insert", "spare_insert"} <=> ses_mem_mtx.t = u
            /\ del[t].pc \in {"insert", "spare_insert"} <=> ses_mem_mtx.t = t
          BY <1>0, <2>2, <3>2 DEF MemInv
      <4> QED BY <1>1, <1>5, <3>2, <4>1 DEF NoLock
    <3> QED BY <3>1, <3>2
  <2>8. MemInv'
    <3>1. ses_mem_mtx' # NoLock => ses_mem_mtx'.t # NULL /\ ses_mem_mtx'.list = 1 - ses_qp'
        BY <1>0, <1>5 DEF MemInv
    <3> QED BY <1>0, <1>5, <2>6, <2>7, <3>1 DEF MemInv, Ready
  <2> QED BY <1>2, <1>5, <2>2, <2>4, <2>8 DEF IInv, SessInv
<1>6. CASE SES_Delete_free(t)
  <2>1. /\ UNCHANGED <<poolVars, ses_free_mem, ses_mem_mtx>> /\ Rest
        /\ del[t].pc = "delete" /\ n_sess_mem' = n_sess_mem - 1 /\ Spare(t)
      BY <1>6 DEF SES_Delete_free
  <2>2. PICK r \in Sessions \cup {NULL} :
            /\ r # NULL => r \in Unallocated \/ r = s
            /\ del' = [del EXCEPT ![t] = IF r = NULL THEN NoDel ELSE [pc |-> "spare", sp |-> r]]
    <3>1. CASE del' = [del EXCEPT ![t] = NoDel]
        BY <3>1
    <3>2. CASE \E r \in Unallocated \cup ({s} \ Free') :
                    del' = [del EXCEPT ![t] = [pc |-> "spare", sp |-> r]]
      <4>1. PICK r \in Unallocated \cup {s} : del' = [del EXCEPT ![t] = [pc |-> "spare", sp |-> r]]
          BY <3>2
      <4>2. r \in Sessions
          BY <1>0, <1>1, <1>3, <2>1 DEF Unallocated, MemInv, DelType
      <4> QED BY <1>1, <4>1, <4>2
    <3> QED BY <1>3, <2>1, <3>1, <3>2 DEF Spare
  <2>3. Held'["free0"] = Held["free0"] /\ Held'["free1"] = Held["free1"]
      BY <2>1, HeldIs, HeldNext
  <2>4. n_sess_mem' = n_sess_mem + Num("none") - 1
      BY <1>1, <2>1 DEF Num, Counts
  <2>5. \A y \in {"free0", "free1"} \ {"none"} : Held'[y] = Held[y]
      BY <2>3
  <2> QED BY <1>0, <1>5, <2>1, <2>2, <2>4, <2>5 DEF SessTypeOK
<1>7. CASE SES_Delete_insert(t)
  <2>1. /\ UNCHANGED <<poolVars, n_sess_mem>> /\ Rest
        /\ del[t].pc \in {"insert", "spare_insert"} /\ ses_mem_mtx' = NoLock
        /\ ses_free_mem' = [ses_free_mem EXCEPT ![ses_mem_mtx.list] = @ \cup {del[t].sp}]
        /\ Spare(t) \/ del' = [del EXCEPT ![t] = NoDel]
      BY <1>7 DEF SES_Delete_insert
  <2>2. PICK k : k = 1 - ses_qp
      OBVIOUS
  <2>3. ses_mem_mtx.list = k /\ s \in Sessions /\ k \in {0, 1} /\ ses_qp # k
    <3>1. ses_mem_mtx.t = t
        BY <1>0, <2>1 DEF MemInv
    <3>2. ses_mem_mtx # NoLock
        BY <1>1, <3>1 DEF NoLock
    <3> QED BY <1>0, <1>1, <1>3, <2>1, <2>2, <3>2 DEF MemInv, DelType
  <2>4. /\ ses_free_mem' \in [0..1 -> SUBSET Sessions]
        /\ ses_free_mem'[k] = ses_free_mem[k] \cup {s}
        /\ \A i \in {0, 1} \ {k} : ses_free_mem'[i] = ses_free_mem[i]
      BY <1>1, <1>3, <2>1, <2>3
  <2>5. s \in Free'
      BY <2>3, <2>4 DEF Free
  <2>6. PICK r \in Sessions \cup {NULL} :
            /\ r # NULL => r \in Unallocated
            /\ del' = [del EXCEPT ![t] = IF r = NULL THEN NoDel ELSE [pc |-> "spare", sp |-> r]]
    <3>1. CASE del' = [del EXCEPT ![t] = NoDel]
        BY <3>1
    <3>2. CASE \E r \in Unallocated \cup ({s} \ Free') :
                    del' = [del EXCEPT ![t] = [pc |-> "spare", sp |-> r]]
      <4>1. PICK r \in Unallocated : del' = [del EXCEPT ![t] = [pc |-> "spare", sp |-> r]]
          BY <2>5, <3>2
      <4>2. r \in Sessions
          BY DEF Unallocated
      <4> QED BY <1>1, <4>1, <4>2
    <3> QED BY <1>3, <2>1, <3>1, <3>2 DEF Spare
  <2>7. PICK x \in {"free0", "free1"} : x = IF k = 0 THEN "free0" ELSE "free1"
      OBVIOUS
  <2>8. /\ \A y \in {"free0", "free1"} \ {x} : Held'[y] = Held[y]
        /\ Held'[x] = Held[x] \cup {s}
      BY <2>3, <2>4, <2>7, HeldIs, HeldNext
  <2>9. n_sess_mem' = n_sess_mem + Num(x) - 1
      BY <1>1, <2>1 DEF Num, Counts
  <2>10. ses_free_mem[ses_qp] = ses_free_mem'[ses_qp]
      BY <1>1, <2>3, <2>4
  <2> QED BY <1>5, <2>1, <2>4, <2>6, <2>8, <2>9, <2>10
<1> QED BY <1>4, <1>6, <1>7 DEF SES_Delete

-----------------------------------------------------------------------------
(***************************************************************************)
(* The waiter.                                                             *)
(***************************************************************************)

\* All of the pipe goes to the waiter's list.
LEMMA PipeMoved ==
    ASSUME SpotInv, n_sess_mem' = n_sess_mem, Held'.pipe = {}, Held'.head = Held.head \cup Held.pipe,
           \A y \in Spots \ {"none", "pipe", "head"} : Held'[y] = Held[y]
    PROVE  SpotInv'
<1>1. PICK at \in [Sessions -> Spots] : Fits(at, Held) /\ n_sess_mem = Cardinality(Counted(at))
    BY DEF SpotInv
<1>2. PICK b : b = [s \in Sessions |-> IF at[s] = "pipe" THEN "head" ELSE at[s]]
    OBVIOUS
<1>3. /\ b \in [Sessions -> Spots]
      /\ \A s \in Sessions : b[s] = IF at[s] = "pipe" THEN "head" ELSE at[s]
    BY <1>2 DEF Spots
<1>4. Counted(b) = Counted(at)
    BY <1>3 DEF Counted, Counts
<1>5. ASSUME NEW s \in Sessions, NEW x \in Spots \ {"none"}
      PROVE  b[s] = x <=> s \in Held'[x]
  <2>1. /\ at[s] = x <=> s \in Held[x]
        /\ at[s] = "pipe" <=> s \in Held.pipe
        /\ at[s] = "head" <=> s \in Held.head
      BY <1>1 DEF Fits, Spots
  <2>2. CASE x \notin {"pipe", "head"}
      BY <1>3, <2>1, <2>2
  <2>3. CASE x = "pipe"
      BY <1>3, <2>1, <2>3
  <2>4. CASE x = "head"
      BY <1>3, <2>1, <2>4
  <2> QED BY <2>2, <2>3, <2>4
<1>6. Fits(b, Held)'
    BY <1>5 DEF Fits
<1> QED BY <1>1, <1>3, <1>4, <1>6 DEF SpotInv

\* A step that changes no more than the waiter's lists.
LEMMA WaiterLists ==
    ASSUME IInv, UNCHANGED waitRest, UNCHANGED <<poolVars, del>>, SpotInv', WatchInv', ListInv',
           pipe' \in Seq(Sessions), sesshead' \in Seq(Sessions), old' \subseteq Sessions,
           armed' \subseteq Sessions, pending' \subseteq Sessions
    PROVE  IInv'
<1>0. /\ PoolInv /\ SessInv /\ WrkInv /\ InjInv /\ QueueInv /\ SessTypeOK /\ MemInv
    BY DEF IInv, SessInv
<1>1. UNCHANGED <<vca_act, ses_qp, ses_free_mem, ses_mem_mtx, n_sess_mem, apc, parked, del>>
    BY DEF waitRest
<1>2. /\ PoolInv' /\ WrkInv' /\ QueueInv'
      /\ Inj(Threads, CallSp)' /\ Inj(Workers, RunSp)' /\ UNCHANGED call
    BY <1>0, PoolSame
<1>3. Inj(Threads, DelSp)' /\ Inj(Threads, SpareSp)'
    BY <1>0, <1>1, DelStill
<1>4. MemInv' /\ SessTypeOK'
    BY <1>0, <1>1, <1>2 DEF MemInv, SessTypeOK, Ready
<1> QED BY <1>2, <1>3, <1>4 DEF IInv, SessInv, InjInv

\* Where the sessions are that such a step leaves alone.
LEMMA WaiterHeld ==
    ASSUME IInv, UNCHANGED waitRest, UNCHANGED <<poolVars, del>>
    PROVE  \A y \in Spots \ {"none", "pipe", "head"} : Held'[y] = Held[y]
<1>0. /\ PoolInv /\ SessInv /\ InjInv
    BY DEF IInv, SessInv
<1>1. UNCHANGED <<ses_free_mem, apc, parked, del>>
    BY DEF waitRest
<1>2. Called' = Called /\ Running' = Running /\ Queued' = Queued
    BY <1>0, PoolSame
<1>3. Deleted' = Deleted /\ Spared' = Spared
    BY <1>0, <1>1, DelStill
<1>4. New' = New /\ Accepted' = Accepted
    BY <1>1 DEF New, Accepted
<1> QED BY <1>1, <1>2, <1>3, <1>4, HeldIs, HeldNext DEF Spots

\* The waiter gives up a session of its list, which nothing watches from then on.
LEMMA WaiterGives ==
    ASSUME IInv, Ready(waiter), UNCHANGED waitRest, NEW s \in ToSet(sesshead),
           vca_handover(s) \/ vca_hangup(s),
           armed' \cup pending' \subseteq (armed \cup pending) \ {s}, armed' \cap pending' = {},
           vca_act # "kqueue" => pending' = {}
    PROVE  IInv'
<1>0. /\ PoolInv /\ SessInv /\ WrkInv /\ InjInv /\ SpotInv /\ QueueInv /\ SessTypeOK
      /\ MemInv /\ WatchInv /\ ListInv
    BY DEF IInv, SessInv
<1>1. UNCHANGED <<vca_act, ses_qp, ses_free_mem, ses_mem_mtx, n_sess_mem, apc, parked>>
    BY DEF waitRest
<1>2. /\ waiter \in Threads /\ waiter # acceptor /\ NULL \notin Sessions
      /\ sesshead \in Seq(Sessions) /\ pipe \in Seq(Sessions) /\ old \subseteq Sessions
      /\ del \in [Threads -> DelType]
    BY <1>0, PoolAssumption, SessionAssumption DEF Threads, SessTypeOK, DelType
<1>3. /\ sesshead' = Without(sesshead, s) /\ old' = old \ {s} /\ pipe' = pipe
      /\ WRK_QueueSession(waiter, s) \/ (Delete(waiter, s) /\ UNCHANGED poolVars)
    BY DEF vca_handover, vca_hangup
<1>4. /\ s \in Sessions /\ sesshead' \in Seq(Sessions) /\ Distinct(sesshead')
      /\ ToSet(sesshead') = ToSet(sesshead) \ {s}
    BY <1>0, <1>2, <1>3, ListFacts DEF ListInv
<1>5. New' = New /\ Accepted' = Accepted
    BY <1>1 DEF New, Accepted
<1>6. /\ s \in Held.head /\ Held'.head = Held.head \ {s}
      /\ \A y \in {"free0", "free1", "new", "accepted", "parked", "pipe", "head"} \ {"head"} :
              Held'[y] = Held[y]
    BY <1>1, <1>3, <1>4, <1>5, HeldIs, HeldNext
<1>7. /\ PoolInv' /\ InjInv' /\ QueueInv' /\ SpotInv' /\ WrkInv'
      /\ \A u \in Threads \ {waiter} : call'[u] = call[u] /\ del'[u] = del[u]
      /\ del' \in [Threads -> DelType]
      /\ del'[waiter] = NoDel \/ del'[waiter] = [pc |-> "delete", sp |-> s]
    BY <1>1, <1>2, <1>3, <1>4, <1>6, HandedOver
<1>8. MemInv'
    BY <1>0, <1>1, <1>2, <1>4, <1>7, PoolAssumption, SessionAssumption DEF MemInv, Ready, NoDel, Threads
<1>9. WatchInv' /\ ListInv'
    BY <1>0, <1>1, <1>3, <1>4 DEF WatchInv, WatchedIsListed, ListInv
<1>10. SessTypeOK'
    BY <1>0, <1>1, <1>3, <1>4, <1>7 DEF SessTypeOK, DelType
<1> QED BY <1>7, <1>8, <1>9, <1>10 DEF IInv, SessInv

\* The waiter takes over all of the pipe, and has the sessions watched now or later.
LEMMA PipeRead ==
    ASSUME IInv, UNCHANGED waitRest, UNCHANGED <<poolVars, del, old>>, sesshead' = sesshead \o pipe,
           pipe' = <<>>, \/ armed' = armed \cup ToSet(pipe) /\ pending' = pending
                         \/ armed' = armed /\ pending' = pending \cup ToSet(pipe) /\ vca_act = "kqueue"
    PROVE  IInv'
<1>0. SpotInv /\ SessTypeOK /\ WatchInv /\ ListInv
    BY DEF IInv, SessInv
<1>1. UNCHANGED <<vca_act, n_sess_mem>> /\ UNCHANGED <<poolVars, del>>
    BY DEF waitRest
<1>2. /\ sesshead \in Seq(Sessions) /\ pipe \in Seq(Sessions) /\ Distinct(pipe) /\ Distinct(sesshead)
      /\ ToSet(pipe) \subseteq Sessions
    BY <1>0, ListedIn DEF SessTypeOK, ListInv
<1>3. ToSet(sesshead) \cap ToSet(pipe) = {}
  <2>1. ASSUME NEW s \in ToSet(pipe) PROVE s \notin ToSet(sesshead)
      BY <1>0, <1>2, <2>1, HeldIs, OneSpot DEF Spots
  <2> QED BY <2>1
<1>4. /\ sesshead' \in Seq(Sessions) /\ Distinct(sesshead')
      /\ ToSet(sesshead') = ToSet(sesshead) \cup ToSet(pipe)
    BY <1>2, <1>3, ConcatEntries
<1>5. pipe' \in Seq(Sessions) /\ Distinct(pipe') /\ ToSet(pipe') = {}
    BY DEF Distinct, ToSet
<1>6. SpotInv'
  <2>1. \A y \in Spots \ {"none", "pipe", "head"} : Held'[y] = Held[y]
      BY <1>1, WaiterHeld
  <2> QED BY <1>0, <1>1, <1>4, <1>5, <2>1, PipeMoved, HeldIs, HeldNext
<1>7. WatchInv'
    BY <1>0, <1>1, <1>3, <1>4 DEF WatchInv, WatchedIsListed
<1>8. ListInv'
    BY <1>4, <1>5 DEF ListInv
<1>9. armed' \subseteq Sessions /\ pending' \subseteq Sessions /\ old' \subseteq Sessions
    BY <1>0, <1>2 DEF SessTypeOK
<1> QED BY <1>1, <1>4, <1>5, <1>6, <1>7, <1>8, <1>9, WaiterLists

\* The waiter's list keeps its sessions; they get older, or are watched or not.
LEMMA SameList ==
    ASSUME IInv, UNCHANGED waitRest, UNCHANGED <<poolVars, del>>, pipe' = pipe,
           sesshead' \in Seq(Sessions), Distinct(sesshead'), ToSet(sesshead') = ToSet(sesshead),
           old' \subseteq old \cup ToSet(sesshead),
           armed' \cup pending' \subseteq armed \cup pending, armed' \cap pending' = {},
           vca_act # "kqueue" => pending' = {}
    PROVE  IInv'
<1>0. SpotInv /\ SessTypeOK /\ WatchInv /\ ListInv
    BY DEF IInv, SessInv
<1>1. UNCHANGED <<vca_act, ses_free_mem, n_sess_mem, parked>> /\ UNCHANGED poolVars /\ del' = del
    BY DEF waitRest
<1>2. SpotInv'
  <2>1. \A y \in Spots \ {"none", "pipe", "head"} : Held'[y] = Held[y]
      BY WaiterHeld
  <2>2. /\ New' = New /\ Accepted' = Accepted /\ Queued' = Queued /\ Called' = Called
        /\ Running' = Running /\ Deleted' = Deleted /\ Spared' = Spared
      BY <2>1, HeldIs, HeldNext DEF Spots
  <2>3. Held' = Held
      BY <1>1, <2>2 DEF Held
  <2> QED BY <1>0, <1>1, <2>3, SpotStill
<1>3. WatchInv'
    BY <1>0, <1>1 DEF WatchInv, WatchedIsListed
<1>4. ListInv'
    BY <1>0 DEF ListInv
<1>5. /\ armed' \subseteq Sessions /\ pending' \subseteq Sessions /\ old' \subseteq Sessions
      /\ pipe' \in Seq(Sessions)
    BY <1>0, ListedIn DEF SessTypeOK
<1> QED BY <1>1, <1>2, <1>3, <1>4, <1>5, WaiterLists

\* Any of the waiters, whatever the kernel reports, and its timeouts.
LEMMA WaiterKeeps ==
    ASSUME IInv, WaiterEvent \/ WaiterTimeout
    PROVE  IInv'
<1>0. SpotInv /\ SessTypeOK /\ WatchInv /\ ListInv
    BY DEF IInv, SessInv
<1>1. Ready(waiter) /\ UNCHANGED waitRest
    BY DEF WaiterEvent, WaiterTimeout
<1>2. /\ sesshead \in Seq(Sessions) /\ pipe \in Seq(Sessions) /\ Distinct(pipe) /\ Distinct(sesshead)
      /\ armed \cup pending \subseteq ToSet(sesshead) /\ armed \cap pending = {}
      /\ vca_act # "kqueue" => pending = {}
    BY <1>0 DEF SessTypeOK, ListInv, WatchInv, WatchedIsListed
<1>3. UNCHANGED <<vca_act, n_sess_mem>>
    BY <1>1 DEF waitRest
<1>4. ASSUME NEW s \in armed, armed' = armed \ {s}, pending' = pending,
             vca_handover(s) \/ vca_hangup(s)
      PROVE  IInv'
    BY <1>1, <1>2, <1>4, WaiterGives
<1>5. CASE vca_eev_pipe
    BY <1>1, <1>5, PipeRead DEF vca_eev_pipe
<1>6. CASE vca_act = "kqueue" /\ vca_kev_pipe
    BY <1>1, <1>6, PipeRead DEF vca_kev_pipe
<1>7. CASE vca_act = "kqueue" /\ vca_kq_flush
    BY <1>1, <1>2, <1>7, SameList DEF vca_kq_flush
<1>8. ASSUME vca_act = "kqueue", NEW s \in armed, armed' = armed \ {s},
             pending' \in {pending, pending \cup {s}},
             UNCHANGED <<poolVars, del, pipe, sesshead, old>>
      PROVE  IInv'
    BY <1>1, <1>2, <1>8, SameList
<1>9. ASSUME NEW s \in armed, sesshead' = <<s>> \o Without(sesshead, s),
             UNCHANGED <<poolVars, del, pipe, old, armed, pending>>
      PROVE  IInv'
  <2>1. /\ s \in Sessions /\ Without(sesshead, s) \in Seq(Sessions)
        /\ Distinct(Without(sesshead, s))
        /\ ToSet(Without(sesshead, s)) = ToSet(sesshead) \ {s} /\ s \in ToSet(sesshead)
      BY <1>2, ListFacts
  <2>2. PICK q : q = Without(sesshead, s)
      OBVIOUS
  <2>3. q \in Seq(Sessions) /\ Distinct(q) /\ s \notin ToSet(q)
      BY <2>1, <2>2
  <2>4. /\ sesshead' \in Seq(Sessions) /\ Distinct(sesshead')
        /\ ToSet(sesshead') = ToSet(q) \cup {s}
      BY <1>9, <2>1, <2>2, <2>3, ListFacts
  <2>5. ToSet(sesshead') = ToSet(sesshead)
      BY <2>1, <2>2, <2>4
  <2> QED BY <1>1, <1>2, <1>9, <2>4, <2>5, SameList
<1>10. ASSUME pipe # <<>>, sesshead' = Append(sesshead, Head(pipe)), armed' = armed \cup {Head(pipe)},
              pipe' = Tail(pipe), UNCHANGED <<poolVars, del, pending, old>>, vca_act = "ports"
       PROVE  IInv'
  <2>1. PICK s : s = Head(pipe)
      OBVIOUS
  <2>2. /\ s \in Sessions /\ s \in ToSet(pipe) /\ pipe' \in Seq(Sessions) /\ Distinct(pipe')
        /\ ToSet(pipe') = ToSet(pipe) \ {s}
      BY <1>2, <1>10, <2>1, ListFacts
  <2>3. s \notin ToSet(sesshead)
      BY <1>0, <2>2, HeldIs, OneSpot DEF Spots
  <2>4. /\ sesshead' \in Seq(Sessions) /\ Distinct(sesshead')
        /\ ToSet(sesshead') = ToSet(sesshead) \cup {s}
      BY <1>2, <1>10, <2>1, <2>2, <2>3, ListFacts
  <2>5. \A y \in Spots \ {"none", "pipe", "head"} : Held'[y] = Held[y]
      BY <1>1, <1>10, WaiterHeld
  <2>6. Goes(s, "pipe", "head", Held, Held')
      BY <2>2, <2>4, <2>5, HeldIs, HeldNext DEF Goes
  <2>7. /\ IsAt(s, "pipe", Held) /\ "pipe" \in Spots /\ "head" \in Spots
        /\ n_sess_mem' = n_sess_mem + Num("head") - Num("pipe")
      BY <1>0, <1>3, <2>2, HeldIs DEF IsAt, Spots, Num, Counts, SessTypeOK
  <2>8. SpotInv'
      BY <1>0, <2>2, <2>6, <2>7, SpotKept
  <2>9. WatchInv' /\ ListInv'
      BY <1>2, <1>3, <1>10, <2>1, <2>2, <2>4 DEF WatchInv, WatchedIsListed, ListInv
  <2>10. armed' \subseteq Sessions /\ pending' \subseteq Sessions /\ old' \subseteq Sessions
      BY <1>0, <1>10, <2>1, <2>2 DEF SessTypeOK
  <2> QED BY <1>1, <1>10, <2>2, <2>4, <2>8, <2>9, <2>10, WaiterLists
<1>11. CASE vca_act \in {"epoll", "ports"} /\ vca_timeout
  <2>1. sesshead # <<>> /\ Head(sesshead) \in ToSet(sesshead)
      BY <1>2, <1>11, ListFacts DEF vca_timeout
  <2>2. armed' = armed \ {Head(sesshead)} /\ pending' = pending /\ vca_hangup(Head(sesshead))
      BY <1>11 DEF vca_timeout
  <2>3. PICK s \in ToSet(sesshead) : s = Head(sesshead)
      BY <2>1
  <2>4. armed' = armed \ {s} /\ pending' = pending /\ vca_hangup(s) /\ pending = {}
      BY <1>2, <1>11, <2>2, <2>3
  <2> QED BY <1>1, <1>2, <2>4, WaiterGives
<1>12. CASE vca_act = "kqueue" /\ vca_kqueue_timeout
  <2>1. sesshead # <<>> /\ Head(sesshead) \in ToSet(sesshead)
      BY <1>2, <1>12, ListFacts DEF vca_kqueue_timeout
  <2>2. /\ armed' = (armed \cup pending) \ {Head(sesshead)} /\ pending' = {}
        /\ vca_hangup(Head(sesshead))
      BY <1>12 DEF vca_kqueue_timeout
  <2>3. PICK s \in ToSet(sesshead) : s = Head(sesshead)
      BY <2>1
  <2>4. armed' = (armed \cup pending) \ {s} /\ pending' = {} /\ vca_hangup(s)
      BY <2>2, <2>3
  <2> QED BY <1>1, <2>4, WaiterGives
<1>13. CASE WaiterEvent
  <2>1. CASE vca_act = "epoll" /\ vca_eev
      BY <1>4, <1>5, <2>1 DEF vca_eev
  <2>2. CASE vca_act = "kqueue" /\ vca_kev
      BY <1>4, <1>6, <1>8, <2>2 DEF vca_kev
  <2>3. CASE vca_act = "poll" /\ vca_poll_main
      BY <1>4, <1>5, <1>9, <2>3 DEF vca_poll_main
  <2>4. CASE vca_act = "ports" /\ vca_port_ev
      BY <1>4, <1>10, <2>4 DEF vca_port_ev
  <2> QED BY <1>7, <1>13, <2>1, <2>2, <2>3, <2>4 DEF WaiterEvent
<1>14. CASE vca_act = "poll" /\ vca_poll_timeout
    BY <1>4, <1>14 DEF vca_poll_timeout
<1> QED BY <1>11, <1>12, <1>13, <1>14 DEF WaiterTimeout

\* Time passes, or nothing happens.
LEMMA AgeKeeps ==
    ASSUME IInv, (\E s \in Sessions : Age(s)) \/ UNCHANGED vars
    PROVE  IInv'
<1>0. SessTypeOK /\ WatchInv /\ ListInv
    BY DEF IInv, SessInv
<1>1. /\ UNCHANGED <<poolVars, vca_act, ses_qp, ses_free_mem, ses_mem_mtx, n_sess_mem, apc,
                     del, pipe, sesshead, armed, pending, parked>>
      /\ old' \subseteq old \cup ToSet(sesshead)
    BY DEF Age, vars, sessVars
<1>2. UNCHANGED waitRest /\ UNCHANGED <<poolVars, del>>
    BY <1>1 DEF waitRest
<1>3. /\ sesshead' \in Seq(Sessions) /\ Distinct(sesshead')
      /\ armed' \cap pending' = {} /\ (vca_act # "kqueue" => pending' = {})
    BY <1>0, <1>1 DEF SessTypeOK, WatchInv, ListInv
<1> QED BY <1>1, <1>2, <1>3, SameList

-----------------------------------------------------------------------------
(***************************************************************************)
(* The invariant holds.                                                    *)
(***************************************************************************)
LEMMA InitOK ==
    ASSUME Init
    PROVE  IInv
<1>1. /\ idle = [p \in Pools |-> <<>>] /\ queue = [p \in Pools |-> <<>>]
      /\ nthr = [p \in Pools |-> 0] /\ last_lqueue = [p \in Pools |-> 0]
      /\ wpc = [w \in Workers |-> "none"] /\ wpool = [w \in Workers |-> FirstPool]
      /\ wsp = [w \in Workers |-> NULL] /\ woken = {} /\ wrk = [s \in Sessions |-> NULL]
      /\ call = [t \in Threads |-> NoCall]
      /\ herder = [pc |-> "breed", u |-> FirstPool, w |-> FirstPool] /\ kissed = NULL
    BY DEF Init, PoolInit
<1>2. /\ vca_act \in Waiters /\ ses_qp = 0 /\ ses_free_mem = [i \in 0..1 |-> {}]
      /\ ses_mem_mtx = NoLock /\ n_sess_mem = 0 /\ apc = [pc |-> "accept", sp |-> NULL]
      /\ del = [t \in Threads |-> NoDel] /\ pipe = <<>> /\ sesshead = <<>>
      /\ armed = {} /\ pending = {} /\ old = {} /\ parked = {}
    BY DEF Init, SessInit
<1>3. FirstPool \in Pools /\ NULL \notin Workers /\ NULL \notin Sessions
    BY PoolFacts, PoolAssumption
<1>4. PoolTypeOK
    BY <1>1, <1>3 DEF PoolTypeOK, NoCall
<1>5. CallInv
    BY <1>1 DEF CallInv, NoCall
<1>6. IdleInv
    BY <1>1 DEF IdleInv, Distinct, ToSet
<1>7. CountInv
  <2>1. ASSUME NEW p \in Pools PROVE Entries(Workers, Post, p) = {}
    <3>1. p # -1
        BY PoolAssumption
    <3> QED BY <1>1, <3>1 DEF Entries, Post
  <2>2. \A p \in Pools : nthr[p] = 0
      BY <1>1
  <2> QED BY <2>1, <2>2, FS_EmptySet DEF CountInv
<1>8. HerdInv
    BY <1>1 DEF HerdInv
<1>9. SessTypeOK
    BY <1>2 DEF SessTypeOK, NoLock, NoDel
<1>10. MemInv
  <2>1. apc.pc = "accept" /\ apc.sp = NULL
      BY <1>2
  <2>2. \A t \in Threads : t # NULL /\ del[t].pc = "none" /\ del[t].sp = NULL
      BY <1>2, PoolAssumption DEF NoDel, Threads
  <2>3. ses_mem_mtx = NoLock /\ ses_mem_mtx.t = NULL
      BY <1>2 DEF NoLock
  <2> QED BY <2>1, <2>2, <2>3 DEF MemInv
<1>11. WatchInv /\ ListInv
    BY <1>2 DEF WatchInv, WatchedIsListed, ListInv, Distinct
<1>12. WrkInv
    BY <1>1 DEF WrkInv
<1>13. QueueInv /\ Queued = {}
    BY <1>1 DEF QueueInv, Queued, Distinct, ToSet
<1>14. InjInv /\ Called = {} /\ Deleted = {} /\ Spared = {} /\ Running = {}
  <2>1. \A t \in Threads : CallSp[t] = NULL /\ DelSp[t] = NULL /\ SpareSp[t] = NULL
      BY <1>1, <1>2 DEF CallSp, DelSp, SpareSp, NoCall, NoDel
  <2>2. \A w \in Workers : RunSp[w] = NULL
      BY <1>1 DEF RunSp
  <2> QED BY <2>1, <2>2 DEF InjInv, Inj, Called, Deleted, Spared, Running, Vals
<1>15. SpotInv
  <2>1. PICK at : at = [s \in Sessions |-> "none"]
      OBVIOUS
  <2>2. at \in [Sessions -> Spots] /\ Counted(at) = {}
      BY <2>1 DEF Spots, Counted, Counts
  <2>3. New = {} /\ Accepted = {} /\ ToSet(pipe) = {} /\ ToSet(sesshead) = {}
      BY <1>2 DEF New, Accepted, ToSet
  <2>4. ses_free_mem[0] = {} /\ ses_free_mem[1] = {} /\ parked = {}
      BY <1>2
  <2>5. \A x \in Spots \ {"none"} : Held[x] = {}
      BY <1>13, <1>14, <2>3, <2>4, HeldIs DEF Spots
  <2>6. Fits(at, Held)
      BY <2>1, <2>5 DEF Fits
  <2> QED BY <1>2, <2>2, <2>6, FS_EmptySet DEF SpotInv
<1> QED BY <1>4, <1>5, <1>6, <1>7, <1>8, <1>9, <1>10, <1>11, <1>12, <1>13, <1>14, <1>15
       DEF IInv, PoolInv, SessInv

\* Every step keeps the invariant.
LEMMA NextOK ==
    ASSUME IInv, [Next]_vars
    PROVE  IInv'
<1>0. PoolInv /\ WrkInv
    BY DEF IInv, SessInv
<1>1. CASE PoolNext
  <2>1. PoolStep /\ UNCHANGED sessVars
      BY <1>1 DEF PoolNext
  <2>2. CASE \E w \in Workers : WorkerStep(w)
    <3>1. PICK w \in Workers : WorkerStep(w)
        BY <2>2
    <3> QED BY <1>0, <2>1, <3>1, WorkerKeeps, WorkerSess DEF IInv
  <2>3. CASE \E t \in Threads : CallStep(t)
    <3>1. PICK t \in Threads : CallStep(t)
        BY <2>3
    <3> QED BY <1>0, <2>1, <3>1, CallKeeps, CallSess DEF IInv
  <2>4. CASE HerderStep
      BY <1>0, <2>1, <2>4, HerderKeeps, HerdSess DEF IInv
  <2>5. CASE TimerStep
      BY <1>0, <2>1, <2>5, TimerKeeps, HerdSess DEF IInv
  <2> QED BY <2>1, <2>2, <2>3, <2>4, <2>5 DEF PoolStep
<1>2. CASE Acceptor
    BY <1>2, AcceptorKeeps
<1>3. CASE \E w \in Workers : Engine(w) \/ vca_return_session(w) \/ hsh_rush(w)
    BY <1>3, EngineKeeps
<1>4. CASE \E t \in Threads : SES_Delete(t)
    BY <1>4, DeleteKeeps
<1>5. CASE WaiterEvent \/ WaiterTimeout
    BY <1>5, WaiterKeeps
<1>6. CASE (\E s \in Sessions : Age(s)) \/ UNCHANGED vars
    BY <1>6, AgeKeeps
<1> QED BY <1>1, <1>2, <1>3, <1>4, <1>5, <1>6 DEF Next

\* The invariant holds in every state the threads can reach.
THEOREM SessionInvariant == Spec => []IInv
<1>1. Init => IInv
    BY InitOK
<1>2. IInv /\ [Next]_vars => IInv'
    BY NextOK
<1> QED BY <1>1, <1>2, PTL DEF Spec

(***************************************************************************)
(* TypeOK: every variable keeps its type.                                  *)
(***************************************************************************)
THEOREM SessionTypes == Spec => []TypeOK
<1>1. IInv => TypeOK
    BY DEF IInv, PoolInv, SessInv, SessTypeOK, TypeOK
<1> QED BY <1>1, SessionInvariant, PTL

(***************************************************************************)
(* OwnFreeList: the acceptor never unlinks memory from the list that       *)
(* SES_Delete inserts into, although it holds no lock.                     *)
(***************************************************************************)
THEOREM FreeListOwned == Spec => []OwnFreeList
<1>1. IInv => OwnFreeList
  <2> SUFFICES ASSUME IInv PROVE OwnFreeList
      OBVIOUS
  <2>1. MemInv /\ ses_qp \in {0, 1}
      BY DEF IInv, SessInv, SessTypeOK
  <2> QED BY <2>1 DEF MemInv, OwnFreeList
<1> QED BY <1>1, SessionInvariant, PTL

(***************************************************************************)
(* WatchedIsListed: whatever the waiter, no event is due for a session     *)
(* that was handed over, closed or timed out.                              *)
(***************************************************************************)
THEOREM OnlyListedWatched == Spec => []WatchedIsListed
<1>1. IInv => WatchedIsListed
    BY DEF IInv, SessInv, WatchInv
<1> QED BY <1>1, SessionInvariant, PTL

(***************************************************************************)
(* PoolSound: the assertions of wrk_thread_real hold, and nthr counts the  *)
(* threads, whoever queues and whoever is told to go.                      *)
(***************************************************************************)
THEOREM PoolsSound == Spec => []PoolSound
<1>1. ASSUME IInv PROVE PoolSound
  <2>0. /\ PoolTypeOK /\ CallInv /\ IdleInv /\ CountInv /\ HerdInv /\ WrkInv /\ InjInv
        /\ NULL \notin Sessions /\ NULL \notin Workers
      BY <1>1, PoolAssumption DEF IInv, PoolInv, SessInv
  <2>1. ASSUME NEW p \in Pools, NEW k \in 1..Len(idle[p])
        PROVE  /\ wpc[idle[p][k]] = "idle" /\ idle[p][k] \notin woken /\ wsp[idle[p][k]] = NULL
               /\ wpool[idle[p][k]] = p
    <3>1. idle[p] \in Seq(Workers)
        BY <2>0 DEF PoolTypeOK
    <3>2. DOMAIN idle[p] = 1..Len(idle[p])
        BY <3>1
    <3>3. idle[p][k] \in ToSet(idle[p])
        BY <3>2 DEF ToSet
    <3> QED BY <2>0, <3>3 DEF IdleInv, OnIdle
  <2>2. kissed # NULL => wsp[kissed] = NULL
      BY <2>0 DEF IdleInv
  <2>3. ASSUME NEW w \in Workers, wpc[w] = "start" PROVE wrk[wsp[w]] = NULL
    <3>1. wsp[w] \in Sessions
        BY <2>0, <2>3 DEF WrkInv
    <3>2. SUFFICES ASSUME wrk[wsp[w]] # NULL PROVE FALSE
        OBVIOUS
    <3>3. PICK v \in Workers : v = wrk[wsp[w]]
        BY <2>0, <3>1, <3>2 DEF PoolTypeOK
    <3>4. wpc[v] = "run" /\ wsp[v] = wsp[w]
        BY <2>0, <3>1, <3>2, <3>3 DEF WrkInv
    <3>5. RunSp[v] = wsp[w] /\ RunSp[w] = wsp[w]
        BY <2>3, <3>4 DEF RunSp
    <3>6. v = w
        BY <2>0, <3>1, <3>5 DEF InjInv, Inj
    <3> QED BY <2>3, <3>4, <3>6
  <2>4. ASSUME NEW p \in Pools
        PROVE  nthr[p] = Cardinality({w \in Workers : wpool[w] = p
                                                      /\ wpc[w] \notin {"none", "created"}})
    <3>1. p # -1
        BY PoolAssumption
    <3>2. Entries(Workers, Post, p) = {w \in Workers : wpool[w] = p
                                                      /\ wpc[w] \notin {"none", "created"}}
        BY <3>1 DEF Entries, Post
    <3> QED BY <2>0, <3>2 DEF CountInv
  <2>5. \A p \in Pools : Prompt /\ herder.pc = "waiting" => nthr[p] >= ThreadMin
      BY <2>0 DEF HerdInv
  <2> QED BY <2>1, <2>2, <2>3, <2>4, <2>5 DEF PoolSound
<1> QED BY <1>1, SessionInvariant, PTL

(***************************************************************************)
(* QueuedHasServer: a session on a pool's queue is not forgotten, although *)
(* the signal to the herder may be lost, as long as a thread that was told *)
(* to go is gone when the herd timer looks again.                          *)
(***************************************************************************)
THEOREM QueuedIsServed ==
    ASSUME Prompt
    PROVE  Spec => []QueuedHasServer
<1>1. ASSUME IInv PROVE QueuedHasServer
  <2>0. /\ PoolTypeOK /\ IdleInv /\ CountInv /\ HerdInv /\ NULL \notin Workers
        /\ IsFiniteSet(Workers) /\ ThreadMin \in Nat \ {0}
      BY <1>1, PoolAssumption DEF IInv, PoolInv
  <2>1. SUFFICES ASSUME NEW p \in Pools, queue[p] # <<>>
                 PROVE  /\ idle[p] = <<>>
                        /\ \/ \E w \in Workers : wpool[w] = p /\ wpc[w] \notin {"none", "idle"}
                           \/ \E w \in Workers : wpool[w] = p /\ wsp[w] # NULL
                           \/ \E t \in Threads : call[t].pc = "assign" /\ wpool[call[t].w] = p
                           \/ nthr[p] < ThreadMin /\ herder.pc \notin {"sleep", "waiting"}
      BY DEF QueuedHasServer
  <2>2. idle[p] = <<>> /\ ToSet(idle[p]) = {}
      BY <2>0, <2>1 DEF IdleInv, ToSet
  <2>3. CASE nthr[p] < ThreadMin
    <3>1. nthr[p] \in Nat
        BY <2>0 DEF PoolTypeOK
    <3>2. herder.pc \notin {"sleep", "waiting"}
        BY <2>0, <2>3, <3>1 DEF HerdInv
    <3> QED BY <2>2, <2>3, <3>2
  <2>4. CASE nthr[p] >= ThreadMin
    <3> DEFINE E == Entries(Workers, Post, p)
    <3>1. /\ \A w \in E : w \in Workers /\ wpool[w] = p /\ wpc[w] \notin {"none", "created"}
          /\ \A w \in Workers : wpool[w] = p /\ wpc[w] = "idle" => w \in E
      <4>1. p # -1
          BY PoolAssumption
      <4> QED BY <4>1 DEF Entries, Post
    <3>2. IsFiniteSet(E) /\ Cardinality(E) = nthr[p]
      <4>1. E \subseteq Workers
          BY DEF Entries
      <4> QED BY <2>0, <4>1, FS_Subset DEF CountInv
    <3> HIDE DEF E
    <3>3. \E w \in E : w # kissed
      <4>1. CASE kissed \in E
        <5>1. nthr[p] > ThreadMin
            BY <2>0, <3>1, <4>1 DEF HerdInv
        <5>2. Cardinality(E \ {kissed}) = nthr[p] - 1 /\ IsFiniteSet(E \ {kissed})
            BY <3>2, <4>1, FS_RemoveElement
        <5>3. nthr[p] \in Nat
            BY <2>0 DEF PoolTypeOK
        <5>4. Cardinality(E \ {kissed}) # 0
            BY <2>0, <5>1, <5>2, <5>3
        <5>5. E \ {kissed} # {}
            BY <5>2, <5>4, FS_EmptySet
        <5> QED BY <5>5
      <4>2. CASE kissed \notin E
        <5>1. nthr[p] \in Nat
            BY <2>0 DEF PoolTypeOK
        <5>2. Cardinality(E) # 0
            BY <2>0, <2>4, <3>2, <5>1
        <5>3. E # {}
            BY <5>2, FS_EmptySet
        <5> QED BY <4>2, <5>3
      <4> QED BY <4>1, <4>2
    <3>4. PICK w \in E : w # kissed
        BY <3>3
    <3>5. w \in Workers /\ wpool[w] = p /\ wpc[w] \notin {"none", "created"}
        BY <3>1
    <3>6. CASE wpc[w] # "idle"
        BY <2>2, <3>5, <3>6
    <3>7. CASE wpc[w] = "idle"
      <4>1. wsp[w] # NULL \/ Assigned(w)
          BY <2>0, <2>2, <3>4, <3>5, <3>7 DEF IdleInv
      <4> QED BY <2>2, <3>5, <4>1 DEF Assigned
    <3> QED BY <3>6, <3>7
  <2>5. nthr[p] \in Nat /\ ThreadMin \in Nat
      BY <2>0 DEF PoolTypeOK
  <2> QED BY <2>3, <2>4, <2>5
<1> QED BY <1>1, SessionInvariant, PTL

-----------------------------------------------------------------------------
(***************************************************************************)
(* Counting the places.                                                    *)
(***************************************************************************)

\* Holders with a session are as many as the sessions they have.
LEMMA HolderCount ==
    ASSUME NEW S, IsFiniteSet(S), NEW f, Inj(S, f)
    PROVE  /\ IsFiniteSet(Vals(S, f))
           /\ Cardinality(Vals(S, f)) = Cardinality({u \in S : f[u] # NULL})
<1> DEFINE A == {u \in S : f[u] # NULL}
           g == [u \in A |-> f[u]]
<1>1. IsFiniteSet(A)
    BY FS_Subset
<1>2. g \in [A -> Vals(S, f)] /\ \A u \in A : g[u] = f[u]
    BY DEF Vals
<1>3. \A y \in Vals(S, f) : \E u \in A : g[u] = y
    BY <1>2 DEF Vals
<1>4. \A u, v \in A : g[u] = g[v] => u = v
    BY <1>2 DEF Inj
<1> HIDE DEF g
<1>5. g \in Bijection(A, Vals(S, f))
    BY <1>2, <1>3, <1>4 DEF Bijection, Injection, Surjection, IsInjective
<1>6. IsFiniteSet(Vals(S, f)) /\ Cardinality(Vals(S, f)) = Cardinality(A)
    BY <1>1, <1>5, FS_Bijection DEF ExistsBijection
<1> QED BY <1>6

\* The queues have as many entries as there are queued sessions.
LEMMA QueueCount ==
    ASSUME PoolTypeOK, QueueInv, IsFiniteSet(Queued)
    PROVE  Cardinality(UNION {{p} \X DOMAIN queue[p] : p \in Pools}) = Cardinality(Queued)
<1> DEFINE P == UNION {{p} \X DOMAIN queue[p] : p \in Pools}
           g == [x \in P |-> queue[x[1]][x[2]]]
<1>1. \A x \in P : \E p \in Pools : \E i \in DOMAIN queue[p] : x = <<p, i>>
    OBVIOUS
<1>2. \A p \in Pools : \A i \in DOMAIN queue[p] : <<p, i>> \in P
    OBVIOUS
<1> HIDE DEF P
<1>3. \A p \in Pools : \A i \in DOMAIN queue[p] : g[<<p, i>>] = queue[p][i]
    BY <1>2
<1>4. \A p \in Pools : \A i \in DOMAIN queue[p] : queue[p][i] \in ToSet(queue[p])
    BY DEF ToSet
<1>5. \A s \in Queued : \E p \in Pools : \E i \in DOMAIN queue[p] : queue[p][i] = s
    BY DEF Queued, ToSet
<1>6. DOMAIN g = P /\ g = [x \in P |-> g[x]]
    OBVIOUS
<1> HIDE DEF g
<1>7. \A x \in P : g[x] \in Queued
    BY <1>1, <1>3, <1>4 DEF Queued
<1>8. g \in [P -> Queued]
    BY <1>6, <1>7
<1>9. ASSUME NEW s \in Queued PROVE \E x \in P : g[x] = s
  <2>1. PICK p \in Pools : \E i \in DOMAIN queue[p] : queue[p][i] = s
      BY <1>5
  <2>2. PICK i \in DOMAIN queue[p] : queue[p][i] = s
      BY <2>1
  <2>3. <<p, i>> \in P /\ g[<<p, i>>] = s
      BY <1>2, <1>3, <2>2
  <2> QED BY <2>3
<1>10. ASSUME NEW x \in P, NEW y \in P, g[x] = g[y] PROVE x = y
  <2>1. PICK p \in Pools : \E i \in DOMAIN queue[p] : x = <<p, i>>
      BY <1>1
  <2>2. PICK i \in DOMAIN queue[p] : x = <<p, i>>
      BY <2>1
  <2>3. PICK q \in Pools : \E j \in DOMAIN queue[q] : y = <<q, j>>
      BY <1>1
  <2>4. PICK j \in DOMAIN queue[q] : y = <<q, j>>
      BY <2>3
  <2>5. queue[p][i] = queue[q][j]
      BY <1>3, <1>10, <2>2, <2>4
  <2>6. p = q
      BY <1>4, <2>5 DEF QueueInv
  <2>7. i = j
      BY <2>5, <2>6 DEF QueueInv, Distinct
  <2> QED BY <2>2, <2>4, <2>6, <2>7
<1>11. g \in Injection(P, Queued) /\ g \in Surjection(P, Queued)
    BY <1>8, <1>9, <1>10 DEF Injection, Surjection, IsInjective
<1>12. Cardinality(P) = Cardinality(Queued)
    BY <1>11, FS_Injection
<1> QED BY <1>12 DEF P

\* Two kinds of places.
LEMMA BothCount ==
    ASSUME NEW A, NEW B, IsFiniteSet(A), IsFiniteSet(B), A \cap B = {}
    PROVE  /\ IsFiniteSet(A \cup B) /\ Cardinality(A) \in Nat /\ Cardinality(B) \in Nat
           /\ Cardinality(A \cup B) = Cardinality(A) + Cardinality(B)
<1>1. /\ IsFiniteSet(A \cup B)
      /\ Cardinality(A \cup B) = Cardinality(A) + Cardinality(B) - Cardinality(A \cap B)
    BY FS_Union
<1>2. Cardinality(A \cap B) = 0
    BY FS_EmptySet
<1>3. Cardinality(A) \in Nat /\ Cardinality(B) \in Nat
    BY FS_CardinalityType
<1> QED BY <1>1, <1>2, <1>3

\* The sets of sessions at the spots are disjoint.
LEMMA SpotsDiffer ==
    ASSUME SpotInv
    PROVE  \A x, y \in Spots \ {"none"} : x # y => \A s \in Sessions : s \in Held[x] => s \notin Held[y]
BY DEF SpotInv, Fits

\* Each of the places is one of the spots.
LEMMA PlacesAre ==
    ASSUME IInv
    PROVE  /\ Free \cup InUse = ses_free_mem[0] \cup ses_free_mem[1] \cup Queued \cup ToSet(pipe)
                                \cup ToSet(sesshead) \cup parked \cup (New \cup Accepted) \cup Called
                                \cup Deleted \cup Spared \cup Running
           /\ Cardinality(New \cup Accepted) = IF apc.pc \in {"count", "queue"} THEN 1 ELSE 0
           /\ New # {} <=> apc.pc = "count"
           /\ Cardinality(Called) = Cardinality({t \in Threads : call[t].sp # NULL})
           /\ Cardinality(Deleted \cup Spared) = Cardinality({t \in Threads : del[t].sp # NULL})
           /\ Cardinality(Spared) = Cardinality({t \in Threads : del[t].pc = "spare"})
           /\ Cardinality(Running) = Cardinality({w \in Workers : Run(w) # {}})
<1>0. /\ PoolInv /\ PoolTypeOK /\ SessTypeOK /\ MemInv /\ WrkInv /\ InjInv /\ SpotInv
      /\ NULL \notin Sessions /\ IsFiniteSet(Workers) /\ IsFiniteSet(Threads)
  <2>1. IsFiniteSet(Workers) /\ NULL \notin Sessions /\ Threads = (Workers \cup {acceptor}) \cup {waiter}
      BY PoolAssumption, SessionAssumption DEF Threads
  <2>2. IsFiniteSet(Threads)
      BY <2>1, FS_AddElement
  <2> QED BY <2>1, <2>2 DEF IInv, PoolInv, SessInv
<1>1. \A w \in Workers : /\ Run(w) = {RunSp[w]} \ {NULL}
                         /\ Run(w) # {} <=> RunSp[w] # NULL
  <2>1. \A w \in Workers : wpc[w] \in {"start", "run", "return"} => wsp[w] # NULL
      BY <1>0 DEF WrkInv
  <2>2. \A w \in Workers : Run(w) = {RunSp[w]} \ {NULL}
      BY <2>1 DEF Run, RunSp
  <2> QED BY <2>2
<1>2. \A t \in Threads : /\ call[t].sp = CallSp[t]
                         /\ del[t].sp = NULL <=> DelSp[t] = NULL /\ SpareSp[t] = NULL
                         /\ {del[t].sp} \ {NULL} = {DelSp[t], SpareSp[t]} \ {NULL}
                         /\ del[t].pc = "spare" <=> SpareSp[t] # NULL
                         /\ DelSp[t] = NULL \/ SpareSp[t] = NULL
  <2>1. \A t \in Threads : del[t].pc = "spare" => del[t].sp # NULL
      BY <1>0 DEF MemInv
  <2> QED BY <2>1 DEF CallSp, DelSp, SpareSp
<1>3. UNION {InHand(t) : t \in Threads} = Called \cup Deleted \cup Spared
  <2>1. \A t \in Threads : InHand(t) = ({CallSp[t]} \cup {DelSp[t]} \cup {SpareSp[t]}) \ {NULL}
      BY <1>2 DEF InHand
  <2>2. \A s \in UNION {InHand(t) : t \in Threads} : s \in Called \cup Deleted \cup Spared
      BY <2>1 DEF Called, Deleted, Spared, Vals
  <2>3. \A s \in Called \cup Deleted \cup Spared : s \in UNION {InHand(t) : t \in Threads}
      BY <2>1 DEF Called, Deleted, Spared, Vals
  <2> QED BY <2>2, <2>3
<1>4. UNION {Run(w) : w \in Workers} = Running
    BY <1>1 DEF Running, Vals
<1>5. /\ New \cup Accepted = IF apc.pc \in {"count", "queue"} THEN {apc.sp} ELSE {}
      /\ New # {} <=> apc.pc = "count"
    BY DEF New, Accepted
<1>6. {apc.sp} \ {NULL} \subseteq New \cup Accepted \cup ses_free_mem[0] \cup ses_free_mem[1]
    <2>1. apc.pc \in {"accept", "flip", "remove", "alloc", "count", "queue"}
        BY <1>0 DEF SessTypeOK
    <2>2. apc.pc = "remove" => apc.sp \in ses_free_mem[0] \cup ses_free_mem[1]
        BY <1>0 DEF MemInv, SessTypeOK
    <2> QED BY <1>0, <1>5, <2>1, <2>2 DEF MemInv
<1>7. New \cup Accepted \subseteq {apc.sp} \ {NULL}
    BY <1>0, <1>5 DEF MemInv
<1>8. Free \cup InUse = ses_free_mem[0] \cup ses_free_mem[1] \cup Queued \cup ToSet(pipe)
                        \cup ToSet(sesshead) \cup parked \cup (New \cup Accepted) \cup Called
                        \cup Deleted \cup Spared \cup Running
  <2>1. InUse = Queued \cup ToSet(pipe) \cup ToSet(sesshead) \cup parked \cup ({apc.sp} \ {NULL})
                \cup (Called \cup Deleted \cup Spared) \cup Running
      BY <1>3, <1>4 DEF InUse, Queued
  <2> QED BY <1>6, <1>7, <2>1 DEF Free
<1>9. Cardinality(New \cup Accepted) = IF apc.pc \in {"count", "queue"} THEN 1 ELSE 0
    BY <1>5, FS_EmptySet, FS_Singleton
<1>10. Cardinality(Called) = Cardinality({t \in Threads : call[t].sp # NULL})
  <2>1. {t \in Threads : CallSp[t] # NULL} = {t \in Threads : call[t].sp # NULL}
      BY <1>2
  <2> QED BY <1>0, <2>1, HolderCount DEF Called, InjInv
<1>11. Cardinality(Running) = Cardinality({w \in Workers : Run(w) # {}})
  <2>1. {w \in Workers : RunSp[w] # NULL} = {w \in Workers : Run(w) # {}}
      BY <1>1
  <2> QED BY <1>0, <2>1, HolderCount DEF Running, InjInv
<1> DEFINE D == {t \in Threads : DelSp[t] # NULL}
           E == {t \in Threads : SpareSp[t] # NULL}
<1>12. /\ IsFiniteSet(Deleted) /\ Cardinality(Deleted) = Cardinality(D)
       /\ IsFiniteSet(Spared) /\ Cardinality(Spared) = Cardinality(E)
    BY <1>0, HolderCount DEF Deleted, Spared, InjInv
<1>13. Cardinality(Spared) = Cardinality({t \in Threads : del[t].pc = "spare"})
  <2>1. E = {t \in Threads : del[t].pc = "spare"}
      BY <1>2
  <2> QED BY <1>12, <2>1
<1>14. Cardinality(Deleted \cup Spared) = Cardinality({t \in Threads : del[t].sp # NULL})
  <2>1. D \cup E = {t \in Threads : del[t].sp # NULL} /\ D \cap E = {}
      BY <1>2
  <2>2. IsFiniteSet(D) /\ IsFiniteSet(E)
      BY <1>0, FS_Subset
  <2>3. Deleted \cap Spared = {}
    <3>1. Deleted \subseteq Sessions
      <4>1. \A t \in Threads : del[t].sp \in Sessions \cup {NULL}
          BY <1>0 DEF SessTypeOK
      <4> QED BY <4>1 DEF Deleted, Vals, DelSp
    <3>2. ASSUME NEW s \in Deleted PROVE s \notin Spared
        BY <1>0, <3>1, HeldIs, OneSpot DEF Spots
    <3> QED BY <3>2
  <2> HIDE DEF D, E
  <2>4. /\ Cardinality(Deleted \cup Spared) = Cardinality(Deleted) + Cardinality(Spared)
        /\ Cardinality(D \cup E) = Cardinality(D) + Cardinality(E)
      BY <1>12, <2>1, <2>2, <2>3, BothCount
  <2> QED BY <1>12, <2>1, <2>4
<1> QED BY <1>5, <1>8, <1>9, <1>10, <1>11, <1>13, <1>14

\* The sessions of each spot are finitely many, and no session has two.
LEMMA SpotSets ==
    ASSUME IInv
    PROVE  \A x \in Spots \ {"none"} : Held[x] \subseteq Sessions /\ IsFiniteSet(Held[x])
<1>0. PoolTypeOK /\ SessTypeOK /\ MemInv /\ WrkInv /\ NULL \notin Sessions
    BY PoolAssumption DEF IInv, PoolInv, SessInv
<1>1. ses_free_mem[0] \subseteq Sessions /\ ses_free_mem[1] \subseteq Sessions /\ parked \subseteq Sessions
    BY <1>0 DEF SessTypeOK
<1>2. New \subseteq Sessions /\ Accepted \subseteq Sessions
    BY <1>0 DEF New, Accepted, SessTypeOK, MemInv
<1>3. Queued \subseteq Sessions
  <2>1. \A p \in Pools : ToSet(queue[p]) \subseteq Sessions
      BY <1>0, ListedIn DEF PoolTypeOK
  <2> QED BY <2>1 DEF Queued
<1>4. ToSet(pipe) \subseteq Sessions /\ ToSet(sesshead) \subseteq Sessions
    BY <1>0, ListedIn DEF SessTypeOK
<1>5. Called \subseteq Sessions /\ Deleted \subseteq Sessions /\ Spared \subseteq Sessions
  <2>1. \A t \in Threads : call[t].sp \in Sessions \cup {NULL} /\ del[t].sp \in Sessions \cup {NULL}
      BY <1>0 DEF PoolTypeOK, SessTypeOK
  <2> QED BY <2>1 DEF Called, Deleted, Spared, Vals, CallSp, DelSp, SpareSp
<1>6. Running \subseteq Sessions
  <2>1. \A w \in Workers : wsp[w] \in Sessions \cup {NULL}
      BY <1>0 DEF PoolTypeOK
  <2> QED BY <2>1 DEF Running, Vals, RunSp
<1>7. \A x \in Spots \ {"none"} : Held[x] \subseteq Sessions
    BY <1>1, <1>2, <1>3, <1>4, <1>5, <1>6, HeldIs DEF Spots
<1> QED BY <1>7, SessionAssumption, FS_Subset

\* n_sess_mem counts all but what SES_New and SES_Delete have allocated and not counted yet.
LEMMA MemCounted ==
    ASSUME IInv, NEW All, All = UNION {Held[x] : x \in Spots \ {"none"}}
    PROVE  /\ n_sess_mem \in Nat /\ Cardinality(New) \in Nat /\ Cardinality(Spared) \in Nat
           /\ Cardinality(All) = n_sess_mem + Cardinality(New) + Cardinality(Spared)
<1>1. PICK at \in [Sessions -> Spots] : Fits(at, Held) /\ n_sess_mem = Cardinality(Counted(at))
    BY DEF IInv, SessInv, SpotInv
<1>2. PICK C : C = Counted(at)
    OBVIOUS
<1>3. /\ New \subseteq Sessions /\ IsFiniteSet(New) /\ Spared \subseteq Sessions /\ IsFiniteSet(Spared)
  <2>1. \A x \in {"new", "spare"} : Held[x] \subseteq Sessions /\ IsFiniteSet(Held[x])
      BY SpotSets DEF Spots
  <2> QED BY <2>1, HeldIs
<1>4. C \subseteq Sessions /\ IsFiniteSet(C) /\ n_sess_mem = Cardinality(C)
    BY <1>1, <1>2, SessionAssumption, FS_Subset DEF Counted
<1>5. \A s \in Sessions : /\ at[s] \in Spots
                          /\ s \in C <=> at[s] \notin {"none", "new", "spare"}
                          /\ s \in New <=> at[s] = "new"
                          /\ s \in Spared <=> at[s] = "spare"
    BY <1>1, <1>2, HeldIs DEF Fits, Spots, Counted, Counts
<1>6. \A s \in Sessions : s \in All <=> at[s] # "none"
  <2>1. ASSUME NEW s \in Sessions PROVE s \in All <=> \E x \in Spots \ {"none"} : s \in Held[x]
      OBVIOUS
  <2> QED BY <1>1, <2>1 DEF Fits
<1>7. All \subseteq Sessions
    BY SpotSets
<1>8. All = (C \cup New) \cup Spared
    BY <1>3, <1>4, <1>5, <1>6, <1>7
<1>9. C \cap New = {} /\ (C \cup New) \cap Spared = {}
    BY <1>3, <1>4, <1>5
<1>10. /\ IsFiniteSet(C \cup New) /\ Cardinality(C) \in Nat /\ Cardinality(New) \in Nat
       /\ Cardinality(C \cup New) = Cardinality(C) + Cardinality(New)
    BY <1>3, <1>4, <1>9, BothCount
<1>11. /\ Cardinality(Spared) \in Nat
       /\ Cardinality((C \cup New) \cup Spared) = Cardinality(C \cup New) + Cardinality(Spared)
    BY <1>3, <1>9, <1>10, BothCount
<1> QED BY <1>4, <1>8, <1>10, <1>11

(***************************************************************************)
(* OnePlace: a session is in one place, however its threads interleave,    *)
(* and n_sess_mem counts the memory that is in some place.                 *)
(***************************************************************************)
THEOREM SessionInOnePlace == Spec => []OnePlace
<1>1. ASSUME IInv PROVE OnePlace
  <2>0. /\ PoolTypeOK /\ SessTypeOK /\ QueueInv /\ ListInv /\ SpotInv
      BY <1>1 DEF IInv, PoolInv, SessInv
  <2>1. PICK a, b, q, f, h, k, n, c, d, e, r :
            /\ a = ses_free_mem[0] /\ b = ses_free_mem[1] /\ q = Queued /\ f = ToSet(pipe)
            /\ h = ToSet(sesshead) /\ k = parked /\ n = New \cup Accepted /\ c = Called
            /\ d = Deleted /\ e = Spared /\ r = Running
      OBVIOUS
  <2>2. /\ Held.free0 = a /\ Held.free1 = b /\ Held.queue = q /\ Held.pipe = f /\ Held.head = h
        /\ Held.parked = k /\ Held.new \cup Held.accepted = n /\ Held.call = c
        /\ Held.deleted = d /\ Held.spare = e /\ Held.run = r
      BY <2>1, HeldIs
  <2>3. \A x \in Spots \ {"none"} : Held[x] \subseteq Sessions /\ IsFiniteSet(Held[x])
      BY <1>1, SpotSets
  <2>4. \A x, y \in Spots \ {"none"} : x # y => Held[x] \cap Held[y] = {}
      BY <2>0, <2>3, SpotsDiffer
  <2>5. /\ IsFiniteSet(a) /\ IsFiniteSet(b) /\ IsFiniteSet(q) /\ IsFiniteSet(f) /\ IsFiniteSet(h)
        /\ IsFiniteSet(k) /\ IsFiniteSet(n) /\ IsFiniteSet(c) /\ IsFiniteSet(d) /\ IsFiniteSet(e)
        /\ IsFiniteSet(r)
    <3>1. IsFiniteSet(Held.new \cup Held.accepted)
        BY <2>3, FS_Union DEF Spots
    <3> QED BY <2>2, <2>3, <3>1 DEF Spots
  <2> DEFINE A1 == a \cup b
             A2 == A1 \cup q
             A3 == A2 \cup f
             A4 == A3 \cup h
             A5 == A4 \cup k
             A6 == A5 \cup n
             A7 == A6 \cup c
             A8 == A7 \cup (d \cup e)
             A9 == A8 \cup r
  <2>6. /\ a \cap b = {} /\ A1 \cap q = {} /\ A2 \cap f = {} /\ A3 \cap h = {} /\ A4 \cap k = {}
        /\ A5 \cap n = {} /\ A6 \cap c = {} /\ A7 \cap (d \cup e) = {} /\ A8 \cap r = {}
        /\ d \cap e = {}
    <3>1. \A y \in Spots \ {"none", "free0"} : a \cap Held[y] = {}
        BY <2>2, <2>4 DEF Spots
    <3>2. \A y \in Spots \ {"none", "free1"} : b \cap Held[y] = {}
        BY <2>2, <2>4 DEF Spots
    <3>3. \A y \in Spots \ {"none", "queue"} : q \cap Held[y] = {}
        BY <2>2, <2>4 DEF Spots
    <3>4. \A y \in Spots \ {"none", "pipe"} : f \cap Held[y] = {}
        BY <2>2, <2>4 DEF Spots
    <3>5. \A y \in Spots \ {"none", "head"} : h \cap Held[y] = {}
        BY <2>2, <2>4 DEF Spots
    <3>6. \A y \in Spots \ {"none", "parked"} : k \cap Held[y] = {}
        BY <2>2, <2>4 DEF Spots
    <3>7. \A y \in Spots \ {"none", "new", "accepted"} : n \cap Held[y] = {}
      <4>1. \A y \in Spots \ {"none", "new", "accepted"} :
                Held.new \cap Held[y] = {} /\ Held.accepted \cap Held[y] = {}
          BY <2>4 DEF Spots
      <4> QED BY <2>2, <4>1
    <3>8. \A y \in Spots \ {"none", "call"} : c \cap Held[y] = {}
        BY <2>2, <2>4 DEF Spots
    <3>9. d \cap e = {} /\ d \cap r = {} /\ e \cap r = {}
        BY <2>2, <2>4 DEF Spots
    <3>10. a \cap b = {} /\ A1 \cap q = {} /\ A2 \cap f = {}
        BY <2>2, <3>1, <3>2, <3>3 DEF Spots
    <3>11. A3 \cap h = {} /\ A4 \cap k = {}
        BY <2>2, <3>1, <3>2, <3>3, <3>4, <3>5 DEF Spots
    <3>12. A5 \cap n = {}
      <4>1. \A y \in {"new", "accepted"} : A5 \cap Held[y] = {}
          BY <3>1, <3>2, <3>3, <3>4, <3>5, <3>6 DEF Spots
      <4> QED BY <2>2, <4>1
    <3>13. \A y \in {"call", "deleted", "spare", "run"} : A6 \cap Held[y] = {}
        BY <3>1, <3>2, <3>3, <3>4, <3>5, <3>6, <3>7 DEF Spots
    <3> HIDE DEF A5, A6
    <3>14. A6 \cap c = {} /\ A7 \cap (d \cup e) = {} /\ A7 \cap r = {}
        BY <2>2, <3>8, <3>13 DEF Spots
    <3> QED BY <3>9, <3>10, <3>11, <3>12, <3>14
  <2>7. Free \cup InUse = A9
      BY <1>1, <2>1, PlacesAre
  <2>8. UNION {Held[x] : x \in Spots \ {"none"}} = A9
    <3>1. \A s : s \in UNION {Held[x] : x \in Spots \ {"none"}}
                 <=> \E x \in Spots \ {"none"} : s \in Held[x]
        OBVIOUS
    <3>2. \A s : (\E x \in Spots \ {"none"} : s \in Held[x]) <=> s \in A9
        BY <2>2 DEF Spots
    <3> QED BY <3>1, <3>2
  <2> HIDE DEF A1, A2, A3, A4, A5, A6, A7, A8, A9
  <2>9. IsFiniteSet(A1) /\ Cardinality(A1) = Cardinality(a) + Cardinality(b)
      BY <2>5, <2>6, BothCount DEF A1
  <2>10. IsFiniteSet(A2) /\ Cardinality(A2) = Cardinality(A1) + Cardinality(q)
      BY <2>5, <2>6, <2>9, BothCount DEF A2
  <2>11. IsFiniteSet(A3) /\ Cardinality(A3) = Cardinality(A2) + Cardinality(f)
      BY <2>5, <2>6, <2>10, BothCount DEF A3
  <2>12. IsFiniteSet(A4) /\ Cardinality(A4) = Cardinality(A3) + Cardinality(h)
      BY <2>5, <2>6, <2>11, BothCount DEF A4
  <2>13. IsFiniteSet(A5) /\ Cardinality(A5) = Cardinality(A4) + Cardinality(k)
      BY <2>5, <2>6, <2>12, BothCount DEF A5
  <2>14. IsFiniteSet(A6) /\ Cardinality(A6) = Cardinality(A5) + Cardinality(n)
      BY <2>5, <2>6, <2>13, BothCount DEF A6
  <2>15. IsFiniteSet(A7) /\ Cardinality(A7) = Cardinality(A6) + Cardinality(c)
      BY <2>5, <2>6, <2>14, BothCount DEF A7
  <2>16. IsFiniteSet(d \cup e)
      BY <2>5, FS_Union
  <2>17. IsFiniteSet(A8) /\ Cardinality(A8) = Cardinality(A7) + Cardinality(d \cup e)
      BY <2>6, <2>15, <2>16, BothCount DEF A8
  <2>18. Cardinality(A9) = Cardinality(A8) + Cardinality(r)
      BY <2>5, <2>6, <2>17, BothCount DEF A9
  <2>19. /\ Cardinality(a) \in Nat /\ Cardinality(b) \in Nat /\ Cardinality(q) \in Nat
         /\ Cardinality(f) \in Nat /\ Cardinality(h) \in Nat /\ Cardinality(k) \in Nat
         /\ Cardinality(n) \in Nat /\ Cardinality(c) \in Nat /\ Cardinality(d \cup e) \in Nat
         /\ Cardinality(r) \in Nat
      BY <2>5, <2>16, FS_CardinalityType
  <2>20. Cardinality(A9) = Cardinality(a) + Cardinality(b) + Cardinality(q) + Cardinality(f)
                           + Cardinality(h) + Cardinality(k) + Cardinality(n) + Cardinality(c)
                           + Cardinality(d \cup e) + Cardinality(r)
      BY <2>9, <2>10, <2>11, <2>12, <2>13, <2>14, <2>15, <2>17, <2>18, <2>19
  <2>21. /\ Cardinality(q) = Cardinality(UNION {{p} \X DOMAIN queue[p] : p \in Pools})
         /\ Cardinality(f) = Len(pipe) /\ Cardinality(h) = Len(sesshead)
      BY <2>0, <2>1, <2>5, QueueCount, ListSize DEF SessTypeOK, ListInv
  <2>22. /\ Cardinality(n) = IF apc.pc \in {"count", "queue"} THEN 1 ELSE 0
         /\ Cardinality(c) = Cardinality({t \in Threads : call[t].sp # NULL})
         /\ Cardinality(d \cup e) = Cardinality({t \in Threads : del[t].sp # NULL})
         /\ Cardinality(r) = Cardinality({w \in Workers : Run(w) # {}})
      BY <1>1, <2>1, PlacesAre
  <2>23. Places = Cardinality(A9) /\ Places \in Nat
    <3>1. Places = Cardinality(a) + Cardinality(b) + Cardinality(q) + Cardinality(f)
                   + Cardinality(h) + Cardinality(k) + Cardinality(n) + Cardinality(c)
                   + Cardinality(d \cup e) + Cardinality(r)
        BY <2>1, <2>21, <2>22 DEF Places
    <3> QED BY <2>19, <2>20, <3>1
  <2>24. /\ n_sess_mem \in Nat /\ Cardinality(New) \in Nat /\ Cardinality(Spared) \in Nat
         /\ Cardinality(A9) = n_sess_mem + Cardinality(New) + Cardinality(Spared)
      BY <1>1, <2>8, MemCounted
  <2>25. /\ Cardinality(Spared) = Cardinality({t \in Threads : del[t].pc = "spare"})
         /\ Cardinality(New) = IF apc.pc = "count" THEN 1 ELSE 0
    <3>1. New = IF apc.pc = "count" THEN {apc.sp} ELSE {}
        BY DEF New
    <3>2. Cardinality(New) = IF apc.pc = "count" THEN 1 ELSE 0
        BY <3>1, FS_EmptySet, FS_Singleton
    <3> QED BY <1>1, <3>2, PlacesAre
  <2>26. n_sess_mem = Places - Cardinality(Spared) - Cardinality(New)
      BY <2>23, <2>24
  <2>27. Places = Cardinality(Free \cup InUse)
      BY <2>7, <2>23
  <2>28. n_sess_mem = Places - Cardinality({t \in Threads : del[t].pc = "spare"})
                      - (IF apc.pc = "count" THEN 1 ELSE 0)
      BY <2>25, <2>26
  <2> QED BY <2>27, <2>28 DEF OnePlace
<1> QED BY <1>1, SessionInvariant, PTL

=============================================================================
