--------------------------- MODULE BackendProofs ---------------------------
(***************************************************************************)
(* Proofs about Backend, for any number of workers, VCL programs and       *)
(* backends: the references on VCL programs and on backends are counted    *)
(* exactly, what a session may use exists, and the probe threads stay in   *)
(* step with the programs that want them.                                  *)
(***************************************************************************)
EXTENDS Backend, ListLemmas, FiniteSetTheorems

(***************************************************************************)
(* The inductive invariant.                                                *)
(***************************************************************************)
\* A backend whose count was overwritten may have any count.
Struct == [alive : BOOLEAN, refcount : Int, n_conn : Int, idle : Nat,
           healthy : BOOLEAN, admin_health : {"probe", "sick", "healthy"}]
Getting == {g \in [pc : {"none", "pop", "check", "new", "try", "connect"},
                   b : Backends \cup {NULL}] :
               IF g.pc = "none" THEN g.b = NULL ELSE g.b \in Backends}
Target == [pc : {"none", "top", "lock", "poke", "end"}, vcls : Seq(Vcls),
           has : BOOLEAN, stop : BOOLEAN, happy : [1..Window -> BOOLEAN]]
Loading == {"init", "store"}
Disposing == {"fini", "stop", "join", "drop"}
Command == [pc : {"idle", "poll", "cmd", "discarded"} \cup Loading \cup Disposing,
            v : Vcls \cup {NULL}, todo : Seq(Vcls), dirs : Seq(Backends), tmp : Int]

TypeInv ==
    /\ vcl_head \in Seq(Vcls)
    /\ vcl \in [Vcls -> {"none", "avail", "discard", "fini", "failed"}]
    /\ busy \in [Vcls -> Nat] /\ parked \in [Vcls -> Nat]
    /\ vcl_active \in Vcls \cup {NULL}
    /\ wvcl \in [Workers -> Vcls \cup {NULL}] /\ svcl \in [Workers -> Vcls \cup {NULL}]
    /\ wpc \in [Workers -> {"idle", "get", "run"}]
    /\ be \in [Backends -> Struct]
    /\ director \in [Vcls -> SUBSET Backends]
    /\ vbc \in [Workers -> Backends \cup {NULL}]
    /\ getfd \in [Workers -> Getting]
    /\ vt \in [Backends -> Target]
    /\ cli \in Command
    /\ panic \in BOOLEAN /\ lost \subseteq Backends

\* A program is on the list while it may be used, and is used only then.
Listed == {v \in Vcls : vcl[v] \in {"avail", "discard"}}
RefInv ==
    /\ VclRefsExact
    /\ \A w \in Workers : svcl[w] # NULL <=> wpc[w] = "run"
    /\ \A v \in Vcls \ Listed : busy[v] = 0
    /\ vcl_active # NULL => vcl[vcl_active] = "avail"
    /\ Distinct(vcl_head) /\ Range(vcl_head) = Listed

\* Where the CLI thread is, with the programs and their directors.
CliInv ==
    /\ cli.pc \notin {"poll"} \cup Disposing => cli.todo = <<>>
    /\ cli.pc \in {"poll"} \cup Disposing =>
          /\ Distinct(cli.todo)
          /\ Range(cli.todo) \subseteq Listed \cup (IF cli.pc = "poll" THEN {} ELSE {Doomed})
    /\ cli.pc \in Loading => cli.v \in Vcls /\ vcl[cli.v] = "none"
    /\ cli.pc = "discarded" => cli.v \in Vcls /\ vcl[cli.v] = "discard"
    /\ cli.pc \in Disposing => Doomed \in Vcls
    /\ \A v \in Vcls : vcl[v] = "fini" <=> cli.pc \in Disposing /\ v = Doomed
    /\ Distinct(cli.dirs)
    /\ cli.pc \in {"store", "stop", "join", "drop"} => cli.dirs # <<>>

DirInv ==
    /\ \A v \in Listed : director[v] = Range(Uses[v])
    /\ cli.pc \in Loading => /\ director[cli.v] \cap Range(cli.dirs) = {}
                             /\ director[cli.v] \cup Range(cli.dirs) = Range(Uses[cli.v])
    /\ cli.pc \in Disposing => director[Doomed] = Range(cli.dirs)
    /\ \A v \in Vcls : vcl[v] = "none" /\ ~(cli.pc \in Loading /\ v = cli.v) => director[v] = {}

\* A session has one connection at most, to a backend of its program.
ConnInv ==
    \A w \in Workers :
        /\ vbc[w] # NULL => /\ svcl[w] # NULL /\ vbc[w] \in Hosts[svcl[w]]
                            /\ getfd[w].pc = "none"
        /\ getfd[w].pc # "none" => svcl[w] # NULL /\ getfd[w].b \in Hosts[svcl[w]]

\* A probed backend's list has the programs that declare a probe for it, without
\* the one that VBP_Remove has taken off; when it is empty the thread is stopped.
Unlinked(b) == cli.pc \in {"stop", "join", "drop"} /\ b = Head(cli.dirs)
ProbeInv ==
    \A b \in Backends :
        /\ Distinct(vt[b].vcls)
        /\ Range(vt[b].vcls) = {v \in Vcls : b \in director[v] \cap Probes[v]}
                               \ (IF Unlinked(b) THEN {Doomed} ELSE {})
        /\ vt[b].pc = "none" => vt[b].vcls = <<>>
        /\ vt[b].pc # "none" /\ vt[b].vcls = <<>> => Unlinked(b) /\ cli.pc # "drop"
        /\ Unlinked(b) /\ cli.pc # "drop" =>
              b \in Probes[Doomed] /\ vt[b].vcls = <<>> /\ vt[b].pc # "none"
        /\ vt[b].stop => Unlinked(b) /\ cli.pc = "join"
        /\ vt[b].pc = "end" => vt[b].stop

IInv ==
    /\ TypeInv /\ RefInv /\ CliInv /\ DirInv /\ ConnInv /\ BackendRefsExact
    /\ ProbeInv /\ UnprobedHealthy

-----------------------------------------------------------------------------
(***************************************************************************)
(* Facts about the operators.                                              *)
(***************************************************************************)

\* VTAILQ_REMOVE of an entry that is on the list.
LEMMA WithoutEntry ==
    ASSUME NEW S, NEW q \in Seq(S), Distinct(q), NEW u \in Range(q)
    PROVE  /\ Without(q, u) \in Seq(S)
           /\ Distinct(Without(q, u))
           /\ Range(Without(q, u)) = Range(q) \ {u}
<1> DEFINE k == CHOOSE i \in DOMAIN q : q[i] = u
<1>1. k \in 1..Len(q) /\ q[k] = u
    BY DEF Range
<1> HIDE DEF k
<1>2. /\ RemoveAt(q, k) \in Seq(S) /\ Distinct(RemoveAt(q, k))
      /\ Range(RemoveAt(q, k)) = Range(q) \ {u}
    BY <1>1, RemoveEntry
<1> QED BY <1>2 DEF Without, k

\* An empty list is one without elements.
LEMMA EmptyList ==
    ASSUME NEW S, NEW q \in Seq(S)
    PROVE  q = <<>> <=> Range(q) = {}
<1>1. DOMAIN q = 1..Len(q) /\ Len(q) \in Nat
    OBVIOUS
<1>2. q # <<>> => 1 \in DOMAIN q
    BY <1>1
<1>3. q # <<>> => q[1] \in Range(q)
    BY <1>2 DEF Range
<1>4. q = <<>> => DOMAIN q = {}
    BY <1>1
<1>5. q = <<>> => Range(q) = {}
    BY <1>4 DEF Range
<1> QED BY <1>3, <1>5

\* A shifted bitmap is a bitmap.
LEMMA ShiftType ==
    ASSUME NEW h \in [1..Window -> BOOLEAN], NEW ok \in BOOLEAN
    PROVE  Shift(h, ok) \in [1..Window -> BOOLEAN]
<1>0. Window \in Nat
    BY BackendAssumption
<1> DEFINE q == <<ok>> \o h
           r == SubSeq(q, 1, Window)
<1>1. h \in Seq(BOOLEAN) /\ Len(h) = Window
    BY <1>0
<1>2. q \in Seq(BOOLEAN) /\ Len(q) = Window + 1
    BY <1>0, <1>1
<1> HIDE DEF q
<1>3. 1 \in Int /\ Window \in Int /\ \A i \in 1..Window : q[i] \in BOOLEAN
    BY <1>0, <1>2
<1>4. /\ r \in Seq(BOOLEAN)
      /\ Len(r) = IF 1 <= Window THEN Window - 1 + 1 ELSE 0
    BY <1>3, SubSeqProperties
<1> HIDE DEF r
<1>5. Len(r) = Window
    BY <1>0, <1>4
<1>6. r \in [1..Window -> BOOLEAN]
    BY <1>4, <1>5
<1> QED BY <1>6 DEF Shift, q, r

\* How a count changes when one element comes or goes.
LEMMA CountOne ==
    ASSUME NEW S, NEW T, NEW k, IsFiniteSet(S)
    PROVE  /\ Cardinality(S) \in Nat
           /\ k \notin S /\ T = S \cup {k} => Cardinality(T) = Cardinality(S) + 1
           /\ k \in S /\ T = S \ {k} => Cardinality(T) = Cardinality(S) - 1
           /\ k \in S => Cardinality(S) >= 1
<1>1. Cardinality(S) \in Nat
    BY FS_CardinalityType
<1>2. k \notin S => Cardinality(S \cup {k}) = Cardinality(S) + 1
    BY FS_AddElement
<1>3. k \in S => Cardinality(S \ {k}) = Cardinality(S) - 1
    BY FS_RemoveElement
<1>4. k \in S => Cardinality(S) >= 1
  <2>1. Cardinality(S \ {k}) \in Nat
      BY FS_RemoveElement, FS_CardinalityType
  <2> QED BY <1>1, <1>3, <2>1
<1> QED BY <1>1, <1>2, <1>3, <1>4

\* The workers whose pointer f is v, and how their number changes with one pointer.
Holders(f, v) == {u \in Workers : f[u] = v}
Is(x, v) == IF x = v THEN 1 ELSE 0

LEMMA CountMoved ==
    ASSUME NEW f \in [Workers -> Vcls \cup {NULL}], NEW g \in [Workers -> Vcls \cup {NULL}],
           NEW w \in Workers, \A u \in Workers \ {w} : g[u] = f[u], NEW v
    PROVE  /\ Cardinality(Holders(f, v)) \in Nat /\ Cardinality(Holders(g, v)) \in Nat
           /\ Cardinality(Holders(g, v)) = Cardinality(Holders(f, v)) + Is(g[w], v) - Is(f[w], v)
<1> DEFINE S == Holders(f, v)
           T == Holders(g, v)
<1>1. IsFiniteSet(S) /\ IsFiniteSet(T)
  <2>1. S \subseteq Workers /\ T \subseteq Workers
      BY DEF Holders
  <2> QED BY <2>1, FS_Subset, RefAssumption
<1>2. (w \in S <=> f[w] = v) /\ (w \in T <=> g[w] = v) /\ S \ {w} = T \ {w}
    BY DEF Holders
<1> HIDE DEF S, T
<1>3. Cardinality(S) \in Nat /\ Cardinality(T) \in Nat
    BY <1>1, CountOne
<1>4. g[w] = v /\ f[w] = v => S = T
    BY <1>2
<1>5. g[w] # v /\ f[w] # v => S = T
    BY <1>2
<1>6. g[w] = v /\ f[w] # v => T = S \cup {w} /\ w \notin S
    BY <1>2
<1>7. g[w] # v /\ f[w] = v => T = S \ {w} /\ w \in S
    BY <1>2
<1>8. /\ w \notin S /\ T = S \cup {w} => Cardinality(T) = Cardinality(S) + 1
      /\ w \in S /\ T = S \ {w} => Cardinality(T) = Cardinality(S) - 1
    BY <1>1, CountOne
<1>9. Cardinality(T) = Cardinality(S) + Is(g[w], v) - Is(f[w], v)
    BY <1>3, <1>4, <1>5, <1>6, <1>7, <1>8 DEF Is
<1> QED BY <1>3, <1>9 DEF S, T

\* A worker's step changes its two pointers, a count of parked sessions and busy.
PointersType(f) == f \in [Workers -> Vcls \cup {NULL}]
OnlyAt(w, f, g) == \A u \in Workers \ {w} : g[u] = f[u]
Gain(w, v) == Is(wvcl'[w], v) - Is(wvcl[w], v) + Is(svcl'[w], v) - Is(svcl[w], v)

LEMMA RefsMoved ==
    ASSUME TypeInv, VclRefsExact, NEW w \in Workers,
           PointersType(wvcl'), OnlyAt(w, wvcl, wvcl'),
           PointersType(svcl'), OnlyAt(w, svcl, svcl'),
           parked' \in [Vcls -> Nat], busy' \in [Vcls -> Int],
           \A v \in Vcls : busy'[v] - parked'[v] = busy[v] - parked[v] + Gain(w, v)
    PROVE  VclRefsExact' /\ busy' \in [Vcls -> Nat]
<1> SUFFICES ASSUME NEW v \in Vcls
             PROVE  /\ busy'[v] = Cardinality(Holders(wvcl', v)) + Cardinality(Holders(svcl', v))
                                  + parked'[v]
                    /\ busy'[v] \in Nat
    BY DEF VclRefsExact, Holders
<1>0. \A f, g \in [Workers -> Vcls \cup {NULL}] :
         (\A u \in Workers \ {w} : g[u] = f[u]) =>
           /\ Cardinality(Holders(f, v)) \in Nat /\ Cardinality(Holders(g, v)) \in Nat
           /\ Cardinality(Holders(g, v)) = Cardinality(Holders(f, v)) + Is(g[w], v) - Is(f[w], v)
    BY CountMoved
<1>1. /\ Cardinality(Holders(wvcl, v)) \in Nat /\ Cardinality(Holders(wvcl', v)) \in Nat
      /\ Cardinality(Holders(wvcl', v)) = Cardinality(Holders(wvcl, v))
                                          + Is(wvcl'[w], v) - Is(wvcl[w], v)
    BY <1>0 DEF TypeInv, PointersType, OnlyAt
<1>2. /\ Cardinality(Holders(svcl, v)) \in Nat /\ Cardinality(Holders(svcl', v)) \in Nat
      /\ Cardinality(Holders(svcl', v)) = Cardinality(Holders(svcl, v))
                                          + Is(svcl'[w], v) - Is(svcl[w], v)
    BY <1>0 DEF TypeInv, PointersType, OnlyAt
<1>3. busy[v] = Cardinality(Holders(wvcl, v)) + Cardinality(Holders(svcl, v)) + parked[v]
    BY DEF VclRefsExact, Holders
<1>4. busy[v] \in Nat /\ parked[v] \in Nat /\ parked'[v] \in Nat /\ busy'[v] \in Int
    BY DEF TypeInv
<1>5. /\ Is(wvcl'[w], v) \in Int /\ Is(svcl'[w], v) \in Int
      /\ Is(wvcl[w], v) \in Int /\ Is(svcl[w], v) \in Int
    BY DEF Is
<1>6. busy'[v] - parked'[v] = busy[v] - parked[v]
        + (Is(wvcl'[w], v) - Is(wvcl[w], v) + Is(svcl'[w], v) - Is(svcl[w], v))
    BY DEF Gain
<1> QED BY <1>1, <1>2, <1>3, <1>4, <1>5, <1>6

-----------------------------------------------------------------------------
(***************************************************************************)
(* Workers and their references.                                           *)
(***************************************************************************)
\* What every action of a worker does to the references; only an active VCL gains any.
Balanced(w) ==
    /\ PointersType(wvcl') /\ OnlyAt(w, wvcl, wvcl')
    /\ PointersType(svcl') /\ OnlyAt(w, svcl, svcl')
    /\ wpc' \in [Workers -> {"idle", "get", "run"}] /\ OnlyAt(w, wpc, wpc')
    /\ svcl'[w] # NULL <=> wpc'[w] = "run"
    /\ parked' \in [Vcls -> Nat] /\ busy' \in [Vcls -> Int]
    /\ \A v \in Vcls : busy'[v] - parked'[v] = busy[v] - parked[v] + Gain(w, v)
    /\ \A v \in Vcls : v = vcl_active \/ busy'[v] <= busy[v]
    /\ UNCHANGED listVars

LEMMA WorkerBalanced ==
    ASSUME TypeInv, RefInv, NEW w \in Workers, RefStep(w) \/ cnt_done(w)
    PROVE  Balanced(w)
<1> USE RefAssumption
<1>0. /\ wvcl \in [Workers -> Vcls \cup {NULL}] /\ svcl \in [Workers -> Vcls \cup {NULL}]
      /\ wpc \in [Workers -> {"idle", "get", "run"}]
      /\ parked \in [Vcls -> Nat] /\ busy \in [Vcls -> Nat] /\ vcl_active \in Vcls \cup {NULL}
      /\ svcl[w] # NULL <=> wpc[w] = "run"
    BY DEF TypeInv, RefInv
<1>1. CASE VCL_Refresh_same(w)
    BY <1>0, <1>1 DEF VCL_Refresh_same, Balanced, PointersType, OnlyAt, Gain, Is, listVars
<1>2. CASE VCL_Refresh_rel(w)
    BY <1>0, <1>2 DEF VCL_Refresh_rel, VCL_Rel, Balanced, PointersType, OnlyAt, Gain, Is, listVars
<1>3. CASE VCL_Get(w)
    BY <1>0, <1>3 DEF VCL_Get, Balanced, PointersType, OnlyAt, Gain, Is, listVars
<1>4. CASE HSH_Lookup_park(w)
  <2>1. /\ wpc[w] = "run" /\ svcl[w] \in Vcls
        /\ parked' = [parked EXCEPT ![svcl[w]] = @ + 1] /\ svcl' = [svcl EXCEPT ![w] = NULL]
        /\ wpc' = [wpc EXCEPT ![w] = "idle"] /\ UNCHANGED <<listVars, busy, wvcl>>
      BY <1>0, <1>4 DEF HSH_Lookup_park
  <2> QED BY <1>0, <2>1 DEF Balanced, PointersType, OnlyAt, Gain, Is, listVars
<1>5. CASE wrk_thread_end(w)
    BY <1>0, <1>5 DEF wrk_thread_end, VCL_Rel, Balanced, PointersType, OnlyAt, Gain, Is, listVars
<1>6. CASE \E v \in Vcls : Resume(w, v)
    BY <1>0, <1>6 DEF Resume, Balanced, PointersType, OnlyAt, Gain, Is, listVars
<1>7. CASE cnt_done(w)
    BY <1>0, <1>7 DEF cnt_done, VCL_Rel, Balanced, PointersType, OnlyAt, Gain, Is, listVars
<1> QED BY <1>1, <1>2, <1>3, <1>4, <1>5, <1>6, <1>7 DEF RefStep

\* The parts of the invariant that the references have no part in.
LEMMA BackendFrame ==
    ASSUME IInv, UNCHANGED <<listVars, beVars>>
    PROVE  CliInv' /\ DirInv' /\ BackendRefsExact' /\ ProbeInv' /\ UnprobedHealthy'
<1>1. /\ UNCHANGED <<vcl_head, vcl, vcl_active>>
      /\ UNCHANGED <<be, director, vbc, getfd, vt, cli, panic, lost>>
    BY DEF listVars, beVars
<1>2. CliInv'
    BY <1>1 DEF IInv, CliInv, Doomed, Listed
<1>3. DirInv'
    BY <1>1 DEF IInv, DirInv, Doomed, Listed
<1>4. BackendRefsExact'
    BY <1>1 DEF IInv, BackendRefsExact, Using
<1>5. ProbeInv'
    BY <1>1 DEF IInv, ProbeInv, Unlinked, Doomed
<1>6. UnprobedHealthy'
    BY <1>1 DEF IInv, UnprobedHealthy
<1> QED BY <1>2, <1>3, <1>4, <1>5, <1>6

LEMMA WorkerStep ==
    ASSUME IInv, NEW w \in Workers, WorkerRef(w)
    PROVE  IInv'
<1>0. TypeInv /\ RefInv /\ ConnInv /\ VclRefsExact
    BY DEF IInv, RefInv
<1>1. Balanced(w) /\ UNCHANGED beVars /\ NoConn(w)
    BY <1>0, WorkerBalanced DEF WorkerRef
<1>2. UNCHANGED listVars
    BY <1>1 DEF Balanced
<1>3. UNCHANGED <<vcl_head, vcl, vcl_active>>
    BY <1>2 DEF listVars
<1>4. UNCHANGED <<be, director, vbc, getfd, vt, cli, panic, lost>>
    BY <1>1 DEF beVars
<1>5. VclRefsExact' /\ busy' \in [Vcls -> Nat]
  <2>1. /\ PointersType(wvcl') /\ OnlyAt(w, wvcl, wvcl')
        /\ PointersType(svcl') /\ OnlyAt(w, svcl, svcl')
        /\ parked' \in [Vcls -> Nat] /\ busy' \in [Vcls -> Int]
        /\ \A v \in Vcls : busy'[v] - parked'[v] = busy[v] - parked[v] + Gain(w, v)
      BY <1>1 DEF Balanced
  <2> QED BY <1>0, <2>1, RefsMoved
<1>6. TypeInv'
  <2>1. /\ wvcl' \in [Workers -> Vcls \cup {NULL}] /\ svcl' \in [Workers -> Vcls \cup {NULL}]
        /\ wpc' \in [Workers -> {"idle", "get", "run"}] /\ parked' \in [Vcls -> Nat]
      BY <1>1 DEF Balanced, PointersType
  <2> QED BY <1>0, <1>3, <1>4, <1>5, <2>1 DEF TypeInv
<1>7. RefInv'
  <2>1. \A u \in Workers : svcl'[u] # NULL <=> wpc'[u] = "run"
    <3>1. \A u \in Workers \ {w} : svcl'[u] = svcl[u] /\ wpc'[u] = wpc[u]
        BY <1>1 DEF Balanced, OnlyAt
    <3>2. svcl'[w] # NULL <=> wpc'[w] = "run"
        BY <1>1 DEF Balanced
    <3> QED BY <1>0, <3>1, <3>2 DEF RefInv
  <2>2. \A v \in Vcls \ Listed : busy'[v] = 0
    <3> SUFFICES ASSUME NEW v \in Vcls, v \notin Listed PROVE busy'[v] = 0
        OBVIOUS
    <3>1. busy[v] = 0 /\ v # vcl_active
        BY <1>0, RefAssumption DEF RefInv, Listed
    <3>2. busy'[v] <= busy[v] /\ busy'[v] \in Nat
        BY <1>1, <1>5, <3>1 DEF Balanced
    <3> QED BY <3>1, <3>2
  <2>3. /\ Listed' = Listed
        /\ vcl_active' # NULL => vcl'[vcl_active'] = "avail"
        /\ Distinct(vcl_head') /\ Range(vcl_head') = Listed'
      BY <1>0, <1>3 DEF RefInv, Listed
  <2> QED BY <1>5, <2>1, <2>2, <2>3 DEF RefInv
<1>8. ConnInv'
  <2>1. \A u \in Workers \ {w} : svcl'[u] = svcl[u]
      BY <1>1 DEF Balanced, OnlyAt
  <2>2. vbc[w] = NULL /\ getfd[w].pc = "none"
      BY <1>1 DEF NoConn, NoGet
  <2> QED BY <1>0, <1>4, <2>1, <2>2 DEF ConnInv
<1> QED BY <1>1, <1>2, <1>5, <1>6, <1>7, <1>8, BackendFrame DEF IInv

\* A session that is dropped from a full queue gives its reference up.
LEMMA QueueDropStep ==
    ASSUME IInv, NEW v \in Vcls, WRK_QueueSession_drop(v), UNCHANGED beVars
    PROVE  IInv'
<1>0. TypeInv /\ RefInv /\ ConnInv /\ VclRefsExact
    BY DEF IInv, RefInv
<1>1. /\ parked[v] > 0 /\ parked' = [parked EXCEPT ![v] = @ - 1]
      /\ busy' = [busy EXCEPT ![v] = @ - 1] /\ UNCHANGED <<listVars, wvcl, svcl, wpc>>
    BY DEF WRK_QueueSession_drop, VCL_Rel
<1>2. UNCHANGED <<vcl_head, vcl, vcl_active, wvcl, svcl, wpc>>
    BY <1>1 DEF listVars
<1>3. UNCHANGED <<be, director, vbc, getfd, vt, cli, panic, lost>>
    BY DEF beVars
<1>4. busy \in [Vcls -> Nat] /\ parked \in [Vcls -> Nat]
    BY <1>0 DEF TypeInv
<1>5. VclRefsExact' /\ busy' \in [Vcls -> Nat]
  <2> SUFFICES ASSUME NEW x \in Vcls
               PROVE  /\ busy'[x] = Cardinality(Holders(wvcl, x)) + Cardinality(Holders(svcl, x))
                                    + parked'[x]
                      /\ busy'[x] \in Nat
      BY <1>1, <1>2, <1>4 DEF VclRefsExact, Holders
  <2>1. busy[x] = Cardinality(Holders(wvcl, x)) + Cardinality(Holders(svcl, x)) + parked[x]
      BY <1>0 DEF VclRefsExact, Holders
  <2>2. Cardinality(Holders(wvcl, x)) \in Nat /\ Cardinality(Holders(svcl, x)) \in Nat
    <3>1. Holders(wvcl, x) \subseteq Workers /\ Holders(svcl, x) \subseteq Workers
        BY DEF Holders
    <3> QED BY <3>1, FS_Subset, FS_CardinalityType, RefAssumption
  <2> QED BY <1>1, <1>4, <2>1, <2>2
<1>6. parked' \in [Vcls -> Nat]
    BY <1>1, <1>4
<1>7. TypeInv'
    BY <1>0, <1>2, <1>3, <1>5, <1>6 DEF TypeInv
<1>8. RefInv'
  <2>1. \A x \in Vcls \ Listed : busy'[x] = 0
    <3> SUFFICES ASSUME NEW x \in Vcls, x \notin Listed PROVE busy'[x] = 0
        OBVIOUS
    <3>1. busy[x] = 0 /\ busy'[x] \in Nat
        BY <1>0, <1>5 DEF RefInv
    <3> QED BY <1>1, <1>4, <3>1
  <2>2. Listed' = Listed
      BY <1>2 DEF Listed
  <2> QED BY <1>0, <1>2, <1>5, <2>1, <2>2 DEF RefInv
<1>9. ConnInv'
    BY <1>0, <1>2, <1>3 DEF ConnInv
<1> QED BY <1>1, <1>5, <1>7, <1>8, <1>9, BackendFrame DEF IInv

-----------------------------------------------------------------------------
(***************************************************************************)
(* Connections.                                                            *)
(***************************************************************************)
\* The counts of a backend after one worker has begun or stopped to use it.
UsingOf(c, g, b) == {u \in Workers : c[u] = b \/ (g[u].b = b /\ g[u].pc \in {"check", "connect"})}
Uses1(w, c, g, b) == IF w \in UsingOf(c, g, b) THEN 1 ELSE 0

LEMMA UsingMoved ==
    ASSUME NEW w \in Workers, NEW b,
           OnlyAt(w, vbc, vbc'), OnlyAt(w, getfd, getfd')
    PROVE  /\ Cardinality(Using(b)) \in Nat /\ Cardinality(Using(b)') \in Nat
           /\ Cardinality(Using(b)') = Cardinality(Using(b))
                + Uses1(w, vbc', getfd', b) - Uses1(w, vbc, getfd, b)
<1> DEFINE S == UsingOf(vbc, getfd, b)
           T == UsingOf(vbc', getfd', b)
<1>1. IsFiniteSet(S) /\ IsFiniteSet(T)
  <2>1. S \subseteq Workers /\ T \subseteq Workers
      BY DEF UsingOf
  <2> QED BY <2>1, FS_Subset, RefAssumption
<1>2. S \ {w} = T \ {w}
    BY DEF UsingOf, OnlyAt
<1>3. Uses1(w, vbc, getfd, b) = (IF w \in S THEN 1 ELSE 0)
      /\ Uses1(w, vbc', getfd', b) = (IF w \in T THEN 1 ELSE 0)
    BY DEF Uses1
<1>4. Using(b) = S /\ Using(b)' = T
    BY DEF Using, UsingOf
<1> HIDE DEF S, T
<1>5. /\ Cardinality(S) \in Nat /\ Cardinality(T) \in Nat
      /\ w \notin S /\ T = S \cup {w} => Cardinality(T) = Cardinality(S) + 1
      /\ w \in S /\ T = S \ {w} => Cardinality(T) = Cardinality(S) - 1
    BY <1>1, CountOne
<1>6. /\ w \in S /\ w \in T => S = T
      /\ w \notin S /\ w \notin T => S = T
      /\ w \notin S /\ w \in T => T = S \cup {w}
      /\ w \in S /\ w \notin T => T = S \ {w}
    BY <1>2
<1> QED BY <1>3, <1>4, <1>5, <1>6

\* A program that anybody holds is on the list.
LEMMA HeldIsListed ==
    ASSUME IInv, NEW v \in Vcls, \E w \in Workers : v \in {wvcl[w], svcl[w]}
    PROVE  v \in Listed
<1>1. PICK w \in Workers : v \in {wvcl[w], svcl[w]}
    OBVIOUS
<1>2. IsFiniteSet(Holders(wvcl, v)) /\ IsFiniteSet(Holders(svcl, v))
  <2>1. Holders(wvcl, v) \subseteq Workers /\ Holders(svcl, v) \subseteq Workers
      BY DEF Holders
  <2> QED BY <2>1, FS_Subset, RefAssumption
<1>3. /\ Cardinality(Holders(wvcl, v)) \in Nat /\ Cardinality(Holders(svcl, v)) \in Nat
      /\ w \in Holders(wvcl, v) => Cardinality(Holders(wvcl, v)) >= 1
      /\ w \in Holders(svcl, v) => Cardinality(Holders(svcl, v)) >= 1
    BY <1>2, CountOne
<1>4. w \in Holders(wvcl, v) \/ w \in Holders(svcl, v)
    BY <1>1 DEF Holders
<1>5. /\ busy[v] = Cardinality(Holders(wvcl, v)) + Cardinality(Holders(svcl, v)) + parked[v]
      /\ parked[v] \in Nat /\ busy[v] \in Nat
  <2>1. VclRefsExact /\ parked \in [Vcls -> Nat] /\ busy \in [Vcls -> Nat]
      BY DEF IInv, RefInv, TypeInv
  <2> QED BY <2>1 DEF VclRefsExact, Holders
<1>6. Cardinality(Holders(wvcl, v)) >= 1 \/ Cardinality(Holders(svcl, v)) >= 1
    BY <1>3, <1>4
<1>7. busy[v] >= 1
    BY <1>3, <1>5, <1>6
<1> QED BY <1>5, <1>7 DEF IInv, RefInv

\* A listed program has a director for each of its backends, which therefore exist.
Directing(b) == {v \in Vcls : b \in director[v]}

LEMMA DirectingCount ==
    ASSUME NEW b
    PROVE  /\ IsFiniteSet(Directing(b)) /\ Cardinality(Directing(b)) \in Nat
           /\ \A v \in Directing(b) : Cardinality(Directing(b)) >= 1
<1>1. IsFiniteSet(Directing(b))
  <2>1. Directing(b) \subseteq Vcls
      BY DEF Directing
  <2> QED BY <2>1, FS_Subset, RefAssumption
<1> QED BY <1>1, CountOne

LEMMA UsingCount ==
    ASSUME NEW b
    PROVE  Cardinality(Using(b)) \in Nat
<1>1. Using(b) \subseteq Workers
    BY DEF Using
<1> QED BY <1>1, FS_Subset, FS_CardinalityType, RefAssumption

LEMMA DirectedIsAlive ==
    ASSUME TypeInv, BackendRefsExact, NEW v \in Vcls, NEW b \in director[v] \ lost
    PROVE  /\ Cardinality(Directing(b)) >= 1
           /\ be[b].alive /\ be[b].refcount >= 1
<1>1. b \in Backends /\ v \in Directing(b)
    BY DEF TypeInv, Directing
<1>2. Cardinality(Directing(b)) \in Nat /\ Cardinality(Directing(b)) >= 1
    BY <1>1, DirectingCount
<1>3. Cardinality(Using(b)) \in Nat
    BY UsingCount
<1>4. /\ be[b].refcount = Cardinality(Directing(b)) + Cardinality(Using(b))
      /\ be[b].alive <=> be[b].refcount > 0
    BY <1>1 DEF BackendRefsExact, Directing
<1>5. be[b].alive \in BOOLEAN
    BY <1>1 DEF TypeInv, Struct
<1> QED BY <1>2, <1>3, <1>4, <1>5

LEMMA HostIsAlive ==
    ASSUME IInv, NEW v \in Listed, NEW b \in Range(Uses[v]) \ lost
    PROVE  /\ b \in Backends /\ Cardinality(Directing(b)) >= 1
           /\ be[b].alive /\ be[b].refcount >= 1
<1>1. v \in Vcls /\ director[v] = Range(Uses[v])
    BY DEF Listed, IInv, DirInv
<1>2. b \in director[v] \ lost
    BY <1>1
<1>3. b \in Backends
    BY <1>1, <1>2 DEF IInv, TypeInv
<1> QED BY <1>1, <1>2, <1>3, DirectedIsAlive DEF IInv

\* What every step of a worker with its connection does to its pointers and to the counts of
\* the backends.
ConnOf(w) ==
    /\ vbc' \in [Workers -> Backends \cup {NULL}] /\ OnlyAt(w, vbc, vbc')
    /\ getfd' \in [Workers -> Getting] /\ OnlyAt(w, getfd, getfd')
    /\ vbc'[w] # NULL => /\ svcl[w] # NULL /\ vbc'[w] \in Hosts[svcl[w]]
                         /\ getfd'[w].pc = "none"
    /\ getfd'[w].pc # "none" => svcl[w] # NULL /\ getfd'[w].b \in Hosts[svcl[w]]
CountsOf(w) ==
    /\ be' \in [Backends -> Struct]
    /\ \A b \in Backends :
         /\ be'[b].alive = be[b].alive /\ be'[b].healthy = be[b].healthy
         /\ be'[b].refcount = be[b].refcount
                + (Uses1(w, vbc', getfd', b) - Uses1(w, vbc, getfd, b))
         /\ be'[b].n_conn - be'[b].idle = be[b].n_conn - be[b].idle
                + (Uses1(w, vbc', getfd', b) - Uses1(w, vbc, getfd, b))
Counted(w) ==
    /\ ConnOf(w) /\ CountsOf(w) /\ panic' \in BOOLEAN
    /\ UNCHANGED <<refVars, director, vt, cli, lost>>

LEMMA CountsSame ==
    ASSUME TypeInv, NEW w \in Workers, be' = be,
           \A b \in Backends : Uses1(w, vbc', getfd', b) = Uses1(w, vbc, getfd, b)
    PROVE  CountsOf(w)
<1>1. be \in [Backends -> Struct]
    BY DEF TypeInv
<1>2. ASSUME NEW x \in Backends
      PROVE  /\ be'[x].refcount = be[x].refcount
                    + (Uses1(w, vbc', getfd', x) - Uses1(w, vbc, getfd, x))
             /\ be'[x].n_conn - be'[x].idle = be[x].n_conn - be[x].idle
                    + (Uses1(w, vbc', getfd', x) - Uses1(w, vbc, getfd, x))
  <2>1. Uses1(w, vbc, getfd, x) \in Int
      BY DEF Uses1
  <2>2. be[x].refcount \in Int /\ be[x].n_conn \in Int /\ be[x].idle \in Int
      BY <1>1 DEF Struct
  <2> QED BY <2>1, <2>2
<1> QED BY <1>1, <1>2 DEF CountsOf

Adjusted(r, old, d) ==
    /\ r \in Struct /\ r.alive = old.alive /\ r.healthy = old.healthy
    /\ r.refcount = old.refcount + d
    /\ r.n_conn - r.idle = old.n_conn - old.idle + d

\* The four adjustments: a connection is taken over, made, closed, or recycled.
LEMMA Adjustments ==
    ASSUME NEW o \in Struct
    PROVE  /\ o.idle > 0 => Adjusted([o EXCEPT !.idle = @ - 1, !.refcount = @ + 1], o, 1 - 0)
           /\ Adjusted([o EXCEPT !.refcount = @ + 1, !.n_conn = @ + 1], o, 1 - 0)
           /\ Adjusted([o EXCEPT !.n_conn = @ - 1, !.refcount = @ - 1], o, 0 - 1)
           /\ Adjusted([o EXCEPT !.idle = @ + 1, !.refcount = @ - 1], o, 0 - 1)
<1>0. o.refcount \in Int /\ o.n_conn \in Int /\ o.idle \in Nat
    BY DEF Struct
<1>1. ASSUME o.idle > 0 PROVE Adjusted([o EXCEPT !.idle = @ - 1, !.refcount = @ + 1], o, 1 - 0)
  <2> DEFINE x == o.idle - 1
             y == o.refcount + 1
             r == [o EXCEPT !.idle = x, !.refcount = y]
  <2>1. x \in Nat /\ y \in Int
      BY <1>0, <1>1
  <2> HIDE DEF x, y
  <2>2. /\ r \in Struct /\ r.alive = o.alive /\ r.healthy = o.healthy
        /\ r.idle = x /\ r.refcount = y
        /\ r.n_conn = o.n_conn
      BY <2>1 DEF Struct
  <2> HIDE DEF r
  <2>3. Adjusted(r, o, 1 - 0)
      BY <1>0, <2>2 DEF Adjusted, x, y
  <2> QED BY <2>3 DEF r, x, y
<1>2. Adjusted([o EXCEPT !.refcount = @ + 1, !.n_conn = @ + 1], o, 1 - 0)
  <2> DEFINE x == o.refcount + 1
             y == o.n_conn + 1
             r == [o EXCEPT !.refcount = x, !.n_conn = y]
  <2>1. x \in Int /\ y \in Int
      BY <1>0
  <2> HIDE DEF x, y
  <2>2. /\ r \in Struct /\ r.alive = o.alive /\ r.healthy = o.healthy
        /\ r.refcount = x /\ r.n_conn = y
        /\ r.idle = o.idle
      BY <2>1 DEF Struct
  <2> HIDE DEF r
  <2>3. Adjusted(r, o, 1 - 0)
      BY <1>0, <2>2 DEF Adjusted, x, y
  <2> QED BY <2>3 DEF r, x, y
<1>3. Adjusted([o EXCEPT !.n_conn = @ - 1, !.refcount = @ - 1], o, 0 - 1)
  <2> DEFINE x == o.n_conn - 1
             y == o.refcount - 1
             r == [o EXCEPT !.n_conn = x, !.refcount = y]
  <2>1. x \in Int /\ y \in Int
      BY <1>0
  <2> HIDE DEF x, y
  <2>2. /\ r \in Struct /\ r.alive = o.alive /\ r.healthy = o.healthy
        /\ r.n_conn = x /\ r.refcount = y
        /\ r.idle = o.idle
      BY <2>1 DEF Struct
  <2> HIDE DEF r
  <2>3. Adjusted(r, o, 0 - 1)
      BY <1>0, <2>2 DEF Adjusted, x, y
  <2> QED BY <2>3 DEF r, x, y
<1>4. Adjusted([o EXCEPT !.idle = @ + 1, !.refcount = @ - 1], o, 0 - 1)
  <2> DEFINE x == o.idle + 1
             y == o.refcount - 1
             r == [o EXCEPT !.idle = x, !.refcount = y]
  <2>1. x \in Nat /\ y \in Int
      BY <1>0
  <2> HIDE DEF x, y
  <2>2. /\ r \in Struct /\ r.alive = o.alive /\ r.healthy = o.healthy
        /\ r.idle = x /\ r.refcount = y
        /\ r.n_conn = o.n_conn
      BY <2>1 DEF Struct
  <2> HIDE DEF r
  <2>3. Adjusted(r, o, 0 - 1)
      BY <1>0, <2>2 DEF Adjusted, x, y
  <2> QED BY <2>3 DEF r, x, y
<1> QED BY <1>1, <1>2, <1>3, <1>4

LEMMA CountsMoved ==
    ASSUME TypeInv, NEW w \in Workers, NEW b \in Backends, NEW r,
           be' = [be EXCEPT ![b] = r], Adjusted(r, be[b], Uses1(w, vbc', getfd', b)
                                                          - Uses1(w, vbc, getfd, b)),
           \A x \in Backends \ {b} : Uses1(w, vbc', getfd', x) = Uses1(w, vbc, getfd, x)
    PROVE  CountsOf(w)
<1>1. be \in [Backends -> Struct]
    BY DEF TypeInv
<1>2. ASSUME NEW x \in Backends
      PROVE  /\ be'[x].refcount = be[x].refcount
                    + (Uses1(w, vbc', getfd', x) - Uses1(w, vbc, getfd, x))
             /\ be'[x].n_conn - be'[x].idle = be[x].n_conn - be[x].idle
                    + (Uses1(w, vbc', getfd', x) - Uses1(w, vbc, getfd, x))
  <2>1. Uses1(w, vbc, getfd, x) \in Int
      BY DEF Uses1
  <2>2. be[x].refcount \in Int /\ be[x].n_conn \in Int /\ be[x].idle \in Int
      BY <1>1 DEF Struct
  <2>3. CASE x = b
    <3>1. be'[x] = r
        BY <1>1, <2>3
    <3> QED BY <2>3, <3>1 DEF Adjusted
  <2>4. CASE x # b
    <3>1. be'[x] = be[x]
        BY <1>1, <2>4
    <3>2. Uses1(w, vbc', getfd', x) = Uses1(w, vbc, getfd, x)
        BY <2>4
    <3> QED BY <2>1, <2>2, <3>1, <3>2
  <2> QED BY <2>3, <2>4
<1>3. be' \in [Backends -> Struct]
    BY <1>1 DEF Adjusted
<1>4. \A x \in Backends : be'[x].alive = be[x].alive /\ be'[x].healthy = be[x].healthy
    BY <1>1 DEF Adjusted
<1> QED BY <1>2, <1>3, <1>4 DEF CountsOf

LEMMA ConnCounted ==
    ASSUME TypeInv, ConnInv, RefInv, NEW w \in Workers, ConnStep(w)
    PROVE  Counted(w)
<1> USE RefAssumption, BackendAssumption
<1>0. /\ vbc \in [Workers -> Backends \cup {NULL}] /\ getfd \in [Workers -> Getting]
      /\ be \in [Backends -> Struct] /\ panic \in BOOLEAN
      /\ svcl[w] # NULL <=> wpc[w] = "run" /\ svcl[w] \in Vcls \cup {NULL}
      /\ vbc[w] # NULL => /\ svcl[w] # NULL /\ vbc[w] \in Hosts[svcl[w]]
                          /\ getfd[w].pc = "none"
      /\ getfd[w].pc # "none" => svcl[w] # NULL /\ getfd[w].b \in Hosts[svcl[w]]
    BY DEF TypeInv, ConnInv, RefInv
<1> DEFINE b0 == getfd[w].b
           Try(pc) == getfd' = [getfd EXCEPT ![w] = [pc |-> pc, b |-> b0]]
           Done == getfd' = [getfd EXCEPT ![w] = NoGet]
           Rest == UNCHANGED <<refVars, director, vt, cli, lost>>
<1>a. getfd[w].pc # "none" => b0 \in Backends /\ vbc[w] = NULL
    BY <1>0 DEF Getting
<1>b. getfd[w].pc = "none" => b0 = NULL
    BY <1>0 DEF Getting
<1>c. \A b \in Backends : Uses1(w, vbc, getfd, b) =
          IF vbc[w] = b \/ (b0 = b /\ getfd[w].pc \in {"check", "connect"}) THEN 1 ELSE 0
    BY DEF Uses1, UsingOf
<1>d. \A b \in Backends : Uses1(w, vbc', getfd', b) =
          IF vbc'[w] = b \/ (getfd'[w].b = b /\ getfd'[w].pc \in {"check", "connect"}) THEN 1 ELSE 0
    BY DEF Uses1, UsingOf
<1>e. \A b \in Backends : be[b] \in Struct
    BY <1>0
<1>1. CASE \E b \in Backends : VDI_GetFd(w, b)
  <2>1. PICK b \in Backends : VDI_GetFd(w, b)
      BY <1>1
  <2>2. /\ vbc[w] = NULL /\ getfd[w].pc = "none" /\ svcl[w] # NULL /\ b \in Hosts[svcl[w]]
        /\ getfd' = [getfd EXCEPT ![w] = [pc |-> "pop", b |-> b]]
        /\ UNCHANGED <<refVars, director, be, vbc, vt, cli, panic, lost>>
      BY <1>0, <2>1 DEF VDI_GetFd, NoConn, NoGet, Get
  <2>3. getfd' \in [Workers -> Getting] /\ getfd'[w] = [pc |-> "pop", b |-> b]
        /\ OnlyAt(w, getfd, getfd')
      BY <1>0, <2>2 DEF Getting, OnlyAt
  <2>4. ConnOf(w)
      BY <1>0, <2>2, <2>3 DEF ConnOf, OnlyAt
  <2>5. \A x \in Backends : Uses1(w, vbc', getfd', x) = Uses1(w, vbc, getfd, x)
      BY <1>b, <1>c, <1>d, <2>2, <2>3
  <2> QED BY <1>0, <2>2, <2>4, <2>5, CountsSame DEF Counted
\* A worker within vbe_GetVbe: it goes on with its backend, or ends with a connection or none.
<1>2. ASSUME getfd[w].pc # "none", NEW pc \in {"pop", "check", "new", "try", "connect"},
             Try(pc), vbc' = vbc
      PROVE  /\ ConnOf(w) /\ b0 \in Backends
             /\ \A x \in Backends \ {b0} : Uses1(w, vbc', getfd', x) = Uses1(w, vbc, getfd, x)
             /\ Uses1(w, vbc, getfd, b0) = IF getfd[w].pc \in {"check", "connect"} THEN 1 ELSE 0
             /\ Uses1(w, vbc', getfd', b0) = IF pc \in {"check", "connect"} THEN 1 ELSE 0
  <2>1. getfd' \in [Workers -> Getting] /\ getfd'[w] = [pc |-> pc, b |-> b0]
        /\ OnlyAt(w, getfd, getfd') /\ OnlyAt(w, vbc, vbc')
      BY <1>0, <1>a, <1>2 DEF Getting, OnlyAt
  <2>2. ConnOf(w)
      BY <1>0, <1>a, <1>2, <2>1 DEF ConnOf
  <2> QED BY <1>a, <1>c, <1>d, <1>2, <2>1, <2>2, ZenonT(40)
<1>3. ASSUME getfd[w].pc # "none", Done,
             vbc' = vbc \/ vbc' = [vbc EXCEPT ![w] = b0]
      PROVE  /\ ConnOf(w) /\ b0 \in Backends
             /\ \A x \in Backends \ {b0} : Uses1(w, vbc', getfd', x) = Uses1(w, vbc, getfd, x)
             /\ Uses1(w, vbc, getfd, b0) = IF getfd[w].pc \in {"check", "connect"} THEN 1 ELSE 0
             /\ Uses1(w, vbc', getfd', b0) = IF vbc' = vbc THEN 0 ELSE 1
  <2>1. getfd' \in [Workers -> Getting] /\ getfd'[w].pc = "none" /\ getfd'[w].b = NULL
        /\ OnlyAt(w, getfd, getfd')
      BY <1>0, <1>3 DEF Getting, OnlyAt, NoGet
  <2>2. b0 \in Backends /\ vbc[w] = NULL
      BY <1>a, <1>3
  <2>3. /\ vbc' \in [Workers -> Backends \cup {NULL}] /\ OnlyAt(w, vbc, vbc')
        /\ vbc'[w] = IF vbc' = vbc THEN NULL ELSE b0
      BY <1>0, <1>3, <2>2 DEF OnlyAt
  <2>4. ConnOf(w)
      BY <1>0, <1>3, <2>1, <2>2, <2>3 DEF ConnOf
  <2> QED BY <1>c, <1>d, <2>1, <2>2, <2>3, <2>4
\* A session that has a connection gives it back.
<1>4. ASSUME vbc[w] # NULL, vbc' = [vbc EXCEPT ![w] = NULL], getfd' = getfd
      PROVE  /\ ConnOf(w) /\ vbc[w] \in Backends
             /\ \A x \in Backends \ {vbc[w]} : Uses1(w, vbc', getfd', x) = Uses1(w, vbc, getfd, x)
             /\ Uses1(w, vbc, getfd, vbc[w]) = 1
             /\ Uses1(w, vbc', getfd', vbc[w]) = 0
  <2>1. /\ vbc' \in [Workers -> Backends \cup {NULL}] /\ OnlyAt(w, vbc, vbc')
        /\ vbc'[w] = NULL /\ getfd[w].pc = "none" /\ OnlyAt(w, getfd, getfd')
        /\ vbc[w] \in Backends
      BY <1>0, <1>4 DEF OnlyAt
  <2>2. ConnOf(w)
      BY <1>0, <1>4, <2>1 DEF ConnOf
  <2> QED BY <1>b, <1>c, <1>d, <1>4, <2>1, <2>2
<1>5. CASE vbe_GetVbe_pop(w)
  <2>1. /\ getfd[w].pc = "pop" /\ Rest /\ vbc' = vbc /\ panic' = panic
        /\ \/ /\ be[b0].idle > 0 /\ Try("check")
              /\ be' = [be EXCEPT ![b0].idle = @ - 1, ![b0].refcount = @ + 1]
           \/ be' = be /\ Try("new")
      BY <1>5 DEF vbe_GetVbe_pop, Get
  <2>2. CASE be' = be /\ Try("new")
    <3>1. ConnOf(w) /\ \A x \in Backends : Uses1(w, vbc', getfd', x) = Uses1(w, vbc, getfd, x)
        BY <1>2, <2>1, <2>2
    <3> QED BY <1>0, <2>1, <2>2, <3>1, CountsSame DEF Counted
  <2>3. CASE /\ be[b0].idle > 0 /\ Try("check")
             /\ be' = [be EXCEPT ![b0].idle = @ - 1, ![b0].refcount = @ + 1]
    <3>1. /\ ConnOf(w) /\ b0 \in Backends
          /\ \A x \in Backends \ {b0} : Uses1(w, vbc', getfd', x) = Uses1(w, vbc, getfd, x)
          /\ Uses1(w, vbc', getfd', b0) = 1 /\ Uses1(w, vbc, getfd, b0) = 0
        BY <1>2, <2>1, <2>3
    <3> DEFINE r == [be[b0] EXCEPT !.idle = @ - 1, !.refcount = @ + 1]
    <3>2. be' = [be EXCEPT ![b0] = r]
        BY <2>3
    <3>3. Adjusted(r, be[b0], 1 - 0)
        BY <1>e, <2>3, <3>1, Adjustments
    <3> HIDE DEF r
    <3>4. CountsOf(w)
        BY <3>1, <3>2, <3>3, CountsMoved
    <3> QED BY <1>0, <2>1, <3>1, <3>4 DEF Counted
  <2> QED BY <2>1, <2>2, <2>3
<1>6. CASE vbe_GetVbe_check(w)
  <2>1. getfd[w].pc = "check" /\ Rest
      BY <1>6 DEF vbe_GetVbe_check
  <2>2. CASE vbc' = [vbc EXCEPT ![w] = b0] /\ Done /\ UNCHANGED <<be, panic>>
    <3>1. vbc' # vbc
        BY <1>0, <1>a, <2>1, <2>2
    <3>2. ConnOf(w) /\ \A x \in Backends : Uses1(w, vbc', getfd', x) = Uses1(w, vbc, getfd, x)
        BY <1>3, <2>1, <2>2, <3>1
    <3> QED BY <1>0, <2>1, <2>2, <3>2, CountsSame DEF Counted
  <2> DEFINE r == [be[b0] EXCEPT !.n_conn = @ - 1, !.refcount = @ - 1]
  <2>3. CASE /\ be' = [be EXCEPT ![b0] = r] /\ panic' = (r.refcount = 0)
             /\ Try("pop") /\ vbc' = vbc
    <3>1. /\ ConnOf(w) /\ b0 \in Backends
          /\ \A x \in Backends \ {b0} : Uses1(w, vbc', getfd', x) = Uses1(w, vbc, getfd, x)
          /\ Uses1(w, vbc', getfd', b0) = 0 /\ Uses1(w, vbc, getfd, b0) = 1
        BY <1>2, <2>1, <2>3
    <3>2. Adjusted(r, be[b0], 0 - 1)
        BY <1>e, <3>1, Adjustments
    <3>3. panic' \in BOOLEAN
        BY <2>3
    <3> HIDE DEF r
    <3>4. CountsOf(w)
        BY <2>3, <3>1, <3>2, CountsMoved
    <3> QED BY <2>1, <3>1, <3>3, <3>4 DEF Counted
  <2> QED BY <1>6, <2>2, <2>3 DEF vbe_GetVbe_check, Get, VBE_DropRefLocked, NoGet
<1>7. CASE vbe_GetVbe_new(w)
  <2>1. /\ getfd[w].pc = "new" /\ Rest /\ be' = be /\ vbc' = vbc /\ panic' = panic
        /\ Try("try") \/ Done
      BY <1>7 DEF vbe_GetVbe_new, Get, NoGet
  <2>2. ConnOf(w) /\ \A x \in Backends : Uses1(w, vbc', getfd', x) = Uses1(w, vbc, getfd, x)
    <3>1. CASE Try("try")
        BY <1>2, <2>1, <3>1
    <3>2. CASE Done
        BY <1>3, <2>1, <3>2
    <3> QED BY <2>1, <3>1, <3>2
  <2> QED BY <1>0, <2>1, <2>2, CountsSame DEF Counted
<1>8. CASE bes_conn_try_begin(w)
  <2>1. /\ getfd[w].pc = "try" /\ Rest /\ vbc' = vbc /\ panic' = panic /\ Try("connect")
        /\ be' = [be EXCEPT ![b0].refcount = @ + 1, ![b0].n_conn = @ + 1]
      BY <1>8 DEF bes_conn_try_begin, Get
  <2>2. /\ ConnOf(w) /\ b0 \in Backends
        /\ \A x \in Backends \ {b0} : Uses1(w, vbc', getfd', x) = Uses1(w, vbc, getfd, x)
        /\ Uses1(w, vbc', getfd', b0) = 1 /\ Uses1(w, vbc, getfd, b0) = 0
      BY <1>2, <2>1
  <2> DEFINE r == [be[b0] EXCEPT !.refcount = @ + 1, !.n_conn = @ + 1]
  <2>3. be' = [be EXCEPT ![b0] = r]
      BY <2>1
  <2>4. Adjusted(r, be[b0], 1 - 0)
      BY <1>e, <2>2, Adjustments
  <2> HIDE DEF r
  <2>5. CountsOf(w)
      BY <2>2, <2>3, <2>4, CountsMoved
  <2> QED BY <1>0, <2>1, <2>2, <2>5 DEF Counted
<1>9. CASE bes_conn_try_end(w)
  <2>1. getfd[w].pc = "connect" /\ Rest /\ panic' = panic /\ Done
      BY <1>9 DEF bes_conn_try_end, Get, NoGet
  <2>2. CASE vbc' = [vbc EXCEPT ![w] = b0] /\ be' = be
    <3>1. vbc' # vbc
        BY <1>0, <1>a, <2>1, <2>2
    <3>2. ConnOf(w) /\ \A x \in Backends : Uses1(w, vbc', getfd', x) = Uses1(w, vbc, getfd, x)
        BY <1>3, <2>1, <2>2, <3>1
    <3> QED BY <1>0, <2>1, <2>2, <3>2, CountsSame DEF Counted
  <2>3. CASE be' = [be EXCEPT ![b0].refcount = @ - 1, ![b0].n_conn = @ - 1] /\ vbc' = vbc
    <3>1. /\ ConnOf(w) /\ b0 \in Backends
          /\ \A x \in Backends \ {b0} : Uses1(w, vbc', getfd', x) = Uses1(w, vbc, getfd, x)
          /\ Uses1(w, vbc', getfd', b0) = 0 /\ Uses1(w, vbc, getfd, b0) = 1
        BY <1>3, <2>1, <2>3
    <3> DEFINE r == [be[b0] EXCEPT !.refcount = @ - 1, !.n_conn = @ - 1]
    <3>2. be' = [be EXCEPT ![b0] = r]
        BY <2>3
    <3>3. Adjusted(r, be[b0], 0 - 1)
      <4>1. be[b0] \in Struct
          BY <1>e, <3>1
      <4>2. r = [be[b0] EXCEPT !.n_conn = @ - 1, !.refcount = @ - 1]
          BY <4>1 DEF Struct
      <4>3. Adjusted([be[b0] EXCEPT !.n_conn = @ - 1, !.refcount = @ - 1], be[b0], 0 - 1)
          BY <4>1, Adjustments
      <4> HIDE DEF r
      <4> QED BY <4>2, <4>3
    <3> HIDE DEF r
    <3>4. CountsOf(w)
        BY <3>1, <3>2, <3>3, CountsMoved
    <3> QED BY <1>0, <2>1, <3>1, <3>4 DEF Counted
  <2> QED BY <1>9, <2>2, <2>3 DEF bes_conn_try_end
<1>10. CASE VDI_CloseFd(w) \/ VDI_RecycleFd(w)
  <2> DEFINE b == vbc[w]
             c == [be[b] EXCEPT !.n_conn = @ - 1, !.refcount = @ - 1]
             i == [be[b] EXCEPT !.idle = @ + 1, !.refcount = @ - 1]
  <2>1. /\ b # NULL /\ vbc' = [vbc EXCEPT ![w] = NULL] /\ getfd' = getfd /\ Rest
        /\ \E r \in {c, i} : be' = [be EXCEPT ![b] = r] /\ panic' = (r.refcount = 0)
      BY <1>10 DEF VDI_CloseFd, VDI_RecycleFd, VBE_DropRefLocked
  <2>2. /\ ConnOf(w) /\ b \in Backends
        /\ \A x \in Backends \ {b} : Uses1(w, vbc', getfd', x) = Uses1(w, vbc, getfd, x)
        /\ Uses1(w, vbc', getfd', b) = 0 /\ Uses1(w, vbc, getfd, b) = 1
      BY <1>4, <2>1
  <2>3. Adjusted(c, be[b], 0 - 1) /\ Adjusted(i, be[b], 0 - 1)
      BY <1>e, <2>2, Adjustments
  <2> HIDE DEF c, i
  <2>4. PICK r \in {c, i} : be' = [be EXCEPT ![b] = r] /\ panic' = (r.refcount = 0)
      BY <2>1
  <2>5. CountsOf(w)
    <3>1. Adjusted(r, be[b], 0 - 1)
        BY <2>3
    <3> QED BY <2>2, <2>4, <3>1, CountsMoved
  <2>6. panic' \in BOOLEAN
      BY <2>4
  <2> QED BY <2>1, <2>2, <2>5, <2>6 DEF Counted
<1> QED BY <1>1, <1>5, <1>6, <1>7, <1>8, <1>9, <1>10 DEF ConnStep

LEMMA ConnectionStep ==
    ASSUME IInv, NEW w \in Workers, ConnStep(w)
    PROVE  IInv'
<1>0. TypeInv /\ RefInv /\ CliInv /\ DirInv /\ ConnInv /\ BackendRefsExact
      /\ ProbeInv /\ UnprobedHealthy
    BY DEF IInv
<1>1. ConnOf(w) /\ CountsOf(w) /\ panic' \in BOOLEAN
      /\ UNCHANGED <<refVars, director, vt, cli, lost>>
    BY <1>0, ConnCounted DEF Counted
<1>2. /\ UNCHANGED <<vcl_head, vcl, busy, vcl_active, wvcl, svcl, wpc, parked>>
      /\ UNCHANGED <<director, vt, cli, lost>>
    BY <1>1 DEF refVars
<1>3. /\ OnlyAt(w, vbc, vbc') /\ OnlyAt(w, getfd, getfd')
      /\ vbc' \in [Workers -> Backends \cup {NULL}] /\ getfd' \in [Workers -> Getting]
    BY <1>1 DEF ConnOf
<1>4. be' \in [Backends -> Struct]
    BY <1>1 DEF CountsOf
<1>5. TypeInv'
    BY <1>0, <1>1, <1>2, <1>3, <1>4 DEF TypeInv
<1>6. RefInv'
    BY <1>0, <1>2 DEF RefInv, VclRefsExact, Listed
<1>7. CliInv' /\ DirInv'
    BY <1>0, <1>2 DEF CliInv, DirInv, Doomed, Listed
<1>8. ProbeInv'
    BY <1>0, <1>2 DEF ProbeInv, Unlinked, Doomed
<1>9. UnprobedHealthy'
    BY <1>0, <1>1, <1>2 DEF UnprobedHealthy, CountsOf
<1>10. ConnInv'
    BY <1>0, <1>1, <1>2 DEF ConnInv, ConnOf, OnlyAt
<1>11. BackendRefsExact'
  <2> SUFFICES ASSUME NEW b \in Backends \ lost
               PROVE  /\ be'[b].refcount = Cardinality(Directing(b)) + Cardinality(Using(b)')
                      /\ be'[b].n_conn = be'[b].idle + Cardinality(Using(b)')
                      /\ be'[b].alive <=> be'[b].refcount > 0
      BY <1>2 DEF BackendRefsExact, Directing
  <2> DEFINE o == Uses1(w, vbc, getfd, b)
             n == Uses1(w, vbc', getfd', b)
  <2>1. /\ be[b].refcount = Cardinality(Directing(b)) + Cardinality(Using(b))
        /\ be[b].n_conn = be[b].idle + Cardinality(Using(b))
        /\ be[b].alive <=> be[b].refcount > 0
      BY <1>0 DEF BackendRefsExact, Directing
  <2>2. /\ Cardinality(Using(b)) \in Nat /\ Cardinality(Using(b)') \in Nat
        /\ Cardinality(Using(b)') = Cardinality(Using(b)) + n - o
      BY <1>3, UsingMoved
  <2>3. /\ be'[b].alive = be[b].alive
        /\ be'[b].refcount = be[b].refcount + (n - o)
        /\ be'[b].n_conn - be'[b].idle = be[b].n_conn - be[b].idle + (n - o)
      BY <1>1 DEF CountsOf
  <2>4. /\ be[b].refcount \in Int /\ be[b].n_conn \in Int /\ be[b].idle \in Int
        /\ be'[b].refcount \in Int /\ be'[b].n_conn \in Int /\ be'[b].idle \in Int
        /\ be[b].alive \in BOOLEAN
      BY <1>0, <1>4 DEF TypeInv, Struct
  <2>5. n \in Int /\ o \in Int /\ Cardinality(Directing(b)) \in Nat
      BY DirectingCount DEF Uses1
  <2>6. n # o => be[b].alive /\ Cardinality(Directing(b)) >= 1
    <3> SUFFICES ASSUME n # o PROVE be[b].alive /\ Cardinality(Directing(b)) >= 1
        OBVIOUS
    <3>1. svcl[w] # NULL /\ b \in Hosts[svcl[w]]
        BY <1>0, <1>1, BackendAssumption DEF Uses1, UsingOf, ConnInv, ConnOf, Getting
    <3>2. svcl[w] \in Listed
        BY <1>0, <3>1, HeldIsListed DEF TypeInv
    <3>3. b \in Range(Uses[svcl[w]]) \ lost
        BY <3>1, <3>2, BackendAssumption DEF Listed
    <3> QED BY <3>2, <3>3, HostIsAlive
  <2> HIDE DEF n, o
  <2>7. /\ be'[b].refcount = Cardinality(Directing(b)) + Cardinality(Using(b)')
        /\ be'[b].n_conn = be'[b].idle + Cardinality(Using(b)')
      BY <2>1, <2>2, <2>3, <2>4, <2>5
  <2>8. CASE n = o
    <3>1. be'[b].refcount = be[b].refcount
        BY <2>3, <2>4, <2>5, <2>8
    <3> QED BY <2>1, <2>3, <2>7, <3>1
  <2>9. CASE n # o
    <3>1. be'[b].refcount > 0
        BY <2>2, <2>5, <2>6, <2>7, <2>9
    <3> QED BY <2>3, <2>6, <2>7, <2>9, <3>1
  <2> QED BY <2>8, <2>9
<1> QED BY <1>5, <1>6, <1>7, <1>8, <1>9, <1>10, <1>11 DEF IInv

-----------------------------------------------------------------------------
(***************************************************************************)
(* Probe threads.                                                          *)
(***************************************************************************)
LEMMA ProbingStep ==
    ASSUME IInv, NEW b \in Backends, ProbeStep(b)
    PROVE  IInv'
<1>0. TypeInv /\ RefInv /\ CliInv /\ DirInv /\ ConnInv /\ BackendRefsExact
      /\ ProbeInv /\ UnprobedHealthy
    BY DEF IInv
<1>1. vt \in [Backends -> Target] /\ be \in [Backends -> Struct] /\ vt[b] \in Target
    BY <1>0 DEF TypeInv
<1>2. UNCHANGED <<vcl_head, vcl, busy, vcl_active, wvcl, svcl, wpc, parked, director, vbc, getfd,
                  cli, lost>>
    BY DEF ProbeStep, vbp_wrk_poll_top, vbp_wrk_poll_lock, vbp_poke, vbp_cancelled,
           probeUnchanged, refVars
\* A running thread changes its place and its bitmap, and its backend's health.
<1>3. /\ vt[b].pc # "none" /\ panic' \in BOOLEAN
      /\ \E r \in Target : /\ vt' = [vt EXCEPT ![b] = r]
                           /\ r.vcls = vt[b].vcls /\ r.stop = vt[b].stop /\ r.pc # "none"
                           /\ r.pc = "end" => vt[b].stop
      /\ be' = be \/ \E h \in BOOLEAN : be' = [be EXCEPT ![b].healthy = h]
  <2>1. CASE vbp_wrk_poll_top(b)
    <3> DEFINE r == [vt[b] EXCEPT !.pc = IF vt[b].stop THEN "end" ELSE "lock"]
    <3>1. r \in Target /\ r.vcls = vt[b].vcls /\ r.stop = vt[b].stop /\ r.pc # "none"
          /\ (r.pc = "end" => vt[b].stop)
        BY <1>1 DEF Target
    <3>2. vt' = [vt EXCEPT ![b] = r] /\ vt[b].pc = "top" /\ UNCHANGED <<be, panic>>
        BY <2>1 DEF vbp_wrk_poll_top
    <3> QED BY <1>0, <3>1, <3>2 DEF TypeInv
  <2>2. CASE vbp_wrk_poll_lock(b)
    <3> DEFINE r == [vt[b] EXCEPT !.has = @ \/ vt[b].vcls # <<>>, !.pc = "poke"]
    <3>1. r \in Target /\ r.vcls = vt[b].vcls /\ r.stop = vt[b].stop /\ r.pc = "poke"
        BY <1>1 DEF Target
    <3>2. vt' = [vt EXCEPT ![b] = r] /\ vt[b].pc = "lock" /\ be' = be
          /\ panic' = (vt[b].vcls = <<>> /\ vt[b].has)
        BY <2>2 DEF vbp_wrk_poll_lock
    <3>3. panic' \in BOOLEAN
        BY <3>2
    <3> QED BY <3>1, <3>2, <3>3
  <2>3. CASE vbp_poke(b)
    <3>1. PICK ok \in BOOLEAN :
             vbp_has_poked(b, [vt[b] EXCEPT !.pc = "top", !.happy = Shift(@, ok)])
        BY <2>3 DEF vbp_poke
    <3> DEFINE r == [vt[b] EXCEPT !.pc = "top", !.happy = Shift(@, ok)]
    <3>2. Shift(vt[b].happy, ok) \in [1..Window -> BOOLEAN]
        BY <1>1, ShiftType DEF Target
    <3>3. r \in Target /\ r.vcls = vt[b].vcls /\ r.stop = vt[b].stop /\ r.pc = "top"
        BY <1>1, <3>2 DEF Target
    <3>4. /\ vt' = [vt EXCEPT ![b] = r] /\ vt[b].pc = "poke" /\ panic' = panic
          /\ be' = [be EXCEPT ![b].healthy = Good(r.happy) >= Threshold]
        BY <2>3, <3>1 DEF vbp_has_poked, vbp_poke
    <3> DEFINE h == Good(r.happy) >= Threshold
    <3> HIDE DEF r
    <3>5. h \in BOOLEAN /\ be' = [be EXCEPT ![b].healthy = h]
        BY <3>4
    <3> HIDE DEF h
    <3> QED BY <1>0, <3>3, <3>4, <3>5 DEF TypeInv
  <2>4. CASE vbp_cancelled(b)
    <3> DEFINE r == [vt[b] EXCEPT !.pc = "end"]
    <3>1. r \in Target /\ r.vcls = vt[b].vcls /\ r.stop = vt[b].stop /\ r.pc = "end"
        BY <1>1 DEF Target
    <3>2. vt' = [vt EXCEPT ![b] = r] /\ vt[b].pc = "poke" /\ vt[b].stop /\ UNCHANGED <<be, panic>>
        BY <2>4 DEF vbp_cancelled
    <3> QED BY <1>0, <3>1, <3>2 DEF TypeInv
  <2> QED BY <2>1, <2>2, <2>3, <2>4 DEF ProbeStep
<1>4. PICK r \in Target : /\ vt' = [vt EXCEPT ![b] = r]
                          /\ r.vcls = vt[b].vcls /\ r.stop = vt[b].stop /\ r.pc # "none"
                          /\ r.pc = "end" => vt[b].stop
    BY <1>3
<1>5. /\ be' \in [Backends -> Struct]
      /\ \A x \in Backends : /\ be'[x].refcount = be[x].refcount /\ be'[x].n_conn = be[x].n_conn
                             /\ be'[x].idle = be[x].idle /\ be'[x].alive = be[x].alive
                             /\ x # b => be'[x] = be[x]
  <2>1. CASE be' = be
      BY <1>1, <2>1
  <2>2. CASE \E h \in BOOLEAN : be' = [be EXCEPT ![b].healthy = h]
      BY <1>1, <2>2 DEF Struct
  <2> QED BY <1>3, <2>1, <2>2
<1>6. vt' \in [Backends -> Target] /\ vt'[b] = r /\ \A x \in Backends \ {b} : vt'[x] = vt[x]
    BY <1>1, <1>4
<1>7. TypeInv'
    BY <1>0, <1>2, <1>3, <1>5, <1>6 DEF TypeInv
<1>8. RefInv' /\ CliInv' /\ DirInv' /\ ConnInv'
  <2>1. RefInv'
      BY <1>0, <1>2 DEF RefInv, VclRefsExact, Listed
  <2>2. CliInv' /\ DirInv'
      BY <1>0, <1>2 DEF CliInv, DirInv, Doomed, Listed
  <2>3. ConnInv'
      BY <1>0, <1>2 DEF ConnInv
  <2> QED BY <2>1, <2>2, <2>3
<1>9. BackendRefsExact'
  <2>1. \A x \in Backends : Using(x)' = Using(x)
      BY <1>2 DEF Using
  <2> QED BY <1>0, <1>2, <1>5, <2>1 DEF BackendRefsExact
<1>10. UnprobedHealthy'
    BY <1>0, <1>4, <1>5, <1>6 DEF UnprobedHealthy
<1>11. ProbeInv'
  <2>1. \A x \in Backends : /\ vt'[x].vcls = vt[x].vcls /\ vt'[x].stop = vt[x].stop
                            /\ vt'[x].pc = "none" <=> vt[x].pc = "none"
                            /\ vt'[x].pc = "end" => vt[x].pc = "end" \/ vt[x].stop
      BY <1>3, <1>4, <1>6
  <2>2. \A x \in Backends : Unlinked(x)' = Unlinked(x)
      BY <1>2 DEF Unlinked
  <2>3. Doomed' = Doomed
      BY <1>2 DEF Doomed
  <2> QED BY <1>0, <1>2, <2>1, <2>2, <2>3 DEF ProbeInv
<1> QED BY <1>7, <1>8, <1>9, <1>10, <1>11 DEF IInv

-----------------------------------------------------------------------------
(***************************************************************************)
(* The CLI thread.                                                         *)
(***************************************************************************)
Removing == {"stop", "join", "drop"}

\* The CLI thread does not touch what belongs to the workers.
LEMMA WorkersFrame ==
    ASSUME IInv, UNCHANGED <<busy, wvcl, svcl, wpc, parked, vbc, getfd>>
    PROVE  /\ VclRefsExact' /\ ConnInv' /\ \A b \in Backends : Using(b)' = Using(b)
           /\ \A w \in Workers : svcl'[w] # NULL <=> wpc'[w] = "run"
<1>1. VclRefsExact' /\ \A w \in Workers : svcl'[w] # NULL <=> wpc'[w] = "run"
    BY DEF IInv, RefInv, VclRefsExact
<1>2. ConnInv'
    BY DEF IInv, ConnInv
<1>3. \A b \in Backends : Using(b)' = Using(b)
    BY DEF Using
<1> QED BY <1>1, <1>2, <1>3

\* A step that only moves the CLI thread on.
LEMMA CliFrame ==
    ASSUME IInv, UNCHANGED <<refVars, director, be, vbc, getfd, vt, panic, lost>>, cli' \in Command
    PROVE  TypeInv' /\ RefInv' /\ ConnInv' /\ BackendRefsExact' /\ UnprobedHealthy'
<1>0. UNCHANGED <<vcl_head, vcl, busy, vcl_active, wvcl, svcl, wpc, parked>>
    BY DEF refVars
<1>1. TypeInv'
    BY <1>0 DEF IInv, TypeInv
<1>2. VclRefsExact' /\ ConnInv' /\ \A b \in Backends : Using(b)' = Using(b)
    BY <1>0, WorkersFrame
<1>3. RefInv'
    BY <1>0, <1>2 DEF IInv, RefInv, Listed
<1>4. BackendRefsExact'
    BY <1>2 DEF IInv, BackendRefsExact
<1>5. UnprobedHealthy'
    BY DEF IInv, UnprobedHealthy
<1> QED BY <1>1, <1>2, <1>3, <1>4, <1>5

\* No thread is being removed, neither before nor after the step.
LEMMA ProbeFrame ==
    ASSUME ProbeInv, UNCHANGED <<director, vt>>, cli.pc \notin Removing, cli'.pc \notin Removing
    PROVE  ProbeInv'
<1>1. \A b \in Backends : ~Unlinked(b) /\ ~Unlinked(b)'
    BY DEF Unlinked, Removing
<1> QED BY <1>1 DEF ProbeInv

\* The CLI thread is idle: no command is under way.
LEMMA NoCmdFacts ==
    /\ NoCmd \in Command /\ NoCmd.pc = "idle" /\ NoCmd.todo = <<>> /\ NoCmd.dirs = <<>>
    /\ Distinct(<<>>) /\ Range(<<>>) = {}
<1>1. NoCmd \in Command /\ NoCmd.pc = "idle" /\ NoCmd.todo = <<>> /\ NoCmd.dirs = <<>>
    BY DEF NoCmd, Command
<1>2. Distinct(<<>>) /\ Range(<<>>) = {}
    BY DEF Distinct, Range
<1> QED BY <1>1, <1>2

\* The place of a command that neither loads nor disposes of a VCL.
LEMMA PlainCli ==
    ASSUME cli'.pc \in {"idle", "cmd"}, cli'.todo = <<>>, Distinct(cli'.dirs),
           \A v \in Vcls : vcl'[v] # "fini",
           \A v \in Listed' : director'[v] = Range(Uses[v]),
           \A v \in Vcls : vcl'[v] = "none" => director'[v] = {}
    PROVE  CliInv' /\ DirInv'
<1>1. /\ cli'.pc \notin {"poll"} \cup Disposing /\ cli'.pc \notin Loading
      /\ cli'.pc \notin Disposing /\ cli'.pc # "discarded" /\ cli'.pc \notin {"store"}
      /\ cli'.pc \notin {"store", "stop", "join", "drop"}
    BY DEF Disposing, Loading
<1>3. CliInv'
    BY <1>1 DEF CliInv
<1>4. DirInv'
    BY <1>1 DEF DirInv
<1> QED BY <1>3, <1>4

\* What the invariant says while the CLI thread waits or looks for a VCL to dispose of.
LEMMA PlainDir ==
    ASSUME CliInv, DirInv, cli.pc \notin Loading, cli.pc \notin Disposing
    PROVE  /\ \A v \in Vcls : vcl[v] # "fini"
           /\ \A v \in Listed : director[v] = Range(Uses[v])
           /\ \A v \in Vcls : vcl[v] = "none" => director[v] = {}
BY DEF CliInv, DirInv

LEMMA CliStarts ==
    ASSUME IInv, cli_cb_before \/ VCLS_func_ping
    PROVE  IInv'
<1>0. TypeInv /\ RefInv /\ CliInv /\ DirInv /\ ProbeInv /\ cli \in Command /\ vcl_head \in Seq(Vcls)
    BY DEF IInv, TypeInv
<1>1. UNCHANGED <<refVars, director, be, vbc, getfd, vt, panic, lost>>
    BY DEF cli_cb_before, VCLS_func_ping
<1>2. UNCHANGED <<vcl_head, vcl>>
    BY <1>1 DEF refVars
<1>3. Listed' = Listed
    BY <1>2 DEF Listed
<1>4. CASE cli_cb_before
  <2>1. cli.pc = "idle" /\ cli' = [NoCmd EXCEPT !.pc = "poll", !.todo = vcl_head]
      BY <1>4 DEF cli_cb_before
  <2>2. cli'.pc = "poll" /\ cli'.todo = vcl_head /\ cli'.dirs = <<>> /\ cli' \in Command
      BY <1>0, <2>1, NoCmdFacts DEF Command
  <2>3. /\ \A v \in Vcls : vcl[v] # "fini"
        /\ \A v \in Listed : director[v] = Range(Uses[v])
        /\ \A v \in Vcls : vcl[v] = "none" => director[v] = {}
      BY <1>0, <2>1, PlainDir DEF Loading, Disposing
  <2>4. CliInv'
    <3>1. Distinct(cli'.todo) /\ Range(cli'.todo) \subseteq Listed' /\ Distinct(cli'.dirs)
        BY <1>0, <1>3, <2>2, NoCmdFacts DEF RefInv
    <3> QED BY <1>2, <2>2, <2>3, <3>1 DEF CliInv, Disposing, Loading
  <2>5. DirInv'
      BY <1>1, <1>2, <1>3, <2>2, <2>3 DEF DirInv, Loading, Disposing
  <2>6. ProbeInv'
      BY <1>0, <1>1, <2>1, <2>2, ProbeFrame DEF Removing
  <2> QED BY <1>1, <2>2, <2>4, <2>5, <2>6, CliFrame DEF IInv
<1>5. CASE VCLS_func_ping
  <2>1. cli.pc = "cmd" /\ cli' = NoCmd
      BY <1>5 DEF VCLS_func_ping
  <2>2. cli' \in Command /\ cli'.pc = "idle" /\ cli'.todo = <<>> /\ cli'.dirs = <<>>
      BY <2>1, NoCmdFacts
  <2>3. /\ \A v \in Vcls : vcl[v] # "fini"
        /\ \A v \in Listed : director[v] = Range(Uses[v])
        /\ \A v \in Vcls : vcl[v] = "none" => director[v] = {}
      BY <1>0, <2>1, PlainDir DEF Loading, Disposing
  <2>4. CliInv' /\ DirInv'
      BY <1>1, <1>2, <1>3, <2>2, <2>3, NoCmdFacts, PlainCli
  <2>5. ProbeInv'
      BY <1>0, <1>1, <2>1, <2>2, ProbeFrame DEF Removing
  <2> QED BY <1>1, <2>2, <2>4, <2>5, CliFrame DEF IInv
<1> QED BY <1>4, <1>5

\* The backends of a VCL, as init_vcl and fini_vcl go through them.
LEMMA UsesFacts ==
    ASSUME NEW v \in Vcls
    PROVE  Uses[v] \in Seq(Backends) /\ Distinct(Uses[v])
           /\ Probes[v] \subseteq Range(Uses[v]) /\ Range(Uses[v]) \subseteq Backends
<1>1. /\ Uses[v] \in Seq(Backends) /\ Probes[v] \subseteq Range(Uses[v])
      /\ \A i, j \in DOMAIN Uses[v] : Uses[v][i] = Uses[v][j] => i = j
    BY BackendAssumption
<1>2. Range(Uses[v]) \subseteq Backends
    BY <1>1 DEF Range
<1> QED BY <1>1, <1>2 DEF Distinct

\* VCL_Nuke begins, for a VCL that nobody uses.
LEMMA NukeStep ==
    ASSUME IInv, NEW v \in Vcls, vcl[v] = "discard", busy[v] = 0, v = Doomed,
           cli.pc \in {"poll", "discarded"}, VCL_Nuke(v),
           cli' = [cli EXCEPT !.pc = "fini", !.dirs = Uses[v]],
           UNCHANGED <<be, director, vbc, getfd, vt, panic, lost>>
    PROVE  IInv'
<1>0. /\ TypeInv /\ RefInv /\ CliInv /\ DirInv /\ ProbeInv /\ BackendRefsExact
      /\ UnprobedHealthy /\ cli \in Command
    BY DEF IInv, TypeInv
<1>1. /\ vcl_head' = Without(vcl_head, v) /\ vcl' = [vcl EXCEPT ![v] = "fini"]
      /\ UNCHANGED <<vcl_active, busy, wvcl, svcl, wpc, parked>>
    BY DEF VCL_Nuke
<1>2. vcl_head \in Seq(Vcls) /\ Distinct(vcl_head) /\ Range(vcl_head) = Listed /\ v \in Listed
      /\ vcl \in [Vcls -> {"none", "avail", "discard", "fini", "failed"}]
    BY <1>0 DEF TypeInv, RefInv, Listed
<1>3. Listed' = Listed \ {v}
    BY <1>1, <1>2 DEF Listed
<1>4. vcl_head' \in Seq(Vcls) /\ Distinct(vcl_head') /\ Range(vcl_head') = Listed'
  <2>1. v \in Range(vcl_head)
      BY <1>2
  <2> QED BY <1>1, <1>2, <1>3, <2>1, WithoutEntry
<1>5. Uses[v] \in Seq(Backends) /\ Distinct(Uses[v])
    BY UsesFacts
<1>6. /\ cli'.pc = "fini" /\ cli'.dirs = Uses[v] /\ cli'.todo = cli.todo /\ cli'.v = cli.v
      /\ cli' \in Command
    BY <1>0, <1>5 DEF Command, Disposing
<1>7. Doomed' = v
    BY <1>6 DEF Doomed
<1>8. VclRefsExact' /\ ConnInv' /\ (\A b \in Backends : Using(b)' = Using(b))
      /\ \A w \in Workers : svcl'[w] # NULL <=> wpc'[w] = "run"
    BY <1>1, WorkersFrame
<1>9. TypeInv'
    BY <1>0, <1>1, <1>2, <1>4, <1>6 DEF TypeInv
<1>10. RefInv'
  <2>1. \A x \in Vcls \ Listed' : busy'[x] = 0
      BY <1>0, <1>1, <1>3 DEF RefInv
  <2>2. vcl_active' # NULL => vcl'[vcl_active'] = "avail"
      BY <1>0, <1>1, <1>2 DEF RefInv, TypeInv
  <2> QED BY <1>4, <1>8, <2>1, <2>2 DEF RefInv
<1>11. \A x \in Vcls : vcl[x] # "fini"
    BY <1>0 DEF CliInv, Disposing
<1>12. CliInv'
  <2>1. Distinct(cli.todo) /\ Range(cli.todo) \subseteq Listed
    <3>1. CASE cli.pc = "poll"
        BY <1>0, <3>1 DEF CliInv
    <3>2. CASE cli.pc = "discarded"
      <4>1. cli.todo = <<>>
          BY <1>0, <3>2 DEF CliInv, Disposing
      <4> QED BY <4>1, NoCmdFacts
    <3> QED BY <3>1, <3>2
  <2>2. Distinct(cli'.todo) /\ Range(cli'.todo) \subseteq Listed' \cup {Doomed'}
      BY <1>3, <1>6, <1>7, <2>1
  <2>3. \A x \in Vcls : vcl'[x] = "fini" <=> x = Doomed'
      BY <1>1, <1>2, <1>7, <1>11
  <2> QED BY <1>5, <1>6, <1>7, <2>2, <2>3 DEF CliInv, Disposing, Loading
<1>13. DirInv'
  <2>1. /\ \A x \in Listed : director[x] = Range(Uses[x])
        /\ \A x \in Vcls : vcl[x] = "none" => director[x] = {}
      BY <1>0, PlainDir DEF Loading, Disposing
  <2>2. \A x \in Vcls : vcl'[x] = "none" => vcl[x] = "none"
      BY <1>1, <1>2
  <2> QED BY <1>2, <1>3, <1>6, <1>7, <2>1, <2>2 DEF DirInv, Loading
<1>14. ProbeInv'
    BY <1>0, <1>6, ProbeFrame DEF Removing
<1>15. BackendRefsExact' /\ UnprobedHealthy'
    BY <1>0, <1>8 DEF BackendRefsExact, UnprobedHealthy
<1> QED BY <1>8, <1>9, <1>10, <1>12, <1>13, <1>14, <1>15 DEF IInv

LEMMA PollStep ==
    ASSUME IInv, VCL_Poll
    PROVE  IInv'
<1>0. /\ TypeInv /\ RefInv /\ CliInv /\ DirInv /\ ProbeInv /\ BackendRefsExact
      /\ UnprobedHealthy /\ cli \in Command
    BY DEF IInv, TypeInv
<1>1. cli.pc = "poll" /\ UNCHANGED <<director, vbc, getfd, vt, panic, lost>>
    BY DEF VCL_Poll
<1>2. cli.todo \in Seq(Vcls) /\ Distinct(cli.todo) /\ Range(cli.todo) \subseteq Listed
    BY <1>0, <1>1 DEF CliInv, Command
<1>3. /\ \A v \in Vcls : vcl[v] # "fini"
      /\ \A v \in Listed : director[v] = Range(Uses[v])
      /\ \A v \in Vcls : vcl[v] = "none" => director[v] = {}
    BY <1>0, <1>1, PlainDir DEF Loading, Disposing
<1>4. CASE /\ cli.todo = <<>> /\ be' = VBE_Poll
           /\ cli' = [cli EXCEPT !.pc = "cmd"] /\ UNCHANGED refVars
  <2>1. UNCHANGED <<vcl_head, vcl, busy, vcl_active, wvcl, svcl, wpc, parked>>
      BY <1>4 DEF refVars
  <2>2. /\ cli'.pc = "cmd" /\ cli'.todo = <<>> /\ Distinct(cli'.dirs) /\ cli' \in Command
      BY <1>0, <1>4 DEF Command, CliInv
  <2>3. /\ be \in [Backends -> Struct] /\ be' \in [Backends -> Struct]
        /\ \A b \in Backends : be'[b] # be[b] =>
              /\ be'[b] = NoBackend /\ be[b].alive /\ be[b].refcount = 0
      BY <1>0, <1>4 DEF VBE_Poll, TypeInv, NoBackend, Struct
  <2>4. VclRefsExact' /\ ConnInv' /\ \A b \in Backends : Using(b)' = Using(b)
      BY <1>1, <2>1, WorkersFrame
  <2>5. TypeInv'
      BY <1>0, <1>1, <2>1, <2>2, <2>3 DEF TypeInv
  <2>6. RefInv'
      BY <1>0, <2>1, <2>4 DEF RefInv, Listed
  <2>7. CliInv' /\ DirInv'
    <3>1. Listed' = Listed
        BY <2>1 DEF Listed
    <3> QED BY <1>1, <1>3, <2>1, <2>2, <3>1, PlainCli
  <2>8. ProbeInv'
      BY <1>0, <1>1, <2>2, ProbeFrame DEF Removing
  <2>9. BackendRefsExact'
    <3>1. \A b \in Backends \ lost : be'[b] = be[b]
      <4> SUFFICES ASSUME NEW b \in Backends \ lost, be'[b] # be[b] PROVE FALSE
          OBVIOUS
      <4>1. be[b].alive /\ be[b].refcount = 0
          BY <2>3
      <4>2. be[b].refcount > 0
          BY <1>0, <4>1 DEF BackendRefsExact
      <4> QED BY <4>1, <4>2
    <3> QED BY <1>0, <1>1, <2>4, <3>1 DEF BackendRefsExact
  <2>10. UnprobedHealthy'
    <3>1. NoBackend.healthy
        BY DEF NoBackend
    <3> QED BY <1>0, <1>1, <2>3, <3>1 DEF UnprobedHealthy
  <2> QED BY <2>4, <2>5, <2>6, <2>7, <2>8, <2>9, <2>10 DEF IInv
<1>5. CASE /\ cli.todo # <<>> /\ Disposable(Head(cli.todo)) /\ VCL_Nuke(Head(cli.todo))
           /\ cli' = [cli EXCEPT !.pc = "fini", !.dirs = Uses[Head(cli.todo)]]
           /\ UNCHANGED be
  <2>1. Head(cli.todo) \in Vcls /\ Head(cli.todo) = Doomed
      BY <1>2, <1>5, TailEntry DEF Doomed
  <2> QED BY <1>1, <1>5, <2>1, NukeStep DEF Disposable
<1>6. CASE /\ cli.todo # <<>> /\ cli' = [cli EXCEPT !.todo = Tail(@)]
           /\ UNCHANGED <<refVars, be>>
  <2>1. UNCHANGED <<vcl_head, vcl>>
      BY <1>6 DEF refVars
  <2>2. /\ Tail(cli.todo) \in Seq(Vcls) /\ Distinct(Tail(cli.todo))
        /\ Range(Tail(cli.todo)) \subseteq Listed
      BY <1>2, <1>6, TailEntry
  <2>3. /\ cli'.pc = "poll" /\ cli'.todo = Tail(cli.todo) /\ Distinct(cli'.dirs)
        /\ cli' \in Command
      BY <1>0, <1>1, <1>6, <2>2 DEF Command, CliInv
  <2>4. Listed' = Listed
      BY <2>1 DEF Listed
  <2>5. CliInv'
      BY <1>3, <2>1, <2>2, <2>3, <2>4 DEF CliInv, Disposing, Loading
  <2>6. DirInv'
      BY <1>1, <1>3, <2>1, <2>3, <2>4 DEF DirInv, Disposing, Loading
  <2>7. ProbeInv'
      BY <1>0, <1>1, <2>3, ProbeFrame DEF Removing
  <2> QED BY <1>1, <1>6, <2>3, <2>5, <2>6, <2>7, CliFrame DEF IInv
<1> QED BY <1>4, <1>5, <1>6 DEF VCL_Poll

\* A command that begins to load a VCL, or that is in the middle of adding a backend.
LEMMA LoadStep ==
    ASSUME IInv, (\E v \in Vcls : VCL_Load(v)) \/ VBE_AddBackend_load
    PROVE  IInv'
<1>0. /\ TypeInv /\ CliInv /\ DirInv /\ ProbeInv /\ cli \in Command /\ be \in [Backends -> Struct]
    BY DEF IInv, TypeInv
<1>1. UNCHANGED <<refVars, director, be, vbc, getfd, vt, panic, lost>>
    BY DEF VCL_Load, VBE_AddBackend_load
<1>2. UNCHANGED <<vcl_head, vcl>>
    BY <1>1 DEF refVars
<1>3. Listed' = Listed
    BY <1>2 DEF Listed
<1>4. CASE \E v \in Vcls : VCL_Load(v)
  <2>1. PICK v \in Vcls : VCL_Load(v)
      BY <1>4
  <2>2. /\ cli.pc = "cmd" /\ vcl[v] = "none" /\ cli.todo = <<>>
        /\ cli' = [cli EXCEPT !.pc = "init", !.v = v, !.dirs = Uses[v]]
      BY <1>0, <2>1 DEF VCL_Load, CliInv, Disposing
  <2>3. Uses[v] \in Seq(Backends) /\ Distinct(Uses[v])
      BY UsesFacts
  <2>4. /\ cli' \in Command /\ cli'.pc = "init" /\ cli'.v = v /\ cli'.dirs = Uses[v]
        /\ cli'.todo = <<>>
      BY <1>0, <2>2, <2>3 DEF Command, Loading
  <2>5. /\ \A x \in Vcls : vcl[x] # "fini"
        /\ \A x \in Listed : director[x] = Range(Uses[x])
        /\ \A x \in Vcls : vcl[x] = "none" => director[x] = {}
      BY <1>0, <2>2, PlainDir DEF Loading, Disposing
  <2>6. CliInv'
      BY <1>2, <2>2, <2>3, <2>4, <2>5 DEF CliInv, Disposing, Loading
  <2>7. DirInv'
      BY <1>1, <1>2, <1>3, <2>2, <2>4, <2>5 DEF DirInv, Disposing, Loading
  <2>8. ProbeInv'
      BY <1>0, <1>1, <2>2, <2>4, ProbeFrame DEF Removing
  <2> QED BY <1>1, <2>4, <2>6, <2>7, <2>8, CliFrame DEF IInv
<1>5. CASE VBE_AddBackend_load
  <2> DEFINE n == be[Head(cli.dirs)].refcount + 1
  <2>1. cli.pc = "init" /\ cli.dirs # <<>> /\ cli' = [cli EXCEPT !.pc = "store", !.tmp = n]
      BY <1>5 DEF VBE_AddBackend_load
  <2>2. cli.dirs \in Seq(Backends) /\ Distinct(cli.dirs)
      BY <1>0 DEF Command, CliInv
  <2>3. Head(cli.dirs) \in Backends
      BY <2>1, <2>2, TailEntry
  <2>4. n \in Int
      BY <1>0, <2>3 DEF Struct
  <2> HIDE DEF n
  <2>5. /\ cli' \in Command /\ cli'.pc = "store" /\ cli'.v = cli.v /\ cli'.dirs = cli.dirs
        /\ cli'.todo = cli.todo
      BY <1>0, <2>1, <2>4 DEF Command, Loading
  <2>6. CliInv'
    <3>1. cli'.todo = <<>> /\ cli'.v \in Vcls /\ vcl'[cli'.v] = "none"
        BY <1>0, <1>2, <2>1, <2>5 DEF CliInv, Disposing, Loading
    <3>2. \A x \in Vcls : vcl'[x] # "fini"
        BY <1>0, <1>2, <2>1 DEF CliInv, Disposing
    <3> QED BY <2>1, <2>2, <2>5, <3>1, <3>2 DEF CliInv, Disposing, Loading
  <2>7. DirInv'
      BY <1>0, <1>1, <1>2, <1>3, <2>1, <2>5 DEF DirInv, Disposing, Loading
  <2>8. ProbeInv'
      BY <1>0, <1>1, <2>1, <2>5, ProbeFrame DEF Removing
  <2> QED BY <1>1, <2>5, <2>6, <2>7, <2>8, CliFrame DEF IInv
<1> QED BY <1>4, <1>5

\* The administrator sets a backend's health.
LEMMA SetHealthStep ==
    ASSUME IInv, NEW b \in Matched, NEW h \in AdminStates, do_set_health(b, h)
    PROVE  IInv'
<1>0. /\ TypeInv /\ RefInv /\ CliInv /\ DirInv /\ ProbeInv /\ BackendRefsExact /\ UnprobedHealthy
      /\ be \in [Backends -> Struct] /\ b \in Backends /\ h \in {"probe", "sick", "healthy"}
    BY BackendAssumption DEF IInv, TypeInv
<1>1. /\ cli.pc = "cmd" /\ be' = [be EXCEPT ![b].admin_health = h] /\ cli' = NoCmd
      /\ UNCHANGED <<refVars, director, vbc, getfd, vt, panic, lost>>
    BY DEF do_set_health
<1>2. UNCHANGED <<vcl_head, vcl, busy, vcl_active, wvcl, svcl, wpc, parked>>
    BY <1>1 DEF refVars
<1>3. /\ be' \in [Backends -> Struct]
      /\ \A x \in Backends : /\ be'[x].refcount = be[x].refcount /\ be'[x].n_conn = be[x].n_conn
                             /\ be'[x].idle = be[x].idle /\ be'[x].alive = be[x].alive
                             /\ be'[x].healthy = be[x].healthy
    BY <1>0, <1>1 DEF Struct
<1>4. VclRefsExact' /\ ConnInv' /\ \A x \in Backends : Using(x)' = Using(x)
    BY <1>1, <1>2, WorkersFrame
<1>5. cli' \in Command /\ cli'.pc = "idle" /\ cli'.todo = <<>> /\ Distinct(cli'.dirs)
    BY <1>1, NoCmdFacts
<1>6. TypeInv'
    BY <1>0, <1>1, <1>2, <1>3, <1>5 DEF TypeInv
<1>7. Listed' = Listed /\ RefInv'
    BY <1>0, <1>2, <1>4 DEF RefInv, Listed
<1>8. CliInv' /\ DirInv'
  <2>1. /\ \A x \in Vcls : vcl[x] # "fini"
        /\ \A x \in Listed : director[x] = Range(Uses[x])
        /\ \A x \in Vcls : vcl[x] = "none" => director[x] = {}
      BY <1>0, <1>1, PlainDir DEF Loading, Disposing
  <2> QED BY <1>1, <1>2, <1>5, <1>7, <2>1, PlainCli
<1>9. ProbeInv'
    BY <1>0, <1>1, <1>5, ProbeFrame DEF Removing
<1>10. BackendRefsExact' /\ UnprobedHealthy'
  <2>1. BackendRefsExact'
      BY <1>0, <1>1, <1>3, <1>4 DEF BackendRefsExact
  <2>2. UnprobedHealthy'
      BY <1>0, <1>1, <1>3 DEF UnprobedHealthy
  <2> QED BY <2>1, <2>2
<1> QED BY <1>4, <1>6, <1>7, <1>8, <1>9, <1>10 DEF IInv

\* vcl.use: the active VCL changes, and its probes come first.
LEMMA UseStep ==
    ASSUME IInv, NEW v \in Vcls, vcl_use(v)
    PROVE  IInv'
<1>0. /\ TypeInv /\ RefInv /\ CliInv /\ DirInv /\ ProbeInv /\ BackendRefsExact /\ UnprobedHealthy
      /\ vt \in [Backends -> Target]
    BY DEF IInv, TypeInv
<1>1. /\ cli.pc = "cmd" /\ vcl[v] = "avail" /\ cli' = NoCmd
      /\ vcl_active' = v /\ UNCHANGED <<vcl_head, vcl, busy, wvcl, svcl, wpc, parked>>
      /\ vt' = [b \in Backends |-> IF b \in Probes[v]
                  THEN [vt[b] EXCEPT !.vcls = <<v>> \o Without(@, v)] ELSE vt[b]]
      /\ UNCHANGED <<be, director, vbc, getfd, panic, lost>>
    BY DEF vcl_use, ccf_config_use
<1>2. VclRefsExact' /\ ConnInv' /\ (\A x \in Backends : Using(x)' = Using(x))
      /\ \A w \in Workers : svcl'[w] # NULL <=> wpc'[w] = "run"
    BY <1>1, WorkersFrame
<1>3. cli' \in Command /\ cli'.pc = "idle" /\ cli'.todo = <<>> /\ Distinct(cli'.dirs)
    BY <1>1, NoCmdFacts
<1>4. /\ \A x \in Vcls : vcl[x] # "fini"
      /\ \A x \in Listed : director[x] = Range(Uses[x])
      /\ \A x \in Vcls : vcl[x] = "none" => director[x] = {}
    BY <1>0, <1>1, PlainDir DEF Loading, Disposing
<1>5. Listed' = Listed /\ v \in Listed
    BY <1>1 DEF Listed
<1>6. RefInv'
    BY <1>0, <1>1, <1>2, <1>5 DEF RefInv
<1>7. CliInv' /\ DirInv'
    BY <1>1, <1>3, <1>4, <1>5, PlainCli
<1>8. ASSUME NEW b \in Backends
      PROVE  /\ vt'[b] \in Target /\ Distinct(vt'[b].vcls)
             /\ Range(vt'[b].vcls) = Range(vt[b].vcls)
             /\ vt'[b].vcls = <<>> <=> vt[b].vcls = <<>>
             /\ vt'[b].pc = vt[b].pc /\ vt'[b].stop = vt[b].stop
  <2>0. vt[b] \in Target /\ vt[b].vcls \in Seq(Vcls) /\ Distinct(vt[b].vcls)
      BY <1>0 DEF Target, ProbeInv
  <2>1. CASE b \notin Probes[v]
    <3>1. vt'[b] = vt[b]
        BY <1>1, <2>1
    <3> QED BY <2>0, <3>1
  <2>2. CASE b \in Probes[v]
    <3> DEFINE q == vt[b].vcls
               r == <<v>> \o Without(q, v)
    <3>1. b \in director[v]
        BY <1>4, <1>5, <2>2, UsesFacts
    <3>2. v \in Range(q)
        BY <1>0, <1>1, <2>2, <3>1 DEF ProbeInv, Unlinked
    <3>3. /\ Without(q, v) \in Seq(Vcls) /\ Distinct(Without(q, v))
          /\ Range(Without(q, v)) = Range(q) \ {v}
        BY <2>0, <3>2, WithoutEntry
    <3>4. r \in Seq(Vcls) /\ r # <<>> /\ Range(r) = Range(Without(q, v)) \cup {v} /\ Distinct(r)
        BY <3>3, FrontEntry
    <3>5. vt'[b] = [vt[b] EXCEPT !.vcls = r]
        BY <1>1, <2>2
    <3> HIDE DEF r
    <3>6. /\ vt'[b] \in Target /\ vt'[b].vcls = r
          /\ vt'[b].pc = vt[b].pc /\ vt'[b].stop = vt[b].stop
        BY <2>0, <3>4, <3>5 DEF Target
    <3>7. q # <<>>
        BY <2>0, <3>2, EmptyList
    <3>8. Range(r) = Range(q)
        BY <3>2, <3>3, <3>4
    <3> QED BY <3>4, <3>6, <3>7, <3>8
  <2> QED BY <2>1, <2>2
<1>9. TypeInv'
  <2>1. vt' \in [Backends -> Target]
      BY <1>1, <1>8
  <2> QED BY <1>0, <1>1, <1>3, <2>1 DEF TypeInv
<1>10. ProbeInv'
  <2>1. \A b \in Backends : ~Unlinked(b) /\ ~Unlinked(b)'
      BY <1>1, <1>3 DEF Unlinked
  <2> QED BY <1>0, <1>1, <1>8, <2>1, ZenonT(40) DEF ProbeInv
<1>11. BackendRefsExact'
    BY <1>0, <1>1, <1>2 DEF BackendRefsExact
<1>12. UnprobedHealthy'
    BY <1>0, <1>1, <1>8 DEF UnprobedHealthy
<1> QED BY <1>2, <1>6, <1>7, <1>9, <1>10, <1>11, <1>12 DEF IInv

\* vcl.discard marks the VCL, unless it is the active one, and disposes of it if it can.
LEMMA DiscardStep ==
    ASSUME IInv, NEW v \in Vcls, vcl_discard(v)
    PROVE  IInv'
<1>0. /\ TypeInv /\ RefInv /\ CliInv /\ DirInv /\ ProbeInv /\ BackendRefsExact /\ UnprobedHealthy
      /\ cli \in Command /\ vcl \in [Vcls -> {"none", "avail", "discard", "fini", "failed"}]
    BY DEF IInv, TypeInv
<1>1. /\ cli.pc = "cmd" /\ vcl[v] = "avail"
      /\ vcl' = IF v = vcl_active THEN vcl ELSE [vcl EXCEPT ![v] = "discard"]
      /\ UNCHANGED <<vcl_head, vcl_active, busy, wvcl, svcl, wpc, parked>>
      /\ cli' = IF vcl'[v] = "discard" THEN [cli EXCEPT !.pc = "discarded", !.v = v] ELSE NoCmd
      /\ UNCHANGED <<be, director, vbc, getfd, vt, panic, lost>>
    BY DEF vcl_discard, ccf_config_discard
<1>2. VclRefsExact' /\ ConnInv' /\ (\A x \in Backends : Using(x)' = Using(x))
      /\ \A w \in Workers : svcl'[w] # NULL <=> wpc'[w] = "run"
    BY <1>1, WorkersFrame
<1>3. /\ vcl' \in [Vcls -> {"none", "avail", "discard", "fini", "failed"}]
      /\ Listed' = Listed
      /\ \A x \in Vcls : vcl'[x] \in {"none", "fini"} => vcl'[x] = vcl[x]
      /\ vcl_active # NULL => vcl'[vcl_active] = vcl[vcl_active]
    BY <1>0, <1>1 DEF Listed, TypeInv
<1>4. /\ \A x \in Vcls : vcl[x] # "fini"
      /\ \A x \in Listed : director[x] = Range(Uses[x])
      /\ \A x \in Vcls : vcl[x] = "none" => director[x] = {}
    BY <1>0, <1>1, PlainDir DEF Loading, Disposing
<1>5. cli.todo = <<>> /\ Distinct(cli.dirs)
    BY <1>0, <1>1 DEF CliInv, Disposing
<1>6. RefInv'
    BY <1>0, <1>1, <1>2, <1>3 DEF RefInv
<1>7. cli' \in Command /\ cli'.pc \in {"idle", "discarded"} /\ CliInv' /\ DirInv'
  <2>1. CASE vcl'[v] = "discard"
    <3>1. cli' = [cli EXCEPT !.pc = "discarded", !.v = v]
        BY <1>1, <2>1
    <3>2. /\ cli' \in Command /\ cli'.pc = "discarded" /\ cli'.v = v /\ cli'.todo = cli.todo
          /\ cli'.dirs = cli.dirs
        BY <1>0, <3>1 DEF Command
    <3>3. CliInv'
      <4>1. \A x \in Vcls : vcl'[x] # "fini"
          BY <1>3, <1>4
      <4> QED BY <1>5, <2>1, <3>2, <4>1 DEF CliInv, Disposing, Loading
    <3>4. DirInv'
      <4>1. \A x \in Vcls : vcl'[x] = "none" => director'[x] = {}
          BY <1>1, <1>3, <1>4
      <4> QED BY <1>1, <1>3, <1>4, <3>2, <4>1 DEF DirInv, Disposing, Loading
    <3> QED BY <3>2, <3>3, <3>4
  <2>2. CASE vcl'[v] # "discard"
    <3>1. cli' = NoCmd
        BY <1>1, <2>2
    <3>2. cli' \in Command /\ cli'.pc = "idle" /\ cli'.todo = <<>> /\ Distinct(cli'.dirs)
        BY <3>1, NoCmdFacts
    <3> QED BY <1>1, <1>3, <1>4, <3>2, PlainCli
  <2> QED BY <2>1, <2>2
<1>8. TypeInv'
    BY <1>0, <1>1, <1>3, <1>7 DEF TypeInv
<1>9. ProbeInv'
    BY <1>0, <1>1, <1>7, ProbeFrame DEF Removing
<1>10. BackendRefsExact'
    BY <1>0, <1>1, <1>2 DEF BackendRefsExact
<1>11. UnprobedHealthy'
    BY <1>0, <1>1 DEF UnprobedHealthy
<1> QED BY <1>2, <1>6, <1>7, <1>8, <1>9, <1>10, <1>11 DEF IInv

LEMMA DiscardNukeStep ==
    ASSUME IInv, vcl_discard_nuke
    PROVE  IInv'
<1>0. TypeInv /\ CliInv /\ DirInv /\ ProbeInv /\ cli \in Command
    BY DEF IInv, TypeInv
<1>1. /\ cli.pc = "discarded" /\ UNCHANGED <<be, director, vbc, getfd, vt, panic, lost>>
      /\ \/ /\ busy[cli.v] = 0 /\ VCL_Nuke(cli.v)
            /\ cli' = [cli EXCEPT !.pc = "fini", !.dirs = Uses[cli.v]]
         \/ UNCHANGED refVars /\ cli' = NoCmd
    BY DEF vcl_discard_nuke
<1>2. cli.v \in Vcls /\ vcl[cli.v] = "discard" /\ Doomed = cli.v
    BY <1>0, <1>1 DEF CliInv, Doomed, Disposing
<1>3. CASE /\ busy[cli.v] = 0 /\ VCL_Nuke(cli.v)
           /\ cli' = [cli EXCEPT !.pc = "fini", !.dirs = Uses[cli.v]]
    BY <1>1, <1>2, <1>3, NukeStep
<1>4. CASE UNCHANGED refVars /\ cli' = NoCmd
  <2>1. cli' \in Command /\ cli'.pc = "idle" /\ cli'.todo = <<>> /\ Distinct(cli'.dirs)
      BY <1>4, NoCmdFacts
  <2>2. UNCHANGED <<vcl_head, vcl>>
      BY <1>4 DEF refVars
  <2>3. Listed' = Listed
      BY <2>2 DEF Listed
  <2>4. /\ \A x \in Vcls : vcl[x] # "fini"
        /\ \A x \in Listed : director[x] = Range(Uses[x])
        /\ \A x \in Vcls : vcl[x] = "none" => director[x] = {}
      BY <1>0, <1>1, PlainDir DEF Loading, Disposing
  <2>5. CliInv' /\ DirInv'
      BY <1>1, <2>1, <2>2, <2>3, <2>4, PlainCli
  <2>6. ProbeInv'
      BY <1>0, <1>1, <2>1, ProbeFrame DEF Removing
  <2> QED BY <1>1, <1>4, <2>1, <2>5, <2>6, CliFrame DEF IInv
<1> QED BY <1>1, <1>3, <1>4

\* VCL_Load ends, with the program on the list or unmapped.
LEMMA LoadEndStep ==
    ASSUME IInv, init_vcl_fails \/ init_vcl_done
    PROVE  IInv'
<1>0. /\ TypeInv /\ RefInv /\ CliInv /\ DirInv /\ ProbeInv /\ BackendRefsExact /\ UnprobedHealthy
      /\ cli \in Command /\ vcl \in [Vcls -> {"none", "avail", "discard", "fini", "failed"}]
      /\ vcl_head \in Seq(Vcls) /\ Distinct(vcl_head) /\ Range(vcl_head) = Listed
    BY DEF IInv, TypeInv, RefInv
<1> DEFINE v == cli.v
<1>1. /\ cli.pc = "init" /\ cli' = NoCmd /\ UNCHANGED <<be, director, vbc, getfd, vt, panic, lost>>
      /\ UNCHANGED <<busy, wvcl, svcl, wpc, parked>>
    BY DEF init_vcl_fails, init_vcl_done, VCL_Load_fail, VCL_Load_done
<1>2. v \in Vcls /\ vcl[v] = "none" /\ v \notin Listed
    BY <1>0, <1>1 DEF CliInv, Loading, Listed
<1>3. VclRefsExact' /\ ConnInv' /\ (\A x \in Backends : Using(x)' = Using(x))
      /\ \A w \in Workers : svcl'[w] # NULL <=> wpc'[w] = "run"
    BY <1>1, WorkersFrame
<1>4. cli' \in Command /\ cli'.pc = "idle" /\ cli'.todo = <<>> /\ Distinct(cli'.dirs)
    BY <1>1, NoCmdFacts
<1>5. /\ \A x \in Vcls : vcl[x] # "fini"
      /\ \A x \in Listed : director[x] = Range(Uses[x])
      /\ \A x \in Vcls \ {v} : vcl[x] = "none" => director[x] = {}
      /\ director[v] \cup Range(cli.dirs) = Range(Uses[v])
    BY <1>0, <1>1 DEF CliInv, DirInv, Loading, Disposing
<1>6. ProbeInv'
    BY <1>0, <1>1, <1>4, ProbeFrame DEF Removing
<1>7. BackendRefsExact'
    BY <1>0, <1>1, <1>3 DEF BackendRefsExact
<1>8. UnprobedHealthy'
    BY <1>0, <1>1 DEF UnprobedHealthy
<1>9. CASE init_vcl_fails
  <2>1. vcl' = [vcl EXCEPT ![v] = "failed"] /\ UNCHANGED <<vcl_head, vcl_active>>
      BY <1>9 DEF init_vcl_fails, VCL_Load_fail
  <2>2. /\ vcl' \in [Vcls -> {"none", "avail", "discard", "fini", "failed"}] /\ Listed' = Listed
        /\ vcl'[v] = "failed" /\ \A x \in Vcls \ {v} : vcl'[x] = vcl[x]
      BY <1>0, <1>2, <2>1 DEF Listed
  <2>3. TypeInv'
      BY <1>0, <1>1, <1>4, <2>1, <2>2 DEF TypeInv
  <2>4. RefInv'
    <3>1. vcl_active' # NULL => vcl'[vcl_active'] = "avail"
        BY <1>0, <1>2, <2>1, <2>2 DEF RefInv, TypeInv
    <3> QED BY <1>0, <1>1, <1>3, <2>1, <2>2, <3>1 DEF RefInv
  <2>5. CliInv' /\ DirInv'
      BY <1>1, <1>2, <1>4, <1>5, <2>2, PlainCli
  <2> QED BY <1>3, <1>6, <1>7, <1>8, <2>3, <2>4, <2>5 DEF IInv
<1>10. CASE init_vcl_done
  <2>1. /\ cli.dirs = <<>> /\ vcl_head' = Append(vcl_head, v) /\ vcl' = [vcl EXCEPT ![v] = "avail"]
        /\ vcl_active' = IF vcl_active = NULL THEN v ELSE vcl_active
      BY <1>10 DEF init_vcl_done, VCL_Load_done
  <2>2. /\ vcl' \in [Vcls -> {"none", "avail", "discard", "fini", "failed"}]
        /\ Listed' = Listed \cup {v}
        /\ vcl'[v] = "avail" /\ \A x \in Vcls \ {v} : vcl'[x] = vcl[x]
      BY <1>0, <1>2, <2>1 DEF Listed
  <2>3. vcl_head' \in Seq(Vcls) /\ Distinct(vcl_head') /\ Range(vcl_head') = Listed'
      BY <1>0, <1>2, <2>1, <2>2, AppendEntry
  <2>4. TypeInv'
      BY <1>0, <1>1, <1>2, <1>4, <2>1, <2>2, <2>3 DEF TypeInv
  <2>5. RefInv'
    <3>1. vcl_active' # NULL => vcl'[vcl_active'] = "avail"
        BY <1>0, <1>2, <2>1, <2>2 DEF RefInv, TypeInv
    <3>2. \A x \in Vcls \ Listed' : busy'[x] = 0
        BY <1>0, <1>1, <2>2 DEF RefInv
    <3> QED BY <1>3, <2>3, <3>1, <3>2 DEF RefInv
  <2>6. CliInv' /\ DirInv'
    <3>1. director[v] = Range(Uses[v])
        BY <1>5, <2>1, NoCmdFacts
    <3>2. /\ \A x \in Vcls : vcl'[x] # "fini"
          /\ \A x \in Listed' : director'[x] = Range(Uses[x])
          /\ \A x \in Vcls : vcl'[x] = "none" => director'[x] = {}
        BY <1>1, <1>5, <2>2, <3>1
    <3> QED BY <1>4, <3>2, PlainCli
  <2> QED BY <1>3, <1>6, <1>7, <1>8, <2>4, <2>5, <2>6 DEF IInv
<1> QED BY <1>9, <1>10

\* VBP_Insert: the program joins the list of a probed backend, or a thread is started for it.
LEMMA InsertTarget ==
    ASSUME IInv, cli.pc \in Loading, NEW b \in Backends, b \notin director[cli.v],
           NEW h, b \in Probes[cli.v] /\ VBP_Insert(b, h)
    PROVE  /\ vt' \in [Backends -> Target] /\ \A x \in Backends \ {b} : vt'[x] = vt[x]
           /\ Distinct(vt'[b].vcls) /\ Range(vt'[b].vcls) = Range(vt[b].vcls) \cup {cli.v}
           /\ vt'[b].pc # "none" /\ vt'[b].vcls # <<>>
           /\ vt'[b].stop => vt[b].stop
           /\ vt'[b].pc = "end" => vt[b].pc = "end" /\ vt'[b].stop = vt[b].stop
<1>0. /\ vt \in [Backends -> Target] /\ vt[b] \in Target /\ cli.v \in Vcls
      /\ vt[b].vcls \in Seq(Vcls) /\ Distinct(vt[b].vcls)
      /\ cli.v \notin Range(vt[b].vcls) /\ (vt[b].pc = "none" => vt[b].vcls = <<>>)
    BY DEF IInv, TypeInv, CliInv, ProbeInv, Target
<1> DEFINE q == vt[b].vcls
<1>1. CASE vt[b].pc # "none"
  <2> DEFINE r == Append(q, cli.v)
  <2>1. r \in Seq(Vcls) /\ Range(r) = Range(q) \cup {cli.v} /\ Distinct(r)
      BY <1>0, AppendEntry
  <2>2. vt' = [vt EXCEPT ![b].vcls = r]
      BY <1>1 DEF VBP_Insert
  <2> HIDE DEF r
  <2>3. /\ vt' \in [Backends -> Target] /\ vt'[b].vcls = r
        /\ vt'[b].pc = vt[b].pc /\ vt'[b].stop = vt[b].stop
        /\ \A x \in Backends \ {b} : vt'[x] = vt[x]
      BY <1>0, <2>1, <2>2 DEF Target
  <2>4. r # <<>>
      BY <2>1, EmptyList
  <2> QED BY <1>1, <2>1, <2>3, <2>4
<1>2. CASE vt[b].pc = "none"
  <2> DEFINE up == [i \in 1..Window |-> i <= Initial]
             r == [NoTarget EXCEPT !.pc = "top", !.vcls = <<cli.v>>, !.happy = up]
  <2>1. vt' = [vt EXCEPT ![b] = r]
      BY <1>2 DEF VBP_Insert
  <2>2. up \in [1..Window -> BOOLEAN]
      OBVIOUS
  <2> HIDE DEF up
  <2>3. r \in Target /\ r.pc = "top" /\ r.vcls = <<cli.v>> /\ r.stop = FALSE
    <3>1. <<cli.v>> \in Seq(Vcls)
        BY <1>0
    <3> QED BY <2>2, <3>1 DEF NoTarget, Target
  <2>4. Distinct(<<cli.v>>) /\ Range(<<cli.v>>) = {cli.v} /\ <<cli.v>> # <<>>
      BY DEF Distinct, Range
  <2>5. Range(q) = {}
      BY <1>0, <1>2, NoCmdFacts
  <2> HIDE DEF r
  <2>6. vt' \in [Backends -> Target] /\ vt'[b] = r /\ \A x \in Backends \ {b} : vt'[x] = vt[x]
      BY <1>0, <2>1, <2>3
  <2> QED BY <2>3, <2>4, <2>5, <2>6
<1> QED BY <1>1, <1>2

\* VRT_init_dir_simple: one more backend gets a director.
LEMMA AddBackendStep ==
    ASSUME IInv, VBE_AddBackend_new \/ VBE_AddBackend_store
    PROVE  IInv'
<1> DEFINE b == Head(cli.dirs)
           v == cli.v
<1>0. /\ TypeInv /\ RefInv /\ CliInv /\ DirInv /\ ProbeInv /\ BackendRefsExact /\ UnprobedHealthy
      /\ cli \in Command /\ be \in [Backends -> Struct] /\ lost \subseteq Backends
      /\ director \in [Vcls -> SUBSET Backends] /\ cli.tmp \in Int
      /\ cli.dirs \in Seq(Backends) /\ Distinct(cli.dirs)
    BY DEF IInv, TypeInv, CliInv, Command
<1>1. /\ cli.pc \in Loading /\ cli.dirs # <<>>
      /\ \E n \in Int : VRT_init_dir_simple(b, n)
  <2>1. CASE VBE_AddBackend_new
      BY <2>1 DEF VBE_AddBackend_new, Loading
  <2>2. CASE VBE_AddBackend_store
      BY <1>0, <2>2 DEF VBE_AddBackend_store, Loading, CliInv
  <2> QED BY <2>1, <2>2
<1>2. PICK n \in Int : VRT_init_dir_simple(b, n)
    BY <1>1
<1>3. PICK h \in BOOLEAN :
        /\ be' = [be EXCEPT ![b] = [@ EXCEPT !.alive = TRUE, !.refcount = n, !.healthy = h]]
        /\ IF b \in Probes[v] THEN VBP_Insert(b, h) ELSE UNCHANGED vt /\ h = be[b].healthy
        /\ director' = [director EXCEPT ![v] = @ \cup {b}]
        /\ cli' = [cli EXCEPT !.pc = "init", !.dirs = Tail(@), !.tmp = 0]
        /\ lost' = IF n = be[b].refcount + 1 THEN lost ELSE lost \cup {b}
        /\ UNCHANGED <<refVars, vbc, getfd, panic>>
    BY <1>2 DEF VRT_init_dir_simple
<1>4. UNCHANGED <<vcl_head, vcl, busy, vcl_active, wvcl, svcl, wpc, parked>>
    BY <1>3 DEF refVars
<1>5. /\ b \in Backends /\ b \in Range(cli.dirs) /\ Tail(cli.dirs) \in Seq(Backends)
      /\ Distinct(Tail(cli.dirs)) /\ Range(Tail(cli.dirs)) = Range(cli.dirs) \ {b}
    BY <1>0, <1>1, TailEntry
<1>6. /\ cli.todo = <<>> /\ v \in Vcls /\ vcl[v] = "none" /\ b \notin director[v]
      /\ director[v] \cap Range(cli.dirs) = {}
      /\ director[v] \cup Range(cli.dirs) = Range(Uses[v])
    BY <1>0, <1>1, <1>5 DEF CliInv, DirInv, Loading, Disposing
<1>7. /\ be' \in [Backends -> Struct] /\ \A x \in Backends \ {b} : be'[x] = be[x]
      /\ be'[b].alive = TRUE /\ be'[b].refcount = n /\ be'[b].healthy = h
      /\ be'[b].n_conn = be[b].n_conn /\ be'[b].idle = be[b].idle
  <2> DEFINE r == [be[b] EXCEPT !.alive = TRUE, !.refcount = n, !.healthy = h]
  <2>1. be[b] \in Struct
      BY <1>0, <1>5
  <2>2. /\ r \in Struct /\ r.alive = TRUE /\ r.refcount = n /\ r.healthy = h
        /\ r.n_conn = be[b].n_conn /\ r.idle = be[b].idle
      BY <2>1 DEF Struct
  <2>3. be' = [be EXCEPT ![b] = r]
      BY <1>3
  <2> HIDE DEF r
  <2>4. be' \in [Backends -> Struct] /\ be'[b] = r /\ \A x \in Backends \ {b} : be'[x] = be[x]
      BY <1>0, <1>5, <2>2, <2>3
  <2> QED BY <2>2, <2>4
<1>8. /\ cli' \in Command /\ cli'.pc = "init" /\ cli'.dirs = Tail(cli.dirs) /\ cli'.v = v
      /\ cli'.todo = <<>>
  <2> DEFINE t == Tail(cli.dirs)
             z == 0
  <2>1. /\ t \in Seq(Backends) /\ z \in Int
        /\ cli' = [cli EXCEPT !.pc = "init", !.dirs = t, !.tmp = z]
      BY <1>3, <1>5
  <2> HIDE DEF t, z
  <2>2. /\ cli' \in Command /\ cli'.pc = "init" /\ cli'.dirs = t /\ cli'.v = v
        /\ cli'.todo = cli.todo
      BY <1>0, <2>1 DEF Command, Loading
  <2> QED BY <1>6, <2>2 DEF t
<1>9. /\ director' \in [Vcls -> SUBSET Backends] /\ director'[v] = director[v] \cup {b}
      /\ \A x \in Vcls \ {v} : director'[x] = director[x]
    BY <1>0, <1>3, <1>5, <1>6
<1>10. lost' \subseteq Backends /\ lost \subseteq lost' /\ (b \notin lost' => n = be[b].refcount + 1)
    BY <1>0, <1>3, <1>5
<1>11. VclRefsExact' /\ ConnInv' /\ \A x \in Backends : Using(x)' = Using(x)
    BY <1>3, <1>4, WorkersFrame
<1>12. Listed' = Listed /\ RefInv' /\ v \notin Listed
    BY <1>0, <1>4, <1>6, <1>11 DEF RefInv, Listed
<1>13. /\ vt' \in [Backends -> Target] /\ \A x \in Backends \ {b} : vt'[x] = vt[x]
       /\ Distinct(vt'[b].vcls)
       /\ Range(vt'[b].vcls) = Range(vt[b].vcls) \cup (IF b \in Probes[v] THEN {v} ELSE {})
       /\ vt'[b].pc = "none" => /\ vt[b].pc = "none" /\ vt'[b].vcls = vt[b].vcls
                                /\ h = be[b].healthy
       /\ vt'[b].pc # "none" /\ vt'[b].vcls = <<>> => vt[b].pc # "none" /\ vt[b].vcls = <<>>
       /\ vt'[b].stop => vt[b].stop
       /\ vt'[b].pc = "end" => vt[b].pc = "end" /\ vt'[b].stop = vt[b].stop
  <2>1. CASE b \in Probes[v]
    <3>1. /\ vt' \in [Backends -> Target] /\ \A x \in Backends \ {b} : vt'[x] = vt[x]
          /\ Distinct(vt'[b].vcls) /\ Range(vt'[b].vcls) = Range(vt[b].vcls) \cup {v}
          /\ vt'[b].pc # "none" /\ vt'[b].vcls # <<>>
          /\ vt'[b].stop => vt[b].stop
          /\ vt'[b].pc = "end" => vt[b].pc = "end" /\ vt'[b].stop = vt[b].stop
        BY <1>1, <1>3, <1>5, <1>6, <2>1, InsertTarget
    <3> QED BY <2>1, <3>1
  <2>2. CASE b \notin Probes[v]
    <3>1. vt' = vt /\ h = be[b].healthy
        BY <1>3, <2>2
    <3>2. vt \in [Backends -> Target] /\ Distinct(vt[b].vcls)
        BY <1>0, <1>5 DEF TypeInv, ProbeInv
    <3> QED BY <2>2, <3>1, <3>2
  <2> QED BY <2>1, <2>2
<1>14. TypeInv'
    BY <1>0, <1>3, <1>4, <1>7, <1>8, <1>9, <1>10, <1>13 DEF TypeInv
<1>15. CliInv'
  <2>1. \A x \in Vcls : vcl'[x] # "fini"
      BY <1>0, <1>1, <1>4 DEF CliInv, Loading, Disposing
  <2> QED BY <1>4, <1>5, <1>6, <1>8, <2>1 DEF CliInv, Loading, Disposing
<1>16. DirInv'
  <2>1. \A x \in Listed : director'[x] = Range(Uses[x])
      BY <1>0, <1>9, <1>12 DEF DirInv, Listed
  <2>2. /\ director'[v] \cap Range(cli'.dirs) = {}
        /\ director'[v] \cup Range(cli'.dirs) = Range(Uses[v])
      BY <1>5, <1>6, <1>8, <1>9
  <2>3. \A x \in Vcls \ {v} : vcl'[x] = "none" => director'[x] = {}
      BY <1>0, <1>1, <1>4, <1>9 DEF DirInv
  <2> QED BY <1>8, <1>12, <2>1, <2>2, <2>3 DEF DirInv, Loading, Disposing
<1>17. UnprobedHealthy'
    BY <1>0, <1>7, <1>13 DEF UnprobedHealthy
<1>18. ProbeInv'
  <2>1. \A x \in Backends : ~Unlinked(x) /\ ~Unlinked(x)'
      BY <1>1, <1>8 DEF Unlinked, Loading
  <2> SUFFICES ASSUME NEW x \in Backends
               PROVE  /\ Distinct(vt'[x].vcls)
                      /\ Range(vt'[x].vcls) = {u \in Vcls : x \in director'[u] \cap Probes[u]}
                      /\ vt'[x].pc = "none" => vt'[x].vcls = <<>>
                      /\ vt'[x].pc # "none" => vt'[x].vcls # <<>>
                      /\ ~vt'[x].stop /\ vt'[x].pc # "end"
      BY <2>1 DEF ProbeInv
  <2>2. /\ Distinct(vt[x].vcls)
        /\ Range(vt[x].vcls) = {u \in Vcls : x \in director[u] \cap Probes[u]}
        /\ vt[x].pc = "none" => vt[x].vcls = <<>>
        /\ vt[x].pc # "none" => vt[x].vcls # <<>>
        /\ ~vt[x].stop /\ vt[x].pc # "end"
      BY <1>0, <2>1 DEF ProbeInv
  <2>3. CASE x # b
    <3>1. vt'[x] = vt[x] /\ \A u \in Vcls : x \in director'[u] <=> x \in director[u]
        BY <1>9, <1>13, <2>3
    <3> QED BY <2>2, <3>1
  <2>4. CASE x = b
    <3>1. {u \in Vcls : x \in director'[u] \cap Probes[u]}
             = {u \in Vcls : x \in director[u] \cap Probes[u]}
               \cup (IF x \in Probes[v] THEN {v} ELSE {})
        BY <1>6, <1>9, <2>4
    <3> QED BY <1>13, <2>2, <2>4, <3>1
  <2> QED BY <2>3, <2>4
<1>19. BackendRefsExact'
  <2> SUFFICES ASSUME NEW x \in Backends, x \notin lost'
               PROVE  /\ be'[x].refcount = Cardinality(Directing(x)') + Cardinality(Using(x))
                      /\ be'[x].n_conn = be'[x].idle + Cardinality(Using(x))
                      /\ be'[x].alive <=> be'[x].refcount > 0
      BY <1>11 DEF BackendRefsExact, Directing
  <2>1. /\ be[x].refcount = Cardinality(Directing(x)) + Cardinality(Using(x))
        /\ be[x].n_conn = be[x].idle + Cardinality(Using(x))
        /\ be[x].alive <=> be[x].refcount > 0
      BY <1>0, <1>10 DEF BackendRefsExact, Directing
  <2>2. CASE x # b
    <3>1. Directing(x)' = Directing(x)
        BY <1>9, <2>2 DEF Directing
    <3> QED BY <1>7, <2>1, <2>2, <3>1
  <2>3. CASE x = b
    <3>1. Directing(x)' = Directing(x) \cup {v} /\ v \notin Directing(x)
        BY <1>6, <1>9, <2>3 DEF Directing
    <3>2. IsFiniteSet(Directing(x)) /\ Cardinality(Directing(x)) \in Nat
        BY DirectingCount
    <3>3. Cardinality(Directing(x)') = Cardinality(Directing(x)) + 1
        BY <3>1, <3>2, CountOne
    <3>4. Cardinality(Using(x)) \in Nat
        BY UsingCount
    <3>5. n = be[b].refcount + 1
        BY <1>10, <2>3
    <3> QED BY <1>7, <2>1, <2>3, <3>2, <3>3, <3>4, <3>5
  <2> QED BY <2>2, <2>3
<1> QED BY <1>11, <1>12, <1>14, <1>15, <1>16, <1>17, <1>18, <1>19 DEF IInv

\* The place within fini_vcl changes: the list of programs, the programs and the directors do not.
LEMMA FiniFrame ==
    ASSUME IInv, cli.pc \in Disposing, cli'.pc \in Disposing, cli' \in Command,
           cli'.todo = cli.todo, cli'.v = cli.v, cli'.dirs = cli.dirs,
           cli'.pc \in Removing => cli.dirs # <<>>,
           UNCHANGED <<refVars, director>>
    PROVE  CliInv' /\ DirInv' /\ Doomed' = Doomed
<1>0. CliInv /\ DirInv
    BY DEF IInv
<1>1. UNCHANGED <<vcl_head, vcl>>
    BY DEF refVars
<1>2. Listed' = Listed /\ Doomed' = Doomed
    BY <1>1 DEF Listed, Doomed
<1>3. cli.pc # "poll" /\ cli'.pc # "poll" /\ cli.pc \notin Loading /\ cli'.pc \notin Loading
      /\ cli'.pc # "discarded" /\ cli'.pc # "store"
    BY DEF Disposing, Loading
<1>4. CliInv'
  <2>1. /\ Distinct(cli.todo) /\ Range(cli.todo) \subseteq Listed \cup {Doomed}
        /\ Doomed \in Vcls /\ \A x \in Vcls : vcl[x] = "fini" <=> x = Doomed
        /\ Distinct(cli.dirs)
      BY <1>0, <1>3 DEF CliInv
  <2> QED BY <1>1, <1>2, <1>3, <2>1 DEF CliInv, Removing
<1>5. DirInv'
    BY <1>0, <1>1, <1>2, <1>3 DEF DirInv
<1> QED BY <1>2, <1>4, <1>5

\* What the invariant says of the backend that fini_vcl has come to.
LEMMA FiniFacts ==
    ASSUME IInv, cli.pc \in Disposing, cli.dirs # <<>>
    PROVE  /\ Doomed \in Vcls /\ Head(cli.dirs) \in Backends
           /\ Head(cli.dirs) \in director[Doomed]
           /\ Tail(cli.dirs) \in Seq(Backends) /\ Distinct(Tail(cli.dirs))
           /\ Range(Tail(cli.dirs)) = Range(cli.dirs) \ {Head(cli.dirs)}
<1>1. cli.dirs \in Seq(Backends) /\ Distinct(cli.dirs) /\ Doomed \in Vcls
    BY DEF IInv, TypeInv, Command, CliInv
<1>2. director[Doomed] = Range(cli.dirs)
    BY DEF IInv, DirInv
<1> QED BY <1>1, <1>2, TailEntry

\* VBP_Remove takes the program off the list.
LEMMA UnlinkStep ==
    ASSUME IInv, VBP_Remove_unlink
    PROVE  IInv'
<1> DEFINE b == Head(cli.dirs)
           d == Doomed
           rest == Without(vt[b].vcls, d)
<1>0. /\ TypeInv /\ RefInv /\ CliInv /\ DirInv /\ ProbeInv /\ BackendRefsExact /\ UnprobedHealthy
      /\ cli \in Command /\ be \in [Backends -> Struct] /\ vt \in [Backends -> Target]
    BY DEF IInv, TypeInv
<1>1. /\ cli.pc = "fini" /\ cli.dirs # <<>>
      /\ UNCHANGED <<refVars, director, vbc, getfd, panic, lost>>
      /\ IF b \notin Probes[d]
           THEN UNCHANGED <<be, vt>> /\ cli' = [cli EXCEPT !.pc = "drop"]
           ELSE /\ vt' = [vt EXCEPT ![b].vcls = rest]
                /\ be' = IF rest = <<>> THEN [be EXCEPT ![b].healthy = TRUE] ELSE be
                /\ cli' = [cli EXCEPT !.pc = IF rest = <<>> THEN "stop" ELSE "drop"]
    BY DEF VBP_Remove_unlink
<1>2. UNCHANGED <<vcl_head, vcl, busy, vcl_active, wvcl, svcl, wpc, parked>>
    BY <1>1 DEF refVars
<1>3. d \in Vcls /\ b \in Backends /\ b \in director[d]
    BY <1>1, FiniFacts DEF Disposing
<1>4. /\ cli' \in Command /\ cli'.pc \in {"stop", "drop"} /\ cli'.todo = cli.todo
      /\ cli'.v = cli.v /\ cli'.dirs = cli.dirs
      /\ cli'.pc = "stop" <=> b \in Probes[d] /\ rest = <<>>
    BY <1>0, <1>1 DEF Command, Disposing
<1>5. CliInv' /\ DirInv' /\ Doomed' = d
    BY <1>1, <1>4, FiniFrame DEF Disposing, Removing
<1>6. VclRefsExact' /\ ConnInv' /\ \A x \in Backends : Using(x)' = Using(x)
    BY <1>1, <1>2, WorkersFrame
<1>7. RefInv'
    BY <1>0, <1>2, <1>6 DEF RefInv, Listed
<1>8. /\ vt[b] \in Target /\ vt[b].vcls \in Seq(Vcls) /\ Distinct(vt[b].vcls)
      /\ Range(vt[b].vcls) = {v \in Vcls : b \in director[v] \cap Probes[v]}
      /\ vt[b].pc = "none" => vt[b].vcls = <<>>
    BY <1>0, <1>1, <1>3 DEF Target, ProbeInv, Unlinked
<1>9. b \in Probes[d] => /\ rest \in Seq(Vcls) /\ Distinct(rest)
                         /\ Range(rest) = Range(vt[b].vcls) \ {d} /\ vt[b].pc # "none"
  <2> SUFFICES ASSUME b \in Probes[d]
               PROVE  /\ rest \in Seq(Vcls) /\ Distinct(rest)
                      /\ Range(rest) = Range(vt[b].vcls) \ {d} /\ vt[b].pc # "none"
      OBVIOUS
  <2>1. d \in Range(vt[b].vcls)
      BY <1>3, <1>8
  <2>2. vt[b].vcls # <<>>
      BY <1>8, <2>1, EmptyList
  <2> QED BY <1>8, <2>1, <2>2, WithoutEntry
<1> HIDE DEF rest
<1>10. /\ vt' \in [Backends -> Target] /\ \A x \in Backends \ {b} : vt'[x] = vt[x]
       /\ vt'[b].pc = vt[b].pc /\ vt'[b].stop = vt[b].stop
       /\ vt'[b].vcls = IF b \in Probes[d] THEN rest ELSE vt[b].vcls
  <2>1. CASE b \in Probes[d]
    <3> DEFINE r == [vt[b] EXCEPT !.vcls = rest]
    <3>1. vt' = [vt EXCEPT ![b] = r]
        BY <1>1, <2>1
    <3>2. r \in Target /\ r.vcls = rest /\ r.pc = vt[b].pc /\ r.stop = vt[b].stop
        BY <1>8, <1>9, <2>1 DEF Target
    <3> HIDE DEF r
    <3>3. vt' \in [Backends -> Target] /\ vt'[b] = r /\ \A x \in Backends \ {b} : vt'[x] = vt[x]
        BY <1>0, <1>3, <3>1, <3>2
    <3> QED BY <2>1, <3>2, <3>3
  <2>2. CASE b \notin Probes[d]
      BY <1>0, <1>1, <2>2
  <2> QED BY <2>1, <2>2
<1>11. /\ be' \in [Backends -> Struct]
       /\ \A x \in Backends : /\ be'[x].refcount = be[x].refcount /\ be'[x].n_conn = be[x].n_conn
                              /\ be'[x].idle = be[x].idle /\ be'[x].alive = be[x].alive
                              /\ be[x].healthy => be'[x].healthy
  <2>1. CASE be' = be
      BY <1>0, <2>1
  <2>2. CASE be' = [be EXCEPT ![b].healthy = TRUE]
      BY <1>0, <1>3, <2>2 DEF Struct
  <2> QED BY <1>1, <2>1, <2>2
<1>12. TypeInv'
    BY <1>0, <1>1, <1>2, <1>4, <1>10, <1>11 DEF TypeInv
<1>13. BackendRefsExact'
  <2>1. UNCHANGED <<director, lost>>
      BY <1>1
  <2>2. \A x \in Backends : /\ be'[x].refcount = be[x].refcount /\ be'[x].n_conn = be[x].n_conn
                            /\ be'[x].idle = be[x].idle /\ be'[x].alive = be[x].alive
      BY <1>11
  <2> QED BY <1>0, <1>6, <2>1, <2>2, ZenonT(40) DEF BackendRefsExact
<1>14. UnprobedHealthy'
    BY <1>0, <1>10, <1>11 DEF UnprobedHealthy
<1>15. ProbeInv'
  <2>1. \A x \in Backends : ~Unlinked(x) /\ (Unlinked(x)' <=> x = b)
      BY <1>1, <1>4 DEF Unlinked
  <2> SUFFICES ASSUME NEW x \in Backends
               PROVE  /\ Distinct(vt'[x].vcls)
                      /\ Range(vt'[x].vcls) = {v \in Vcls : x \in director[v] \cap Probes[v]}
                                              \ (IF x = b THEN {d} ELSE {})
                      /\ vt'[x].pc = "none" => vt'[x].vcls = <<>>
                      /\ vt'[x].pc # "none" /\ vt'[x].vcls = <<>> => x = b /\ cli'.pc # "drop"
                      /\ x = b /\ cli'.pc # "drop" =>
                            b \in Probes[d] /\ vt'[x].vcls = <<>> /\ vt'[x].pc # "none"
                      /\ ~vt'[x].stop /\ vt'[x].pc # "end"
      BY <1>1, <1>5, <2>1 DEF ProbeInv
  <2>2. /\ Distinct(vt[x].vcls)
        /\ Range(vt[x].vcls) = {v \in Vcls : x \in director[v] \cap Probes[v]}
        /\ vt[x].pc = "none" => vt[x].vcls = <<>>
        /\ vt[x].pc # "none" => vt[x].vcls # <<>>
        /\ ~vt[x].stop /\ vt[x].pc # "end"
      BY <1>0, <2>1 DEF ProbeInv
  <2>3. CASE x # b
    <3>1. vt'[x] = vt[x]
        BY <1>10, <2>3
    <3> QED BY <2>2, <2>3, <3>1
  <2>4. CASE x = b /\ b \in Probes[d]
      BY <1>4, <1>9, <1>10, <2>2, <2>4
  <2>5. CASE x = b /\ b \notin Probes[d]
    <3>1. d \notin {v \in Vcls : x \in director[v] \cap Probes[v]}
        BY <2>5
    <3> QED BY <1>4, <1>10, <2>2, <2>5, <3>1
  <2> QED BY <2>3, <2>4, <2>5
<1> QED BY <1>5, <1>6, <1>7, <1>12, <1>13, <1>14, <1>15 DEF IInv

\* VBP_Remove stops the thread and waits for it.
LEMMA StopStep ==
    ASSUME IInv, VBP_Remove_stop \/ VBP_Remove_join
    PROVE  IInv'
<1> DEFINE b == Head(cli.dirs)
<1>0. /\ TypeInv /\ RefInv /\ CliInv /\ DirInv /\ ProbeInv /\ BackendRefsExact /\ UnprobedHealthy
      /\ cli \in Command /\ be \in [Backends -> Struct] /\ vt \in [Backends -> Target]
    BY DEF IInv, TypeInv
<1>1. /\ UNCHANGED <<refVars, director, vbc, getfd, panic, lost>>
      /\ \/ /\ cli.pc = "stop" /\ cli' = [cli EXCEPT !.pc = "join"]
            /\ vt' = [vt EXCEPT ![b].stop = TRUE] /\ be' = be
         \/ /\ cli.pc = "join" /\ cli' = [cli EXCEPT !.pc = "drop"]
            /\ vt' = [vt EXCEPT ![b] = NoTarget] /\ be' = [be EXCEPT ![b].healthy = TRUE]
    BY DEF VBP_Remove_stop, VBP_Remove_join
<1>2. UNCHANGED <<vcl_head, vcl, busy, vcl_active, wvcl, svcl, wpc, parked>>
    BY <1>1 DEF refVars
<1>3. cli.pc \in {"stop", "join"} /\ cli.dirs # <<>>
    BY <1>0, <1>1 DEF CliInv
<1>4. Doomed \in Vcls /\ b \in Backends /\ b \in director[Doomed]
    BY <1>3, FiniFacts DEF Disposing
<1>5. /\ cli' \in Command /\ cli'.pc \in {"join", "drop"} /\ cli'.todo = cli.todo
      /\ cli'.v = cli.v /\ cli'.dirs = cli.dirs
    BY <1>0, <1>1 DEF Command, Disposing
<1>6. CliInv' /\ DirInv' /\ Doomed' = Doomed
    BY <1>1, <1>3, <1>5, FiniFrame DEF Disposing, Removing
<1>7. VclRefsExact' /\ ConnInv' /\ \A x \in Backends : Using(x)' = Using(x)
    BY <1>1, <1>2, WorkersFrame
<1>8. RefInv'
    BY <1>0, <1>2, <1>7 DEF RefInv, Listed
<1>9. /\ be' \in [Backends -> Struct]
      /\ \A x \in Backends : /\ be'[x].refcount = be[x].refcount /\ be'[x].n_conn = be[x].n_conn
                             /\ be'[x].idle = be[x].idle /\ be'[x].alive = be[x].alive
                             /\ be[x].healthy => be'[x].healthy
                             /\ x = b /\ cli'.pc = "drop" => be'[x].healthy
  <2>1. CASE be' = be /\ cli' = [cli EXCEPT !.pc = "join"]
    <3>1. cli'.pc = "join"
        BY <1>0, <2>1 DEF Command
    <3> QED BY <1>0, <2>1, <3>1
  <2>2. CASE be' = [be EXCEPT ![b].healthy = TRUE]
      BY <1>0, <1>4, <2>2 DEF Struct
  <2> QED BY <1>1, <2>1, <2>2
<1>10. /\ vt[b] \in Target /\ Distinct(vt[b].vcls) /\ vt[b].vcls = <<>> /\ vt[b].pc # "none"
       /\ b \in Probes[Doomed]
       /\ Range(vt[b].vcls) = {v \in Vcls : b \in director[v] \cap Probes[v]} \ {Doomed}
    BY <1>0, <1>3, <1>4 DEF ProbeInv, Unlinked
<1>11. /\ vt' \in [Backends -> Target] /\ \A x \in Backends \ {b} : vt'[x] = vt[x]
       /\ vt'[b].vcls = <<>>
       /\ \/ cli'.pc = "join" /\ vt'[b].pc = vt[b].pc /\ vt'[b].stop
          \/ cli'.pc = "drop" /\ vt'[b].pc = "none" /\ ~vt'[b].stop
  <2>1. CASE cli' = [cli EXCEPT !.pc = "join"] /\ vt' = [vt EXCEPT ![b].stop = TRUE]
    <3> DEFINE r == [vt[b] EXCEPT !.stop = TRUE]
    <3>1. vt' = [vt EXCEPT ![b] = r] /\ cli'.pc = "join"
        BY <1>0, <2>1 DEF Command
    <3>2. r \in Target /\ r.vcls = vt[b].vcls /\ r.pc = vt[b].pc /\ r.stop
        BY <1>10 DEF Target
    <3> HIDE DEF r
    <3>3. vt' \in [Backends -> Target] /\ vt'[b] = r /\ \A x \in Backends \ {b} : vt'[x] = vt[x]
        BY <1>0, <1>4, <3>1, <3>2
    <3> QED BY <1>10, <3>1, <3>2, <3>3
  <2>2. CASE cli' = [cli EXCEPT !.pc = "drop"] /\ vt' = [vt EXCEPT ![b] = NoTarget]
    <3>1. cli'.pc = "drop"
        BY <1>0, <2>2 DEF Command
    <3>2. NoTarget \in Target /\ NoTarget.vcls = <<>> /\ NoTarget.pc = "none" /\ ~NoTarget.stop
        BY DEF NoTarget, Target
    <3>3. vt' \in [Backends -> Target] /\ vt'[b] = NoTarget
          /\ \A x \in Backends \ {b} : vt'[x] = vt[x]
        BY <1>0, <1>4, <2>2, <3>2
    <3> QED BY <3>1, <3>2, <3>3
  <2> QED BY <1>1, <2>1, <2>2
<1>12. TypeInv'
    BY <1>0, <1>1, <1>2, <1>5, <1>9, <1>11 DEF TypeInv
<1>13. BackendRefsExact'
  <2>1. UNCHANGED <<director, lost>>
      BY <1>1
  <2>2. \A x \in Backends : /\ be'[x].refcount = be[x].refcount /\ be'[x].n_conn = be[x].n_conn
                            /\ be'[x].idle = be[x].idle /\ be'[x].alive = be[x].alive
      BY <1>9
  <2> QED BY <1>0, <1>7, <2>1, <2>2, ZenonT(40) DEF BackendRefsExact
<1>14. UnprobedHealthy'
  <2> SUFFICES ASSUME NEW x \in Backends, vt'[x].pc = "none" PROVE be'[x].healthy
      BY DEF UnprobedHealthy
  <2>1. CASE x = b
      BY <1>9, <1>10, <1>11, <2>1
  <2>2. CASE x # b
      BY <1>0, <1>9, <1>11, <2>2 DEF UnprobedHealthy
  <2> QED BY <2>1, <2>2
<1>15. ProbeInv'
  <2>1. \A x \in Backends : (Unlinked(x) <=> x = b) /\ (Unlinked(x)' <=> x = b)
      BY <1>3, <1>5 DEF Unlinked
  <2> SUFFICES ASSUME NEW x \in Backends
               PROVE  /\ Distinct(vt'[x].vcls)
                      /\ Range(vt'[x].vcls) = {v \in Vcls : x \in director[v] \cap Probes[v]}
                                              \ (IF x = b THEN {Doomed} ELSE {})
                      /\ vt'[x].pc = "none" => vt'[x].vcls = <<>>
                      /\ vt'[x].pc # "none" /\ vt'[x].vcls = <<>> => x = b /\ cli'.pc # "drop"
                      /\ x = b /\ cli'.pc # "drop" =>
                            b \in Probes[Doomed] /\ vt'[x].vcls = <<>> /\ vt'[x].pc # "none"
                      /\ vt'[x].stop => x = b /\ cli'.pc = "join"
                      /\ vt'[x].pc = "end" => vt'[x].stop
      BY <1>1, <1>6, <2>1 DEF ProbeInv
  <2>2. CASE x # b
    <3>1. vt'[x] = vt[x]
        BY <1>11, <2>2
    <3>2. /\ Distinct(vt[x].vcls)
          /\ Range(vt[x].vcls) = {v \in Vcls : x \in director[v] \cap Probes[v]}
          /\ vt[x].pc = "none" => vt[x].vcls = <<>>
          /\ vt[x].pc # "none" => vt[x].vcls # <<>>
          /\ ~vt[x].stop /\ vt[x].pc # "end"
        BY <1>0, <2>1, <2>2 DEF ProbeInv
    <3> QED BY <2>2, <3>1, <3>2
  <2>3. CASE x = b
      BY <1>10, <1>11, <2>3
  <2> QED BY <2>2, <2>3
<1> QED BY <1>6, <1>7, <1>8, <1>12, <1>13, <1>14, <1>15 DEF IInv

\* VBE_DropRefVcl: the director's reference goes, and the backend with the last one.
LEMMA DropRefStep ==
    ASSUME IInv, VBE_DropRefVcl
    PROVE  IInv'
<1> DEFINE b == Head(cli.dirs)
           d == Doomed
<1>0. /\ TypeInv /\ RefInv /\ CliInv /\ DirInv /\ ProbeInv /\ BackendRefsExact /\ UnprobedHealthy
      /\ cli \in Command /\ be \in [Backends -> Struct]
      /\ director \in [Vcls -> SUBSET Backends]
    BY DEF IInv, TypeInv
<1>1. /\ cli.pc = "drop"
      /\ be' = [be EXCEPT ![b] = IF be[b].refcount = 1 THEN NoBackend
                                 ELSE [be[b] EXCEPT !.refcount = @ - 1]]
      /\ director' = [director EXCEPT ![d] = @ \ {b}]
      /\ cli' = [cli EXCEPT !.pc = "fini", !.dirs = Tail(@)]
      /\ UNCHANGED <<refVars, vbc, getfd, vt, panic, lost>>
    BY DEF VBE_DropRefVcl
<1>2. UNCHANGED <<vcl_head, vcl, busy, vcl_active, wvcl, svcl, wpc, parked>>
    BY <1>1 DEF refVars
<1>3. cli.dirs # <<>>
    BY <1>0, <1>1 DEF CliInv
<1>4. /\ d \in Vcls /\ b \in Backends /\ b \in director[d] /\ director[d] = Range(cli.dirs)
      /\ Tail(cli.dirs) \in Seq(Backends) /\ Distinct(Tail(cli.dirs))
      /\ Range(Tail(cli.dirs)) = Range(cli.dirs) \ {b}
    BY <1>0, <1>1, <1>3, FiniFacts DEF Disposing, DirInv
<1>5. /\ cli' \in Command /\ cli'.pc = "fini" /\ cli'.todo = cli.todo
      /\ cli'.v = cli.v /\ cli'.dirs = Tail(cli.dirs)
  <2> DEFINE t == Tail(cli.dirs)
  <2>1. t \in Seq(Backends) /\ cli' = [cli EXCEPT !.pc = "fini", !.dirs = t]
      BY <1>1, <1>4
  <2> HIDE DEF t
  <2>2. cli' \in Command /\ cli'.pc = "fini" /\ cli'.todo = cli.todo /\ cli'.v = cli.v
        /\ cli'.dirs = t
      BY <1>0, <2>1 DEF Command, Disposing
  <2> QED BY <2>2 DEF t
<1>6. Doomed' = d /\ Listed' = Listed
    BY <1>2, <1>5 DEF Doomed, Listed
<1>7. /\ director' \in [Vcls -> SUBSET Backends] /\ director'[d] = director[d] \ {b}
      /\ \A x \in Vcls \ {d} : director'[x] = director[x]
    BY <1>0, <1>1, <1>4
<1>8. VclRefsExact' /\ ConnInv' /\ \A x \in Backends : Using(x)' = Using(x)
    BY <1>1, <1>2, WorkersFrame
<1>9. RefInv'
    BY <1>0, <1>2, <1>8 DEF RefInv, Listed
<1>10. /\ be' \in [Backends -> Struct] /\ \A x \in Backends \ {b} : be'[x] = be[x]
       /\ \/ be[b].refcount = 1 /\ be'[b] = NoBackend
          \/ /\ be[b].refcount # 1 /\ be'[b].refcount = be[b].refcount - 1
             /\ be'[b].n_conn = be[b].n_conn /\ be'[b].idle = be[b].idle
             /\ be'[b].alive = be[b].alive /\ be'[b].healthy = be[b].healthy
  <2>0. be[b] \in Struct /\ be[b].refcount \in Int
      BY <1>0, <1>4 DEF Struct
  <2>1. CASE be[b].refcount = 1
    <3>1. be' = [be EXCEPT ![b] = NoBackend]
        BY <1>1, <2>1
    <3>2. NoBackend \in Struct
        BY DEF NoBackend, Struct
    <3> QED BY <1>0, <1>4, <2>1, <3>1, <3>2
  <2>2. CASE be[b].refcount # 1
    <3> DEFINE n == be[b].refcount - 1
               r == [be[b] EXCEPT !.refcount = n]
    <3>1. n \in Int
        BY <2>0
    <3>2. be' = [be EXCEPT ![b] = IF be[b].refcount = 1 THEN NoBackend ELSE r]
        BY <1>1
    <3> HIDE DEF n
    <3>3. /\ r \in Struct /\ r.refcount = n /\ r.n_conn = be[b].n_conn /\ r.idle = be[b].idle
          /\ r.alive = be[b].alive /\ r.healthy = be[b].healthy
        BY <2>0, <3>1 DEF Struct
    <3> HIDE DEF r
    <3>4. be' \in [Backends -> Struct] /\ be'[b] = r /\ \A x \in Backends \ {b} : be'[x] = be[x]
        BY <1>0, <1>4, <2>2, <3>2, <3>3
    <3> QED BY <2>2, <3>3, <3>4 DEF n
  <2> QED BY <2>1, <2>2
<1>11. TypeInv'
    BY <1>0, <1>1, <1>2, <1>5, <1>7, <1>10 DEF TypeInv
<1>12. CliInv'
  <2>1. /\ Distinct(cli.todo) /\ Range(cli.todo) \subseteq Listed \cup {d}
        /\ \A x \in Vcls : vcl[x] = "fini" <=> x = d
      BY <1>0, <1>1 DEF CliInv, Disposing
  <2> QED BY <1>2, <1>4, <1>5, <1>6, <2>1 DEF CliInv, Disposing, Loading
<1>13. DirInv'
  <2>1. vcl[d] = "fini"
      BY <1>0, <1>1, <1>4 DEF CliInv, Disposing
  <2>2. \A x \in Listed : director'[x] = Range(Uses[x])
      BY <1>0, <1>7, <2>1 DEF DirInv, Listed
  <2>3. director'[d] = Range(cli'.dirs)
      BY <1>4, <1>5, <1>7
  <2>4. \A x \in Vcls : vcl'[x] = "none" => director'[x] = {}
      BY <1>0, <1>1, <1>2, <1>7, <2>1 DEF DirInv, Loading
  <2> QED BY <1>5, <1>6, <2>2, <2>3, <2>4 DEF DirInv, Loading
<1>14. UnprobedHealthy'
  <2>1. NoBackend.healthy
      BY DEF NoBackend
  <2> SUFFICES ASSUME NEW x \in Backends, vt'[x].pc = "none" PROVE be'[x].healthy
      BY DEF UnprobedHealthy
  <2>2. be[x].healthy
      BY <1>0, <1>1 DEF UnprobedHealthy
  <2> QED BY <1>10, <2>1, <2>2
<1>15. ProbeInv'
  <2>1. \A x \in Backends : (Unlinked(x) <=> x = b) /\ ~Unlinked(x)'
      BY <1>1, <1>5 DEF Unlinked
  <2> SUFFICES ASSUME NEW x \in Backends
               PROVE  /\ Distinct(vt[x].vcls)
                      /\ Range(vt[x].vcls) = {v \in Vcls : x \in director'[v] \cap Probes[v]}
                      /\ vt[x].pc = "none" => vt[x].vcls = <<>>
                      /\ vt[x].pc # "none" => vt[x].vcls # <<>>
                      /\ ~vt[x].stop /\ vt[x].pc # "end"
      BY <1>1, <2>1 DEF ProbeInv
  <2>2. /\ Distinct(vt[x].vcls)
        /\ Range(vt[x].vcls) = {v \in Vcls : x \in director[v] \cap Probes[v]}
                               \ (IF x = b THEN {d} ELSE {})
        /\ vt[x].pc = "none" => vt[x].vcls = <<>>
        /\ vt[x].pc # "none" => vt[x].vcls # <<>>
        /\ ~vt[x].stop /\ vt[x].pc # "end"
      BY <1>0, <1>1, <2>1 DEF ProbeInv
  <2>3. {v \in Vcls : x \in director'[v] \cap Probes[v]}
          = {v \in Vcls : x \in director[v] \cap Probes[v]} \ (IF x = b THEN {d} ELSE {})
    <3>1. \A v \in Vcls : x \in director'[v] <=> x \in director[v] /\ ~(x = b /\ v = d)
        BY <1>4, <1>7
    <3> QED BY <3>1
  <2> QED BY <2>2, <2>3
<1>16. BackendRefsExact'
  <2> SUFFICES ASSUME NEW x \in Backends \ lost
               PROVE  /\ be'[x].refcount = Cardinality(Directing(x)') + Cardinality(Using(x))
                      /\ be'[x].n_conn = be'[x].idle + Cardinality(Using(x))
                      /\ be'[x].alive <=> be'[x].refcount > 0
      BY <1>1, <1>8 DEF BackendRefsExact, Directing
  <2>1. /\ be[x].refcount = Cardinality(Directing(x)) + Cardinality(Using(x))
        /\ be[x].n_conn = be[x].idle + Cardinality(Using(x))
        /\ be[x].alive <=> be[x].refcount > 0
      BY <1>0 DEF BackendRefsExact, Directing
  <2>2. CASE x # b
    <3>1. Directing(x)' = Directing(x)
        BY <1>7, <2>2 DEF Directing
    <3> QED BY <1>10, <2>1, <2>2, <3>1
  <2>3. CASE x = b
    <3>1. Directing(x)' = Directing(x) \ {d} /\ d \in Directing(x)
        BY <1>4, <1>7, <2>3 DEF Directing
    <3>2. IsFiniteSet(Directing(x)) /\ Cardinality(Directing(x)) \in Nat
        BY DirectingCount
    <3>3. /\ Cardinality(Directing(x)') = Cardinality(Directing(x)) - 1
          /\ Cardinality(Directing(x)) >= 1
        BY <3>1, <3>2, CountOne
    <3>4. Cardinality(Using(x)) \in Nat
        BY UsingCount
    <3>5. be[x].n_conn \in Int /\ be[x].idle \in Nat /\ be[x].alive \in BOOLEAN
        BY <1>0 DEF Struct
    <3>6. CASE be[b].refcount = 1 /\ be'[b] = NoBackend
      <4>1. be'[x].refcount = 0 /\ be'[x].n_conn = 0 /\ be'[x].idle = 0 /\ ~be'[x].alive
          BY <2>3, <3>6 DEF NoBackend
      <4>2. Cardinality(Using(x)) = 0 /\ Cardinality(Directing(x)) = 1
          BY <2>1, <2>3, <3>2, <3>3, <3>4, <3>6
      <4> QED BY <3>3, <4>1, <4>2
    <3>7. CASE be[b].refcount # 1 /\ be'[b].refcount = be[b].refcount - 1
      <4>1. /\ be'[x].refcount = be[x].refcount - 1 /\ be[x].refcount # 1
            /\ be'[x].n_conn = be[x].n_conn /\ be'[x].idle = be[x].idle
            /\ be'[x].alive = be[x].alive
          BY <1>10, <2>3, <3>7
      <4>2. be[x].refcount >= 2
          BY <2>1, <3>2, <3>3, <3>4, <4>1
      <4>3. be'[x].refcount > 0 /\ be[x].alive
          BY <2>1, <3>2, <3>4, <4>1, <4>2
      <4> QED BY <2>1, <3>2, <3>3, <3>4, <4>1, <4>3
    <3> QED BY <1>10, <3>6, <3>7
  <2> QED BY <2>2, <2>3
<1> QED BY <1>8, <1>9, <1>11, <1>12, <1>13, <1>14, <1>15, <1>16 DEF IInv

\* VCL_Nuke ends: the program's memory is free.
LEMMA FiniDoneStep ==
    ASSUME IInv, fini_vcl_done
    PROVE  IInv'
<1> DEFINE d == Doomed
<1>0. /\ TypeInv /\ RefInv /\ CliInv /\ DirInv /\ ProbeInv /\ BackendRefsExact /\ UnprobedHealthy
      /\ cli \in Command /\ vcl \in [Vcls -> {"none", "avail", "discard", "fini", "failed"}]
      /\ cli.todo \in Seq(Vcls)
    BY DEF IInv, TypeInv, Command
<1>1. /\ cli.pc = "fini" /\ cli.dirs = <<>> /\ vcl' = [vcl EXCEPT ![d] = "none"]
      /\ UNCHANGED <<vcl_head, vcl_active, busy, wvcl, svcl, wpc, parked>>
      /\ cli' = IF cli.todo = <<>> THEN NoCmd ELSE [cli EXCEPT !.pc = "poll", !.todo = Tail(@)]
      /\ UNCHANGED <<be, director, vbc, getfd, vt, panic, lost>>
    BY DEF fini_vcl_done, VCL_Nuke_free
<1>2. /\ d \in Vcls /\ vcl[d] = "fini" /\ Distinct(cli.todo)
      /\ Range(cli.todo) \subseteq Listed \cup {d}
      /\ \A x \in Vcls : vcl[x] = "fini" <=> x = d
    BY <1>0, <1>1 DEF CliInv, Disposing
<1>3. director[d] = {} /\ \A x \in Vcls : vcl[x] = "none" => director[x] = {}
    BY <1>0, <1>1, NoCmdFacts DEF DirInv, Disposing, Loading
<1>4. /\ vcl' \in [Vcls -> {"none", "avail", "discard", "fini", "failed"}] /\ Listed' = Listed
      /\ vcl'[d] = "none" /\ \A x \in Vcls \ {d} : vcl'[x] = vcl[x]
    BY <1>0, <1>1, <1>2 DEF Listed
<1>5. /\ \A x \in Vcls : vcl'[x] # "fini"
      /\ \A x \in Listed' : director'[x] = Range(Uses[x])
      /\ \A x \in Vcls : vcl'[x] = "none" => director'[x] = {}
    BY <1>0, <1>1, <1>2, <1>3, <1>4 DEF DirInv
<1>6. VclRefsExact' /\ ConnInv' /\ (\A x \in Backends : Using(x)' = Using(x))
      /\ \A w \in Workers : svcl'[w] # NULL <=> wpc'[w] = "run"
    BY <1>1, WorkersFrame
<1>7. RefInv'
  <2>1. vcl_active' # NULL => vcl'[vcl_active'] = "avail"
      BY <1>0, <1>1, <1>2, <1>4 DEF RefInv, TypeInv
  <2> QED BY <1>0, <1>1, <1>4, <1>6, <2>1 DEF RefInv
<1>8. cli' \in Command /\ cli'.pc \in {"idle", "poll"} /\ CliInv' /\ DirInv'
  <2>1. CASE cli.todo = <<>>
    <3>1. cli' = NoCmd
        BY <1>1, <2>1
    <3>2. cli' \in Command /\ cli'.pc = "idle" /\ cli'.todo = <<>> /\ Distinct(cli'.dirs)
        BY <3>1, NoCmdFacts
    <3> QED BY <1>5, <3>2, PlainCli
  <2>2. CASE cli.todo # <<>>
    <3> DEFINE t == Tail(cli.todo)
    <3>1. t \in Seq(Vcls) /\ Distinct(t) /\ Range(t) = Range(cli.todo) \ {Head(cli.todo)}
        BY <1>0, <1>2, <2>2, TailEntry
    <3>2. d = Head(cli.todo)
        BY <2>2 DEF Doomed
    <3>3. cli' = [cli EXCEPT !.pc = "poll", !.todo = t]
        BY <1>1, <2>2
    <3> HIDE DEF t
    <3>4. cli' \in Command /\ cli'.pc = "poll" /\ cli'.todo = t /\ cli'.dirs = <<>>
        BY <1>0, <1>1, <3>1, <3>3 DEF Command
    <3>5. Range(t) \subseteq Listed'
        BY <1>2, <1>4, <3>1, <3>2
    <3>6. CliInv'
        BY <1>5, <3>1, <3>4, <3>5, NoCmdFacts DEF CliInv, Disposing, Loading
    <3>7. DirInv'
        BY <1>5, <3>4 DEF DirInv, Disposing, Loading
    <3> QED BY <3>4, <3>6, <3>7
  <2> QED BY <2>1, <2>2
<1>9. TypeInv'
    BY <1>0, <1>1, <1>4, <1>8 DEF TypeInv
<1>10. ProbeInv'
    BY <1>0, <1>1, <1>8, ProbeFrame DEF Removing
<1>11. BackendRefsExact'
    BY <1>0, <1>1, <1>6, ZenonT(40) DEF BackendRefsExact
<1>12. UnprobedHealthy'
    BY <1>0, <1>1 DEF UnprobedHealthy
<1> QED BY <1>6, <1>7, <1>8, <1>9, <1>10, <1>11, <1>12 DEF IInv

-----------------------------------------------------------------------------
(***************************************************************************)
(* The theorems.                                                           *)
(***************************************************************************)
LEMMA InitIInv == Init => IInv
<1> SUFFICES ASSUME Init PROVE IInv
    OBVIOUS
<1> USE RefAssumption, BackendAssumption
<1>0. Cardinality({}) = 0
    BY FS_EmptySet
<1>1. TypeInv
  <2>1. NoBackend \in Struct /\ NoTarget \in Target /\ NoGet \in Getting
      BY DEF NoBackend, Struct, NoTarget, Target, NoGet, Getting
  <2>2. /\ be \in [Backends -> Struct] /\ vt \in [Backends -> Target]
        /\ getfd \in [Workers -> Getting] /\ cli \in Command
      BY <2>1, NoCmdFacts DEF Init
  <2>3. /\ vcl_head \in Seq(Vcls) /\ vcl \in [Vcls -> {"none", "avail", "discard", "fini", "failed"}]
        /\ busy \in [Vcls -> Nat] /\ parked \in [Vcls -> Nat] /\ vcl_active \in Vcls \cup {NULL}
        /\ wvcl \in [Workers -> Vcls \cup {NULL}] /\ svcl \in [Workers -> Vcls \cup {NULL}]
        /\ wpc \in [Workers -> {"idle", "get", "run"}]
      BY DEF Init, RefInit
  <2>4. /\ director \in [Vcls -> SUBSET Backends] /\ vbc \in [Workers -> Backends \cup {NULL}]
        /\ panic \in BOOLEAN /\ lost \subseteq Backends
      BY DEF Init
  <2> QED BY <2>2, <2>3, <2>4 DEF TypeInv
<1>2. Listed = {}
    BY DEF Init, RefInit, Listed
<1>3. RefInv
  <2>1. VclRefsExact
    <3> SUFFICES ASSUME NEW v \in Vcls
                 PROVE  busy[v] = Cardinality({w \in Workers : wvcl[w] = v})
                                  + Cardinality({w \in Workers : svcl[w] = v}) + parked[v]
        BY DEF VclRefsExact
    <3>1. Holders(wvcl, v) = {} /\ Holders(svcl, v) = {}
        BY DEF Init, RefInit, Holders
    <3>2. busy[v] = 0 /\ parked[v] = 0
        BY DEF Init, RefInit
    <3>3. busy[v] = Cardinality(Holders(wvcl, v)) + Cardinality(Holders(svcl, v)) + parked[v]
        BY <1>0, <3>1, <3>2
    <3> QED BY <3>3 DEF Holders
  <2>2. Distinct(vcl_head) /\ Range(vcl_head) = {}
      BY NoCmdFacts DEF Init, RefInit
  <2> QED BY <1>2, <2>1, <2>2 DEF Init, RefInit, RefInv
<1>4. CliInv /\ DirInv
  <2>1. cli.pc = "idle" /\ cli.todo = <<>> /\ Distinct(cli.dirs)
      BY NoCmdFacts DEF Init
  <2>2. \A v \in Vcls : vcl[v] = "none" /\ director[v] = {}
      BY DEF Init, RefInit
  <2>3. CliInv
      BY <2>1, <2>2 DEF CliInv, Disposing, Loading
  <2>4. DirInv
      BY <1>2, <2>1, <2>2 DEF DirInv, Disposing, Loading
  <2> QED BY <2>3, <2>4
<1>5. ConnInv
    BY DEF Init, ConnInv, NoGet
<1>6. BackendRefsExact
  <2> SUFFICES ASSUME NEW b \in Backends
               PROVE  /\ be[b].refcount = Cardinality(Directing(b)) + Cardinality(Using(b))
                      /\ be[b].n_conn = be[b].idle + Cardinality(Using(b))
                      /\ be[b].alive <=> be[b].refcount > 0
      BY DEF BackendRefsExact, Directing
  <2>1. Directing(b) = {} /\ Using(b) = {}
      BY DEF Init, Directing, Using, NoGet
  <2>2. be[b].refcount = 0 /\ be[b].n_conn = 0 /\ be[b].idle = 0 /\ be[b].alive = FALSE
      BY DEF Init, NoBackend
  <2> QED BY <1>0, <2>1, <2>2
<1>7. ProbeInv
  <2>1. \A b \in Backends : vt[b].pc = "none" /\ vt[b].vcls = <<>> /\ ~vt[b].stop
      BY DEF Init, NoTarget
  <2>2. \A v \in Vcls : director[v] = {}
      BY DEF Init
  <2>3. \A b \in Backends : ~Unlinked(b)
      BY NoCmdFacts DEF Init, Unlinked
  <2> QED BY <2>1, <2>2, <2>3, NoCmdFacts DEF ProbeInv
<1>8. UnprobedHealthy
    BY DEF Init, UnprobedHealthy, NoBackend
<1> QED BY <1>1, <1>3, <1>4, <1>5, <1>6, <1>7, <1>8 DEF IInv

\* A new child process starts as the first one did.
LEMMA RestartStep == Restart => IInv'
<1>1. Restart => Init'
    BY DEF Restart, Init, RefInit
<1>2. Init' => IInv'
    BY InitIInv, PTL
<1> QED BY <1>1, <1>2

LEMMA NextIInv == IInv /\ [Next]_vars => IInv'
<1> SUFFICES ASSUME IInv, [Next]_vars PROVE IInv'
    OBVIOUS
<1>1. CASE UNCHANGED vars
  <2>1. UNCHANGED <<refVars, director, be, vbc, getfd, vt, panic, lost>> /\ cli' = cli
      BY <1>1 DEF vars, beVars
  <2>2. UNCHANGED <<listVars, beVars>>
      BY <1>1 DEF vars, refVars, listVars
  <2>3. cli' \in Command
      BY <2>1 DEF IInv, TypeInv
  <2> QED BY <2>1, <2>2, <2>3, CliFrame, BackendFrame DEF IInv
<1>2. CASE Restart
    BY <1>2, RestartStep
<1>3. ASSUME NEW w \in Workers, WorkerRef(w) \/ ConnStep(w) PROVE IInv'
    BY <1>3, WorkerStep, ConnectionStep
<1>4. ASSUME NEW v \in Vcls, WRK_QueueSession_drop(v) /\ UNCHANGED beVars PROVE IInv'
    BY <1>4, QueueDropStep
<1>5. ASSUME NEW b \in Backends, ProbeStep(b) PROVE IInv'
    BY <1>5, ProbingStep
<1>6. CASE CliStep
  <2>1. CASE cli_cb_before \/ VCLS_func_ping
      BY <2>1, CliStarts
  <2>2. CASE VCL_Poll
      BY <2>2, PollStep
  <2>3. ASSUME NEW v \in Vcls, VCL_Load(v) \/ vcl_use(v) \/ vcl_discard(v) PROVE IInv'
      BY <2>3, LoadStep, UseStep, DiscardStep
  <2>4. CASE VBE_AddBackend_new \/ VBE_AddBackend_store
      BY <2>4, AddBackendStep
  <2>5. CASE VBE_AddBackend_load
      BY <2>5, LoadStep
  <2>6. CASE init_vcl_fails \/ init_vcl_done
      BY <2>6, LoadEndStep
  <2>7. CASE vcl_discard_nuke
      BY <2>7, DiscardNukeStep
  <2>8. CASE VBP_Remove_unlink
      BY <2>8, UnlinkStep
  <2>9. CASE VBP_Remove_stop \/ VBP_Remove_join
      BY <2>9, StopStep
  <2>10. CASE VBE_DropRefVcl
      BY <2>10, DropRefStep
  <2>11. CASE fini_vcl_done
      BY <2>11, FiniDoneStep
  <2>12. ASSUME NEW b \in Matched, NEW h \in AdminStates, do_set_health(b, h) PROVE IInv'
      BY <2>12, SetHealthStep
  <2> QED BY <1>6, <2>1, <2>2, <2>3, <2>4, <2>5, <2>6, <2>7, <2>8, <2>9, <2>10, <2>11, <2>12
          DEF CliStep
<1> QED BY <1>1, <1>2, <1>3, <1>4, <1>5, <1>6 DEF Next

\* Whatever workers, probe threads and the CLI thread do, for any programs and backends, the
\* counts, lists and places of cache_vcl.c, cache_backend.c and cache_backend_poll.c agree.
THEOREM BackendIInv == Spec => []IInv
<1>1. Init => IInv
    BY InitIInv
<1>2. IInv /\ [Next]_vars => IInv'
    BY NextIInv
<1> QED BY <1>1, <1>2, PTL DEF Spec

\* conf->busy is the number of references that workers, sessions and parked sessions hold.
THEOREM VclRefsAlwaysExact == Spec => []VclRefsExact
<1>1. IInv => VclRefsExact
    BY DEF IInv, RefInv
<1> QED BY <1>1, BackendIInv, PTL

\* A backend's refcount, n_conn and idle connections agree with the directors and sessions
\* that use it, until VBE_AddBackend has overwritten the count.
THEOREM BackendRefsAlwaysExact == Spec => []BackendRefsExact
<1>1. IInv => BackendRefsExact
    BY DEF IInv
<1> QED BY <1>1, BackendIInv, PTL

\* A backend without a probe thread is healthy: VBP_Remove_join resets it after the thread's
\* last result.
THEOREM UnprobedAlwaysHealthy == Spec => []UnprobedHealthy
<1>1. IInv => UnprobedHealthy
    BY DEF IInv
<1> QED BY <1>1, BackendIInv, PTL

\* Whatever VCL a worker or its session holds, or would be given, is loaded and its
\* backends exist: ccf_config_discard and VCL_Nuke never take them away.
THEOREM HeldAlwaysUsable == Spec => []HeldIsUsable
<1>1. IInv => HeldIsUsable
  <2> SUFFICES ASSUME IInv, NEW w \in Workers, NEW v \in {svcl[w], wvcl[w], vcl_active} \ {NULL}
               PROVE  /\ vcl[v] \in {"avail", "discard"}
                      /\ v = vcl_active => vcl[v] = "avail"
                      /\ \A b \in Range(Uses[v]) \ lost : be[b].alive
      BY DEF HeldIsUsable
  <2>1. v \in Vcls
      BY DEF IInv, TypeInv
  <2>2. v = vcl_active => vcl[v] = "avail"
      BY DEF IInv, RefInv
  <2>3. v \in Listed
    <3>1. CASE v = vcl_active
        BY <2>1, <2>2, <3>1 DEF Listed
    <3>2. CASE v # vcl_active
        BY <2>1, <3>2, HeldIsListed
    <3> QED BY <3>1, <3>2
  <2>4. \A b \in Range(Uses[v]) \ lost : be[b].alive
      BY <2>3, HostIsAlive
  <2> QED BY <2>2, <2>3, <2>4 DEF Listed
<1> QED BY <1>1, BackendIInv, PTL

\* A probe thread runs for a live backend, for the programs that declare the probe: every
\* loaded one, and no other that is not being loaded or disposed of, but for those that
\* failed to load.  Without programs it runs only while VBP_Remove is about to end it.
THEOREM ProbedAlwaysAlive == Spec => []ProbedIsAlive
<1>1. IInv => ProbedIsAlive
  <2> SUFFICES ASSUME IInv, NEW b \in Backends
               PROVE  /\ vt[b].pc # "none" /\ b \notin lost => be[b].alive
                      /\ \A v \in Vcls : vcl[v] \in {"avail", "discard"} /\ b \in Probes[v]
                            => v \in Range(vt[b].vcls)
                      /\ \A v \in Range(vt[b].vcls) :
                            b \in Probes[v] /\ (vcl[v] # "failed" => v \in Mapped)
                      /\ vt[b].pc \notin {"none", "end"} /\ vt[b].vcls = <<>>
                            => cli.pc \in {"stop", "join"}
      BY DEF ProbedIsAlive
  <2>0. /\ ProbeInv /\ TypeInv /\ CliInv /\ DirInv /\ BackendRefsExact /\ vt[b].vcls \in Seq(Vcls)
      BY DEF IInv, TypeInv, Target
  <2>1. Range(vt[b].vcls) = {v \in Vcls : b \in director[v] \cap Probes[v]}
                            \ (IF Unlinked(b) THEN {Doomed} ELSE {})
      BY <2>0 DEF ProbeInv
  <2>2. vt[b].pc # "none" /\ vt[b].vcls = <<>> => Unlinked(b) /\ cli.pc # "drop"
      BY <2>0 DEF ProbeInv
  <2>3. vt[b].pc # "none" /\ b \notin lost => be[b].alive
    <3> SUFFICES ASSUME vt[b].pc # "none", b \notin lost PROVE \E v \in Vcls : b \in director[v]
        BY <2>0, DirectedIsAlive
    <3>1. CASE vt[b].vcls = <<>>
      <4>1. cli.pc \in Disposing /\ cli.dirs # <<>> /\ b = Head(cli.dirs)
          BY <2>0, <2>2, <3>1 DEF Unlinked, Disposing, CliInv
      <4> QED BY <4>1, FiniFacts
    <3>2. CASE vt[b].vcls # <<>>
      <4>1. Range(vt[b].vcls) # {}
          BY <2>0, <3>2, EmptyList
      <4> QED BY <2>1, <4>1
    <3> QED BY <3>1, <3>2
  <2>4. ASSUME NEW v \in Vcls, vcl[v] \in {"avail", "discard"}, b \in Probes[v]
        PROVE  v \in Range(vt[b].vcls)
    <3>1. b \in director[v]
        BY <2>0, <2>4, BackendAssumption DEF DirInv, Listed
    <3>2. Unlinked(b) => vcl[Doomed] = "fini"
        BY <2>0 DEF CliInv, Unlinked, Disposing
    <3> QED BY <2>1, <2>4, <3>1, <3>2
  <2>5. ASSUME NEW v \in Range(vt[b].vcls)
        PROVE  b \in Probes[v] /\ (vcl[v] # "failed" => v \in Mapped)
    <3>1. v \in Vcls /\ b \in director[v] /\ b \in Probes[v]
        BY <2>1
    <3>2. vcl[v] = "none" => cli.pc \in Loading /\ v = cli.v
        BY <2>0, <3>1 DEF DirInv
    <3>3. vcl[v] \in {"none", "avail", "discard", "fini", "failed"}
        BY <2>0, <3>1 DEF TypeInv
    <3> QED BY <3>1, <3>2, <3>3 DEF Mapped, Loading
  <2> QED BY <2>2, <2>3, <2>4, <2>5 DEF Unlinked
<1> QED BY <1>1, BackendIInv, PTL

=============================================================================
