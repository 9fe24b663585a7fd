----------------------------- MODULE BanProofs -----------------------------
(***************************************************************************)
(* Proofs about Ban, for any number of bans, objcores, lookups and CLI     *)
(* threads and any setting of the parameters: the references on bans are   *)
(* counted exactly, the walks without ban_mtx never leave the list, and    *)
(* lookups alone deliver nothing that was banned before they began.        *)
(***************************************************************************)
EXTENDS Ban, ListLemmas

(***************************************************************************)
(* The inductive invariant.                                                *)
(***************************************************************************)
TypeInv ==
    /\ TypeOK
    /\ \A c \in Clients : pc[c] \in {"idle", "scan", "matched", "served"}
    /\ pc[Lurker] \in {"last", "tag", "tagging", "walk", "scan", "matched"}

ListInv ==
    /\ ban_head # <<>> /\ Distinct(ban_head)
    /\ \A x \in Bans : Distinct(objcore[x])

\* BanRefsExact, with sets for the lists.
OnBan(x) == Entries(OCs, ocban, x)
Tailing(x) == Entries(CLIs, tail, x)
RefInv ==
    \A x \in Bans :
        /\ refcount[x] = Cardinality(OnBan(x)) + Cardinality(Tailing(x))
        /\ ToSet(objcore[x]) = OnBan(x)
        /\ refcount[x] > 0 => x \in ToSet(ban_head)

\* An objcore hangs on a ban from BAN_NewObjCore until it is banned or destroyed.
OcInv ==
    \A o \in OCs :
        /\ state[o] = "none" => ocban[o] = None
        /\ state[o] # "none" => kind[o] # None
        /\ state[o] \in {"busy", "live"} => ocban[o] # None

\* A thread in ban_check_object has oh->mtx, which keeps the objcore on its ban, and
\* that ban keeps all newer ones on the list.
Scanning(t) == pc[t] \in {"scan", "matched"}
ScanOk(t) ==
    /\ oc[t] \in OCs /\ mtx[oc[t]] = t /\ state[oc[t]] \in {"live", "dead"}
    /\ {b[t], b0[t], ocban[oc[t]]} \subseteq ToSet(ban_head)
    /\ b0[t] # ocban[oc[t]]
    /\ Pos(b0[t]) <= Pos(b[t]) /\ Pos(b[t]) <= Pos(ocban[oc[t]])
ScanInv == \A t \in Checkers : Scanning(t) => ScanOk(t)

\* The lurker, the only one to retire bans, is between the first ban it tagged and the last.
LurkInv ==
    /\ pc[Lurker] = "last" => bl = None /\ bl0 = None
    /\ pc[Lurker] # "last" => bl \in ToSet(ban_head)
    /\ bl0 # None => bl0 \in ToSet(ban_head) /\ Pos(bl0) <= Pos(bl)
    /\ pc[Lurker] \in {"walk", "scan", "matched"} => bl0 # None
    /\ Scanning(Lurker) => ocban[oc[Lurker]] = bl

\* The tail that a CLI thread holds keeps the ban it has inserted on the list.
TailInv ==
    \A i \in CLIs :
        /\ tail[i] # None => tail[i] \in ToSet(ban_head)
        /\ new[i] # None => /\ tail[i] # None /\ new[i] \in ToSet(ban_head)
                            /\ Pos(new[i]) <= Pos(tail[i])

IInv == TypeInv /\ ListInv /\ RefInv /\ OcInv /\ ScanInv /\ LurkInv /\ TailInv

\* With lurker and duplicate hunt off only ban_magic is GONE: what is owed to an objcore is
\* a ban newer than its own, and a test that began after that ban will get to it.
Matches(x, o) == spec[x].kind = kind[o]
QuietInv ==
    /\ pc[Lurker] = "last" /\ \A i \in CLIs : new[i] = None
    /\ \A x \in Bans : colour[x] = {}
    /\ \A x \in gone : x \in ToSet(ban_head) /\ spec[x] = NoSpec
OwedOk(o) ==
    /\ ocban[o] # None
    /\ \E x \in ToSet(ban_head) : Pos(x) < Pos(ocban[o]) /\ Matches(x, o)
OwedInv == \A o \in owed : OwedOk(o)
WalkOk(c) ==
    \A y \in ToSet(ban_head) :
        Pos(b0[c]) <= Pos(y) /\ Pos(y) < Pos(b[c]) => ~Matches(y, oc[c])
WalkInv == \A c \in Clients : Scanning(c) => WalkOk(c)
MustOk(c) ==
    \E x \in ToSet(ban_head) :
        Pos(b0[c]) <= Pos(x) /\ Pos(x) < Pos(ocban[oc[c]]) /\ Matches(x, oc[c])
MustInv == \A c \in must : Scanning(c) /\ MustOk(c)
Quiet == ~params.lurker /\ ~params.ban_dups
HonourInv == Quiet => QuietInv /\ OwedInv /\ WalkInv /\ MustInv

-----------------------------------------------------------------------------
(***************************************************************************)
(* Facts about the operators.                                              *)
(***************************************************************************)

\* Where an entry is.
LEMMA IndexFacts ==
    ASSUME NEW S, NEW q \in Seq(S), Distinct(q)
    PROVE  /\ \A x \in ToSet(q) : /\ x \in S /\ Index(q, x) \in 1..Len(q)
                                  /\ Index(q, x) \in Int /\ q[Index(q, x)] = x
           /\ \A k \in 1..Len(q) : q[k] \in ToSet(q) /\ Index(q, q[k]) = k
           /\ \A x, y \in ToSet(q) : Index(q, x) = Index(q, y) => x = y
<1>1. DOMAIN q = 1..Len(q) /\ Len(q) \in Nat /\ \A k \in 1..Len(q) : q[k] \in S
    OBVIOUS
<1>2. ASSUME NEW x \in ToSet(q)
      PROVE  x \in S /\ Index(q, x) \in 1..Len(q) /\ Index(q, x) \in Int /\ q[Index(q, x)] = x
  <2>1. \E k \in DOMAIN q : q[k] = x
      BY DEF ToSet
  <2>2. Index(q, x) \in DOMAIN q /\ q[Index(q, x)] = x
      BY <2>1 DEF Index
  <2> QED BY <1>1, <2>2
<1>3. ASSUME NEW k \in 1..Len(q)
      PROVE  q[k] \in ToSet(q) /\ Index(q, q[k]) = k
  <2>1. q[k] \in ToSet(q)
      BY <1>1 DEF ToSet
  <2> QED BY <1>1, <1>2, <2>1 DEF Distinct
<1> QED BY <1>2, <1>3

\* VTAILQ_INSERT_HEAD of an entry that is not on the list.
LEMMA ConsFacts ==
    ASSUME NEW S, NEW q \in Seq(S), Distinct(q), NEW c \in S \ ToSet(q)
    PROVE  /\ Cons(c, q) \in Seq(S) /\ Cons(c, q) # <<>> /\ Distinct(Cons(c, q))
           /\ ToSet(Cons(c, q)) = ToSet(q) \cup {c}
           /\ Index(Cons(c, q), c) = 1
           /\ \A x \in ToSet(q) : Index(Cons(c, q), x) = Index(q, x) + 1
<1> DEFINE r == <<c>> \o q
<1>1. /\ r \in Seq(S) /\ r # <<>> /\ Range(r) = Range(q) \cup {c}
      /\ c \notin Range(q) => Distinct(r)
    BY FrontEntry
<1>2. /\ Len(q) \in Nat /\ Len(r) = Len(q) + 1 /\ r[1] = c
      /\ \A j \in 1..Len(q) : r[j + 1] = q[j] /\ j + 1 \in 1..Len(r)
    OBVIOUS
<1> HIDE DEF r
<1>3. ToSet(q) = Range(q) /\ ToSet(r) = Range(r)
    BY DEF ToSet, Range
<1>4. Distinct(r)
    BY <1>1, <1>3
<1>5. Index(r, c) = 1
    BY <1>1, <1>2, <1>4, IndexFacts
<1>6. ASSUME NEW x \in ToSet(q)
      PROVE  Index(r, x) = Index(q, x) + 1
  <2>1. Index(q, x) \in 1..Len(q) /\ q[Index(q, x)] = x
      BY IndexFacts
  <2>2. r[Index(q, x) + 1] = x /\ Index(q, x) + 1 \in 1..Len(r)
      BY <1>2, <2>1
  <2> QED BY <1>1, <1>4, <2>2, IndexFacts
<1> QED BY <1>1, <1>3, <1>4, <1>5, <1>6 DEF Cons, r

\* VTAILQ_REMOVE of the last entry.
LEMMA FrontFacts ==
    ASSUME NEW S, NEW q \in Seq(S), Distinct(q), Len(q) > 1
    PROVE  /\ Front(q) \in Seq(S) /\ Front(q) # <<>> /\ Distinct(Front(q))
           /\ Last(q) \in ToSet(q) /\ Index(q, Last(q)) = Len(q)
           /\ ToSet(Front(q)) = ToSet(q) \ {Last(q)}
           /\ \A x \in ToSet(q) \ {Last(q)} : Index(Front(q), x) = Index(q, x)
<1> DEFINE r == Front(q)
<1>1. /\ Len(q) \in Nat /\ DOMAIN q = 1..Len(q) /\ \A j \in 1..Len(q) : q[j] \in S
      /\ Last(q) = q[Len(q)]
    BY DEF Last
<1>2. r = [j \in 1..(Len(q) - 1) |-> q[j]]
    BY DEF Front
<1>3. /\ DOMAIN r = 1..(Len(q) - 1) /\ \A j \in 1..(Len(q) - 1) : r[j] = q[j] /\ r[j] \in S
      /\ r \in [1..(Len(q) - 1) -> S]
    BY <1>1, <1>2
<1> HIDE DEF r
<1>4. r \in Seq(S) /\ Len(r) = Len(q) - 1 /\ r # <<>>
  <2>1. Len(q) - 1 \in Nat
      BY <1>1
  <2>2. r \in Seq(S)
      BY <1>3, <2>1, SeqDef
  <2>3. Len(r) = Len(q) - 1
      BY <1>3, <2>1, <2>2
  <2> QED BY <1>1, <2>2, <2>3
<1>5. Distinct(r)
    BY <1>1, <1>3 DEF Distinct
<1>6. Last(q) \in ToSet(q) /\ Index(q, Last(q)) = Len(q)
    BY <1>1, IndexFacts
<1>7. ASSUME NEW x \in ToSet(q) \ {Last(q)}
      PROVE  x \in ToSet(r) /\ Index(r, x) = Index(q, x)
  <2>1. Index(q, x) \in 1..Len(q) /\ q[Index(q, x)] = x
      BY IndexFacts
  <2>2. Index(q, x) \in 1..Len(r) /\ r[Index(q, x)] = x
      BY <1>1, <1>3, <1>4, <2>1
  <2> QED BY <1>4, <1>5, <2>2, IndexFacts
<1>8. ASSUME NEW x \in ToSet(r)
      PROVE  x \in ToSet(q) \ {Last(q)}
  <2>1. PICK j \in DOMAIN r : r[j] = x
      BY DEF ToSet
  <2>2. j \in 1..(Len(q) - 1) /\ q[j] = x
      BY <1>3, <2>1
  <2>3. j \in DOMAIN q /\ Len(q) \in DOMAIN q /\ j # Len(q)
      BY <1>1, <2>2
  <2> QED BY <1>1, <2>2, <2>3 DEF ToSet, Distinct
<1> QED BY <1>4, <1>5, <1>6, <1>7, <1>8 DEF r

\* VTAILQ_REMOVE and VTAILQ_INSERT_TAIL.
LEMMA EntryFacts ==
    ASSUME NEW S, NEW q \in Seq(S), Distinct(q), NEW o \in S
    PROVE  /\ o \in ToSet(q) => /\ Without(q, o) \in Seq(S) /\ Distinct(Without(q, o))
                                /\ ToSet(Without(q, o)) = ToSet(q) \ {o}
           /\ Append(q, o) \in Seq(S) /\ ToSet(Append(q, o)) = ToSet(q) \cup {o}
           /\ o \notin ToSet(q) => Distinct(Append(q, o))
<1>0. \A r : ToSet(r) = Range(r)
    BY DEF ToSet, Range
<1>1. ASSUME o \in ToSet(q)
      PROVE  /\ Without(q, o) \in Seq(S) /\ Distinct(Without(q, o))
             /\ ToSet(Without(q, o)) = ToSet(q) \ {o}
  <2>1. Index(q, o) \in 1..Len(q) /\ q[Index(q, o)] = o
      BY <1>1, IndexFacts
  <2>2. /\ RemoveAt(q, Index(q, o)) \in Seq(S) /\ Distinct(RemoveAt(q, Index(q, o)))
        /\ Range(RemoveAt(q, Index(q, o))) = Range(q) \ {o}
      BY <2>1, RemoveEntry
  <2> QED BY <1>0, <2>2 DEF Without
<1>2. /\ Append(q, o) \in Seq(S) /\ Range(Append(q, o)) = Range(q) \cup {o}
      /\ Distinct(q) /\ o \notin Range(q) => Distinct(Append(q, o))
    BY AppendEntry
<1> QED BY <1>0, <1>1, <1>2

-----------------------------------------------------------------------------
(***************************************************************************)
(* The invariant is preserved: steps that change no list and no count.     *)
(***************************************************************************)
LEMMA BansFrame ==
    ASSUME IInv, UNCHANGED <<ban_head, refcount, objcore, ocban, tail, new>>
    PROVE  ListInv' /\ RefInv' /\ TailInv'
<1>1. ListInv'
    BY DEF IInv, ListInv
<1>2. RefInv'
    BY DEF IInv, RefInv, OnBan, Tailing
<1>3. TailInv'
    BY DEF IInv, TailInv, Pos
<1> QED BY <1>1, <1>2, <1>3

\* What a list position is worth.
LEMMA PosFacts ==
    ASSUME IInv
    PROVE  /\ ban_head \in Seq(Bans) /\ Len(ban_head) \in Nat /\ Len(ban_head) >= 1
           /\ \A x \in ToSet(ban_head) : /\ x \in Bans /\ Pos(x) \in 1..Len(ban_head)
                                         /\ Pos(x) \in Int /\ ban_head[Pos(x)] = x
           /\ \A k \in 1..Len(ban_head) : /\ ban_head[k] \in ToSet(ban_head)
                                          /\ Pos(ban_head[k]) = k
           /\ \A x, y \in ToSet(ban_head) : Pos(x) = Pos(y) => x = y
           /\ ban_start \in ToSet(ban_head) /\ Pos(ban_start) = 1
           /\ Last(ban_head) \in ToSet(ban_head) /\ Pos(Last(ban_head)) = Len(ban_head)
<1>1. ban_head \in Seq(Bans) /\ Distinct(ban_head) /\ ban_head # <<>>
    BY DEF IInv, TypeInv, TypeOK, ListInv
<1>2. Len(ban_head) \in Nat /\ Len(ban_head) >= 1 /\ ban_start = ban_head[1]
      /\ Last(ban_head) = ban_head[Len(ban_head)]
    BY <1>1 DEF ban_start, Last
<1>3. 1 \in 1..Len(ban_head) /\ Len(ban_head) \in 1..Len(ban_head)
    BY <1>2
<1> QED BY <1>1, <1>2, <1>3, IndexFacts DEF Pos

\* An objcore is on the list of its ban and on no other.
LEMMA OnItsBan ==
    ASSUME IInv, NEW x \in Bans, NEW u
    PROVE  u \in ToSet(objcore[x]) <=> u \in OCs /\ ocban[u] = x
<1>1. ToSet(objcore[x]) = OnBan(x)
    BY DEF IInv, RefInv
<1> QED BY <1>1 DEF OnBan, Entries

\* A ban with an objcore or a reader is on the list.
LEMMA OnListed ==
    ASSUME IInv, NEW x \in Bans
    PROVE  /\ Cardinality(OnBan(x)) \in Nat /\ Cardinality(Tailing(x)) \in Nat
           /\ refcount[x] = Cardinality(OnBan(x)) + Cardinality(Tailing(x))
           /\ (OnBan(x) # {} \/ Tailing(x) # {}) => refcount[x] > 0 /\ x \in ToSet(ban_head)
<1>1. IsFiniteSet(OnBan(x)) /\ IsFiniteSet(Tailing(x))
  <2>1. OnBan(x) \subseteq OCs /\ Tailing(x) \subseteq CLIs
      BY DEF OnBan, Tailing, Entries
  <2> QED BY <2>1, FS_Subset, BanConstants
<1>2. Cardinality(OnBan(x)) \in Nat /\ Cardinality(Tailing(x)) \in Nat
    BY <1>1, FS_CardinalityType
<1>3. /\ OnBan(x) # {} => Cardinality(OnBan(x)) # 0
      /\ Tailing(x) # {} => Cardinality(Tailing(x)) # 0
    BY <1>1, FS_EmptySet
<1> QED BY <1>2, <1>3 DEF IInv, RefInv

\* HSH_Unbusy, EXP_Clr, HSH_Deref: an objcore that nobody tests changes its state, or
\* a live one becomes dead.
LEMMA StateStep ==
    ASSUME IInv, NEW o \in OCs, HSH_Unbusy(o) \/ EXP_Clr(o) \/ HSH_Deref(o)
    PROVE  IInv'
<1>0. PICK st \in {"live", "dead", "dying"} : state' = [state EXCEPT ![o] = st]
    BY DEF HSH_Unbusy, EXP_Clr, HSH_Deref
<1>1. /\ UNCHANGED <<ban_head, spec, gone, colour, refcount, objcore>>
      /\ UNCHANGED <<kind, ocban, occolour, mtx, pc, oc, b0, b, skipped>>
      /\ UNCHANGED <<pass, bl, bl0, tail, new, owed, must, deferred>>
    BY DEF HSH_Unbusy, EXP_Clr, HSH_Deref, banVars, chkVars, lurkVars, cliVars, history
<1>2. /\ state[o] # "none"
      /\ st = "live" => state[o] = "busy"
      /\ st = "dying" \/ state[o] = "busy" => mtx[o] = None
  <2>1. state \in [OCs -> {"none", "busy", "live", "dead", "dying"}]
      BY DEF IInv, TypeInv, TypeOK
  <2> QED BY <1>0, <2>1 DEF HSH_Unbusy, EXP_Clr, HSH_Deref
<1>3. TypeInv'
    BY <1>0, <1>1 DEF IInv, TypeInv, TypeOK
<1>4. OcInv'
    BY <1>0, <1>1, <1>2 DEF IInv, TypeInv, TypeOK, OcInv
<1>5. ScanInv'
  <2> SUFFICES ASSUME NEW t \in Checkers, Scanning(t)
               PROVE  ScanOk(t)'
      BY <1>1 DEF ScanInv, Scanning
  <2>1. ScanOk(t) /\ t # None
      BY BanConstants DEF IInv, ScanInv, Checkers
  <2>2. state'[oc[t]] \in {"live", "dead"}
      BY <1>0, <1>2, <2>1 DEF IInv, TypeInv, TypeOK, ScanOk
  <2> QED BY <1>1, <2>1, <2>2 DEF ScanOk, Pos
<1>6. LurkInv'
    BY <1>1 DEF IInv, LurkInv, Scanning, Pos
<1> QED BY <1>1, <1>3, <1>4, <1>5, <1>6, BansFrame DEF IInv

LEMMA DeliveredStep ==
    ASSUME IInv, NEW c \in Clients, Delivered(c)
    PROVE  IInv'
<1>1. /\ UNCHANGED <<ban_head, spec, gone, colour, refcount, objcore>>
      /\ UNCHANGED <<state, kind, ocban, occolour, mtx, b0, b, skipped>>
      /\ UNCHANGED <<pass, bl, bl0, tail, new, owed, deferred>>
      /\ must' = must \ {c}
      /\ pc[c] = "served" /\ pc' = [pc EXCEPT ![c] = "idle"] /\ oc' = [oc EXCEPT ![c] = None]
    BY DEF Delivered, banVars, ocVars, lurkVars, cliVars
<1>2. c # Lurker /\ c \in Checkers
    BY BanConstants DEF Checkers
<1>3. TypeInv'
    BY <1>1, <1>2 DEF IInv, TypeInv, TypeOK, Checkers
<1>4. OcInv'
    BY <1>1 DEF IInv, OcInv
<1>5. ScanInv'
    BY <1>1, <1>2 DEF IInv, TypeInv, TypeOK, ScanInv, Scanning, ScanOk, Pos
<1>6. LurkInv'
    BY <1>1, <1>2 DEF IInv, TypeInv, TypeOK, LurkInv, Scanning, Pos, Checkers
<1> QED BY <1>1, <1>3, <1>4, <1>5, <1>6, BansFrame DEF IInv

\* A lookup begins at the newest ban.
LEMMA CheckObjectStep ==
    ASSUME IInv, NEW c \in Clients, NEW o \in OCs, BAN_CheckObject(c, o)
    PROVE  IInv'
<1>1. /\ UNCHANGED <<ban_head, spec, gone, colour, refcount, objcore>>
      /\ UNCHANGED <<state, kind, ocban, occolour, skipped>>
      /\ UNCHANGED <<pass, bl, bl0, tail, new, owed, deferred>>
      /\ must' \in {must, must \cup {c}}
      /\ pc[c] = "idle" /\ state[o] = "live" /\ mtx[o] = None /\ oc' = [oc EXCEPT ![c] = o]
    BY DEF BAN_CheckObject, banVars, lurkVars, cliVars
<1>2. c # Lurker /\ c \in Checkers /\ None \notin Checkers
    BY BanConstants DEF Checkers
<1>3. OcInv'
    BY <1>1 DEF IInv, OcInv
<1>4. CASE ban_start = ocban[o]
  <2>1. pc' = [pc EXCEPT ![c] = "served"] /\ UNCHANGED <<mtx, b0, b>>
      BY <1>4 DEF BAN_CheckObject
  <2>2. TypeInv'
      BY <1>1, <1>2, <2>1 DEF IInv, TypeInv, TypeOK, Checkers
  <2>3. ScanInv'
      BY <1>1, <1>2, <2>1 DEF IInv, TypeInv, TypeOK, ScanInv, Scanning, ScanOk, Pos
  <2>4. LurkInv'
      BY <1>1, <1>2, <2>1 DEF IInv, TypeInv, TypeOK, LurkInv, Scanning, Pos, Checkers
  <2> QED BY <1>1, <1>3, <2>2, <2>3, <2>4, BansFrame DEF IInv
<1>5. CASE ban_start # ocban[o]
  <2>1. /\ pc' = [pc EXCEPT ![c] = "scan"] /\ mtx' = [mtx EXCEPT ![o] = c]
        /\ b0' = [b0 EXCEPT ![c] = ban_start] /\ b' = [b EXCEPT ![c] = ban_start]
      BY <1>5 DEF BAN_CheckObject
  <2>2. /\ ban_start \in Bans /\ ban_start \in ToSet(ban_head)
        /\ Pos(ban_start) = 1 /\ \A x \in ToSet(ban_head) : 1 <= Pos(x)
      BY PosFacts
  <2>3. ocban[o] \in ToSet(ban_head)
    <3>1. ocban[o] \in Bans /\ o \in OnBan(ocban[o])
        BY <1>1 DEF IInv, TypeInv, TypeOK, OcInv, OnBan, Entries
    <3> QED BY <3>1, OnListed
  <2>4. TypeInv'
      BY <1>1, <1>2, <2>1, <2>2 DEF IInv, TypeInv, TypeOK, Checkers
  <2>5. ScanInv'
    <3> SUFFICES ASSUME NEW t \in Checkers, Scanning(t)'
                 PROVE  ScanOk(t)'
        BY DEF ScanInv
    <3>1. CASE t = c
      <4>1. oc'[t] = o /\ b'[t] = ban_start /\ b0'[t] = ban_start /\ mtx'[o] = t
          BY <1>1, <1>2, <2>1, <3>1 DEF IInv, TypeInv, TypeOK
      <4>2. UNCHANGED <<ban_head, state, ocban>>
          BY <1>1
      <4> QED BY <1>1, <1>5, <2>2, <2>3, <4>1, <4>2 DEF ScanOk, Pos
    <3>2. CASE t # c
      <4>1. /\ pc'[t] = pc[t] /\ oc'[t] = oc[t] /\ b'[t] = b[t] /\ b0'[t] = b0[t]
          BY <1>1, <1>2, <2>1, <3>2 DEF IInv, TypeInv, TypeOK
      <4>2. ScanOk(t)
          BY <4>1 DEF IInv, ScanInv, Scanning
      <4>3. mtx'[oc[t]] = mtx[oc[t]]
          BY <1>1, <1>2, <2>1, <4>2 DEF IInv, TypeInv, TypeOK, ScanOk
      <4>4. UNCHANGED <<ban_head, state, ocban>>
          BY <1>1
      <4> QED BY <4>1, <4>2, <4>3, <4>4 DEF ScanOk, Pos
    <3> QED BY <3>1, <3>2
  <2>6. LurkInv'
      BY <1>1, <1>2, <2>1 DEF IInv, TypeInv, TypeOK, LurkInv, Scanning, Pos, Checkers
  <2> QED BY <1>1, <1>3, <2>4, <2>5, <2>6, BansFrame DEF IInv
<1> QED BY <1>4, <1>5

\* The walk of ban_check_object stops at the objcore's own ban at the latest.
LEMMA EvaluateStep ==
    ASSUME IInv, NEW t \in Checkers, ban_evaluate(t)
    PROVE  IInv'
<1>1. /\ UNCHANGED <<ban_head, spec, gone, colour, refcount, objcore>>
      /\ UNCHANGED <<state, kind, ocban, occolour, mtx, oc, b0>>
      /\ UNCHANGED <<pass, bl, bl0, tail, new, owed, must, deferred>>
      /\ pc[t] = "scan" /\ b[t] # ocban[oc[t]]
    BY DEF ban_evaluate, banVars, ocVars, lurkVars, cliVars, history
<1>2. /\ pc' \in {pc, [pc EXCEPT ![t] = "matched"]}
      /\ b' \in {b, [b EXCEPT ![t] = Older(b[t])]}
      /\ skipped' \in {skipped, [skipped EXCEPT ![t] = TRUE]}
    BY DEF ban_evaluate
<1>3. ScanOk(t)
    BY <1>1 DEF IInv, ScanInv, Scanning
<1>4. /\ Older(b[t]) \in ToSet(ban_head) /\ Older(b[t]) \in Bans
      /\ Pos(b0[t]) <= Pos(Older(b[t])) /\ Pos(Older(b[t])) <= Pos(ocban[oc[t]])
  <2>1. /\ Pos(b0[t]) \in Int /\ Pos(b[t]) \in 1..Len(ban_head)
        /\ Pos(ocban[oc[t]]) \in 1..Len(ban_head) /\ Len(ban_head) \in Nat
        /\ Pos(b[t]) # Pos(ocban[oc[t]])
      BY <1>1, <1>3, PosFacts DEF ScanOk
  <2>2. /\ Pos(b[t]) + 1 \in 1..Len(ban_head)
        /\ Pos(b0[t]) <= Pos(b[t]) + 1 /\ Pos(b[t]) + 1 <= Pos(ocban[oc[t]])
      BY <1>3, <2>1 DEF ScanOk
  <2>3. Older(b[t]) \in ToSet(ban_head) /\ Pos(Older(b[t])) = Pos(b[t]) + 1
      BY <2>2, PosFacts DEF Older
  <2> QED BY <2>2, <2>3, PosFacts
<1>5. TypeInv'
  <2>1. /\ pc' \in [Checkers -> {"idle", "scan", "matched", "served", "last", "tag",
                                 "tagging", "walk"}]
        /\ \A c \in Clients : pc'[c] \in {"idle", "scan", "matched", "served"}
        /\ pc'[Lurker] \in {"last", "tag", "tagging", "walk", "scan", "matched"}
      BY <1>2 DEF IInv, TypeInv, TypeOK, Checkers
  <2>2. b' \in [Checkers -> Bans \cup {None}] /\ skipped' \in [Checkers -> BOOLEAN]
      BY <1>2, <1>4 DEF IInv, TypeInv, TypeOK
  <2> QED BY <1>1, <2>1, <2>2 DEF IInv, TypeInv, TypeOK
<1>6. OcInv'
    BY <1>1 DEF IInv, OcInv
<1>7. ScanInv'
  <2> SUFFICES ASSUME NEW u \in Checkers, Scanning(u)'
               PROVE  ScanOk(u)'
      BY DEF ScanInv
  <2>1. Scanning(u) /\ ScanOk(u)
      BY <1>1, <1>2 DEF IInv, TypeInv, TypeOK, ScanInv, Scanning
  <2>2. b'[u] = b[u] \/ (u = t /\ b'[u] = Older(b[t]))
      BY <1>2 DEF IInv, TypeInv, TypeOK
  <2> QED BY <1>1, <1>4, <2>1, <2>2 DEF ScanOk, Pos
<1>8. LurkInv'
  <2>1. /\ pc'[Lurker] = "last" <=> pc[Lurker] = "last"
        /\ Scanning(Lurker)' <=> Scanning(Lurker)
        /\ pc'[Lurker] \in {"walk", "scan", "matched"}
              => pc[Lurker] \in {"walk", "scan", "matched"}
      BY <1>1, <1>2 DEF IInv, TypeInv, TypeOK, Scanning, Checkers
  <2> QED BY <1>1, <2>1 DEF IInv, LurkInv, Pos
<1> QED BY <1>1, <1>5, <1>6, <1>7, <1>8, BansFrame DEF IInv

-----------------------------------------------------------------------------
(***************************************************************************)
(* The steps of the lurker between the lists.                              *)
(***************************************************************************)

\* The lurker goes to another step and another ban; lookups do not notice.
LEMMA LurkerFrame ==
    ASSUME IInv, UNCHANGED <<ban_head, state, ocban, mtx, oc, b0, b>>,
           NEW stp \in {"last", "tag", "tagging", "walk"}, pc' = Lurk(stp)
    PROVE  /\ ScanInv' /\ ~Scanning(Lurker)' /\ pc'[Lurker] = stp
           /\ pc' \in [Checkers -> {"idle", "scan", "matched", "served", "last", "tag",
                                    "tagging", "walk"}]
           /\ \A c \in Clients : pc'[c] \in {"idle", "scan", "matched", "served"}
<1>1. pc' = [pc EXCEPT ![Lurker] = stp] /\ Lurker \in Checkers
    BY DEF Lurk, Checkers
<1>2. /\ pc' \in [Checkers -> {"idle", "scan", "matched", "served", "last", "tag",
                               "tagging", "walk"}]
      /\ \A t \in Checkers : t # Lurker => pc'[t] = pc[t]
      /\ pc'[Lurker] = stp
    BY <1>1 DEF IInv, TypeInv, TypeOK
<1>3. \A c \in Clients : pc'[c] \in {"idle", "scan", "matched", "served"}
    BY <1>2, BanConstants DEF IInv, TypeInv, Checkers
<1>4. ScanInv'
    BY <1>2 DEF IInv, ScanInv, Scanning, ScanOk, Pos
<1> QED BY <1>2, <1>3, <1>4 DEF Scanning

\* The next ban to tag is on the list, and not newer than the first one tagged.
LEMMA TagNextFacts ==
    ASSUME IInv, pc[Lurker] # "last", UNCHANGED ban_head,
           NEW first \in ToSet(ban_head) \cup {None}, first # None => Pos(first) <= Pos(bl),
           TagNext(first)
    PROVE  \E stp \in {"last", "tag", "tagging", "walk"} :
              /\ pc' = Lurk(stp)
              /\ stp = "last" => bl' = None /\ bl0' = None
              /\ stp # "last" => bl' \in ToSet(ban_head)
              /\ bl0' \in ToSet(ban_head) \cup {None}
              /\ bl0' # None => Pos(bl0') <= Pos(bl')
              /\ stp = "walk" => bl0' # None
<1>1. bl \in ToSet(ban_head)
    BY DEF IInv, LurkInv
<1>2. CASE bl # Last(ban_head)
  <2>1. Pos(bl) \in 1..Len(ban_head) /\ Len(ban_head) \in Nat /\ Pos(bl) # Len(ban_head)
      BY <1>1, <1>2, PosFacts
  <2>2. Pos(bl) + 1 \in 1..Len(ban_head)
      BY <2>1
  <2>3. Older(bl) \in ToSet(ban_head) /\ Pos(Older(bl)) = Pos(bl) + 1
      BY <2>2, PosFacts DEF Older
  <2>4. first # None => Pos(first) <= Pos(Older(bl))
    <3>1. first # None => Pos(first) \in Int
        BY PosFacts
    <3> QED BY <2>1, <2>3, <3>1
  <2>5. pc' = Lurk("tag") /\ bl' = Older(bl) /\ bl0' = first
      BY <1>2 DEF TagNext
  <2> QED BY <2>3, <2>4, <2>5
<1>3. CASE bl = Last(ban_head) /\ first = None
  <2>1. pc' = Lurk("last") /\ bl' = None /\ bl0' = None
      BY <1>3 DEF TagNext
  <2> QED BY <2>1
<1>4. CASE bl = Last(ban_head) /\ first # None
  <2>1. pc' = Lurk("walk") /\ bl' = bl /\ bl0' = first
      BY <1>4 DEF TagNext
  <2> QED BY <1>1, <1>4, <2>1
<1> QED BY <1>2, <1>3, <1>4

\* ban_lurker_work, lurker_skip, lurker_tag, lurker_tagged and lurker_ban_done move the
\* lurker along the list, and change flags.
LEMMA LurkerMoves ==
    ASSUME IInv,
           UNCHANGED <<ban_head, spec, refcount, objcore, state, kind, ocban, occolour, mtx>>,
           UNCHANGED <<oc, b0, b, skipped, tail, new, owed, must, deferred>>,
           gone' \subseteq Bans, colour' \in [Bans -> Colours], pass' \in Colours \ {{}},
           NEW stp \in {"last", "tag", "tagging", "walk"}, pc' = Lurk(stp),
           stp = "last" => bl' = None /\ bl0' = None,
           stp # "last" => bl' \in ToSet(ban_head),
           bl0' \in ToSet(ban_head) \cup {None},
           bl0' # None => Pos(bl0') <= Pos(bl'),
           stp = "walk" => bl0' # None
    PROVE  IInv'
<1>1. UNCHANGED <<ban_head, state, ocban, mtx, oc, b0, b, refcount, objcore, tail, new, kind>>
    OBVIOUS
<1>2. /\ ScanInv' /\ ~Scanning(Lurker)' /\ pc'[Lurker] = stp
      /\ pc' \in [Checkers -> {"idle", "scan", "matched", "served", "last", "tag",
                               "tagging", "walk"}]
      /\ \A c \in Clients : pc'[c] \in {"idle", "scan", "matched", "served"}
    BY <1>1, LurkerFrame
<1>3. bl' \in Bans \cup {None} /\ bl0' \in Bans \cup {None}
    BY PosFacts
<1>4. TypeInv'
    BY <1>2, <1>3 DEF IInv, TypeInv, TypeOK
<1>5. OcInv'
    BY <1>1 DEF IInv, OcInv
<1>6. LurkInv'
    BY <1>1, <1>2 DEF LurkInv, Pos
<1> QED BY <1>1, <1>2, <1>4, <1>5, <1>6, BansFrame DEF IInv

LEMMA WorkStep ==
    ASSUME IInv, ban_lurker_work
    PROVE  IInv'
<1>1. /\ UNCHANGED <<ban_head, spec, gone, colour, refcount, objcore>>
      /\ UNCHANGED <<state, kind, ocban, occolour, mtx, oc, b0, b, skipped>>
      /\ UNCHANGED <<pass, bl0, tail, new, owed, must, deferred>>
      /\ pc[Lurker] = "last" /\ pc' = Lurk("tag") /\ bl' = ban_start
    BY DEF ban_lurker_work, banVars, ocVars, cliVars, history
<1>2. gone \subseteq Bans /\ colour \in [Bans -> Colours] /\ pass \in Colours \ {{}}
    BY DEF IInv, TypeInv, TypeOK
<1>3. bl0' = None /\ bl' \in ToSet(ban_head)
    BY <1>1, PosFacts DEF IInv, LurkInv
<1> QED BY <1>1, <1>2, <1>3, LurkerMoves

LEMMA SkipStep ==
    ASSUME IInv, lurker_skip
    PROVE  IInv'
<1>1. /\ UNCHANGED <<ban_head, spec, gone, colour, refcount, objcore>>
      /\ UNCHANGED <<state, kind, ocban, occolour, mtx, oc, b0, b, skipped>>
      /\ UNCHANGED <<pass, tail, new, owed, must, deferred>>
      /\ pc[Lurker] # "last" /\ TagNext(bl0)
    BY DEF lurker_skip, banVars, ocVars, cliVars, history
<1>2. gone \subseteq Bans /\ colour \in [Bans -> Colours] /\ pass \in Colours \ {{}}
    BY DEF IInv, TypeInv, TypeOK
<1>3. bl0 \in ToSet(ban_head) \cup {None} /\ (bl0 # None => Pos(bl0) <= Pos(bl))
    BY DEF IInv, LurkInv
<1>4. PICK stp \in {"last", "tag", "tagging", "walk"} :
              /\ pc' = Lurk(stp)
              /\ stp = "last" => bl' = None /\ bl0' = None
              /\ stp # "last" => bl' \in ToSet(ban_head)
              /\ bl0' \in ToSet(ban_head) \cup {None}
              /\ bl0' # None => Pos(bl0') <= Pos(bl')
              /\ stp = "walk" => bl0' # None
    BY <1>1, <1>3, TagNextFacts
<1> QED BY <1>1, <1>2, <1>4, LurkerMoves

LEMMA TagStep ==
    ASSUME IInv, lurker_tag
    PROVE  IInv'
<1>1. /\ UNCHANGED <<ban_head, spec, gone, colour, refcount, objcore>>
      /\ UNCHANGED <<state, kind, ocban, occolour, mtx, oc, b0, b, skipped>>
      /\ UNCHANGED <<pass, bl, bl0, tail, new, owed, must, deferred>>
      /\ pc[Lurker] # "last" /\ pc' = Lurk("tagging")
    BY DEF lurker_tag, banVars, ocVars, lurkVars, cliVars, history
<1>2. gone \subseteq Bans /\ colour \in [Bans -> Colours] /\ pass \in Colours \ {{}}
    BY DEF IInv, TypeInv, TypeOK
<1>3. /\ bl \in ToSet(ban_head) /\ bl0 \in ToSet(ban_head) \cup {None}
      /\ bl0 # None => Pos(bl0) <= Pos(bl)
    BY <1>1 DEF IInv, LurkInv
<1> QED BY <1>1, <1>2, <1>3, LurkerMoves

LEMMA TaggedStep ==
    ASSUME IInv, lurker_tagged
    PROVE  IInv'
<1>1. /\ UNCHANGED <<ban_head, spec, refcount, objcore>>
      /\ UNCHANGED <<state, kind, ocban, occolour, mtx, oc, b0, b, skipped>>
      /\ UNCHANGED <<pass, tail, new, owed, must, deferred>>
      /\ pc[Lurker] # "last" /\ TagNext(IF bl0 = None THEN bl ELSE bl0)
      /\ colour' = [colour EXCEPT ![bl] = pass] /\ gone' \in {gone, gone \ {bl}}
    BY DEF lurker_tagged, ocVars, cliVars, history
<1>2. /\ gone' \subseteq Bans /\ colour' \in [Bans -> Colours] /\ pass \in Colours \ {{}}
    BY <1>1 DEF IInv, TypeInv, TypeOK
<1> DEFINE first == IF bl0 = None THEN bl ELSE bl0
<1>3. first \in ToSet(ban_head) \cup {None} /\ (first # None => Pos(first) <= Pos(bl))
  <2>1. /\ bl \in ToSet(ban_head) /\ bl0 \in ToSet(ban_head) \cup {None}
        /\ bl0 # None => Pos(bl0) <= Pos(bl)
      BY <1>1 DEF IInv, LurkInv
  <2>2. Pos(bl) \in Int
      BY <2>1, PosFacts
  <2> QED BY <2>1, <2>2
<1> HIDE DEF first
<1>4. TagNext(first)
    BY <1>1 DEF first
<1>5. PICK stp \in {"last", "tag", "tagging", "walk"} :
              /\ pc' = Lurk(stp)
              /\ stp = "last" => bl' = None /\ bl0' = None
              /\ stp # "last" => bl' \in ToSet(ban_head)
              /\ bl0' \in ToSet(ban_head) \cup {None}
              /\ bl0' # None => Pos(bl0') <= Pos(bl')
              /\ stp = "walk" => bl0' # None
    BY <1>1, <1>3, <1>4, TagNextFacts
<1> QED BY <1>1, <1>2, <1>5, LurkerMoves

LEMMA BanDoneStep ==
    ASSUME IInv, lurker_ban_done
    PROVE  IInv'
<1>1. /\ UNCHANGED <<ban_head, spec, colour, refcount, objcore>>
      /\ UNCHANGED <<state, kind, ocban, occolour, mtx, oc, b0, b, skipped>>
      /\ UNCHANGED <<tail, new, owed, must, deferred>>
      /\ pc[Lurker] = "walk" /\ gone' \in {gone, gone \cup {bl}}
    BY DEF lurker_ban_done, ocVars, cliVars, history
<1>2. /\ bl \in ToSet(ban_head) /\ bl \in Bans /\ bl0 # None /\ bl0 \in ToSet(ban_head)
      /\ Pos(bl0) <= Pos(bl) /\ Pos(bl) \in 1..Len(ban_head) /\ Pos(bl0) \in 1..Len(ban_head)
      /\ Len(ban_head) \in Nat
  <2>1. /\ bl \in ToSet(ban_head) /\ bl0 # None /\ bl0 \in ToSet(ban_head)
        /\ Pos(bl0) <= Pos(bl)
      BY <1>1 DEF IInv, LurkInv
  <2> QED BY <2>1, PosFacts
<1>3. gone' \subseteq Bans /\ colour' \in [Bans -> Colours]
    BY <1>1, <1>2 DEF IInv, TypeInv, TypeOK
<1>4. CASE bl = bl0
  <2>1. pc' = Lurk("last") /\ bl' = None /\ bl0' = None /\ pass' = NextPass
      BY <1>4 DEF lurker_ban_done
  <2>2. pass' \in Colours \ {{}}
      BY <2>1 DEF NextPass, Colours
  <2> QED BY <1>1, <1>3, <2>1, <2>2, LurkerMoves
<1>5. CASE bl # bl0
  <2>1. bl' = Newer(bl) /\ UNCHANGED <<pc, bl0, pass>>
      BY <1>5 DEF lurker_ban_done
  <2>2. Pos(bl) # Pos(bl0)
      BY <1>2, <1>5, PosFacts
  <2>3. Pos(bl) - 1 \in 1..Len(ban_head) /\ Pos(bl0) <= Pos(bl) - 1
      BY <1>2, <2>2
  <2>4. bl' \in ToSet(ban_head) /\ Pos(bl0) <= Pos(bl')
      BY <2>1, <2>3, PosFacts DEF Newer
  <2>5. pc' = Lurk("walk")
      BY <1>1, <2>1 DEF IInv, TypeInv, TypeOK, Lurk, Checkers
  <2>6. pass' \in Colours \ {{}}
      BY <2>1 DEF IInv, TypeInv, TypeOK
  <2> QED BY <1>1, <1>2, <1>3, <2>1, <2>4, <2>5, <2>6, LurkerMoves
<1> QED BY <1>4, <1>5

\* The lurker begins a test at the newest ban, with the objcore's lock.
LEMMA LurkerTestStep ==
    ASSUME IInv, NEW o \in OCs, lurker_test(o)
    PROVE  IInv'
<1>1. /\ UNCHANGED <<ban_head, spec, gone, colour, refcount, objcore>>
      /\ UNCHANGED <<state, kind, ocban, skipped>>
      /\ UNCHANGED <<pass, bl, bl0, tail, new, owed, must, deferred>>
      /\ occolour' = [occolour EXCEPT ![o] = {}]
      /\ pc[Lurker] = "walk" /\ objcore[bl] # <<>> /\ o = Head(objcore[bl])
      /\ mtx[o] = None /\ state[o] \in {"live", "dead"}
    BY DEF lurker_test, Touchable, banVars, lurkVars, cliVars, history
<1>2. Lurker \in Checkers /\ Lurker \notin Clients /\ None \notin Checkers
    BY BanConstants DEF Checkers
<1>3. bl \in ToSet(ban_head) /\ bl \in Bans /\ bl0 # None
    BY <1>1, PosFacts DEF IInv, LurkInv
<1>4. ocban[o] = bl
  <2>1. objcore[bl] \in Seq(OCs)
      BY <1>3 DEF IInv, TypeInv, TypeOK
  <2>2. o \in ToSet(objcore[bl])
      BY <1>1, <2>1 DEF ToSet
  <2> QED BY <1>3, <2>2, OnItsBan
<1>5. occolour' \in [OCs -> Colours]
    BY <1>1 DEF IInv, TypeInv, TypeOK, Colours
<1>6. OcInv'
    BY <1>1 DEF IInv, OcInv
<1>7. CASE ban_start = ocban[o]
  <2>1. UNCHANGED <<mtx, pc, oc, b0, b>>
      BY <1>7 DEF lurker_test
  <2>2. TypeInv'
      BY <1>1, <1>5, <2>1 DEF IInv, TypeInv, TypeOK
  <2>3. ScanInv'
      BY <1>1, <2>1 DEF IInv, ScanInv, Scanning, ScanOk, Pos
  <2>4. LurkInv'
      BY <1>1, <2>1 DEF IInv, LurkInv, Scanning, Pos
  <2> QED BY <1>1, <1>6, <2>2, <2>3, <2>4, BansFrame DEF IInv
<1>8. CASE ban_start # ocban[o]
  <2>1. /\ pc' = [pc EXCEPT ![Lurker] = "scan"] /\ mtx' = [mtx EXCEPT ![o] = Lurker]
        /\ oc' = [oc EXCEPT ![Lurker] = o]
        /\ b0' = [b0 EXCEPT ![Lurker] = ban_start] /\ b' = [b EXCEPT ![Lurker] = ban_start]
      BY <1>8 DEF lurker_test, Lurk
  <2>2. /\ ban_start \in Bans /\ ban_start \in ToSet(ban_head)
        /\ Pos(ban_start) = 1 /\ \A x \in ToSet(ban_head) : 1 <= Pos(x)
      BY PosFacts
  <2>3. /\ pc'[Lurker] = "scan" /\ oc'[Lurker] = o
        /\ b'[Lurker] = ban_start /\ b0'[Lurker] = ban_start /\ mtx'[o] = Lurker
        /\ \A t \in Checkers \ {Lurker} :
              pc'[t] = pc[t] /\ oc'[t] = oc[t] /\ b'[t] = b[t] /\ b0'[t] = b0[t]
      BY <1>2, <2>1 DEF IInv, TypeInv, TypeOK
  <2>4. TypeInv'
      BY <1>1, <1>2, <1>5, <2>1, <2>2 DEF IInv, TypeInv, TypeOK, Checkers
  <2>5. ScanInv'
    <3> SUFFICES ASSUME NEW t \in Checkers, Scanning(t)'
                 PROVE  ScanOk(t)'
        BY DEF ScanInv
    <3>0. UNCHANGED <<ban_head, state, ocban>>
        BY <1>1
    <3>1. CASE t = Lurker
        BY <1>1, <1>3, <1>4, <1>8, <2>2, <2>3, <3>0, <3>1 DEF ScanOk, Pos
    <3>2. CASE t # Lurker
      <4>1. ScanOk(t)
          BY <2>3, <3>2 DEF IInv, ScanInv, Scanning
      <4>2. mtx'[oc[t]] = mtx[oc[t]]
          BY <1>1, <1>2, <2>1, <4>1 DEF IInv, TypeInv, TypeOK, ScanOk
      <4> QED BY <2>3, <3>0, <3>2, <4>1, <4>2 DEF ScanOk, Pos
    <3> QED BY <3>1, <3>2
  <2>6. LurkInv'
      BY <1>1, <1>3, <1>4, <2>3 DEF IInv, LurkInv, Scanning, Pos
  <2> QED BY <1>1, <1>6, <2>4, <2>5, <2>6, BansFrame DEF IInv
<1> QED BY <1>7, <1>8

\* An objcore goes to the end of its ban's list: the list names the same ones.
LEMMA Requeued ==
    ASSUME IInv, NEW x \in Bans, NEW q \in Seq(OCs), Distinct(q), ToSet(q) = ToSet(objcore[x]),
           objcore' = [objcore EXCEPT ![x] = q], UNCHANGED <<ban_head, refcount, ocban, tail, new>>
    PROVE  objcore' \in [Bans -> Seq(OCs)] /\ ListInv' /\ RefInv' /\ TailInv'
<1>0. objcore \in [Bans -> Seq(OCs)]
    BY DEF IInv, TypeInv, TypeOK
<1>1. /\ objcore' \in [Bans -> Seq(OCs)]
      /\ \A y \in Bans : Distinct(objcore'[y]) /\ ToSet(objcore'[y]) = ToSet(objcore[y])
    BY <1>0 DEF IInv, ListInv
<1>2. ListInv'
    BY <1>1 DEF IInv, ListInv
<1>3. RefInv'
    BY <1>1 DEF IInv, RefInv, OnBan, Tailing
<1>4. TailInv'
    BY DEF IInv, TailInv, Pos
<1> QED BY <1>1, <1>2, <1>3, <1>4

LEMMA DeferStep ==
    ASSUME IInv, NEW o \in OCs, lurker_defer(o)
    PROVE  IInv'
<1>1. /\ UNCHANGED <<ban_head, spec, gone, colour, refcount>>
      /\ UNCHANGED <<state, kind, ocban, mtx, pc, oc, b0, b, skipped>>
      /\ UNCHANGED <<pass, bl, bl0, tail, new, owed, must>>
      /\ occolour' = [occolour EXCEPT ![o] = @ \cup pass]
      /\ objcore' = [objcore EXCEPT ![bl] = Append(Tail(objcore[bl]), o)]
      /\ deferred' = deferred \cup {o}
      /\ pc[Lurker] = "walk" /\ objcore[bl] # <<>> /\ o = Head(objcore[bl])
    BY DEF lurker_defer, Touchable, chkVars, lurkVars, cliVars
<1>2. bl \in Bans
    BY <1>1, PosFacts DEF IInv, LurkInv
<1> DEFINE r == Tail(objcore[bl])
           q == Append(r, o)
<1>3. q \in Seq(OCs) /\ Distinct(q) /\ ToSet(q) = ToSet(objcore[bl])
  <2>0. \A p : ToSet(p) = Range(p)
      BY DEF ToSet, Range
  <2>1. objcore[bl] \in Seq(OCs) /\ Distinct(objcore[bl])
      BY <1>2 DEF IInv, TypeInv, TypeOK, ListInv
  <2>2. /\ o \in Range(objcore[bl]) /\ r \in Seq(OCs) /\ Distinct(r)
        /\ Range(r) = Range(objcore[bl]) \ {o}
      BY <1>1, <2>1, TailEntry
  <2> HIDE DEF r
  <2>3. /\ q \in Seq(OCs) /\ ToSet(q) = ToSet(r) \cup {o}
        /\ o \notin ToSet(r) => Distinct(q)
      BY <2>2, EntryFacts
  <2> QED BY <2>0, <2>2, <2>3
<1> HIDE DEF q
<1>4. objcore' = [objcore EXCEPT ![bl] = q]
    BY <1>1 DEF q, r
<1>5. objcore' \in [Bans -> Seq(OCs)] /\ ListInv' /\ RefInv' /\ TailInv'
    BY <1>1, <1>2, <1>3, <1>4, Requeued
<1>6. occolour' \in [OCs -> Colours]
    BY <1>1 DEF IInv, TypeInv, TypeOK, Colours
<1>7. TypeInv'
    BY <1>1, <1>5, <1>6 DEF IInv, TypeInv, TypeOK
<1>8. OcInv' /\ ScanInv'
  <2>1. OcInv'
      BY <1>1 DEF IInv, OcInv
  <2>2. ScanInv'
      BY <1>1 DEF IInv, ScanInv, Scanning, ScanOk, Pos
  <2> QED BY <2>1, <2>2
<1>9. LurkInv'
    BY <1>1 DEF IInv, LurkInv, Scanning, Pos
<1> QED BY <1>5, <1>7, <1>8, <1>9 DEF IInv

\* The end of a test: the objcore's lock is released, whatever became of the objcore.
LEMMA FinishFacts ==
    ASSUME IInv, NEW t \in Checkers, Scanning(t), NEW stp \in {"served", "idle", "walk"},
           t # Lurker => stp # "walk", Finish(t, stp),
           UNCHANGED <<ban_head, bl, bl0>>,
           \A o \in OCs \ {oc[t]} : ocban'[o] = ocban[o] /\ state'[o] = state[o]
    PROVE  /\ ScanInv' /\ LurkInv'
           /\ pc' \in [Checkers -> {"idle", "scan", "matched", "served", "last", "tag",
                                    "tagging", "walk"}]
           /\ \A c \in Clients : pc'[c] \in {"idle", "scan", "matched", "served"}
           /\ pc'[Lurker] \in {"last", "tag", "tagging", "walk", "scan", "matched"}
           /\ mtx' \in [OCs -> Checkers \cup {None}] /\ oc' \in [Checkers -> OCs \cup {None}]
           /\ b0' \in [Checkers -> Bans \cup {None}] /\ b' \in [Checkers -> Bans \cup {None}]
           /\ skipped' \in [Checkers -> BOOLEAN]
<1>0. /\ pc' = [pc EXCEPT ![t] = IF t = Lurker THEN "walk" ELSE stp]
      /\ oc' \in {oc, [oc EXCEPT ![t] = None]}
      /\ b0' = [b0 EXCEPT ![t] = None] /\ b' = [b EXCEPT ![t] = None]
      /\ skipped' = [skipped EXCEPT ![t] = FALSE] /\ mtx' = [mtx EXCEPT ![oc[t]] = None]
    BY DEF Finish
<1>1. /\ mtx' \in [OCs -> Checkers \cup {None}] /\ oc' \in [Checkers -> OCs \cup {None}]
      /\ b0' \in [Checkers -> Bans \cup {None}] /\ b' \in [Checkers -> Bans \cup {None}]
      /\ skipped' \in [Checkers -> BOOLEAN]
      /\ pc' \in [Checkers -> {"idle", "scan", "matched", "served", "last", "tag",
                               "tagging", "walk"}]
    BY <1>0 DEF IInv, TypeInv, TypeOK
<1>2. /\ pc'[t] = IF t = Lurker THEN "walk" ELSE stp
      /\ \A u \in Checkers \ {t} :
            pc'[u] = pc[u] /\ oc'[u] = oc[u] /\ b'[u] = b[u] /\ b0'[u] = b0[u]
    BY <1>0 DEF IInv, TypeInv, TypeOK
<1>3. Lurker \in Checkers /\ Lurker \notin Clients /\ \A c \in Clients : c \in Checkers
    BY BanConstants DEF Checkers
<1>4. /\ \A c \in Clients : pc'[c] \in {"idle", "scan", "matched", "served"}
      /\ pc'[Lurker] \in {"last", "tag", "tagging", "walk", "scan", "matched"}
    BY <1>2, <1>3 DEF IInv, TypeInv
<1>5. ScanOk(t)
    BY DEF IInv, ScanInv
<1>6. ASSUME NEW u \in Checkers \ {t}, Scanning(u)
      PROVE  /\ ScanOk(u) /\ ScanOk(u)' /\ oc'[u] = oc[u] /\ ocban'[oc[u]] = ocban[oc[u]]
  <2>1. ScanOk(u)
      BY <1>6 DEF IInv, ScanInv
  <2>2. oc[u] \in OCs \ {oc[t]}
      BY <1>5, <1>6, <2>1 DEF ScanOk
  <2>3. mtx'[oc[u]] = mtx[oc[u]]
      BY <1>0, <2>2 DEF IInv, TypeInv, TypeOK
  <2> QED BY <1>2, <1>6, <2>1, <2>2, <2>3 DEF ScanOk, Pos
<1>7. ScanInv'
  <2> SUFFICES ASSUME NEW u \in Checkers, Scanning(u)'
               PROVE  ScanOk(u)'
      BY DEF ScanInv
  <2>1. u # t /\ Scanning(u)
      BY <1>2 DEF Scanning
  <2> QED BY <1>6, <2>1
<1>8. LurkInv'
  <2>1. CASE t = Lurker
      BY <1>2, <2>1 DEF IInv, LurkInv, Scanning, Pos
  <2>2. CASE t # Lurker
    <3>1. pc'[Lurker] = pc[Lurker]
        BY <1>2, <1>3, <2>2
    <3>2. Scanning(Lurker) => ocban'[oc'[Lurker]] = ocban[oc[Lurker]]
        BY <1>3, <1>6, <2>2
    <3> QED BY <3>1, <3>2 DEF IInv, LurkInv, Scanning, Pos
  <2> QED BY <2>1, <2>2
<1> QED BY <1>1, <1>4, <1>7, <1>8

LEMMA SkippedStep ==
    ASSUME IInv, ban_check_object_skipped
    PROVE  IInv'
<1> DEFINE o == oc[Lurker]
<1>1. /\ UNCHANGED <<ban_head, spec, gone, colour, refcount>>
      /\ UNCHANGED <<state, kind, ocban>>
      /\ UNCHANGED <<pass, bl, bl0, tail, new, owed, must, deferred>>
      /\ occolour' = [occolour EXCEPT ![o] = @ \cup pass]
      /\ objcore' = [objcore EXCEPT ![bl] = Append(Without(objcore[bl], o), o)]
      /\ pc[Lurker] = "scan" /\ Finish(Lurker, "walk")
    BY DEF ban_check_object_skipped, lurkVars, cliVars, history
<1>2. Lurker \in Checkers /\ Scanning(Lurker)
    BY <1>1 DEF Checkers, Scanning
<1>3. o \in OCs /\ ocban[o] = bl /\ bl \in Bans
    BY <1>1, <1>2, PosFacts DEF IInv, ScanInv, ScanOk, LurkInv
<1>4. /\ ScanInv' /\ LurkInv'
      /\ pc' \in [Checkers -> {"idle", "scan", "matched", "served", "last", "tag",
                               "tagging", "walk"}]
      /\ \A c \in Clients : pc'[c] \in {"idle", "scan", "matched", "served"}
      /\ pc'[Lurker] \in {"last", "tag", "tagging", "walk", "scan", "matched"}
      /\ mtx' \in [OCs -> Checkers \cup {None}] /\ oc' \in [Checkers -> OCs \cup {None}]
      /\ b0' \in [Checkers -> Bans \cup {None}] /\ b' \in [Checkers -> Bans \cup {None}]
      /\ skipped' \in [Checkers -> BOOLEAN]
    BY <1>1, <1>2, FinishFacts
<1> DEFINE q == Append(Without(objcore[bl], o), o)
<1>5. q \in Seq(OCs) /\ Distinct(q) /\ ToSet(q) = ToSet(objcore[bl])
  <2>1. objcore[bl] \in Seq(OCs) /\ Distinct(objcore[bl]) /\ o \in ToSet(objcore[bl])
      BY <1>3, OnItsBan DEF IInv, TypeInv, TypeOK, ListInv
  <2>2. /\ Without(objcore[bl], o) \in Seq(OCs) /\ Distinct(Without(objcore[bl], o))
        /\ ToSet(Without(objcore[bl], o)) = ToSet(objcore[bl]) \ {o}
      BY <1>3, <2>1, EntryFacts
  <2>3. /\ q \in Seq(OCs) /\ ToSet(q) = ToSet(Without(objcore[bl], o)) \cup {o}
        /\ o \notin ToSet(Without(objcore[bl], o)) => Distinct(q)
      BY <1>3, <2>2, EntryFacts
  <2> QED BY <2>1, <2>2, <2>3
<1> HIDE DEF q
<1>6. objcore' = [objcore EXCEPT ![bl] = q]
    BY <1>1 DEF q
<1>7. objcore' \in [Bans -> Seq(OCs)] /\ ListInv' /\ RefInv' /\ TailInv'
    BY <1>1, <1>3, <1>5, <1>6, Requeued
<1>8. occolour' \in [OCs -> Colours]
    BY <1>1, <1>3 DEF IInv, TypeInv, TypeOK, Colours
<1>9. TypeInv'
    BY <1>1, <1>4, <1>7, <1>8 DEF IInv, TypeInv, TypeOK
<1>10. OcInv'
    BY <1>1 DEF IInv, OcInv
<1> QED BY <1>4, <1>7, <1>9, <1>10 DEF IInv

-----------------------------------------------------------------------------
(***************************************************************************)
(* Steps that move an objcore from one ban to another, or off the bans.    *)
(***************************************************************************)
LEMMA ObjcoreMoves ==
    ASSUME IInv, NEW o \in OCs, NEW y \in ToSet(ban_head) \cup {None},
           ocban' = [ocban EXCEPT ![o] = y], UNCHANGED <<ban_head, tail, new>>,
           refcount' \in [Bans -> Int],
           \A x \in Bans : refcount'[x] = refcount[x] + Unit(y, x) - Unit(ocban[o], x),
           objcore' \in [Bans -> Seq(OCs)],
           \A x \in Bans : /\ Distinct(objcore'[x])
                           /\ ToSet(objcore'[x]) = (ToSet(objcore[x]) \ {o})
                                                   \cup (IF x = y THEN {o} ELSE {})
    PROVE  /\ ListInv' /\ RefInv' /\ TailInv'
           /\ refcount' \in [Bans -> Nat] /\ ocban' \in [OCs -> Bans \cup {None}]
<1>1. y \in Bans \cup {None}
    BY PosFacts
<1>2. /\ ocban \in [OCs -> Bans \cup {None}] /\ ocban' \in [OCs -> Bans \cup {None}]
      /\ ocban'[o] = y /\ \A u \in OCs \ {o} : ocban'[u] = ocban[u]
    BY <1>1 DEF IInv, TypeInv, TypeOK
<1>3. ListInv'
    BY DEF IInv, ListInv
<1>4. TailInv'
    BY DEF IInv, TailInv, Pos
<1>5. ASSUME NEW x \in Bans
      PROVE  /\ refcount'[x] = Cardinality(OnBan(x)') + Cardinality(Tailing(x)')
             /\ refcount'[x] \in Nat
  <2>1. ChangedAt(OCs, o, ocban, ocban') /\ IsFiniteSet(OCs)
      BY <1>2, BanConstants DEF ChangedAt
  <2>2. /\ Cardinality(OnBan(x)') \in Nat
        /\ Cardinality(OnBan(x)') = Cardinality(OnBan(x)) + Unit(ocban'[o], x) - Unit(ocban[o], x)
    <3>1. \A f, g : ChangedAt(OCs, o, f, g) =>
            /\ Cardinality(Entries(OCs, g, x)) \in Nat
            /\ Cardinality(Entries(OCs, g, x))
                 = Cardinality(Entries(OCs, f, x)) + Unit(g[o], x) - Unit(f[o], x)
        BY <2>1, EntriesMoved
    <3>2. /\ Cardinality(Entries(OCs, ocban', x)) \in Nat
          /\ Cardinality(Entries(OCs, ocban', x))
               = Cardinality(Entries(OCs, ocban, x)) + Unit(ocban'[o], x) - Unit(ocban[o], x)
        BY <2>1, <3>1
    <3> QED BY <3>2 DEF OnBan
  <2>3. /\ Cardinality(OnBan(x)) \in Nat /\ Cardinality(Tailing(x)) \in Nat
        /\ refcount[x] = Cardinality(OnBan(x)) + Cardinality(Tailing(x))
      BY OnListed
  <2>4. Cardinality(Tailing(x)') = Cardinality(Tailing(x))
      BY DEF Tailing
  <2>5. refcount'[x] = refcount[x] + Unit(y, x) - Unit(ocban[o], x)
      OBVIOUS
  <2>6. Unit(y, x) \in Int /\ Unit(ocban[o], x) \in Int
      BY DEF Unit
  <2> QED BY <1>2, <2>2, <2>3, <2>4, <2>5, <2>6
<1>6. \A x \in Bans : ToSet(objcore'[x]) = OnBan(x)'
  <2> SUFFICES ASSUME NEW x \in Bans, NEW u
               PROVE  u \in ToSet(objcore'[x]) <=> u \in OCs /\ ocban'[u] = x
      BY DEF OnBan, Entries
  <2>1. u \in ToSet(objcore[x]) <=> u \in OCs /\ ocban[u] = x
      BY OnItsBan
  <2>2. u \in ToSet(objcore'[x]) <=> (u \in ToSet(objcore[x]) /\ u # o) \/ (x = y /\ u = o)
      OBVIOUS
  <2> QED BY <1>2, <2>1, <2>2
<1>7. ASSUME NEW x \in Bans, refcount'[x] > 0
      PROVE  x \in ToSet(ban_head')
  <2>1. CASE y = x
      BY <1>1, <2>1, BanConstants
  <2>2. CASE y # x
    <3>1. refcount[x] \in Nat /\ refcount'[x] \in Int
        BY DEF IInv, TypeInv, TypeOK
    <3>2. /\ refcount'[x] = refcount[x] + Unit(y, x) - Unit(ocban[o], x)
          /\ Unit(y, x) = 0 /\ Unit(ocban[o], x) \in Nat
        BY <2>2 DEF Unit
    <3>3. refcount[x] > 0
        BY <1>7, <3>1, <3>2
    <3> QED BY <3>3 DEF IInv, RefInv
  <2> QED BY <2>1, <2>2
<1>8. RefInv'
    BY <1>5, <1>6, <1>7 DEF RefInv
<1> QED BY <1>2, <1>3, <1>4, <1>5, <1>8

\* Off its ban: BAN_DestroyObj and the end of a test that matched.
LEMMA ObjcoreLeaves ==
    ASSUME IInv, NEW o \in OCs, ocban[o] # None, ocban' = [ocban EXCEPT ![o] = None],
           refcount' = [refcount EXCEPT ![ocban[o]] = @ - 1],
           objcore' = [objcore EXCEPT ![ocban[o]] = Without(@, o)],
           UNCHANGED <<ban_head, tail, new>>
    PROVE  /\ ListInv' /\ RefInv' /\ TailInv'
           /\ refcount' \in [Bans -> Nat] /\ ocban' \in [OCs -> Bans \cup {None}]
           /\ objcore' \in [Bans -> Seq(OCs)]
<1>1. /\ ocban[o] \in Bans /\ refcount \in [Bans -> Nat] /\ objcore \in [Bans -> Seq(OCs)]
      /\ \A x \in Bans : /\ Distinct(objcore[x])
                         /\ o \in ToSet(objcore[x]) <=> x = ocban[o]
    BY OnItsBan DEF IInv, TypeInv, TypeOK, ListInv
<1> DEFINE q == Without(objcore[ocban[o]], o)
<1>2. q \in Seq(OCs) /\ Distinct(q) /\ ToSet(q) = ToSet(objcore[ocban[o]]) \ {o}
    BY <1>1, EntryFacts
<1>3. objcore' = [objcore EXCEPT ![ocban[o]] = q]
    OBVIOUS
<1> HIDE DEF q
<1>4. /\ objcore' \in [Bans -> Seq(OCs)]
      /\ \A x \in Bans : Distinct(objcore'[x]) /\ ToSet(objcore'[x]) = ToSet(objcore[x]) \ {o}
    BY <1>1, <1>2, <1>3
<1>5. /\ refcount' \in [Bans -> Int]
      /\ \A x \in Bans : refcount'[x] = refcount[x] + Unit(None, x) - Unit(ocban[o], x)
    BY <1>1, BanConstants DEF Unit
<1>6. \A x \in Bans : /\ Distinct(objcore'[x])
                      /\ ToSet(objcore'[x]) = (ToSet(objcore[x]) \ {o})
                                              \cup (IF x = None THEN {o} ELSE {})
    BY <1>4, BanConstants
<1>7. None \in ToSet(ban_head) \cup {None}
    OBVIOUS
<1> QED BY <1>4, <1>5, <1>6, <1>7, ObjcoreMoves

\* STV_MkObject: a new objcore hangs on the newest ban.
LEMMA NewObjCoreStep ==
    ASSUME IInv, NEW o \in OCs, BAN_NewObjCore(o)
    PROVE  IInv'
<1>1. /\ UNCHANGED <<ban_head, spec, gone, colour>>
      /\ UNCHANGED <<occolour, mtx, pc, oc, b0, b, skipped>>
      /\ UNCHANGED <<pass, bl, bl0, tail, new, owed, must, deferred>>
      /\ state[o] = "none" /\ state' = [state EXCEPT ![o] = "busy"]
      /\ ocban' = [ocban EXCEPT ![o] = ban_start]
      /\ refcount' = [refcount EXCEPT ![ban_start] = @ + 1]
      /\ objcore' = [objcore EXCEPT ![ban_start] = Append(@, o)]
    BY DEF BAN_NewObjCore, chkVars, lurkVars, cliVars, history
<1>2. PICK k \in Kinds : kind' = [kind EXCEPT ![o] = k]
    BY DEF BAN_NewObjCore
<1>3. /\ ban_start \in ToSet(ban_head) /\ ban_start \in Bans /\ ban_start # None
    BY PosFacts, BanConstants
<1> DEFINE y == ban_start
           q == Append(objcore[y], o)
<1>4. /\ ocban[o] = None /\ refcount \in [Bans -> Nat] /\ objcore \in [Bans -> Seq(OCs)]
      /\ \A x \in Bans : Distinct(objcore[x]) /\ o \notin ToSet(objcore[x])
    BY <1>1, OnItsBan, BanConstants DEF IInv, TypeInv, TypeOK, ListInv, OcInv
<1>5. q \in Seq(OCs) /\ Distinct(q) /\ ToSet(q) = ToSet(objcore[y]) \cup {o}
    BY <1>3, <1>4, EntryFacts
<1>6. objcore' = [objcore EXCEPT ![y] = q]
    BY <1>1
<1> HIDE DEF q
<1>7. /\ objcore' \in [Bans -> Seq(OCs)]
      /\ \A x \in Bans : /\ Distinct(objcore'[x])
                         /\ ToSet(objcore'[x]) = (ToSet(objcore[x]) \ {o})
                                                 \cup (IF x = y THEN {o} ELSE {})
    BY <1>3, <1>4, <1>5, <1>6
<1>8. /\ refcount' \in [Bans -> Int]
      /\ \A x \in Bans : refcount'[x] = refcount[x] + Unit(y, x) - Unit(ocban[o], x)
    BY <1>1, <1>3, <1>4, BanConstants DEF Unit
<1>9. /\ ListInv' /\ RefInv' /\ TailInv'
      /\ refcount' \in [Bans -> Nat] /\ ocban' \in [OCs -> Bans \cup {None}]
    BY <1>1, <1>3, <1>7, <1>8, ObjcoreMoves
<1>10. TypeInv'
    BY <1>1, <1>2, <1>7, <1>9 DEF IInv, TypeInv, TypeOK
<1>11. OcInv'
  <2> SUFFICES ASSUME NEW u \in OCs
               PROVE  /\ state'[u] = "none" => ocban'[u] = None
                      /\ state'[u] # "none" => kind'[u] # None
                      /\ state'[u] \in {"busy", "live"} => ocban'[u] # None
      BY DEF OcInv
  <2>1. CASE u = o
      BY <1>1, <1>2, <1>3, <2>1, BanConstants DEF IInv, TypeInv, TypeOK
  <2>2. CASE u # o
      BY <1>1, <1>2, <2>2 DEF IInv, TypeInv, TypeOK, OcInv
  <2> QED BY <2>1, <2>2
<1>12. \A t \in Checkers : Scanning(t) =>
          /\ ScanOk(t) /\ oc[t] # o
          /\ ocban'[oc[t]] = ocban[oc[t]] /\ state'[oc[t]] = state[oc[t]]
    BY <1>1 DEF IInv, TypeInv, TypeOK, ScanInv, ScanOk
<1>13. ScanInv'
    BY <1>1, <1>12 DEF ScanInv, Scanning, ScanOk, Pos
<1>14. LurkInv'
    BY <1>1, <1>12 DEF IInv, LurkInv, Scanning, Pos, Checkers
<1> QED BY <1>9, <1>10, <1>11, <1>13, <1>14 DEF IInv

LEMMA DestroyObjStep ==
    ASSUME IInv, NEW o \in OCs, BAN_DestroyObj(o)
    PROVE  IInv'
<1>1. /\ UNCHANGED <<ban_head, spec, gone, colour>>
      /\ UNCHANGED <<mtx, pc, oc, b0, b, skipped>>
      /\ UNCHANGED <<pass, bl, bl0, tail, new, must>>
      /\ state[o] = "dying" /\ state' = [state EXCEPT ![o] = "none"]
      /\ kind' = [kind EXCEPT ![o] = None] /\ ocban' = [ocban EXCEPT ![o] = None]
      /\ occolour' = [occolour EXCEPT ![o] = {}]
      /\ owed' = owed \ {o} /\ deferred' = deferred \ {o}
    BY DEF BAN_DestroyObj, chkVars, lurkVars, cliVars
<1>2. /\ ListInv' /\ RefInv' /\ TailInv'
      /\ refcount' \in [Bans -> Nat] /\ ocban' \in [OCs -> Bans \cup {None}]
      /\ objcore' \in [Bans -> Seq(OCs)]
  <2>1. CASE ocban[o] = None
    <3>1. UNCHANGED <<refcount, objcore>>
        BY <2>1 DEF BAN_DestroyObj
    <3>2. ocban' = ocban
        BY <1>1, <2>1 DEF IInv, TypeInv, TypeOK
    <3>3. ListInv' /\ RefInv' /\ TailInv'
        BY <1>1, <3>1, <3>2, BansFrame
    <3> QED BY <3>1, <3>2, <3>3 DEF IInv, TypeInv, TypeOK
  <2>2. CASE ocban[o] # None
    <3>1. /\ refcount' = [refcount EXCEPT ![ocban[o]] = @ - 1]
          /\ objcore' = [objcore EXCEPT ![ocban[o]] = Without(@, o)]
        BY <2>2 DEF BAN_DestroyObj
    <3> QED BY <1>1, <2>2, <3>1, ObjcoreLeaves
  <2> QED BY <2>1, <2>2
<1>3. TypeInv'
    BY <1>1, <1>2 DEF IInv, TypeInv, TypeOK, Colours
<1>4. OcInv'
    BY <1>1 DEF IInv, TypeInv, TypeOK, OcInv
<1>5. \A t \in Checkers : Scanning(t) =>
          /\ ScanOk(t) /\ oc[t] # o
          /\ ocban'[oc[t]] = ocban[oc[t]] /\ state'[oc[t]] = state[oc[t]]
    BY <1>1 DEF IInv, TypeInv, TypeOK, ScanInv, ScanOk
<1>6. ScanInv'
    BY <1>1, <1>5 DEF ScanInv, Scanning, ScanOk, Pos
<1>7. LurkInv'
    BY <1>1, <1>5 DEF IInv, LurkInv, Scanning, Pos, Checkers
<1> QED BY <1>2, <1>3, <1>4, <1>6, <1>7 DEF IInv

\* No ban matched: the objcore moves to the ban that was the newest when the test began.
LEMMA PassStep ==
    ASSUME IInv, NEW t \in Checkers, ban_check_object_pass(t)
    PROVE  IInv'
<1> DEFINE o == oc[t]
           x0 == ocban[o]
           y == b0[t]
<1>1. /\ UNCHANGED <<ban_head, spec, gone, state, kind, occolour>>
      /\ UNCHANGED <<pass, bl, bl0, tail, new, owed, must, deferred>>
      /\ pc[t] = "scan" /\ Finish(t, "served")
      /\ refcount' = [refcount EXCEPT ![x0] = @ - 1, ![y] = @ + 1]
      /\ objcore' = [objcore EXCEPT ![x0] = Without(@, o), ![y] = Append(@, o)]
      /\ colour' = [colour EXCEPT ![x0] = {}]
      /\ ocban' = [ocban EXCEPT ![o] = y]
    BY DEF ban_check_object_pass, lurkVars, cliVars, history
<1>2. Scanning(t) /\ ScanOk(t)
    BY <1>1 DEF IInv, ScanInv, Scanning
<1>3. /\ o \in OCs /\ x0 \in ToSet(ban_head) /\ y \in ToSet(ban_head)
      /\ x0 \in Bans /\ y \in Bans /\ x0 # y
    BY <1>2, PosFacts DEF ScanOk
<1>4. /\ refcount \in [Bans -> Nat] /\ objcore \in [Bans -> Seq(OCs)]
      /\ \A x \in Bans : Distinct(objcore[x]) /\ (o \in ToSet(objcore[x]) <=> x = x0)
    BY <1>3, OnItsBan DEF IInv, TypeInv, TypeOK, ListInv
<1>5. /\ \A u \in OCs \ {o} : ocban'[u] = ocban[u] /\ state'[u] = state[u]
      /\ colour' \in [Bans -> Colours]
    BY <1>1, <1>3 DEF IInv, TypeInv, TypeOK, Colours
<1>6. /\ ScanInv' /\ LurkInv'
      /\ pc' \in [Checkers -> {"idle", "scan", "matched", "served", "last", "tag",
                               "tagging", "walk"}]
      /\ \A c \in Clients : pc'[c] \in {"idle", "scan", "matched", "served"}
      /\ pc'[Lurker] \in {"last", "tag", "tagging", "walk", "scan", "matched"}
      /\ mtx' \in [OCs -> Checkers \cup {None}] /\ oc' \in [Checkers -> OCs \cup {None}]
      /\ b0' \in [Checkers -> Bans \cup {None}] /\ b' \in [Checkers -> Bans \cup {None}]
      /\ skipped' \in [Checkers -> BOOLEAN]
    BY <1>1, <1>2, <1>5, FinishFacts
<1> DEFINE q == Without(objcore[x0], o)
           r == Append(objcore[y], o)
<1>7. /\ q \in Seq(OCs) /\ Distinct(q) /\ ToSet(q) = ToSet(objcore[x0]) \ {o}
      /\ r \in Seq(OCs) /\ Distinct(r) /\ ToSet(r) = ToSet(objcore[y]) \cup {o}
    BY <1>3, <1>4, EntryFacts
<1> HIDE DEF o, x0, y
<1>8. /\ objcore'[x0] = q /\ objcore'[y] = r /\ objcore' \in [Bans -> Seq(OCs)]
      /\ \A x \in Bans \ {x0, y} : objcore'[x] = objcore[x]
  <2>1. objcore' = [x \in Bans |-> IF x = y THEN r ELSE IF x = x0 THEN q ELSE objcore[x]]
      BY <1>1, <1>3, <1>4
  <2> HIDE DEF q, r
  <2> QED BY <1>3, <1>4, <1>7, <2>1
<1> HIDE DEF q, r
<1>9. \A x \in Bans : /\ Distinct(objcore'[x])
                      /\ ToSet(objcore'[x]) = (ToSet(objcore[x]) \ {o})
                                              \cup (IF x = y THEN {o} ELSE {})
  <2> SUFFICES ASSUME NEW x \in Bans
               PROVE  /\ Distinct(objcore'[x])
                      /\ ToSet(objcore'[x]) = (ToSet(objcore[x]) \ {o})
                                              \cup (IF x = y THEN {o} ELSE {})
      OBVIOUS
  <2>1. CASE x = y
      BY <1>3, <1>4, <1>7, <1>8, <2>1
  <2>2. CASE x = x0
      BY <1>3, <1>7, <1>8, <2>2
  <2>3. CASE x \notin {x0, y}
    <3>1. objcore'[x] = objcore[x] /\ o \notin ToSet(objcore[x])
        BY <1>4, <1>8, <2>3
    <3> QED BY <1>4, <2>3, <3>1
  <2> QED BY <2>1, <2>2, <2>3
<1>10. /\ refcount' \in [Bans -> Int] /\ refcount'[x0] = refcount[x0] - 1
       /\ refcount'[y] = refcount[y] + 1
       /\ \A x \in Bans \ {x0, y} : refcount'[x] = refcount[x]
    BY <1>1, <1>3, <1>4
<1>11. \A x \in Bans : refcount'[x] = refcount[x] + Unit(y, x) - Unit(x0, x)
    BY <1>3, <1>4, <1>10 DEF Unit
<1>12. /\ ListInv' /\ RefInv' /\ TailInv'
       /\ refcount' \in [Bans -> Nat] /\ ocban' \in [OCs -> Bans \cup {None}]
  <2>1. \A x \in Bans : refcount'[x] = refcount[x] + Unit(y, x) - Unit(ocban[o], x)
      BY <1>11 DEF x0
  <2> QED BY <1>1, <1>3, <1>8, <1>9, <1>10, <2>1, ObjcoreMoves
<1>13. TypeInv'
    BY <1>1, <1>5, <1>6, <1>8, <1>12 DEF IInv, TypeInv, TypeOK
<1>14. OcInv'
  <2>1. y # None
      BY <1>3, BanConstants
  <2>2. state[o] \in {"live", "dead"}
      BY <1>2 DEF ScanOk, o
  <2> QED BY <1>1, <1>3, <2>1, <2>2 DEF IInv, TypeInv, TypeOK, OcInv
<1> QED BY <1>6, <1>12, <1>13, <1>14 DEF IInv

LEMMA BannedStep ==
    ASSUME IInv, NEW t \in Checkers, ban_check_object_banned(t)
    PROVE  IInv'
<1> DEFINE o == oc[t]
<1>1. /\ UNCHANGED <<ban_head, spec, gone, colour, kind, occolour>>
      /\ UNCHANGED <<pass, bl, bl0, tail, new, deferred>>
      /\ pc[t] = "matched" /\ Finish(t, "idle")
      /\ refcount' = [refcount EXCEPT ![ocban[o]] = @ - 1]
      /\ objcore' = [objcore EXCEPT ![ocban[o]] = Without(@, o)]
      /\ ocban' = [ocban EXCEPT ![o] = None]
      /\ state' = [state EXCEPT ![o] = "dead"]
      /\ owed' = owed \ {o} /\ must' = must \ {t}
    BY DEF ban_check_object_banned, lurkVars, cliVars
<1>2. Scanning(t) /\ ScanOk(t)
    BY <1>1 DEF IInv, ScanInv, Scanning
<1>3. o \in OCs /\ ocban[o] \in Bans /\ ocban[o] # None /\ state[o] \in {"live", "dead"}
    BY <1>2, PosFacts, BanConstants DEF ScanOk
<1>4. \A u \in OCs \ {o} : ocban'[u] = ocban[u] /\ state'[u] = state[u]
    BY <1>1, <1>3 DEF IInv, TypeInv, TypeOK
<1>5. /\ ScanInv' /\ LurkInv'
      /\ pc' \in [Checkers -> {"idle", "scan", "matched", "served", "last", "tag",
                               "tagging", "walk"}]
      /\ \A c \in Clients : pc'[c] \in {"idle", "scan", "matched", "served"}
      /\ pc'[Lurker] \in {"last", "tag", "tagging", "walk", "scan", "matched"}
      /\ mtx' \in [OCs -> Checkers \cup {None}] /\ oc' \in [Checkers -> OCs \cup {None}]
      /\ b0' \in [Checkers -> Bans \cup {None}] /\ b' \in [Checkers -> Bans \cup {None}]
      /\ skipped' \in [Checkers -> BOOLEAN]
    BY <1>1, <1>2, <1>4, FinishFacts
<1> HIDE DEF o
<1>6. /\ ListInv' /\ RefInv' /\ TailInv'
      /\ refcount' \in [Bans -> Nat] /\ ocban' \in [OCs -> Bans \cup {None}]
      /\ objcore' \in [Bans -> Seq(OCs)]
    BY <1>1, <1>3, ObjcoreLeaves
<1>7. state' \in [OCs -> {"none", "busy", "live", "dead", "dying"}]
    BY <1>1, <1>3 DEF IInv, TypeInv, TypeOK
<1>8. TypeInv'
    BY <1>1, <1>5, <1>6, <1>7 DEF IInv, TypeInv, TypeOK
<1>9. OcInv'
    BY <1>1, <1>3 DEF IInv, TypeInv, TypeOK, OcInv
<1> QED BY <1>5, <1>6, <1>8, <1>9 DEF IInv

-----------------------------------------------------------------------------
(***************************************************************************)
(* Steps of the threads that add and list bans, and the end of a ban.      *)
(***************************************************************************)

\* A reference on a tail is taken or given up; the list may have become longer.
LEMMA TailMoves ==
    ASSUME IInv, NEW i \in CLIs, NEW y \in ToSet(ban_head) \cup {None},
           tail' = [tail EXCEPT ![i] = y], UNCHANGED <<ocban, objcore>>,
           ToSet(ban_head) \subseteq ToSet(ban_head'),
           refcount' \in [Bans -> Int],
           \A x \in Bans : refcount'[x] = refcount[x] + Unit(y, x) - Unit(tail[i], x)
    PROVE  /\ RefInv' /\ refcount' \in [Bans -> Nat]
           /\ tail' \in [CLIs -> Bans \cup {None}]
           /\ tail'[i] = y /\ \A u \in CLIs \ {i} : tail'[u] = tail[u]
<1>1. y \in Bans \cup {None}
    BY PosFacts
<1>2. /\ tail' \in [CLIs -> Bans \cup {None}]
      /\ tail'[i] = y /\ \A u \in CLIs \ {i} : tail'[u] = tail[u]
    BY <1>1 DEF IInv, TypeInv, TypeOK
<1>3. ASSUME NEW x \in Bans
      PROVE  /\ refcount'[x] = Cardinality(OnBan(x)') + Cardinality(Tailing(x)')
             /\ refcount'[x] \in Nat
  <2>1. ChangedAt(CLIs, i, tail, tail') /\ IsFiniteSet(CLIs)
      BY <1>2, BanConstants DEF ChangedAt
  <2>2. /\ Cardinality(Tailing(x)') \in Nat
        /\ Cardinality(Tailing(x)') = Cardinality(Tailing(x)) + Unit(tail'[i], x) - Unit(tail[i], x)
    <3>1. \A f, g : ChangedAt(CLIs, i, f, g) =>
            /\ Cardinality(Entries(CLIs, g, x)) \in Nat
            /\ Cardinality(Entries(CLIs, g, x))
                 = Cardinality(Entries(CLIs, f, x)) + Unit(g[i], x) - Unit(f[i], x)
        BY <2>1, EntriesMoved
    <3>2. /\ Cardinality(Entries(CLIs, tail', x)) \in Nat
          /\ Cardinality(Entries(CLIs, tail', x))
               = Cardinality(Entries(CLIs, tail, x)) + Unit(tail'[i], x) - Unit(tail[i], x)
        BY <2>1, <3>1
    <3> QED BY <3>2 DEF Tailing
  <2>3. /\ Cardinality(OnBan(x)) \in Nat /\ Cardinality(Tailing(x)) \in Nat
        /\ refcount[x] = Cardinality(OnBan(x)) + Cardinality(Tailing(x))
      BY OnListed
  <2>4. Cardinality(OnBan(x)') = Cardinality(OnBan(x))
      BY DEF OnBan
  <2>5. refcount'[x] = refcount[x] + Unit(y, x) - Unit(tail[i], x)
      OBVIOUS
  <2>6. Unit(y, x) \in Int /\ Unit(tail[i], x) \in Int
      BY DEF Unit
  <2> QED BY <1>2, <2>2, <2>3, <2>4, <2>5, <2>6
<1>4. \A x \in Bans : ToSet(objcore'[x]) = OnBan(x)'
    BY DEF IInv, RefInv, OnBan
<1>5. ASSUME NEW x \in Bans, refcount'[x] > 0
      PROVE  x \in ToSet(ban_head')
  <2>1. CASE y = x
      BY <1>1, <2>1, BanConstants
  <2>2. CASE y # x
    <3>1. refcount[x] \in Nat /\ refcount'[x] \in Int
        BY DEF IInv, TypeInv, TypeOK
    <3>2. /\ refcount'[x] = refcount[x] + Unit(y, x) - Unit(tail[i], x)
          /\ Unit(y, x) = 0 /\ Unit(tail[i], x) \in Nat
        BY <2>2 DEF Unit
    <3>3. refcount[x] > 0
        BY <1>5, <3>1, <3>2
    <3> QED BY <3>3 DEF IInv, RefInv
  <2> QED BY <2>1, <2>2
<1>6. RefInv'
    BY <1>3, <1>4, <1>5 DEF RefInv
<1> QED BY <1>2, <1>3, <1>6

\* References on a tail, without BAN_Insert.
LEMMA TailRefStep ==
    ASSUME IInv, NEW i \in CLIs, BAN_TailRef(i) \/ BAN_TailDeref(i) \/ BAN_Insert_dups(i)
    PROVE  IInv'
<1>1. /\ UNCHANGED <<ban_head, spec, colour, objcore>>
      /\ UNCHANGED <<state, kind, ocban, occolour, mtx, pc, oc, b0, b, skipped>>
      /\ UNCHANGED <<pass, bl, bl0, owed, must, deferred>>
    BY DEF BAN_TailRef, BAN_TailDeref, BAN_Insert_dups, ocVars, chkVars, lurkVars, history
<1>2. /\ refcount \in [Bans -> Nat] /\ tail \in [CLIs -> Bans \cup {None}] /\ gone \subseteq Bans
      /\ new \in [CLIs -> Bans \cup {None}] /\ ban_head \in Seq(Bans)
    BY DEF IInv, TypeInv, TypeOK
<1>3. gone' \subseteq Bans
  <2>1. \A x \in ToSet(ban_head) : x \in Bans
      BY PosFacts
  <2>2. CASE BAN_Insert_dups(i)
      BY <1>2, <2>1, <2>2 DEF BAN_Insert_dups
  <2>3. CASE BAN_TailRef(i)
      BY <1>2, <2>3 DEF BAN_TailRef
  <2>4. CASE BAN_TailDeref(i)
      BY <1>2, <2>4 DEF BAN_TailDeref
  <2> QED BY <2>2, <2>3, <2>4
<1>4. PICK y \in ToSet(ban_head) \cup {None} :
          /\ tail' = [tail EXCEPT ![i] = y] /\ refcount' \in [Bans -> Int]
          /\ \A x \in Bans : refcount'[x] = refcount[x] + Unit(y, x) - Unit(tail[i], x)
          /\ y = None => new' \in {new, [new EXCEPT ![i] = None]} /\ new'[i] = None
          /\ y # None => new' = new /\ tail[i] = None
  <2>1. CASE BAN_TailRef(i)
    <3>1. /\ tail[i] = None /\ tail' = [tail EXCEPT ![i] = Last(ban_head)] /\ new' = new
          /\ refcount' = [refcount EXCEPT ![Last(ban_head)] = @ + 1]
        BY <2>1 DEF BAN_TailRef
    <3>2. Last(ban_head) \in ToSet(ban_head) /\ Last(ban_head) \in Bans /\ Last(ban_head) # None
        BY PosFacts, BanConstants
    <3>3. /\ refcount' \in [Bans -> Int]
          /\ \A x \in Bans : refcount'[x] = refcount[x] + Unit(Last(ban_head), x) - Unit(tail[i], x)
      <4> DEFINE l == Last(ban_head)
      <4>1. l \in Bans /\ refcount' = [refcount EXCEPT ![l] = @ + 1]
          BY <3>1, <3>2
      <4> HIDE DEF l
      <4>2. /\ refcount' \in [Bans -> Int]
            /\ \A x \in Bans : refcount'[x] = refcount[x] + Unit(l, x) - Unit(tail[i], x)
          BY <1>2, <3>1, <4>1, BanConstants DEF Unit
      <4> QED BY <4>2 DEF l
    <3> QED BY <3>1, <3>2, <3>3
  <2>2. CASE BAN_TailDeref(i) \/ BAN_Insert_dups(i)
    <3>1. /\ refcount' = [refcount EXCEPT ![tail[i]] = @ - 1]
          /\ tail' = [tail EXCEPT ![i] = None]
          /\ new' \in {new, [new EXCEPT ![i] = None]} /\ new'[i] = None
        BY <1>2, <2>2 DEF BAN_TailDeref, BAN_Insert_dups
    <3>2. tail[i] \in Bans
        BY <1>2, <2>2, BanConstants DEF BAN_TailDeref, BAN_Insert_dups, IInv, TailInv
    <3>3. /\ refcount' \in [Bans -> Int]
          /\ \A x \in Bans : refcount'[x] = refcount[x] + Unit(None, x) - Unit(tail[i], x)
        BY <1>2, <3>1, <3>2, BanConstants DEF Unit
    <3> QED BY <3>1, <3>3
  <2> QED BY <2>1, <2>2
<1>5. /\ RefInv' /\ refcount' \in [Bans -> Nat]
      /\ tail' \in [CLIs -> Bans \cup {None}]
      /\ tail'[i] = y /\ \A u \in CLIs \ {i} : tail'[u] = tail[u]
    BY <1>1, <1>4, TailMoves
<1>6. new' \in [CLIs -> Bans \cup {None}] /\ \A u \in CLIs \ {i} : new'[u] = new[u]
    BY <1>2, <1>4
<1>7. TailInv'
  <2> SUFFICES ASSUME NEW u \in CLIs
               PROVE  /\ tail'[u] # None => tail'[u] \in ToSet(ban_head)
                      /\ new'[u] # None => /\ tail'[u] # None /\ new'[u] \in ToSet(ban_head)
                                           /\ Pos(new'[u]) <= Pos(tail'[u])
      BY <1>1 DEF TailInv, Pos
  <2>1. CASE u # i
      BY <1>5, <1>6, <2>1 DEF IInv, TailInv
  <2>2. CASE u = i /\ y = None
      BY <1>4, <1>5, <2>2
  <2>3. CASE u = i /\ y # None
      BY <1>4, <1>5, <2>3 DEF IInv, TailInv
  <2> QED BY <2>1, <2>2, <2>3
<1>8. TypeInv'
    BY <1>1, <1>3, <1>5, <1>6 DEF IInv, TypeInv, TypeOK
<1>9. ListInv' /\ OcInv'
    BY <1>1 DEF IInv, ListInv, OcInv
<1>10. ScanInv'
    BY <1>1 DEF IInv, ScanInv, Scanning, ScanOk, Pos
<1>11. LurkInv'
    BY <1>1 DEF IInv, LurkInv, Scanning, Pos
<1> QED BY <1>5, <1>7, <1>8, <1>9, <1>10, <1>11 DEF IInv

\* BAN_Insert puts a ban before all others: whoever walks the list does not notice.
LEMMA ConsFrame ==
    ASSUME IInv, NEW x \in Bans \ ToSet(ban_head), ban_head' = Cons(x, ban_head),
           UNCHANGED <<state, ocban, mtx, pc, oc, b0, b, bl, bl0>>
    PROVE  /\ ban_head' \in Seq(Bans) /\ ban_head' # <<>> /\ Distinct(ban_head')
           /\ ToSet(ban_head') = ToSet(ban_head) \cup {x}
           /\ Pos(x)' = 1
           /\ \A y \in ToSet(ban_head) : /\ Pos(y)' = Pos(y) + 1
                                         /\ Pos(y) \in Int /\ 1 <= Pos(y)
           /\ ScanInv' /\ LurkInv'
<1>1. ban_head \in Seq(Bans) /\ Distinct(ban_head)
    BY DEF IInv, TypeInv, TypeOK, ListInv
<1>2. /\ ban_head' \in Seq(Bans) /\ ban_head' # <<>> /\ Distinct(ban_head')
      /\ ToSet(ban_head') = ToSet(ban_head) \cup {x}
      /\ Index(ban_head', x) = 1
      /\ \A y \in ToSet(ban_head) : Index(ban_head', y) = Index(ban_head, y) + 1
    BY <1>1, ConsFacts
<1>3. \A y \in ToSet(ban_head) : Pos(y) \in Int /\ 1 <= Pos(y)
    BY PosFacts
<1>4. Pos(x)' = 1 /\ \A y \in ToSet(ban_head) : Pos(y)' = Pos(y) + 1
    BY <1>2 DEF Pos
<1>5. \A y, z \in ToSet(ban_head) : Pos(y) <= Pos(z) => Pos(y)' <= Pos(z)'
    BY <1>3, <1>4
<1>6. ScanInv'
  <2> SUFFICES ASSUME NEW t \in Checkers, Scanning(t)
               PROVE  ScanOk(t)'
      BY DEF ScanInv, Scanning
  <2>1. ScanOk(t)
      BY DEF IInv, ScanInv
  <2>2. /\ b[t] \in ToSet(ban_head) /\ b0[t] \in ToSet(ban_head)
        /\ ocban[oc[t]] \in ToSet(ban_head)
        /\ Pos(b0[t]) <= Pos(b[t]) /\ Pos(b[t]) <= Pos(ocban[oc[t]])
      BY <2>1 DEF ScanOk
  <2>3. Index(ban_head', b0[t]) <= Index(ban_head', b[t])
        /\ Index(ban_head', b[t]) <= Index(ban_head', ocban[oc[t]])
      BY <1>5, <2>2 DEF Pos
  <2> QED BY <1>2, <2>1, <2>2, <2>3 DEF ScanOk, Pos
<1>7. LurkInv'
  <2>1. bl0 # None => Index(ban_head', bl0) <= Index(ban_head', bl)
    <3>1. bl0 # None => bl0 \in ToSet(ban_head) /\ bl \in ToSet(ban_head) /\ Pos(bl0) <= Pos(bl)
        BY DEF IInv, LurkInv
    <3> QED BY <1>5, <3>1 DEF Pos
  <2> QED BY <1>2, <2>1 DEF IInv, LurkInv, Scanning, Pos
<1> QED BY <1>2, <1>3, <1>4, <1>6, <1>7

LEMMA InsertStep ==
    ASSUME IInv, NEW i \in CLIs, BAN_Insert(i)
    PROVE  IInv'
<1>1. /\ UNCHANGED <<gone, colour, objcore>>
      /\ UNCHANGED <<state, kind, ocban, occolour, mtx, pc, oc, b0, b, skipped>>
      /\ UNCHANGED <<pass, bl, bl0, must, deferred>> /\ tail[i] = None
    BY DEF BAN_Insert, ocVars, chkVars, lurkVars
<1>2. PICK x \in Bans \ ToSet(ban_head), sp \in Specs :
          /\ ban_head' = Cons(x, ban_head) /\ spec' = [spec EXCEPT ![x] = sp]
          /\ owed' \subseteq owed \cup OCs
          /\ new' = IF params.ban_dups THEN [new EXCEPT ![i] = x] ELSE new
    BY DEF BAN_Insert
<1>3. /\ ban_head' \in Seq(Bans) /\ ban_head' # <<>> /\ Distinct(ban_head')
      /\ ToSet(ban_head') = ToSet(ban_head) \cup {x}
      /\ Pos(x)' = 1
      /\ \A y \in ToSet(ban_head) : Pos(y)' = Pos(y) + 1 /\ Pos(y) \in Int /\ 1 <= Pos(y)
      /\ ScanInv' /\ LurkInv'
    BY <1>1, <1>2, ConsFrame
<1>4. /\ refcount \in [Bans -> Nat] /\ tail \in [CLIs -> Bans \cup {None}]
      /\ new \in [CLIs -> Bans \cup {None}]
    BY DEF IInv, TypeInv, TypeOK
<1>5. ListInv' /\ OcInv'
  <2>1. ListInv'
      BY <1>1, <1>3 DEF IInv, ListInv
  <2>2. OcInv'
      BY <1>1 DEF IInv, OcInv
  <2> QED BY <2>1, <2>2
<1>6. spec' \in [Bans -> Specs \cup {NoSpec}] /\ owed' \subseteq OCs
  <2>1. spec \in [Bans -> Specs \cup {NoSpec}] /\ owed \subseteq OCs
      BY DEF IInv, TypeInv, TypeOK
  <2> QED BY <1>2, <2>1
<1>7. ASSUME NEW u \in CLIs
      PROVE  /\ tail[u] # None => tail[u] \in ToSet(ban_head')
             /\ new[u] # None => /\ tail[u] # None /\ new[u] \in ToSet(ban_head')
                                 /\ Index(ban_head', new[u]) <= Index(ban_head', tail[u])
  <2>1. /\ tail[u] # None => tail[u] \in ToSet(ban_head)
        /\ new[u] # None => /\ tail[u] # None /\ new[u] \in ToSet(ban_head)
                            /\ Pos(new[u]) <= Pos(tail[u])
      BY DEF IInv, TailInv
  <2>2. new[u] # None => Pos(new[u]) + 1 <= Pos(tail[u]) + 1
      BY <1>3, <2>1
  <2> QED BY <1>3, <2>1, <2>2 DEF Pos
<1>8. CASE ~params.ban_dups
  <2>1. UNCHANGED <<tail, refcount, new>>
      BY <1>2, <1>8 DEF BAN_Insert
  <2>2. TailInv'
      BY <1>7, <2>1 DEF TailInv, Pos
  <2>3. RefInv'
      BY <1>1, <1>3, <2>1 DEF IInv, RefInv, OnBan, Tailing
  <2>4. TypeInv'
      BY <1>1, <1>3, <1>6, <2>1 DEF IInv, TypeInv, TypeOK
  <2> QED BY <1>3, <1>5, <2>2, <2>3, <2>4 DEF IInv
<1>9. CASE params.ban_dups
  <2> DEFINE l == Last(ban_head)
  <2>1. /\ new' = [new EXCEPT ![i] = x] /\ tail' = [tail EXCEPT ![i] = l]
        /\ refcount' = [refcount EXCEPT ![l] = @ + 1]
      BY <1>2, <1>9 DEF BAN_Insert
  <2>2. l \in ToSet(ban_head) /\ l \in Bans
      BY PosFacts
  <2> HIDE DEF l
  <2>3. /\ refcount' \in [Bans -> Int]
        /\ \A y \in Bans : refcount'[y] = refcount[y] + Unit(l, y) - Unit(tail[i], y)
      BY <1>1, <1>4, <2>1, <2>2, BanConstants DEF Unit
  <2>4. ToSet(ban_head) \subseteq ToSet(ban_head')
      BY <1>3
  <2>5. /\ RefInv' /\ refcount' \in [Bans -> Nat]
        /\ tail' \in [CLIs -> Bans \cup {None}]
        /\ tail'[i] = l /\ \A u \in CLIs \ {i} : tail'[u] = tail[u]
      BY <1>1, <2>1, <2>2, <2>3, <2>4, TailMoves
  <2>6. /\ new' \in [CLIs -> Bans \cup {None}] /\ new'[i] = x
        /\ \A u \in CLIs \ {i} : new'[u] = new[u]
      BY <1>4, <2>1
  <2>7. TailInv'
    <3> SUFFICES ASSUME NEW u \in CLIs
                 PROVE  /\ tail'[u] # None => tail'[u] \in ToSet(ban_head')
                        /\ new'[u] # None =>
                              /\ tail'[u] # None /\ new'[u] \in ToSet(ban_head')
                              /\ Index(ban_head', new'[u]) <= Index(ban_head', tail'[u])
        BY DEF TailInv, Pos
    <3>1. CASE u # i
        BY <1>7, <2>5, <2>6, <3>1
    <3>2. CASE u = i
      <4>1. Index(ban_head', x) = 1 /\ 1 <= Index(ban_head', l)
        <5>1. \A y \in ToSet(ban_head) : 1 <= Index(ban_head', y)
          <6> SUFFICES ASSUME NEW y \in ToSet(ban_head)
                       PROVE  1 <= Pos(y)'
              BY DEF Pos
          <6> QED BY <1>3
        <5> QED BY <1>3, <2>2, <5>1 DEF Pos
      <4> QED BY <1>3, <2>2, <2>5, <2>6, <3>2, <4>1, BanConstants
    <3> QED BY <3>1, <3>2
  <2>8. TypeInv'
      BY <1>1, <1>3, <1>6, <2>5, <2>6 DEF IInv, TypeInv, TypeOK
  <2> QED BY <1>3, <1>5, <2>5, <2>7, <2>8 DEF IInv
<1> QED BY <1>8, <1>9

\* ban_CheckLast: nothing refers to the last ban, so no walk is there or will get there.
LEMMA CheckLastStep ==
    ASSUME IInv, ban_CheckLast
    PROVE  IInv'
<1> DEFINE z == Last(ban_head)
<1>1. /\ UNCHANGED <<refcount, objcore>>
      /\ UNCHANGED <<state, kind, ocban, occolour, mtx, pc, oc, b0, b, skipped>>
      /\ UNCHANGED <<pass, bl, bl0, tail, new, owed, must, deferred>>
      /\ pc[Lurker] = "last" /\ Len(ban_head) > 1 /\ refcount[z] = 0
      /\ ban_head' = Front(ban_head) /\ gone' = gone \ {z}
      /\ spec' = [spec EXCEPT ![z] = NoSpec] /\ colour' = [colour EXCEPT ![z] = {}]
    BY DEF ban_CheckLast, Retirable, ocVars, chkVars, lurkVars, cliVars, history
<1>2. ban_head \in Seq(Bans) /\ Distinct(ban_head)
    BY DEF IInv, TypeInv, TypeOK, ListInv
<1>3. /\ ban_head' \in Seq(Bans) /\ ban_head' # <<>> /\ Distinct(ban_head')
      /\ ToSet(ban_head') = ToSet(ban_head) \ {z}
      /\ \A x \in ToSet(ban_head) \ {z} : Index(ban_head', x) = Index(ban_head, x)
    BY <1>1, <1>2, FrontFacts
<1>4. /\ z \in ToSet(ban_head) /\ z \in Bans /\ Pos(z) = Len(ban_head) /\ Len(ban_head) \in Nat
      /\ \A x \in ToSet(ban_head) : Pos(x) \in 1..Len(ban_head) /\ (Pos(x) = Pos(z) => x = z)
    BY PosFacts
<1> HIDE DEF z
<1>5. ASSUME NEW x \in ToSet(ban_head), NEW y \in ToSet(ban_head) \ {z}, Pos(x) <= Pos(y)
      PROVE  x # z /\ x \in ToSet(ban_head') /\ Index(ban_head', x) = Pos(x)
  <2>1. x # z
      BY <1>4, <1>5
  <2> QED BY <1>3, <2>1 DEF Pos
<1>6. /\ \A o \in OCs : ocban[o] # z
      /\ \A i \in CLIs : tail[i] # z
  <2>1. OnBan(z) = {} /\ Tailing(z) = {}
      BY <1>1, <1>4, OnListed
  <2> QED BY <2>1 DEF OnBan, Tailing, Entries
<1>7. TypeInv'
    BY <1>1, <1>3, <1>4 DEF IInv, TypeInv, TypeOK, Colours
<1>8. ListInv' /\ OcInv'
  <2>1. ListInv'
      BY <1>1, <1>3 DEF IInv, ListInv
  <2>2. OcInv'
      BY <1>1 DEF IInv, OcInv
  <2> QED BY <2>1, <2>2
<1>9. RefInv'
  <2>1. \A x \in Bans : refcount[x] > 0 => x \in ToSet(ban_head')
      BY <1>1, <1>3 DEF IInv, RefInv
  <2> QED BY <1>1, <2>1 DEF IInv, RefInv, OnBan, Tailing
<1>10. ScanInv'
  <2> SUFFICES ASSUME NEW t \in Checkers, Scanning(t)
               PROVE  ScanOk(t)'
      BY <1>1 DEF ScanInv, Scanning
  <2>1. ScanOk(t)
      BY DEF IInv, ScanInv
  <2>2. /\ b[t] \in ToSet(ban_head) /\ b0[t] \in ToSet(ban_head)
        /\ ocban[oc[t]] \in ToSet(ban_head) \ {z}
        /\ Pos(b0[t]) <= Pos(b[t]) /\ Pos(b[t]) <= Pos(ocban[oc[t]])
      BY <1>6, <2>1 DEF ScanOk
  <2>3. Pos(b0[t]) <= Pos(ocban[oc[t]]) /\ Pos(ocban[oc[t]]) <= Pos(ocban[oc[t]])
    <3>1. Pos(b0[t]) \in Int /\ Pos(b[t]) \in Int /\ Pos(ocban[oc[t]]) \in Int
        BY <1>4, <2>2
    <3> QED BY <2>2, <3>1
  <2>4. /\ {b[t], b0[t], ocban[oc[t]]} \subseteq ToSet(ban_head')
        /\ Index(ban_head', b[t]) = Pos(b[t]) /\ Index(ban_head', b0[t]) = Pos(b0[t])
        /\ Index(ban_head', ocban[oc[t]]) = Pos(ocban[oc[t]])
      BY <1>5, <2>2, <2>3
  <2> QED BY <1>1, <2>1, <2>2, <2>4 DEF ScanOk, Pos
<1>11. LurkInv'
    BY <1>1 DEF IInv, LurkInv, Scanning
<1>12. TailInv'
  <2> SUFFICES ASSUME NEW i \in CLIs
               PROVE  /\ tail[i] # None => tail[i] \in ToSet(ban_head')
                      /\ new[i] # None =>
                            /\ tail[i] # None /\ new[i] \in ToSet(ban_head')
                            /\ Index(ban_head', new[i]) <= Index(ban_head', tail[i])
      BY <1>1 DEF TailInv, Pos
  <2>1. /\ tail[i] # None => tail[i] \in ToSet(ban_head) \ {z}
        /\ new[i] # None => /\ tail[i] # None /\ new[i] \in ToSet(ban_head)
                            /\ Pos(new[i]) <= Pos(tail[i])
      BY <1>6 DEF IInv, TailInv
  <2>2. tail[i] # None => Pos(tail[i]) \in Int
      BY <1>4, <2>1
  <2>3. tail[i] # None => tail[i] \in ToSet(ban_head') /\ Index(ban_head', tail[i]) = Pos(tail[i])
      BY <1>5, <2>1, <2>2
  <2>4. new[i] # None => new[i] \in ToSet(ban_head') /\ Index(ban_head', new[i]) = Pos(new[i])
      BY <1>5, <2>1
  <2> QED BY <2>1, <2>3, <2>4
<1> QED BY <1>7, <1>8, <1>9, <1>10, <1>11, <1>12 DEF IInv

-----------------------------------------------------------------------------
(***************************************************************************)
(* The invariant holds.                                                    *)
(***************************************************************************)
LEMMA InitIInv == Init => IInv
<1> SUFFICES ASSUME Init
             PROVE  IInv
    OBVIOUS
<1>1. PICK magic \in Bans : ban_head = <<magic>> /\ gone = {magic}
    BY DEF Init
<1>2. ban_head \in Seq(Bans) /\ Len(ban_head) = 1 /\ ban_head # <<>> /\ Distinct(ban_head)
    BY <1>1 DEF Distinct
<1>3. Lurker \in Checkers /\ Lurker \notin Clients
    BY BanConstants DEF Checkers
<1>4. TypeInv
  <2>1. objcore \in [Bans -> Seq(OCs)] /\ spec \in [Bans -> Specs \cup {NoSpec}]
      BY DEF Init
  <2>2. colour \in [Bans -> Colours] /\ occolour \in [OCs -> Colours] /\ pass \in Colours \ {{}}
      BY DEF Init, Colours
  <2>3. pc \in [Checkers -> {"idle", "scan", "matched", "served", "last", "tag",
                             "tagging", "walk"}]
      BY DEF Init
  <2>4. /\ \A c \in Clients : pc[c] \in {"idle", "scan", "matched", "served"}
        /\ pc[Lurker] \in {"last", "tag", "tagging", "walk", "scan", "matched"}
      BY <1>3 DEF Init, Checkers
  <2> QED BY <1>1, <1>2, <2>1, <2>2, <2>3, <2>4 DEF Init, TypeInv, TypeOK
<1>5. ListInv
    BY <1>2 DEF Init, ListInv, Distinct
<1>6. RefInv
  <2> SUFFICES ASSUME NEW x \in Bans
               PROVE  /\ refcount[x] = Cardinality(OnBan(x)) + Cardinality(Tailing(x))
                      /\ ToSet(objcore[x]) = OnBan(x)
                      /\ refcount[x] > 0 => x \in ToSet(ban_head)
      BY DEF RefInv
  <2>1. OnBan(x) = {} /\ Tailing(x) = {}
      BY BanConstants DEF Init, OnBan, Tailing, Entries
  <2>2. Cardinality({}) = 0
      BY FS_EmptySet
  <2>3. objcore[x] = <<>> /\ refcount[x] = 0
      BY DEF Init
  <2>4. ToSet(objcore[x]) = {}
      BY <2>3 DEF ToSet
  <2> QED BY <2>1, <2>2, <2>3, <2>4
<1>7. OcInv
    BY DEF Init, OcInv
<1>8. \A t \in Checkers : ~Scanning(t)
    BY DEF Init, Scanning
<1>9. ScanInv /\ LurkInv
    BY <1>3, <1>8 DEF Init, ScanInv, LurkInv, Scanning
<1>10. TailInv
    BY DEF Init, TailInv
<1> QED BY <1>4, <1>5, <1>6, <1>7, <1>9, <1>10 DEF IInv

LEMMA NextIInv == IInv /\ [Next]_vars => IInv'
<1> SUFFICES ASSUME IInv, [Next]_vars
             PROVE  IInv'
    OBVIOUS
<1>0. Lurker \in Checkers /\ \A c \in Clients : c \in Checkers
    BY DEF Checkers
<1>1. CASE \E i \in CLIs : BAN_Insert(i) \/ BAN_Insert_dups(i) \/ BAN_TailRef(i) \/ BAN_TailDeref(i)
    BY <1>1, InsertStep, TailRefStep
<1>2. CASE \E o \in OCs : \/ BAN_NewObjCore(o) \/ HSH_Unbusy(o) \/ EXP_Clr(o)
                          \/ HSH_Deref(o) \/ BAN_DestroyObj(o)
    BY <1>2, NewObjCoreStep, StateStep, DestroyObjStep
<1>3. CASE \E c \in Clients : \/ \E o \in OCs : BAN_CheckObject(c, o)
                              \/ Check(c) \/ Delivered(c)
    BY <1>0, <1>3, CheckObjectStep, EvaluateStep, PassStep, BannedStep, DeliveredStep DEF Check
<1>4. CASE LurkerStep
    BY <1>0, <1>4, CheckLastStep, WorkStep, SkipStep, TagStep, TaggedStep, BanDoneStep,
       DeferStep, LurkerTestStep, EvaluateStep, PassStep, BannedStep, SkippedStep
       DEF LurkerStep, Check
<1>5. CASE UNCHANGED vars
  <2>1. /\ UNCHANGED <<ban_head, spec, gone, colour, refcount, objcore>>
        /\ UNCHANGED <<state, kind, ocban, occolour, mtx, pc, oc, b0, b, skipped>>
        /\ UNCHANGED <<pass, bl, bl0, tail, new, owed, must, deferred>>
      BY <1>5 DEF vars, banVars, ocVars, chkVars, lurkVars, cliVars, history
  <2>2. TypeInv'
      BY <2>1 DEF IInv, TypeInv, TypeOK
  <2>3. OcInv'
      BY <2>1 DEF IInv, OcInv
  <2>4. ScanInv'
      BY <2>1 DEF IInv, ScanInv, Scanning, ScanOk, Pos
  <2>5. LurkInv'
      BY <2>1 DEF IInv, LurkInv, Scanning, Pos
  <2> QED BY <2>1, <2>2, <2>3, <2>4, <2>5, BansFrame DEF IInv
<1> QED BY <1>1, <1>2, <1>3, <1>4, <1>5 DEF Next

\* The inductive invariant, whatever is banned, tested and retired and however the walks of
\* cache_ban.c without ban_mtx interleave.
THEOREM BanIInv == Spec => []IInv
BY InitIInv, NextIInv, PTL DEF Spec

\* b->refcount counts the objcores on b->objcore and the tail references exactly: the
\* asserts of BAN_Free hold for a ban that ban_CheckLast retires.
THEOREM BanRefsAlwaysExact == Spec => []BanRefsExact
<1>1. ASSUME IInv
      PROVE  BanRefsExact
  <2> SUFFICES ASSUME NEW x \in Bans
               PROVE  /\ refcount[x] = Len(objcore[x])
                                         + Cardinality({i \in CLIs : tail[i] = x})
                      /\ ToSet(objcore[x]) = {o \in OCs : ocban[o] = x}
                      /\ Cardinality(ToSet(objcore[x])) = Len(objcore[x])
                      /\ refcount[x] > 0 => x \in ToSet(ban_head)
      BY DEF BanRefsExact
  <2>1. objcore[x] \in Seq(OCs) /\ Distinct(objcore[x])
      BY <1>1 DEF IInv, TypeInv, TypeOK, ListInv
  <2>2. Cardinality(ToSet(objcore[x])) = Len(objcore[x])
      BY <2>1, ListSize
  <2> QED BY <1>1, <2>2 DEF IInv, RefInv, OnBan, Tailing, Entries
<1> QED BY <1>1, BanIInv, PTL

\* "This loop is safe without locks" (ban_check_object): every ban a walk looks at is on the
\* list, and no walk goes past the objcore's own ban.
THEOREM WalksAlwaysSafe == Spec => []ScanSafe
<1>1. IInv => ScanSafe
  <2> SUFFICES ASSUME IInv
               PROVE  ScanSafe
      OBVIOUS
  <2>1. ASSUME NEW t \in Checkers, pc[t] \in {"scan", "matched"}
        PROVE  /\ {b[t], b0[t], ocban[oc[t]]} \subseteq ToSet(ban_head)
               /\ Pos(b0[t]) <= Pos(b[t]) /\ Pos(b[t]) <= Pos(ocban[oc[t]])
               /\ mtx[oc[t]] = t
      BY <2>1 DEF IInv, ScanInv, Scanning, ScanOk
  <2>2. {bl, bl0} \subseteq ToSet(ban_head) \cup {None}
      BY DEF IInv, LurkInv
  <2>3. \A i \in CLIs : {tail[i], new[i]} \subseteq ToSet(ban_head) \cup {None}
      BY DEF IInv, TailInv
  <2> QED BY <2>1, <2>2, <2>3 DEF ScanSafe
<1> QED BY <1>1, BanIInv, PTL

-----------------------------------------------------------------------------
(***************************************************************************)
(* Lookups honour bans while neither the lurker nor the duplicate hunt is  *)
(* on: HonourInv is inductive together with IInv.                          *)
(***************************************************************************)
Honoured == QuietInv /\ OwedInv /\ WalkInv /\ MustInv

\* Steps that change nothing that a walk reads.
LEMMA HonourFrame ==
    ASSUME Honoured, UNCHANGED <<ban_head, spec, gone, colour, kind, ocban, pc, oc, b0, b>>,
           UNCHANGED <<new, owed, must>>
    PROVE  Honoured'
<1>1. QuietInv'
    BY DEF Honoured, QuietInv
<1>2. OwedInv'
    BY DEF Honoured, OwedInv, OwedOk, Matches, Pos
<1>3. WalkInv'
    BY DEF Honoured, WalkInv, WalkOk, Scanning, Matches, Pos
<1>4. MustInv'
    BY DEF Honoured, MustInv, MustOk, Scanning, Matches, Pos
<1> QED BY <1>1, <1>2, <1>3, <1>4 DEF Honoured

\* Steps that leave the list alone and change at most one objcore, which nobody else tests,
\* and one client.
LEMMA HonourOne ==
    ASSUME IInv, Honoured, NEW o, NEW D, D \subseteq Clients,
           UNCHANGED <<ban_head, spec, gone, new>>,
           pc'[Lurker] = pc[Lurker], \A x \in Bans : colour'[x] \in {colour[x], {}},
           \A u \in OCs \ {o} : kind'[u] = kind[u] /\ ocban'[u] = ocban[u],
           owed' \subseteq owed, o \in owed' => OwedOk(o)',
           \A c \in Clients \ D : /\ pc'[c] = pc[c] /\ oc'[c] = oc[c]
                                  /\ b'[c] = b[c] /\ b0'[c] = b0[c],
           \A c \in Clients \ D : Scanning(c) => oc[c] # o \/ UNCHANGED <<kind[o], ocban[o]>>,
           must' \subseteq must \cup D,
           \A c \in D : Scanning(c)' => WalkOk(c)',
           \A c \in D : c \in must' => Scanning(c)' /\ MustOk(c)'
    PROVE  Honoured'
<1>1. QuietInv'
    BY DEF Honoured, QuietInv
<1>2. OwedInv'
  <2> SUFFICES ASSUME NEW u \in owed'
               PROVE  OwedOk(u)'
      BY DEF OwedInv
  <2>1. CASE u = o
      BY <2>1
  <2>2. CASE u # o
    <3>1. u \in OCs /\ OwedOk(u)
        BY DEF Honoured, OwedInv, IInv, TypeInv, TypeOK
    <3>2. kind'[u] = kind[u] /\ ocban'[u] = ocban[u]
        BY <2>2, <3>1
    <3> QED BY <3>1, <3>2 DEF OwedOk, Matches, Pos
  <2> QED BY <2>1, <2>2
<1>3. ASSUME NEW c \in Clients \ D, Scanning(c)
      PROVE  /\ pc'[c] = pc[c] /\ oc'[c] = oc[c] /\ b'[c] = b[c] /\ b0'[c] = b0[c]
             /\ kind'[oc[c]] = kind[oc[c]] /\ ocban'[oc[c]] = ocban[oc[c]]
  <2>1. oc[c] \in OCs
      BY <1>3 DEF IInv, ScanInv, ScanOk, Checkers
  <2> QED BY <1>3, <2>1
<1>4. WalkInv'
  <2> SUFFICES ASSUME NEW c \in Clients, Scanning(c)'
               PROVE  WalkOk(c)'
      BY DEF WalkInv
  <2>1. CASE c \in D
      BY <2>1
  <2>2. CASE c \notin D
    <3>1. Scanning(c)
        BY <2>2 DEF Scanning
    <3>2. WalkOk(c)
        BY <3>1 DEF Honoured, WalkInv
    <3> QED BY <1>3, <2>2, <3>1, <3>2 DEF WalkOk, Matches, Pos
  <2> QED BY <2>1, <2>2
<1>5. MustInv'
  <2> SUFFICES ASSUME NEW c \in must'
               PROVE  Scanning(c)' /\ MustOk(c)'
      BY DEF MustInv
  <2>1. CASE c \in D
      BY <2>1
  <2>2. CASE c \notin D
    <3>1. c \in must /\ c \in Clients
        BY <2>2 DEF IInv, TypeInv, TypeOK
    <3>2. Scanning(c) /\ MustOk(c)
        BY <3>1 DEF Honoured, MustInv
    <3>3. Scanning(c)'
        BY <1>3, <2>2, <3>1, <3>2 DEF Scanning
    <3> QED BY <1>3, <2>2, <3>1, <3>2, <3>3 DEF MustOk, Matches, Pos
  <2> QED BY <2>1, <2>2
<1> QED BY <1>1, <1>2, <1>4, <1>5 DEF Honoured

\* The same for a step of the client c.
LEMMA HonourClient ==
    ASSUME IInv, Honoured, NEW o, NEW c \in Clients,
           UNCHANGED <<ban_head, spec, gone, new>>,
           pc'[Lurker] = pc[Lurker], \A x \in Bans : colour'[x] \in {colour[x], {}},
           \A u \in OCs \ {o} : kind'[u] = kind[u] /\ ocban'[u] = ocban[u],
           owed' \subseteq owed, o \in owed' => OwedOk(o)',
           \A u \in Clients \ {c} : /\ pc'[u] = pc[u] /\ oc'[u] = oc[u]
                                    /\ b'[u] = b[u] /\ b0'[u] = b0[u],
           \A u \in Clients \ {c} : Scanning(u) => oc[u] # o \/ UNCHANGED <<kind[o], ocban[o]>>,
           must' \subseteq must \cup {c},
           Scanning(c)' => WalkOk(c)',
           c \in must' => Scanning(c)' /\ MustOk(c)'
    PROVE  Honoured'
<1> DEFINE D == {c}
<1>1. /\ D \subseteq Clients /\ must' \subseteq must \cup D
      /\ \A u \in D : Scanning(u)' => WalkOk(u)'
      /\ \A u \in D : u \in must' => Scanning(u)' /\ MustOk(u)'
    OBVIOUS
<1>2. /\ \A u \in Clients \ D : /\ pc'[u] = pc[u] /\ oc'[u] = oc[u]
                                /\ b'[u] = b[u] /\ b0'[u] = b0[u]
      /\ \A u \in Clients \ D : Scanning(u) => oc[u] # o \/ UNCHANGED <<kind[o], ocban[o]>>
    OBVIOUS
<1> HIDE DEF D
<1> QED BY <1>1, <1>2, HonourOne

Owes(o) == \E x \in ToSet(ban_head) : Pos(x) < Pos(ocban[o]) /\ Matches(x, o)

LEMMA HonourDelivered ==
    ASSUME IInv, Honoured, NEW c \in Clients, Delivered(c)
    PROVE  Honoured'
<1>1. /\ UNCHANGED <<ban_head, spec, gone, colour, kind, ocban, b0, b, new, owed>>
      /\ must' = must \ {c}
      /\ pc[c] = "served" /\ pc' = [pc EXCEPT ![c] = "idle"] /\ oc' = [oc EXCEPT ![c] = None]
    BY DEF Delivered, banVars, ocVars, cliVars
<1>2. c # Lurker /\ c \in Checkers /\ Lurker \in Checkers /\ None \notin OCs
      /\ owed \subseteq OCs /\ \A u \in Clients : u \in Checkers
    BY BanConstants DEF Checkers, IInv, TypeInv, TypeOK
<1>3. /\ pc'[c] = "idle" /\ pc'[Lurker] = pc[Lurker]
      /\ \A u \in Clients \ {c} : pc'[u] = pc[u] /\ oc'[u] = oc[u]
    BY <1>1, <1>2 DEF IInv, TypeInv, TypeOK
<1>4. /\ {c} \subseteq Clients /\ None \notin owed'
      /\ \A u \in {c} : ~Scanning(u)' /\ u \notin must'
    BY <1>1, <1>2, <1>3 DEF Scanning
<1> QED BY <1>1, <1>3, <1>4, HonourOne

LEMMA HonourObjcore ==
    ASSUME IInv, Honoured, NEW o \in OCs, BAN_NewObjCore(o) \/ BAN_DestroyObj(o)
    PROVE  Honoured'
<1>1. /\ UNCHANGED <<ban_head, spec, gone, colour, pc, oc, b0, b, new, must>>
      /\ state[o] \in {"none", "dying"} /\ owed' \subseteq owed
    BY DEF BAN_NewObjCore, BAN_DestroyObj, chkVars, cliVars, history
<1>2. /\ \A u \in OCs \ {o} : kind'[u] = kind[u] /\ ocban'[u] = ocban[u]
  <2>1. kind \in [OCs -> Kinds \cup {None}] /\ ocban \in [OCs -> Bans \cup {None}]
      BY DEF IInv, TypeInv, TypeOK
  <2> QED BY <2>1 DEF BAN_NewObjCore, BAN_DestroyObj
<1>3. o \notin owed'
  <2>1. CASE BAN_NewObjCore(o)
    <3>1. state[o] = "none" /\ owed' = owed
        BY <2>1 DEF BAN_NewObjCore, history
    <3>2. ocban[o] = None
        BY <3>1 DEF IInv, OcInv
    <3> QED BY <3>1, <3>2 DEF Honoured, OwedInv, OwedOk
  <2>2. CASE BAN_DestroyObj(o)
      BY <2>2 DEF BAN_DestroyObj
  <2> QED BY <2>1, <2>2
<1>4. \A c \in Clients : Scanning(c) => oc[c] # o
    BY <1>1 DEF IInv, ScanInv, ScanOk, Checkers
<1> DEFINE D == {}
<1>5. /\ D \subseteq Clients /\ must' \subseteq must \cup D /\ Clients \ D = Clients
      /\ \A c : c \notin D
    BY <1>1
<1>6. /\ \A c \in Clients \ D : /\ pc'[c] = pc[c] /\ oc'[c] = oc[c]
                                /\ b'[c] = b[c] /\ b0'[c] = b0[c]
      /\ \A c \in Clients \ D : Scanning(c) => oc[c] # o \/ UNCHANGED <<kind[o], ocban[o]>>
      /\ \A c \in D : Scanning(c)' => WalkOk(c)'
      /\ \A c \in D : c \in must' => Scanning(c)' /\ MustOk(c)'
      /\ pc'[Lurker] = pc[Lurker] /\ \A x \in Bans : colour'[x] \in {colour[x], {}}
    BY <1>1, <1>4
<1> HIDE DEF D
<1> QED BY <1>1, <1>2, <1>3, <1>5, <1>6, HonourOne

\* A lookup of an objcore that is owed a ban finds that ban before the objcore's own.
LEMMA HonourCheckObject ==
    ASSUME IInv, Honoured, NEW c \in Clients, NEW o \in OCs, BAN_CheckObject(c, o)
    PROVE  Honoured'
<1>1. /\ UNCHANGED <<ban_head, spec, gone, colour, kind, ocban, new, owed>>
      /\ must' = IF o \in owed THEN must \cup {c} ELSE must
      /\ pc[c] = "idle" /\ state[o] = "live" /\ oc' = [oc EXCEPT ![c] = o]
    BY DEF BAN_CheckObject, banVars, cliVars
<1>2. /\ c # Lurker /\ c \in Checkers /\ Lurker \in Checkers /\ c \notin must
      /\ \A u \in Clients : u \in Checkers
    BY <1>1, BanConstants DEF Checkers, Honoured, MustInv, Scanning
<1>3. o \in owed => Owes(o)
    BY DEF Honoured, OwedInv, OwedOk, Owes
<1>4. Pos(ban_start) = 1 /\ \A x \in ToSet(ban_head) : Pos(x) \in Int /\ 1 <= Pos(x)
    BY PosFacts
<1>5. CASE ban_start = ocban[o]
  <2>1. pc' = [pc EXCEPT ![c] = "served"] /\ UNCHANGED <<b0, b>>
      BY <1>5 DEF BAN_CheckObject
  <2>2. o \notin owed
      BY <1>3, <1>4, <1>5 DEF Owes
  <2>3. /\ pc'[c] = "served" /\ pc'[Lurker] = pc[Lurker]
        /\ \A u \in Clients \ {c} : pc'[u] = pc[u] /\ oc'[u] = oc[u]
      BY <1>1, <1>2, <2>1 DEF IInv, TypeInv, TypeOK
  <2>4. /\ {c} \subseteq Clients /\ must' = must /\ o \notin owed'
        /\ \A u \in {c} : ~Scanning(u)' /\ u \notin must'
      BY <1>1, <1>2, <2>2, <2>3 DEF Scanning
  <2> QED BY <1>1, <2>1, <2>3, <2>4, HonourOne
<1>6. CASE ban_start # ocban[o]
  <2>1. /\ pc' = [pc EXCEPT ![c] = "scan"]
        /\ b0' = [b0 EXCEPT ![c] = ban_start] /\ b' = [b EXCEPT ![c] = ban_start]
      BY <1>6 DEF BAN_CheckObject
  <2>2. /\ pc'[c] = "scan" /\ pc'[Lurker] = pc[Lurker] /\ oc'[c] = o
        /\ b'[c] = ban_start /\ b0'[c] = ban_start
        /\ \A u \in Clients \ {c} :
              pc'[u] = pc[u] /\ oc'[u] = oc[u] /\ b'[u] = b[u] /\ b0'[u] = b0[u]
      BY <1>1, <1>2, <2>1 DEF IInv, TypeInv, TypeOK
  <2>3. Scanning(c)' /\ WalkOk(c)'
    <3>1. \A y \in ToSet(ban_head) : ~(Pos(ban_start) <= Pos(y) /\ Pos(y) < Pos(ban_start))
        BY <1>4
    <3>2. \A y \in ToSet(ban_head') : ~(Index(ban_head', b0'[c]) <= Index(ban_head', y)
                                         /\ Index(ban_head', y) < Index(ban_head', b'[c]))
        BY <1>1, <2>2, <3>1 DEF Pos
    <3> QED BY <2>2, <3>2 DEF WalkOk, Scanning, Pos
  <2>4. o \in owed => OwedOk(o)'
      BY <1>1 DEF Honoured, OwedInv, OwedOk, Matches, Pos
  <2>5. c \in must' => MustOk(c)'
    <3> SUFFICES ASSUME c \in must'
                 PROVE  MustOk(c)'
        OBVIOUS
    <3>1. Owes(o)
        BY <1>1, <1>2, <1>3
    <3>2. PICK x \in ToSet(ban_head) : Pos(x) < Pos(ocban[o]) /\ Matches(x, o)
        BY <3>1 DEF Owes
    <3>3. Pos(ban_start) <= Pos(x)
        BY <1>4
    <3> QED BY <1>1, <2>2, <3>2, <3>3 DEF MustOk, Matches, Pos
  <2>6. /\ must' \subseteq must \cup {c} /\ owed' \subseteq owed
        /\ \A x \in Bans : colour'[x] \in {colour[x], {}}
        /\ \A u \in OCs \ {o} : kind'[u] = kind[u] /\ ocban'[u] = ocban[u]
        /\ \A u \in Clients \ {c} : Scanning(u) => oc[u] # o \/ UNCHANGED <<kind[o], ocban[o]>>
        /\ o \in owed' => OwedOk(o)'
      BY <1>1, <2>4
  <2> QED BY <1>1, <2>2, <2>3, <2>5, <2>6, HonourClient
<1> QED BY <1>5, <1>6

\* Only ban_magic, which matches nothing, is passed over untested.
LEMMA HonourEvaluate ==
    ASSUME IInv, Honoured, NEW c \in Clients, ban_evaluate(c)
    PROVE  Honoured'
<1>1. /\ UNCHANGED <<ban_head, spec, gone, colour, kind, ocban, oc, b0, new, owed, must>>
      /\ pc[c] = "scan" /\ b[c] # ocban[oc[c]]
    BY DEF ban_evaluate, banVars, ocVars, cliVars, history
<1>2. c # Lurker /\ c \in Checkers /\ Lurker \in Checkers /\ \A u \in Clients : u \in Checkers
    BY BanConstants DEF Checkers
<1>3. ScanOk(c) /\ WalkOk(c) /\ Scanning(c)
    BY <1>1, <1>2 DEF IInv, ScanInv, Scanning, Honoured, WalkInv
<1>4. b[c] \in gone => ~Matches(b[c], oc[c])
  <2>1. b[c] \in gone => spec[b[c]].kind = None
      BY DEF Honoured, QuietInv, NoSpec
  <2>2. kind[oc[c]] # None
      BY <1>3 DEF ScanOk, IInv, OcInv
  <2> QED BY <2>1, <2>2 DEF Matches
<1>5. Tested(b[c], oc[c]) => b[c] \in gone
  <2>1. b[c] \in Bans
      BY <1>3, PosFacts DEF ScanOk
  <2> QED BY <2>1 DEF Tested, Honoured, QuietInv
<1>6. \/ b' = b /\ pc' = [pc EXCEPT ![c] = "matched"]
      \/ b' = [b EXCEPT ![c] = Older(b[c])] /\ pc' = pc /\ ~Matches(b[c], oc[c])
    BY <1>2, <1>4, <1>5 DEF ban_evaluate, Matches
<1>7. /\ pc'[Lurker] = pc[Lurker] /\ Scanning(c)'
      /\ \A u \in Clients \ {c} : pc'[u] = pc[u] /\ oc'[u] = oc[u]
                                  /\ b'[u] = b[u] /\ b0'[u] = b0[u]
  <2>1. /\ pc \in [Checkers -> {"idle", "scan", "matched", "served", "last", "tag",
                                "tagging", "walk"}]
        /\ b \in [Checkers -> Bans \cup {None}]
      BY DEF IInv, TypeInv, TypeOK
  <2>2. \A u \in Checkers \ {c} : pc'[u] = pc[u] /\ b'[u] = b[u]
      BY <1>6, <2>1
  <2>3. pc'[c] \in {"scan", "matched"}
      BY <1>1, <1>2, <1>6, <2>1
  <2> QED BY <1>1, <1>2, <2>2, <2>3 DEF Scanning
<1>8. WalkOk(c)'
  <2>1. CASE b' = b
      BY <1>1, <1>3, <2>1 DEF WalkOk, Matches, Pos
  <2>2. CASE b' = [b EXCEPT ![c] = Older(b[c])] /\ ~Matches(b[c], oc[c])
    <3>1. b'[c] = Older(b[c])
        BY <1>2, <2>2 DEF IInv, TypeInv, TypeOK
    <3>2. /\ b[c] \in ToSet(ban_head) /\ Pos(b[c]) \in 1..Len(ban_head)
          /\ Pos(ocban[oc[c]]) \in 1..Len(ban_head) /\ Len(ban_head) \in Nat
          /\ Pos(b[c]) <= Pos(ocban[oc[c]]) /\ Pos(b[c]) # Pos(ocban[oc[c]])
        BY <1>1, <1>3, PosFacts DEF ScanOk
    <3>3. Pos(b[c]) + 1 \in 1..Len(ban_head)
        BY <3>2
    <3>4. Pos(Older(b[c])) = Pos(b[c]) + 1
        BY <3>3, PosFacts DEF Older
    <3>5. ASSUME NEW y \in ToSet(ban_head), Pos(b0[c]) <= Pos(y), Pos(y) < Pos(Older(b[c]))
          PROVE  ~Matches(y, oc[c])
      <4>1. Pos(y) \in Int /\ (Pos(y) = Pos(b[c]) => y = b[c])
          BY <3>2, PosFacts
      <4>2. CASE Pos(y) < Pos(b[c])
          BY <1>3, <3>5, <4>2 DEF WalkOk
      <4>3. CASE Pos(y) = Pos(b[c])
          BY <2>2, <4>1, <4>3
      <4> QED BY <3>2, <3>4, <3>5, <4>1, <4>2, <4>3
    <3> QED BY <1>1, <3>1, <3>5 DEF WalkOk, Matches, Pos
  <2> QED BY <1>6, <2>1, <2>2
<1>9. c \in must' => MustOk(c)'
    BY <1>1 DEF Honoured, MustInv, MustOk, Matches, Pos
<1>10. /\ must' \subseteq must \cup {c} /\ owed' \subseteq owed
       /\ \A x \in Bans : colour'[x] \in {colour[x], {}}
       /\ \A u \in OCs : kind'[u] = kind[u] /\ ocban'[u] = ocban[u]
    BY <1>1
<1> QED
  <2>1. None \notin owed'
      BY <1>1, BanConstants DEF IInv, TypeInv, TypeOK
  <2>2. /\ \A u \in OCs \ {None} : kind'[u] = kind[u] /\ ocban'[u] = ocban[u]
        /\ \A u \in Clients \ {c} : Scanning(u) => oc[u] # None \/ UNCHANGED <<kind[None], ocban[None]>>
        /\ None \in owed' => OwedOk(None)'
      BY <1>1, <2>1
  <2> QED BY <1>1, <1>7, <1>8, <1>9, <1>10, <2>2, HonourClient

\* An object that is owed a ban does not pass its test.
LEMMA HonourPass ==
    ASSUME IInv, Honoured, NEW c \in Clients, ban_check_object_pass(c)
    PROVE  Honoured'
<1> DEFINE o == oc[c]
<1>1. /\ UNCHANGED <<ban_head, spec, gone, kind, new, owed, must>>
      /\ pc[c] = "scan" /\ b[c] = ocban[o] /\ Finish(c, "served")
      /\ colour' = [colour EXCEPT ![ocban[o]] = {}] /\ ocban' = [ocban EXCEPT ![o] = b0[c]]
    BY DEF ban_check_object_pass, cliVars, history
<1>2. c # Lurker /\ c \in Checkers /\ Lurker \in Checkers /\ \A u \in Clients : u \in Checkers
    BY BanConstants DEF Checkers
<1>3. ScanOk(c) /\ WalkOk(c) /\ Scanning(c)
    BY <1>1, <1>2 DEF IInv, ScanInv, Scanning, Honoured, WalkInv
<1>4. /\ pc' = [pc EXCEPT ![c] = "served"] /\ oc' = oc
      /\ b0' = [b0 EXCEPT ![c] = None] /\ b' = [b EXCEPT ![c] = None]
    BY <1>1, <1>2 DEF Finish
<1>5. /\ pc'[Lurker] = pc[Lurker] /\ pc'[c] = "served"
      /\ \A u \in Clients \ {c} : /\ pc'[u] = pc[u] /\ oc'[u] = oc[u]
                                  /\ b'[u] = b[u] /\ b0'[u] = b0[u]
    BY <1>2, <1>4 DEF IInv, TypeInv, TypeOK
<1>6. c \notin must
    BY <1>1, <1>3 DEF Honoured, MustInv, MustOk, WalkOk
<1>7. o \in OCs /\ b0[c] \in Bans /\ ocban'[o] = b0[c]
      /\ b0[c] \in ToSet(ban_head) /\ b[c] \in ToSet(ban_head)
  <2>1. o \in OCs /\ b0[c] \in ToSet(ban_head) /\ b[c] \in ToSet(ban_head)
      BY <1>3 DEF ScanOk
  <2>2. ocban \in [OCs -> Bans \cup {None}]
      BY DEF IInv, TypeInv, TypeOK
  <2> QED BY <1>1, <2>1, <2>2, PosFacts
<1>8. \A u \in Clients \ {c} : Scanning(u) => oc[u] # o
  <2> SUFFICES ASSUME NEW u \in Clients \ {c}, Scanning(u)
               PROVE  oc[u] # o
      OBVIOUS
  <2>1. ScanOk(u)
      BY <1>2 DEF IInv, ScanInv
  <2> QED BY <1>3, <2>1 DEF ScanOk
<1>9. o \in owed => \E x \in ToSet(ban_head) : Pos(x) < Pos(b0[c]) /\ Matches(x, o)
  <2> SUFFICES ASSUME o \in owed
               PROVE  \E x \in ToSet(ban_head) : Pos(x) < Pos(b0[c]) /\ Matches(x, o)
      OBVIOUS
  <2>1. PICK x \in ToSet(ban_head) : Pos(x) < Pos(ocban[o]) /\ Matches(x, o)
      BY DEF Honoured, OwedInv, OwedOk
  <2>2. ~(Pos(b0[c]) <= Pos(x))
      BY <1>1, <1>3, <2>1 DEF WalkOk
  <2>3. Pos(x) \in Int /\ Pos(b0[c]) \in Int
      BY <1>7, PosFacts
  <2> QED BY <2>1, <2>2, <2>3
<1>10. \A u \in OCs \ {o} : kind'[u] = kind[u] /\ ocban'[u] = ocban[u]
  <2>1. ocban \in [OCs -> Bans \cup {None}]
      BY DEF IInv, TypeInv, TypeOK
  <2> QED BY <1>1, <2>1
<1>11. \A x \in Bans : colour'[x] \in {colour[x], {}}
  <2>1. colour \in [Bans -> Colours]
      BY DEF IInv, TypeInv, TypeOK
  <2> QED BY <1>1, <2>1
<1>12. /\ must' \subseteq must \cup {c} /\ owed' \subseteq owed
       /\ ~Scanning(c)' /\ c \notin must'
    BY <1>1, <1>5, <1>6 DEF Scanning
<1>13. ASSUME NEW v, v = o
       PROVE  Honoured'
  <2>1. v \in owed' => OwedOk(v)'
    <3>1. ocban'[v] = b0[c] /\ b0[c] # None
        BY <1>7, <1>13, BanConstants
    <3> QED BY <1>1, <1>9, <1>13, <3>1 DEF OwedOk, Matches, Pos
  <2>2. /\ \A u \in OCs \ {v} : kind'[u] = kind[u] /\ ocban'[u] = ocban[u]
        /\ \A u \in Clients \ {c} : Scanning(u) => oc[u] # v \/ UNCHANGED <<kind[v], ocban[v]>>
      BY <1>8, <1>10, <1>13
  <2> HIDE DEF o
  <2> QED BY <1>1, <1>5, <1>11, <1>12, <2>1, <2>2, HonourClient
<1> QED BY <1>13

\* A banned object is owed nothing any more.
LEMMA HonourBanned ==
    ASSUME IInv, Honoured, NEW c \in Clients, ban_check_object_banned(c)
    PROVE  Honoured'
<1> DEFINE o == oc[c]
<1>1. /\ UNCHANGED <<ban_head, spec, gone, colour, kind, new>>
      /\ pc[c] = "matched" /\ Finish(c, "idle")
      /\ owed' = owed \ {o} /\ must' = must \ {c} /\ ocban' = [ocban EXCEPT ![o] = None]
    BY DEF ban_check_object_banned, cliVars
<1>2. c # Lurker /\ c \in Checkers /\ Lurker \in Checkers /\ \A u \in Clients : u \in Checkers
    BY BanConstants DEF Checkers
<1>3. ScanOk(c) /\ Scanning(c)
    BY <1>1, <1>2 DEF IInv, ScanInv, Scanning
<1>4. /\ pc' = [pc EXCEPT ![c] = "idle"] /\ oc' = [oc EXCEPT ![c] = None]
      /\ b0' = [b0 EXCEPT ![c] = None] /\ b' = [b EXCEPT ![c] = None]
    BY <1>1, <1>2 DEF Finish
<1>5. /\ pc'[Lurker] = pc[Lurker] /\ pc'[c] = "idle"
      /\ \A u \in Clients \ {c} : /\ pc'[u] = pc[u] /\ oc'[u] = oc[u]
                                  /\ b'[u] = b[u] /\ b0'[u] = b0[u]
    BY <1>2, <1>4 DEF IInv, TypeInv, TypeOK
<1>6. \A u \in Clients \ {c} : Scanning(u) => oc[u] # o
  <2> SUFFICES ASSUME NEW u \in Clients \ {c}, Scanning(u)
               PROVE  oc[u] # o
      OBVIOUS
  <2>1. ScanOk(u)
      BY <1>2 DEF IInv, ScanInv
  <2> QED BY <1>3, <2>1 DEF ScanOk
<1>7. \A u \in OCs \ {o} : kind'[u] = kind[u] /\ ocban'[u] = ocban[u]
  <2>1. ocban \in [OCs -> Bans \cup {None}]
      BY DEF IInv, TypeInv, TypeOK
  <2> QED BY <1>1, <2>1
<1>8. /\ must' \subseteq must \cup {c} /\ owed' \subseteq owed
      /\ ~Scanning(c)' /\ c \notin must'
      /\ \A x \in Bans : colour'[x] \in {colour[x], {}}
    BY <1>1, <1>5 DEF Scanning
<1>9. ASSUME NEW v, v = o
      PROVE  Honoured'
  <2>1. v \notin owed'
      BY <1>1, <1>9
  <2>2. /\ \A u \in OCs \ {v} : kind'[u] = kind[u] /\ ocban'[u] = ocban[u]
        /\ \A u \in Clients \ {c} : Scanning(u) => oc[u] # v \/ UNCHANGED <<kind[v], ocban[v]>>
      BY <1>6, <1>7, <1>9
  <2> HIDE DEF o
  <2> QED BY <1>1, <1>5, <1>8, <2>1, <2>2, HonourClient
<1> QED BY <1>9

\* A new ban is newer than all walks; what it matches is owed from now on.
LEMMA HonourInsert ==
    ASSUME IInv, Honoured, ~params.ban_dups, NEW i \in CLIs, BAN_Insert(i)
    PROVE  Honoured'
<1>1. /\ UNCHANGED <<gone, colour, state, kind, ocban, mtx, pc, oc, b0, b, bl, bl0, must>>
    BY DEF BAN_Insert, ocVars, chkVars, lurkVars
<1>2. PICK x \in Bans \ ToSet(ban_head), sp \in Specs :
          /\ ban_head' = Cons(x, ban_head) /\ spec' = [spec EXCEPT ![x] = sp]
          /\ owed' = owed \cup {o \in OCs : /\ ocban[o] # None
                                            /\ state[o] # "dying"
                                            /\ kind[o] = sp.kind}
          /\ new' = new
    BY DEF BAN_Insert
<1>3. /\ ToSet(ban_head') = ToSet(ban_head) \cup {x} /\ Pos(x)' = 1
      /\ \A y \in ToSet(ban_head) : Pos(y)' = Pos(y) + 1 /\ Pos(y) \in Int /\ 1 <= Pos(y)
    BY <1>1, <1>2, ConsFrame
<1>4. /\ Index(ban_head', x) = 1
      /\ \A y \in ToSet(ban_head) : Index(ban_head', y) = Pos(y) + 1
    BY <1>3 DEF Pos
<1>5. spec'[x] = sp /\ \A y \in Bans \ {x} : spec'[y] = spec[y]
  <2>1. spec \in [Bans -> Specs \cup {NoSpec}]
      BY DEF IInv, TypeInv, TypeOK
  <2> QED BY <1>2, <2>1
<1>6. \A y \in ToSet(ban_head) : y \in Bans \ {x} /\ spec'[y] = spec[y]
    BY <1>2, <1>5, PosFacts
<1>7. \A o \in OCs : ocban[o] # None => ocban[o] \in ToSet(ban_head)
  <2> SUFFICES ASSUME NEW o \in OCs, ocban[o] # None
               PROVE  ocban[o] \in ToSet(ban_head)
      OBVIOUS
  <2>1. ocban[o] \in Bans
      BY DEF IInv, TypeInv, TypeOK
  <2>2. OnBan(ocban[o]) # {}
      BY DEF OnBan, Entries
  <2> QED BY <2>1, <2>2, OnListed
<1>8. QuietInv'
  <2>1. \A y \in gone' : y \in ToSet(ban_head') /\ spec'[y] = NoSpec
    <3>1. \A y \in gone : y \in ToSet(ban_head) /\ spec[y] = NoSpec
        BY DEF Honoured, QuietInv
    <3> QED BY <1>1, <1>3, <1>6, <3>1
  <2> QED BY <1>1, <1>2, <2>1 DEF Honoured, QuietInv
<1>9. OwedInv'
  <2> SUFFICES ASSUME NEW o \in owed'
               PROVE  OwedOk(o)'
      BY DEF OwedInv
  <2>1. CASE o \in owed
    <3>1. o \in OCs /\ ocban[o] # None /\ ocban[o] \in ToSet(ban_head)
        BY <1>7, <2>1 DEF IInv, TypeInv, TypeOK, Honoured, OwedInv, OwedOk
    <3>2. PICK y \in ToSet(ban_head) : Pos(y) < Pos(ocban[o]) /\ Matches(y, o)
        BY <2>1 DEF Honoured, OwedInv, OwedOk
    <3>3. y \in ToSet(ban_head') /\ Index(ban_head', y) < Index(ban_head', ocban[o])
          /\ spec'[y].kind = kind[o]
        BY <1>3, <1>4, <1>6, <3>1, <3>2 DEF Matches
    <3> QED BY <1>1, <3>1, <3>3 DEF OwedOk, Matches, Pos
  <2>2. CASE o \notin owed
    <3>1. o \in OCs /\ ocban[o] # None /\ kind[o] = sp.kind
        BY <1>2, <2>2
    <3>2. ocban[o] \in ToSet(ban_head)
        BY <1>7, <3>1
    <3>3. Index(ban_head', x) < Index(ban_head', ocban[o])
        BY <1>3, <1>4, <3>2
    <3>4. x \in ToSet(ban_head') /\ spec'[x].kind = kind[o]
        BY <1>3, <1>5, <3>1
    <3> QED BY <1>1, <3>1, <3>3, <3>4 DEF OwedOk, Matches, Pos
  <2> QED BY <2>1, <2>2
<1>10. ASSUME NEW c \in Clients, Scanning(c)
       PROVE  b[c] \in ToSet(ban_head) /\ b0[c] \in ToSet(ban_head)
              /\ ocban[oc[c]] \in ToSet(ban_head)
    BY <1>10 DEF IInv, ScanInv, ScanOk, Checkers
<1>11. WalkInv'
  <2> SUFFICES ASSUME NEW c \in Clients, Scanning(c)
               PROVE  WalkOk(c)'
      BY <1>1 DEF WalkInv, Scanning
  <2>1. b[c] \in ToSet(ban_head) /\ b0[c] \in ToSet(ban_head)
      BY <1>10
  <2>2. WalkOk(c)
      BY DEF Honoured, WalkInv
  <2>3. ASSUME NEW y \in ToSet(ban_head'),
               Index(ban_head', b0[c]) <= Index(ban_head', y),
               Index(ban_head', y) < Index(ban_head', b[c])
        PROVE  spec'[y].kind # kind[oc[c]]
    <3>1. y # x
        BY <1>3, <1>4, <2>1, <2>3
    <3>2. y \in ToSet(ban_head) /\ Pos(b0[c]) <= Pos(y) /\ Pos(y) < Pos(b[c])
        BY <1>3, <1>4, <2>1, <2>3, <3>1
    <3> QED BY <1>6, <2>2, <3>2 DEF WalkOk, Matches
  <2> QED BY <1>1, <2>3 DEF WalkOk, Matches, Pos
<1>12. MustInv'
  <2> SUFFICES ASSUME NEW c \in must
               PROVE  Scanning(c)' /\ MustOk(c)'
      BY <1>1 DEF MustInv
  <2>1. Scanning(c) /\ MustOk(c) /\ c \in Clients
      BY DEF Honoured, MustInv, IInv, TypeInv, TypeOK
  <2>2. b0[c] \in ToSet(ban_head) /\ ocban[oc[c]] \in ToSet(ban_head)
      BY <1>10, <2>1
  <2>3. PICK y \in ToSet(ban_head) : /\ Pos(b0[c]) <= Pos(y) /\ Pos(y) < Pos(ocban[oc[c]])
                                     /\ Matches(y, oc[c])
      BY <2>1 DEF MustOk
  <2>4. /\ y \in ToSet(ban_head') /\ spec'[y].kind = kind[oc[c]]
        /\ Index(ban_head', b0[c]) <= Index(ban_head', y)
        /\ Index(ban_head', y) < Index(ban_head', ocban[oc[c]])
      BY <1>3, <1>4, <1>6, <2>2, <2>3 DEF Matches
  <2>5. Scanning(c)'
      BY <1>1, <2>1 DEF Scanning
  <2> QED BY <1>1, <2>4, <2>5 DEF MustOk, Matches, Pos
<1> QED BY <1>8, <1>9, <1>11, <1>12 DEF Honoured

\* The ban that ban_CheckLast retires is older than all that is owed or walked over.
LEMMA HonourCheckLast ==
    ASSUME IInv, Honoured, ban_CheckLast
    PROVE  Honoured'
<1> DEFINE z == Last(ban_head)
<1>1. /\ UNCHANGED <<kind, ocban, pc, oc, b0, b, new, owed, must>>
      /\ Len(ban_head) > 1 /\ refcount[z] = 0
      /\ ban_head' = Front(ban_head) /\ gone' = gone \ {z}
      /\ spec' = [spec EXCEPT ![z] = NoSpec] /\ colour' = [colour EXCEPT ![z] = {}]
    BY DEF ban_CheckLast, Retirable, ocVars, chkVars, cliVars, history
<1>2. ban_head \in Seq(Bans) /\ Distinct(ban_head)
    BY DEF IInv, TypeInv, TypeOK, ListInv
<1>3. /\ ToSet(ban_head') = ToSet(ban_head) \ {z}
      /\ \A x \in ToSet(ban_head) \ {z} : Index(ban_head', x) = Index(ban_head, x)
    BY <1>1, <1>2, FrontFacts
<1>4. /\ z \in ToSet(ban_head) /\ z \in Bans /\ Pos(z) = Len(ban_head) /\ Len(ban_head) \in Nat
      /\ \A x \in ToSet(ban_head) : /\ Pos(x) \in 1..Len(ban_head) /\ x \in Bans
                                    /\ (Pos(x) = Pos(z) => x = z)
    BY PosFacts
<1> HIDE DEF z
<1>5. ASSUME NEW x \in ToSet(ban_head), NEW y \in ToSet(ban_head), Pos(x) < Pos(y)
      PROVE  x # z /\ x \in ToSet(ban_head')
    BY <1>3, <1>4, <1>5
<1>6. \A o \in OCs : ocban[o] # z
  <2>1. OnBan(z) = {}
      BY <1>1, <1>4, OnListed
  <2> QED BY <2>1 DEF OnBan, Entries
<1>7. spec \in [Bans -> Specs \cup {NoSpec}] /\ colour \in [Bans -> Colours]
    BY DEF IInv, TypeInv, TypeOK
<1>8. \A x \in ToSet(ban_head') : /\ x \in ToSet(ban_head) \ {z} /\ spec'[x] = spec[x]
                                  /\ Index(ban_head', x) = Pos(x)
    BY <1>1, <1>3, <1>4, <1>7 DEF Pos
<1>9. \A o \in OCs : ocban[o] # None => ocban[o] \in ToSet(ban_head')
  <2> SUFFICES ASSUME NEW o \in OCs, ocban[o] # None
               PROVE  ocban[o] \in ToSet(ban_head)
      BY <1>3, <1>6
  <2>1. ocban[o] \in Bans
      BY DEF IInv, TypeInv, TypeOK
  <2>2. OnBan(ocban[o]) # {}
      BY DEF OnBan, Entries
  <2> QED BY <2>1, <2>2, OnListed
<1>10. QuietInv'
  <2>1. \A y \in gone' : y \in ToSet(ban_head') /\ spec'[y] = NoSpec
    <3>1. \A y \in gone : y \in ToSet(ban_head) /\ spec[y] = NoSpec
        BY DEF Honoured, QuietInv
    <3> QED BY <1>1, <1>3, <1>8, <3>1
  <2>2. \A y \in Bans : colour'[y] = {}
    <3>1. \A y \in Bans : colour[y] = {}
        BY DEF Honoured, QuietInv
    <3> QED BY <1>1, <1>7, <3>1
  <2> QED BY <1>1, <2>1, <2>2 DEF Honoured, QuietInv
<1>11. OwedInv'
  <2> SUFFICES ASSUME NEW o \in owed
               PROVE  OwedOk(o)'
      BY <1>1 DEF OwedInv
  <2>1. o \in OCs /\ ocban[o] # None /\ ocban[o] \in ToSet(ban_head')
      BY <1>9 DEF IInv, TypeInv, TypeOK, Honoured, OwedInv, OwedOk
  <2>2. PICK y \in ToSet(ban_head) : Pos(y) < Pos(ocban[o]) /\ Matches(y, o)
      BY DEF Honoured, OwedInv, OwedOk
  <2>3. y \in ToSet(ban_head')
      BY <1>5, <1>8, <2>1, <2>2
  <2>4. Index(ban_head', y) < Index(ban_head', ocban[o]) /\ spec'[y].kind = kind[o]
      BY <1>8, <2>1, <2>2, <2>3 DEF Matches
  <2> QED BY <1>1, <2>1, <2>3, <2>4 DEF OwedOk, Matches, Pos
<1>12. ASSUME NEW c \in Clients, Scanning(c)
       PROVE  b[c] \in ToSet(ban_head') /\ b0[c] \in ToSet(ban_head')
              /\ ocban[oc[c]] \in ToSet(ban_head')
  <2>1. ScanOk(c)
      BY <1>12 DEF IInv, ScanInv, Checkers
  <2>2. /\ b[c] \in ToSet(ban_head) /\ b0[c] \in ToSet(ban_head)
        /\ ocban[oc[c]] \in ToSet(ban_head) \ {z}
        /\ Pos(b0[c]) <= Pos(b[c]) /\ Pos(b[c]) <= Pos(ocban[oc[c]])
      BY <1>6, <2>1 DEF ScanOk
  <2>3. b[c] # z /\ b0[c] # z
      BY <1>4, <2>2
  <2> QED BY <1>3, <2>2, <2>3
<1>13. WalkInv'
  <2> SUFFICES ASSUME NEW c \in Clients, Scanning(c)
               PROVE  WalkOk(c)'
      BY <1>1 DEF WalkInv, Scanning
  <2>1. b[c] \in ToSet(ban_head') /\ b0[c] \in ToSet(ban_head')
      BY <1>12
  <2>2. WalkOk(c)
      BY DEF Honoured, WalkInv
  <2>3. ASSUME NEW y \in ToSet(ban_head'),
               Index(ban_head', b0[c]) <= Index(ban_head', y),
               Index(ban_head', y) < Index(ban_head', b[c])
        PROVE  spec'[y].kind # kind[oc[c]]
      BY <1>8, <2>1, <2>2, <2>3 DEF WalkOk, Matches
  <2> QED BY <1>1, <2>3 DEF WalkOk, Matches, Pos
<1>14. MustInv'
  <2> SUFFICES ASSUME NEW c \in must
               PROVE  Scanning(c)' /\ MustOk(c)'
      BY <1>1 DEF MustInv
  <2>1. Scanning(c) /\ MustOk(c) /\ c \in Clients
      BY DEF Honoured, MustInv, IInv, TypeInv, TypeOK
  <2>2. b0[c] \in ToSet(ban_head') /\ ocban[oc[c]] \in ToSet(ban_head')
      BY <1>12, <2>1
  <2>3. PICK y \in ToSet(ban_head) : /\ Pos(b0[c]) <= Pos(y) /\ Pos(y) < Pos(ocban[oc[c]])
                                     /\ Matches(y, oc[c])
      BY <2>1 DEF MustOk
  <2>4. y \in ToSet(ban_head')
      BY <1>5, <1>8, <2>2, <2>3
  <2>5. /\ spec'[y].kind = kind[oc[c]]
        /\ Index(ban_head', b0[c]) <= Index(ban_head', y)
        /\ Index(ban_head', y) < Index(ban_head', ocban[oc[c]])
      BY <1>8, <2>2, <2>3, <2>4 DEF Matches
  <2>6. Scanning(c)'
      BY <1>1, <2>1 DEF Scanning
  <2> QED BY <1>1, <2>4, <2>5, <2>6 DEF MustOk, Matches, Pos
<1> QED BY <1>10, <1>11, <1>13, <1>14 DEF Honoured

LEMMA InitHonour == Init => Honoured
<1> SUFFICES ASSUME Init
             PROVE  Honoured
    OBVIOUS
<1>1. /\ pc = [t \in Checkers |-> IF t = Lurker THEN "last" ELSE "idle"]
      /\ owed = {} /\ must = {} /\ new = [i \in CLIs |-> None]
      /\ colour = [x \in Bans |-> {}] /\ spec = [x \in Bans |-> NoSpec]
    BY DEF Init
<1>2. PICK magic \in Bans : ban_head = <<magic>> /\ gone = {magic}
    BY DEF Init
<1>3. /\ pc[Lurker] = "last" /\ \A c \in Clients : pc[c] = "idle"
    BY <1>1, BanConstants DEF Checkers
<1>4. magic \in ToSet(ban_head) /\ spec[magic] = NoSpec
  <2>1. 1 \in DOMAIN ban_head /\ ban_head[1] = magic
      BY <1>2
  <2> QED BY <1>1, <2>1 DEF ToSet
<1>5. QuietInv
    BY <1>1, <1>2, <1>3, <1>4 DEF QuietInv
<1>6. OwedInv /\ WalkInv /\ MustInv
    BY <1>1, <1>3 DEF OwedInv, WalkInv, MustInv, Scanning
<1> QED BY <1>5, <1>6 DEF Honoured

LEMMA NextHonour == IInv /\ HonourInv /\ [Next]_vars => HonourInv'
<1> SUFFICES ASSUME IInv, Quiet => Honoured, [Next]_vars, Quiet'
             PROVE  Honoured'
    BY DEF HonourInv, Honoured
<1>0. params' = params
    BY DEF Next, vars
<1>1. Honoured /\ ~params.lurker /\ ~params.ban_dups
    BY <1>0 DEF Quiet
<1>2. pc[Lurker] = "last" /\ \A i \in CLIs : new[i] = None
    BY <1>1 DEF Honoured, QuietInv
<1>3. CASE \E i \in CLIs : BAN_Insert(i) \/ BAN_Insert_dups(i) \/ BAN_TailRef(i) \/ BAN_TailDeref(i)
  <2>1. ASSUME NEW i \in CLIs, BAN_TailRef(i) \/ BAN_TailDeref(i)
        PROVE  Honoured'
    <3>1. /\ UNCHANGED <<ban_head, spec, gone, colour, kind, ocban, pc, oc, b0, b>>
          /\ UNCHANGED <<new, owed, must>>
        BY <2>1 DEF BAN_TailRef, BAN_TailDeref, ocVars, chkVars, history
    <3> QED BY <1>1, <3>1, HonourFrame
  <2>2. \A i \in CLIs : ~BAN_Insert_dups(i)
      BY <1>2 DEF BAN_Insert_dups
  <2> QED BY <1>1, <1>3, <2>1, <2>2, HonourInsert
<1>4. CASE \E o \in OCs : \/ BAN_NewObjCore(o) \/ HSH_Unbusy(o) \/ EXP_Clr(o)
                          \/ HSH_Deref(o) \/ BAN_DestroyObj(o)
  <2>1. ASSUME NEW o \in OCs, HSH_Unbusy(o) \/ EXP_Clr(o) \/ HSH_Deref(o)
        PROVE  Honoured'
    <3>1. /\ UNCHANGED <<ban_head, spec, gone, colour, kind, ocban, pc, oc, b0, b>>
          /\ UNCHANGED <<new, owed, must>>
        BY <2>1 DEF HSH_Unbusy, EXP_Clr, HSH_Deref, banVars, chkVars, cliVars, history
    <3> QED BY <1>1, <3>1, HonourFrame
  <2> QED BY <1>1, <1>4, <2>1, HonourObjcore
<1>5. CASE \E c \in Clients : \/ \E o \in OCs : BAN_CheckObject(c, o)
                              \/ Check(c) \/ Delivered(c)
    BY <1>1, <1>5, HonourCheckObject, HonourEvaluate, HonourPass, HonourBanned, HonourDelivered
       DEF Check
<1>6. CASE LurkerStep
  <2>1. ban_CheckLast
      BY <1>1, <1>2, <1>6 DEF LurkerStep, ban_lurker_work, lurker_skip, lurker_tag, lurker_tagged,
         lurker_ban_done, lurker_defer, lurker_test, Touchable, Check, ban_evaluate,
         ban_check_object_pass, ban_check_object_banned, ban_check_object_skipped
  <2> QED BY <1>1, <2>1, HonourCheckLast
<1>7. CASE UNCHANGED vars
  <2>1. /\ UNCHANGED <<ban_head, spec, gone, colour, kind, ocban, pc, oc, b0, b>>
        /\ UNCHANGED <<new, owed, must>>
      BY <1>7 DEF vars, banVars, ocVars, chkVars, cliVars, history
  <2> QED BY <1>1, <2>1, HonourFrame
<1> QED BY <1>3, <1>4, <1>5, <1>6, <1>7 DEF Next

\* "Bans are checked when we hit an object in the cache, but before we deliver it": while
\* lookups alone test bans, no object is delivered that a ban matches which was in force when
\* its test began, whatever is inserted and retired while the test walks the list.
THEOREM LookupsAlwaysHonour == Spec => []LookupsHonourBans
<1>1. Init => IInv /\ HonourInv
    BY InitIInv, InitHonour DEF HonourInv, Honoured
<1>2. (IInv /\ HonourInv) /\ [Next]_vars => (IInv /\ HonourInv)'
    BY NextIInv, NextHonour
<1>3. IInv /\ HonourInv => LookupsHonourBans
    BY DEF HonourInv, Quiet, MustInv, Scanning, LookupsHonourBans, BannedNotServed
<1> QED BY <1>1, <1>2, <1>3, PTL DEF Spec

=============================================================================
