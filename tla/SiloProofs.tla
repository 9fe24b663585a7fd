----------------------------- MODULE SiloProofs -----------------------------
(***************************************************************************)
(* Persistent storage, for any number of objects, segments, cells, starts  *)
(* and crashes: the segments of a silo do not overlap, a crash at any      *)
(* write leaves a list whose segments are intact, and a live object keeps  *)
(* the segments it lies in while the counts of objects are exact.          *)
(*                                                                         *)
(* The space is used as a ring: the segments of a list follow each other,  *)
(* with at most one turn from the end of the silo to its beginning, and    *)
(* the new one goes between the last and the first.                        *)
(***************************************************************************)
EXTENDS Silo, ListLemmas, WellFoundedInduction

-----------------------------------------------------------------------------
(***************************************************************************)
(* n intervals, from a[i] up to b[i], as a ring                            *)
(***************************************************************************)

\* Each lies in the silo, with room for a whole segment where it begins.
Laid(n, a, b) ==
    \A i \in 1..n : 1 <= a[i] /\ a[i] < b[i] /\ b[i] <= a[i] + Aim /\ a[i] + Aim <= End

\* No two overlap.
Apart(n, a, b) == \A i, j \in 1..n : i # j => b[i] <= a[j] \/ b[j] <= a[i]

\* What lies before an earlier one lies before the first, and so do all after it.
Turns(n, a) ==
    \A i, j, k \in 1..n : i < j /\ j < k =>
        /\ a[k] < a[j] => a[i] < a[j] /\ a[k] < a[i]
        /\ a[j] < a[i] => a[j] < a[k] /\ a[k] < a[i]

\* Together.
Ring(n, a, b) == Laid(n, a, b) /\ Apart(n, a, b) /\ Turns(n, a)

\* What is allocated next, from f on, would continue the ring.
Free(n, a, b, f) ==
    /\ \A i \in 1..n : b[i] <= f \/ f <= a[i]
    /\ \A i, j \in 1..n : i < j =>
          /\ a[j] < a[i] => b[j] <= f /\ f <= a[i]
          /\ f <= a[j] => a[i] < a[j] /\ f <= a[i]

\* The same of a list on disk, or of sc->segments as it would be saved, with the
\* offsets o of the segments.
DiskEntries == [sid : Sids, length : 1..Aim, closed : BOOLEAN]
Begins(L, o) == [i \in 1..Len(L) |-> o[L[i].sid]]
Ends(L, o) == [i \in 1..Len(L) |-> o[L[i].sid] + L[i].length]
RingOf(L, o) == Ring(Len(L), Begins(L, o), Ends(L, o))
FreeOf(L, o, f) == Free(Len(L), Begins(L, o), Ends(L, o), f)

\* The offsets of the segments s.
OffsOf(s) == [x \in Sids |-> s[x].offset]
Offs == OffsOf(sg)

\* What smp_save_seg writes of the segments ss.
Ptrs(ss, s) == [i \in 1..Len(ss) |-> [sid |-> ss[i], length |-> s[ss[i]].length,
                                      closed |-> s[ss[i]].closed]]
Now == Ptrs(segs, sg)

\* The segments of a list were created in the order of the list.
Ascends(L, n) ==
    /\ \A i \in 1..Len(L) : L[i].sid <= n
    /\ \A i, j \in 1..Len(L) : i < j => L[i].sid < L[j].sid

-----------------------------------------------------------------------------
(***************************************************************************)
(* The inductive invariant                                                 *)
(***************************************************************************)
Flags == {"new", "gone", "mustload", "loading", "loaded", "unloaded"}
SegRecs == [offset : 1..(End - Aim), length : 1..Aim, nalloc : 0..Aim, nobj : Int,
            closed : BOOLEAN, flag : Flags]

ObjStates == {"none", "busy", "disk", "vampire", "live", "bad", "lost"}
Threads == [pc : {"next", "load", "count", "store", "check", "save"}, sid : 0..MaxSid, val : Int]

\* The types of the state; those of thr and skew are in ThreadInv.
TypeOK ==
    /\ proc \in {"up", "down", "dead"} /\ starts \in Nat /\ nsid \in 0..MaxSid
    /\ segs \in Seq(Sids) /\ cur \in 0..MaxSid /\ free_offset \in Nat
    /\ sg \in [Sids -> SegRecs]
    /\ cell \in [Cells -> 0..MaxSid]
    /\ seg1 \in [sig : BOOLEAN, list : Seq(DiskEntries)]
    /\ seg2 \in [sig : BOOLEAN, list : Seq(DiskEntries)]
    /\ save \in [pc : 0..8, sid : 0..MaxSid, then : {"none", "new", "stop"}]
    /\ ost \in [Objs -> ObjStates]
    /\ home \in [Objs -> 0..MaxSid] /\ body \in [Objs -> 0..MaxSid]
    /\ torn \in {"no", "yes", "stale"} /\ abut \in BOOLEAN

\* The lists are in the order in which the segments were created.
OrderInv ==
    Ascends(Now, nsid) /\ Ascends(seg1.list, nsid) /\ Ascends(seg2.list, nsid)

\* The current segment, and a save under way.
CurInv ==
    /\ proc # "up" => segs = <<>> /\ cur = 0 /\ save.pc = 0
    /\ proc = "up" /\ cur = 0 => save.pc # 0
    /\ cur # 0 => /\ segs # <<>> /\ segs[Len(segs)] = cur
                  /\ sg[cur].length = Aim
                  /\ free_offset = sg[cur].offset + Aim
    /\ save.pc # 0 /\ save.then # "none" =>
          /\ cur = 0 /\ save.sid \in Sids /\ save.sid <= nsid
          /\ segs # <<>> => segs[Len(segs)] = save.sid
    /\ save.pc # 0 /\ save.then = "none" => cur # 0
    /\ save.pc \in 5..8 => seg1 = [sig |-> TRUE, list |-> Now]

\* No list has overlapping segments, until one is opened where the oldest begins.
RingInv ==
    ~abut => /\ RingOf(Now, Offs)
             /\ RingOf(seg1.list, Offs) /\ RingOf(seg2.list, Offs)

\* What the next child keeps of a list, by the offsets of the segments.
KeptOf(L, o) ==
    LET last == L[Len(L)]
        fo == o[last.sid] + last.length
        tail == End - fo
        between == o[L[1].sid] > o[last.sid]
        gap(j) == o[L[j].sid] - fo
        i1 == IF between
              THEN StopAt(L, 1, {j \in DOMAIN L : o[L[j].sid] <= o[last.sid] \/ gap(j) > Reserve})
              ELSE 1
        l1 == IF ~between THEN tail
              ELSE IF i1 < Len(L) /\ o[L[i1].sid] > o[last.sid] THEN gap(i1)
              ELSE gap(i1 - 1)
        lead(j) == o[L[j].sid] - 1
        i2 == StopAt(L, i1, {j \in DOMAIN L : lead(j) > Reserve})
        l2 == IF i2 < Len(L) THEN lead(i2)
              ELSE IF i2 > i1 THEN lead(i2 - 1) ELSE l1
    IN  IF L[Len(L)] # L[1] /\ ~between /\ tail >= Reserve
        THEN [first |-> 1, free |-> fo, reserve |-> tail]
        ELSE IF l1 >= Reserve
        THEN [first |-> i1, free |-> fo, reserve |-> l1]
        ELSE [first |-> i2, free |-> 1, reserve |-> l2]
KeptList(L, o) == IF L = <<>> THEN <<>> ELSE SubSeq(L, KeptOf(L, o).first, Len(L))

\* No segment created later, up to n, lies where one of the list lies.
Safe(L, o, n) ==
    \A i \in 1..Len(L) : \A b \in Sids : (L[i].sid < b /\ b <= n) =>
        \/ o[L[i].sid] + L[i].length <= o[b]
        \/ o[b] + Aim <= o[L[i].sid]

\* The segments of the list have their cells.
Whole(L, o, c) ==
    \A i \in 1..Len(L) : \A x \in Cells :
        (o[L[i].sid] <= x /\ x < o[L[i].sid] + L[i].length) => c[x] = L[i].sid

\* What makes it safe to serve from the list.
Good(L, o, c, n) == Safe(L, o, n) /\ Whole(L, o, c)

\* As long as no list out of date was read.
GoodInv ==
    ~abut /\ torn # "stale" =>
        /\ Good(Now, Offs, cell, nsid)
        /\ torn = "no" => /\ Good(KeptList(seg1.list, Offs), Offs, cell, nsid)
                          /\ Good(KeptList(seg2.list, Offs), Offs, cell, nsid)

\* Each entry is in the part of the space that is in use, from the oldest of the
\* segments ss but the current one to the free offset f.
InUse(L, o, ss, f) ==
    \A i \in 1..Len(L) :
        LET b == o[L[i].sid]
            e == o[L[i].sid] + L[i].length
            h == o[ss[1]]
        IN  IF Len(ss) < 2 THEN e <= f
            ELSE IF h < f THEN h <= b /\ e <= f
            ELSE e <= f \/ h <= b

\* What the next child would keep is not where the next segment goes.
UseInv ==
    ~abut /\ torn = "no" /\ proc = "up" /\ save.pc = 0 =>
        /\ InUse(KeptList(seg1.list, Offs), Offs, segs, free_offset)
        /\ InUse(KeptList(seg2.list, Offs), Offs, segs, free_offset)

\* One copy is always valid, unless the child began with copies that differ.
SigInv ==
    torn = "no" => /\ seg1.sig \/ seg2.sig
                   /\ proc = "up" /\ save.pc \in 0..4 => seg2.sig

\* Objects that are in memory, and counted or about to be.
Used == {"vampire", "live", "bad", "lost"}

\* What is known of an object whatever the counts are.
Placed(o) ==
    /\ home[o] <= nsid /\ body[o] <= nsid
    /\ ost[o] = "none" => home[o] = 0 /\ body[o] = 0
    /\ ost[o] = "busy" => body[o] = 0 /\ home[o] # 0
    /\ ost[o] \in {"busy"} \cup Used => proc = "up"
PlaceInv == \A o \in Objs : Placed(o)

\* The current segment is the newest, and has no object before an allocation.
CurNewInv ==
    cur # 0 => /\ cur = nsid /\ ~sg[cur].closed
               /\ sg[cur].nalloc = 0 => \A o \in Objs : home[o] # cur /\ body[o] # cur

\* A body is never older than the headers.
Bodied(o) == body[o] # 0 => home[o] <= body[o]
BodyInv == ~abut /\ torn # "stale" => \A o \in Objs : Bodied(o)

\* The silo's thread is there when the child is.
ThreadInv ==
    /\ thr \in Threads /\ skew \in BOOLEAN
    /\ thr.sid <= nsid
    /\ proc # "up" => thr.pc = "next"

\* The objects in use of a segment.
Members(s) == {o \in Objs : home[o] = s /\ ost[o] \in Used}
Pending(s) == IF Uncounted(s) THEN 1 ELSE 0

\* Their number is the segment's, but for the one the thread is about to count;
\* before the segment is loaded there are none.
Counted(s) ==
    /\ sg[s].flag \in {"new", "loading", "loaded"}
         => sg[s].nobj + Pending(s) = Cardinality(Members(s))
    /\ sg[s].flag \notin {"new", "loading", "loaded"} => Members(s) = {}
CountInv == \A s \in Sids : Contains(segs, s) => Counted(s)

\* An object in use has its segment in the list.
Homed(o) ==
    /\ ost[o] = "busy" /\ Contains(segs, home[o]) => sg[home[o]].flag = "new"
    /\ ost[o] \in Used => Contains(segs, home[o])
HomeInv == \A o \in Objs : Homed(o)

CurFlagInv == cur # 0 => sg[cur].flag = "new"

\* What the thread has read is what is there when it stores.
LoadInv ==
    thr.pc \in {"load", "count", "store"} =>
        /\ Contains(segs, thr.sid) => sg[thr.sid].flag = "loading"
        /\ thr.pc # "load" => Contains(segs, thr.sid)
        /\ thr.pc = "store" => thr.val = sg[thr.sid].nobj

\* A body in use is in the list.
Served(o) == ost[o] = "live" /\ body[o] # 0 => Contains(segs, body[o])
ServedInv == ~abut /\ torn # "stale" => \A o \in Objs : Served(o)

\* What is in the segments: always, and while the counts are exact.
Base == PlaceInv /\ CurNewInv /\ BodyInv /\ ThreadInv
Exact == CountInv /\ HomeInv /\ CurFlagInv /\ LoadInv /\ ServedInv

\* All of them; the theorems at the end follow from it.
IInv ==
    /\ TypeOK /\ OrderInv /\ CurInv /\ RingInv
    /\ GoodInv /\ UseInv /\ SigInv
    /\ Base /\ (~skew => Exact)

-----------------------------------------------------------------------------
(***************************************************************************)
(* Rings                                                                   *)
(***************************************************************************)

\* A set of numbers has a least one.
LEMMA LeastNat ==
    ASSUME NEW S \in SUBSET Nat, S # {}
    PROVE  \E m \in S : \A k \in S : m <= k
<1>1. \E m \in S : \A k \in S : ~(<<k, m>> \in OpToRel(<, Nat))
  BY WFMin, NatLessThanWellFounded, Zenon
<1>2. PICK m \in S : \A k \in S : ~(<<k, m>> \in OpToRel(<, Nat))
  BY <1>1
<1>3. \A k \in S : ~(k < m)
  BY <1>2 DEF OpToRel
<1>4. \A k \in S : m <= k
  BY <1>3
<1> QED
  BY <1>4

\* The sizes.
LEMMA Sizes == Aim \in Nat /\ 1 <= Aim /\ Aim <= Media /\ Media \in Nat
               /\ End \in Nat /\ End = Media + 1 /\ MaxSid \in Nat
               /\ Reserve \in Nat /\ Aim <= Reserve
BY SiloAssumption DEF End

\* Some of the intervals, in the same order.
LEMMA RingPart ==
    ASSUME NEW n \in Nat, NEW a \in [1..n -> Int], NEW b \in [1..n -> Int],
           NEW m \in Nat, NEW k \in Nat, m + k <= n,
           NEW c \in [1..k -> Int], NEW d \in [1..k -> Int],
           \A i \in 1..k : c[i] = a[i + m] /\ d[i] = b[i + m]
    PROVE  /\ Ring(n, a, b) => Ring(k, c, d)
           /\ \A f \in Int : Free(n, a, b, f) => Free(k, c, d, f)
<1>1. \A i \in 1..k : i + m \in 1..n
  OBVIOUS
<1>2. \A i, j \in 1..k : (i < j => i + m < j + m) /\ (i # j => i + m # j + m)
  OBVIOUS
<1>3. Laid(n, a, b) => Laid(k, c, d)
  BY <1>1 DEF Laid
<1>4. Apart(n, a, b) => Apart(k, c, d)
  BY <1>1, <1>2 DEF Apart
<1>5. ASSUME Turns(n, a) PROVE Turns(k, c)
  <2> SUFFICES ASSUME NEW x \in 1..k, NEW y \in 1..k, NEW z \in 1..k, x < y, y < z
               PROVE  /\ c[z] < c[y] => c[x] < c[y] /\ c[z] < c[x]
                      /\ c[y] < c[x] => c[y] < c[z] /\ c[z] < c[x]
    BY DEF Turns
  <2>1. /\ x + m \in 1..n /\ y + m \in 1..n /\ z + m \in 1..n
        /\ x + m < y + m /\ y + m < z + m
    BY <1>1
  <2>2. PICK u \in 1..n, v \in 1..n, w \in 1..n :
            /\ u = x + m /\ v = y + m /\ w = z + m /\ u < v /\ v < w
    BY <2>1
  <2>3. /\ a[w] < a[v] => a[u] < a[v] /\ a[w] < a[u]
        /\ a[v] < a[u] => a[v] < a[w] /\ a[w] < a[u]
    BY <1>5, <2>2 DEF Turns
  <2>4. c[x] = a[u] /\ c[y] = a[v] /\ c[z] = a[w]
    BY <2>2
  <2> QED
    BY <2>3, <2>4
<1>6. ASSUME NEW f \in Int, Free(n, a, b, f) PROVE Free(k, c, d, f)
  BY <1>1, <1>2, <1>6, ZenonT(60) DEF Free
<1> QED
  BY <1>3, <1>4, <1>5, <1>6 DEF Ring

\* The end of the last one is where the ring continues.
LEMMA RingLast ==
    ASSUME NEW n \in Nat, NEW a \in [1..n -> Int], NEW b \in [1..n -> Int],
           Ring(n, a, b), n >= 1
    PROVE  Free(n, a, b, b[n])
<1>1. n \in 1..n /\ Aim \in Nat /\ End \in Nat
  BY Sizes
<1>2. \A i \in 1..n : a[i] \in Int /\ b[i] \in Int /\ a[i] < b[i]
  BY <1>1 DEF Ring, Laid
<1>3. \A i \in 1..n : b[i] <= b[n] \/ b[n] <= a[i]
  <2> SUFFICES ASSUME NEW i \in 1..n PROVE b[i] <= b[n] \/ b[n] <= a[i]
    OBVIOUS
  <2>1. i # n => b[i] <= a[n] \/ b[n] <= a[i]
    BY <1>1 DEF Ring, Apart
  <2> QED
    BY <1>1, <1>2, <2>1
<1>4. ASSUME NEW i \in 1..n, NEW j \in 1..n, i < j
      PROVE  /\ a[j] < a[i] => b[j] <= b[n] /\ b[n] <= a[i]
             /\ b[n] <= a[j] => a[i] < a[j] /\ b[n] <= a[i]
  <2>1. /\ b[i] <= a[j] \/ b[j] <= a[i]
        /\ i # n => b[i] <= a[n] \/ b[n] <= a[i]
        /\ j # n => b[j] <= a[n] \/ b[n] <= a[j]
    BY <1>1, <1>4 DEF Ring, Apart
  <2>2. j # n => /\ a[n] < a[j] => a[i] < a[j] /\ a[n] < a[i]
                 /\ a[j] < a[i] => a[j] < a[n] /\ a[n] < a[i]
    BY <1>1, <1>4 DEF Ring, Turns
  <2>3. /\ a[i] \in Int /\ b[i] \in Int /\ a[i] < b[i]
        /\ a[j] \in Int /\ b[j] \in Int /\ a[j] < b[j]
        /\ a[n] \in Int /\ b[n] \in Int /\ a[n] < b[n] /\ i # n
    BY <1>1, <1>2, <1>4
  <2> QED
    BY <2>1, <2>2, <2>3
<1> QED
  BY <1>3, <1>4 DEF Free

\* What was given up at the end of the last one does not matter.
LEMMA RingShrinks ==
    ASSUME NEW n \in Nat, NEW a \in [1..n -> Int], NEW b \in [1..n -> Int],
           NEW d \in [1..n -> Int], Ring(n, a, b),
           \A i \in 1..n : a[i] < d[i] /\ d[i] <= b[i]
    PROVE  Ring(n, a, d)
<1>1. Aim \in Nat /\ End \in Nat
  BY Sizes
<1>2. Laid(n, a, d)
  BY <1>1 DEF Ring, Laid
<1>3. ASSUME NEW i \in 1..n, NEW j \in 1..n, i # j
      PROVE  d[i] <= a[j] \/ d[j] <= a[i]
  <2>1. b[i] <= a[j] \/ b[j] <= a[i]
    BY <1>3 DEF Ring, Apart
  <2> QED
    BY <2>1
<1>4. Apart(n, a, d)
  BY <1>3 DEF Apart
<1> QED
  BY <1>2, <1>4 DEF Ring

\* smp_new_seg: where the free space is large enough the ring is continued.
Continues(n, a, f, off) ==
    /\ f < End
    /\ off = Offset(f)
    /\ Wraps(f) => n # 0 /\ off + Aim <= a[1]
    /\ (n # 0 /\ a[1] > off) => off + Aim <= a[1]
    /\ n # 0 => a[1] # off

\* The new one overlaps none, and continues the turn.
LEMMA RingGrows ==
    ASSUME NEW n \in Nat, NEW a \in [1..n -> Int], NEW b \in [1..n -> Int],
           Ring(n, a, b), NEW f \in Nat, 1 <= f, Free(n, a, b, f),
           NEW off \in Int, Continues(n, a, f, off),
           NEW c \in [1..(n + 1) -> Int], NEW d \in [1..(n + 1) -> Int],
           \A i \in 1..n : c[i] = a[i] /\ d[i] = b[i],
           c[n + 1] = off, d[n + 1] = off + Aim
    PROVE  Ring(n + 1, c, d)
<1>1. /\ Aim \in Nat /\ 1 <= Aim /\ End \in Nat /\ Aim < End
      /\ off \in Nat /\ 1 <= off /\ off + Aim <= End
      /\ n + 1 \in 1..(n + 1) /\ \A i \in 1..(n + 1) : i # n + 1 => i \in 1..n
  BY Sizes DEF Continues, Offset, Wraps
<1>2. \A i \in 1..n : /\ a[i] \in Int /\ b[i] \in Int /\ 1 <= a[i] /\ a[i] < b[i]
                      /\ b[i] <= a[i] + Aim /\ a[i] + Aim <= End
  BY <1>1 DEF Ring, Laid
<1>8. n # 0 => \/ off = f /\ off # a[1] /\ (a[1] > off => off + Aim <= a[1])
               \/ f + Aim > End /\ off = 1 /\ off + Aim <= a[1]
  BY <1>1 DEF Continues, Offset, Wraps
\* Every one ends before the new one, or begins after it.
<1>3. ASSUME NEW i \in 1..n
      PROVE  b[i] <= off \/ off + Aim <= a[i]
  <2>1. 1 \in 1..n /\ n # 0
    BY <1>3
  <2>2. /\ i # 1 => 1 < i /\ (a[i] < a[1] => b[i] <= f /\ f <= a[1])
        /\ i # 1 => (f <= a[i] => a[1] < a[i] /\ f <= a[1])
        /\ b[i] <= f \/ f <= a[i]
        /\ b[1] <= f \/ f <= a[1]
    BY <1>3, <2>1 DEF Free
  <2>3. i # 1 => b[i] <= a[1] \/ b[1] <= a[i]
    BY <1>3, <2>1 DEF Ring, Apart
  <2>4. /\ a[i] \in Int /\ b[i] \in Int /\ a[i] < b[i] /\ a[i] + Aim <= End
        /\ a[1] \in Int /\ b[1] \in Int /\ a[1] < b[1] /\ a[1] + Aim <= End
    BY <1>2, <1>3, <2>1
  <2>5. CASE off = f /\ off # a[1] /\ (a[1] > off => off + Aim <= a[1])
    <3>1. CASE i = 1
      BY <1>1, <2>2, <2>4, <2>5, <3>1
    <3>2. CASE i # 1
      <4>1. CASE b[i] <= f
        BY <2>5, <4>1
      <4>2. CASE f <= a[i]
        <5>1. a[1] < a[i] /\ f <= a[1]
          BY <2>2, <3>2, <4>2
        <5>2. a[1] \in Int /\ a[i] \in Int /\ off \in Nat /\ Aim \in Nat
          BY <1>1, <2>4
        <5> QED
          BY <2>5, <5>1, <5>2
      <4> QED
        BY <2>2, <4>1, <4>2
    <3> QED
      BY <3>1, <3>2
  <2>6. CASE f + Aim > End /\ off = 1 /\ off + Aim <= a[1]
    BY <1>1, <2>2, <2>3, <2>4, <2>6
  <2> QED
    BY <1>8, <2>1, <2>5, <2>6
\* And it continues the turn.
<1>4. ASSUME NEW i \in 1..n, NEW j \in 1..n, i < j
      PROVE  /\ off < a[j] => a[i] < a[j] /\ off < a[i]
             /\ a[j] < a[i] => a[j] < off /\ off < a[i]
  <2>1. 1 \in 1..n /\ n # 0
    BY <1>4
  <2>2. /\ a[j] < a[i] => b[j] <= f /\ f <= a[i]
        /\ f <= a[j] => a[i] < a[j] /\ f <= a[i]
        /\ b[i] <= f \/ f <= a[i]
        /\ b[j] <= f \/ f <= a[j]
    BY <1>4 DEF Free
  <2>3. /\ a[j] < a[1] => b[j] <= f /\ f <= a[1]
        /\ f <= a[j] => a[1] < a[j] /\ f <= a[1]
        /\ b[1] <= f \/ f <= a[1]
    BY <1>4, <2>1 DEF Free
  <2>4. /\ b[i] <= off \/ off + Aim <= a[i]
        /\ b[j] <= off \/ off + Aim <= a[j]
    BY <1>3
  <2>5. /\ b[i] <= a[j] \/ b[j] <= a[i]
        /\ i # 1 => b[i] <= a[1] \/ b[1] <= a[i]
        /\ b[j] <= a[1] \/ b[1] <= a[j]
    BY <1>4, <2>1 DEF Ring, Apart
  <2>6. i # 1 => /\ a[j] < a[i] => a[1] < a[i] /\ a[j] < a[1]
                 /\ a[i] < a[1] => a[i] < a[j] /\ a[j] < a[1]
    BY <1>4, <2>1 DEF Ring, Turns
  <2>7. /\ a[i] \in Int /\ b[i] \in Int /\ a[i] < b[i] /\ a[i] + Aim <= End /\ 1 <= a[i]
        /\ a[j] \in Int /\ b[j] \in Int /\ a[j] < b[j] /\ a[j] + Aim <= End /\ 1 <= a[j]
        /\ a[1] \in Int /\ b[1] \in Int /\ a[1] < b[1] /\ a[1] + Aim <= End /\ 1 <= a[1]
    BY <1>2, <1>4, <2>1
  <2> DEFINE p == a[i]  q == b[i]  x == a[j]  y == b[j]  u == a[1]  v == b[1]
  <2>10. /\ p \in Int /\ q \in Int /\ x \in Int /\ y \in Int /\ u \in Int /\ v \in Int
         /\ p < q /\ x < y /\ u < v /\ u + Aim <= End /\ 1 <= p
         /\ x < p => y <= f /\ f <= p
         /\ f <= x => p < x /\ f <= p
         /\ q <= off \/ off + Aim <= p
         /\ y <= off \/ off + Aim <= x
         /\ q <= x \/ y <= p
         /\ x < u => y <= f /\ f <= u
         /\ y <= u \/ v <= x
         /\ p # u => /\ x < p => u < p /\ x < u
                     /\ q <= u \/ v <= p
    BY <2>2, <2>3, <2>4, <2>5, <2>6, <2>7
  <2> HIDE DEF p, q, x, y, u, v
  <2>8. CASE off = f
    <3>1. (off < x => p < x /\ off < p) /\ (x < p => x < off /\ off < p)
      BY <1>1, <2>8, <2>10
    <3> QED
      BY <3>1 DEF p, x
  <2>9. CASE f + Aim > End /\ off = 1 /\ off + Aim <= u
    <3>1. (off < x => p < x /\ off < p) /\ (x < p => x < off /\ off < p)
      BY <1>1, <2>9, <2>10
    <3> QED
      BY <3>1 DEF p, x
  <2> QED
    BY <1>8, <2>1, <2>8, <2>9 DEF u
<1>5. Laid(n + 1, c, d)
  <2> SUFFICES ASSUME NEW i \in 1..(n + 1)
               PROVE  1 <= c[i] /\ c[i] < d[i] /\ d[i] <= c[i] + Aim /\ c[i] + Aim <= End
    BY DEF Laid
  <2>1. CASE i = n + 1
    BY <1>1, <2>1
  <2>2. CASE i # n + 1
    BY <1>1, <1>2, <2>2
  <2> QED
    BY <2>1, <2>2
<1>6. Apart(n + 1, c, d)
  <2> SUFFICES ASSUME NEW i \in 1..(n + 1), NEW j \in 1..(n + 1), i # j
               PROVE  d[i] <= c[j] \/ d[j] <= c[i]
    BY DEF Apart
  <2>1. CASE i = n + 1
    BY <1>1, <1>3, <2>1
  <2>2. CASE j = n + 1
    BY <1>1, <1>3, <2>2
  <2>3. CASE i # n + 1 /\ j # n + 1
    BY <1>1, <2>3 DEF Ring, Apart
  <2> QED
    BY <2>1, <2>2, <2>3
<1>7. Turns(n + 1, c)
  <2> SUFFICES ASSUME NEW i \in 1..(n + 1), NEW j \in 1..(n + 1), NEW k \in 1..(n + 1),
                      i < j, j < k
               PROVE  /\ c[k] < c[j] => c[i] < c[j] /\ c[k] < c[i]
                      /\ c[j] < c[i] => c[j] < c[k] /\ c[k] < c[i]
    BY DEF Turns
  <2>1. i \in 1..n /\ j \in 1..n /\ c[i] = a[i] /\ c[j] = a[j]
    BY <1>1
  <2>2. CASE k = n + 1
    BY <1>1, <1>2, <1>4, <2>1, <2>2
  <2>3. CASE k # n + 1
    BY <1>1, <2>1, <2>3 DEF Ring, Turns
  <2> QED
    BY <2>2, <2>3
<1> QED
  BY <1>5, <1>6, <1>7 DEF Ring

-----------------------------------------------------------------------------
(***************************************************************************)
(* Lists of segments                                                       *)
(***************************************************************************)

\* Where the segments of a list begin and end.
LEMMA ListBounds ==
    ASSUME NEW L \in Seq(DiskEntries), NEW o \in [Sids -> Int]
    PROVE  /\ Len(L) \in Nat
           /\ Begins(L, o) \in [1..Len(L) -> Int] /\ Ends(L, o) \in [1..Len(L) -> Int]
           /\ \A i \in 1..Len(L) : /\ L[i] \in DiskEntries
                                   /\ Begins(L, o)[i] = o[L[i].sid]
                                   /\ Ends(L, o)[i] = o[L[i].sid] + L[i].length
<1>1. Len(L) \in Nat /\ \A i \in 1..Len(L) : L[i] \in DiskEntries
  OBVIOUS
<1>2. \A i \in 1..Len(L) : o[L[i].sid] \in Int /\ L[i].length \in Int
  BY <1>1, Sizes DEF DiskEntries
<1> QED
  BY <1>1, <1>2 DEF Begins, Ends

\* A part of a list; the offsets of other segments do not matter.
LEMMA ListPart ==
    ASSUME NEW L \in Seq(DiskEntries), NEW M \in Seq(DiskEntries),
           NEW o \in [Sids -> Int], NEW p \in [Sids -> Int],
           NEW m \in Nat, m + Len(M) <= Len(L),
           \A i \in 1..Len(M) : M[i] = L[i + m] /\ p[M[i].sid] = o[M[i].sid]
    PROVE  /\ RingOf(L, o) => RingOf(M, p)
           /\ \A f \in Int : FreeOf(L, o, f) => FreeOf(M, p, f)
           /\ \A n \in Nat : Ascends(L, n) => Ascends(M, n)
<1>1. /\ Len(L) \in Nat /\ Len(M) \in Nat
      /\ Begins(L, o) \in [1..Len(L) -> Int] /\ Ends(L, o) \in [1..Len(L) -> Int]
      /\ Begins(M, p) \in [1..Len(M) -> Int] /\ Ends(M, p) \in [1..Len(M) -> Int]
  BY ListBounds
<1>2. ASSUME NEW i \in 1..Len(M)
      PROVE  Begins(M, p)[i] = Begins(L, o)[i + m] /\ Ends(M, p)[i] = Ends(L, o)[i + m]
  <2>1. PICK k \in 1..Len(L) : k = i + m
    BY <1>1
  <2>2. M[i] = L[k] /\ p[M[i].sid] = o[M[i].sid]
    BY <2>1
  <2>3. Begins(L, o)[k] = o[L[k].sid] /\ Ends(L, o)[k] = o[L[k].sid] + L[k].length
    BY ListBounds
  <2>4. Begins(M, p)[i] = p[M[i].sid] /\ Ends(M, p)[i] = p[M[i].sid] + M[i].length
    BY ListBounds
  <2> QED
    BY <2>1, <2>2, <2>3, <2>4
<1>3. /\ RingOf(L, o) => RingOf(M, p)
      /\ \A f \in Int : FreeOf(L, o, f) => FreeOf(M, p, f)
  BY <1>1, <1>2, RingPart DEF RingOf, FreeOf
<1>4. ASSUME NEW n \in Nat, Ascends(L, n) PROVE Ascends(M, n)
  <2>1. \A i \in 1..Len(M) : i + m \in 1..Len(L)
    BY <1>1
  <2>2. \A i, j \in 1..Len(M) : i < j => i + m < j + m
    BY <1>1
  <2> QED
    BY <1>4, <2>1, <2>2 DEF Ascends
<1> QED
  BY <1>3, <1>4

\* The same with the same offsets.
LEMMA ListSub ==
    ASSUME NEW L \in Seq(DiskEntries), NEW M \in Seq(DiskEntries),
           NEW o \in [Sids -> Int], NEW m \in Nat, m + Len(M) <= Len(L),
           \A i \in 1..Len(M) : M[i] = L[i + m]
    PROVE  /\ RingOf(L, o) => RingOf(M, o)
           /\ \A f \in Int : FreeOf(L, o, f) => FreeOf(M, o, f)
           /\ \A n \in Nat : Ascends(L, n) => Ascends(M, n)
<1>1. PICK p : p = o
  OBVIOUS
<1>2. p \in [Sids -> Int] /\ \A i \in 1..Len(M) : M[i] = L[i + m] /\ p[M[i].sid] = o[M[i].sid]
  BY <1>1
<1>3. /\ RingOf(L, o) => RingOf(M, p)
      /\ \A f \in Int : FreeOf(L, o, f) => FreeOf(M, p, f)
      /\ \A n \in Nat : Ascends(L, n) => Ascends(M, n)
  BY <1>2, ListPart
<1> QED
  BY <1>1, <1>3

\* What is left of a list without its first m - 1 entries.
LEMMA Suffix ==
    ASSUME NEW S, NEW L \in Seq(S), NEW m \in 1..(Len(L) + 1)
    PROVE  /\ SubSeq(L, m, Len(L)) \in Seq(S)
           /\ Len(SubSeq(L, m, Len(L))) = Len(L) - (m - 1)
           /\ \A i \in 1..(Len(L) - (m - 1)) : SubSeq(L, m, Len(L))[i] = L[i + (m - 1)]
<1>1. Len(L) \in Nat /\ m \in Int /\ Len(L) \in Int /\ \A i \in m..Len(L) : L[i] \in S
  OBVIOUS
<1>2. /\ SubSeq(L, m, Len(L)) \in Seq(S)
      /\ Len(SubSeq(L, m, Len(L))) = IF m <= Len(L) THEN Len(L) - m + 1 ELSE 0
      /\ \A i \in 1..(Len(L) - m + 1) : SubSeq(L, m, Len(L))[i] = L[m + i - 1]
  BY <1>1, SubSeqProperties
<1>3. Len(SubSeq(L, m, Len(L))) = Len(L) - (m - 1)
  BY <1>1, <1>2
<1>4. ASSUME NEW i \in 1..(Len(L) - (m - 1))
      PROVE  SubSeq(L, m, Len(L))[i] = L[i + (m - 1)]
  <2>1. i \in 1..(Len(L) - m + 1) /\ m + i - 1 = i + (m - 1)
    BY <1>1
  <2> QED
    BY <1>2, <2>1
<1> QED
  BY <1>2, <1>3, <1>4

\* A loop over a list stops at the end, if not before.
LEMMA Stops ==
    ASSUME NEW L \in Seq(DiskEntries), NEW i \in 1..Len(L), NEW stops
    PROVE  /\ StopAt(L, i, stops) \in i..Len(L)
           /\ StopAt(L, i, stops) < Len(L) => StopAt(L, i, stops) \in stops
<1> DEFINE S == {Len(L)} \cup (stops \cap i..(Len(L) - 1))
<1>1. Len(L) \in Nat /\ S \in SUBSET Nat /\ S # {}
  OBVIOUS
<1>2. \E m \in S : \A k \in S : m <= k
  BY <1>1, LeastNat
<1>3. StopAt(L, i, stops) \in S
  BY <1>2 DEF StopAt, Min
<1> QED
  BY <1>1, <1>3

\* A list without a turn can be continued at the beginning of the silo.
LEMMA NoTurn ==
    ASSUME NEW n \in Nat, NEW a \in [1..n -> Int], NEW b \in [1..n -> Int],
           Ring(n, a, b), NEW m \in 1..n, m = n \/ a[m] <= a[n],
           NEW c \in [1..(n - m + 1) -> Int], NEW d \in [1..(n - m + 1) -> Int],
           \A i \in 1..(n - m + 1) : c[i] = a[i + (m - 1)] /\ d[i] = b[i + (m - 1)]
    PROVE  Free(n - m + 1, c, d, 1)
<1>1. n \in 1..n /\ Aim \in Nat /\ End \in Nat
  BY Sizes
<1>2. \A i \in 1..n : a[i] \in Int /\ b[i] \in Int /\ a[i] < b[i] /\ 1 <= a[i]
  BY <1>1 DEF Ring, Laid
<1>3. ASSUME NEW i \in 1..n, NEW j \in 1..n, m <= i, i < j PROVE a[i] < a[j]
  <2>1. /\ b[i] <= a[j] \/ b[j] <= a[i]
        /\ i # n => b[i] <= a[n] \/ b[n] <= a[i]
        /\ m # i => b[m] <= a[i] \/ b[i] <= a[m]
        /\ m # n => b[m] <= a[n] \/ b[n] <= a[m]
    BY <1>1, <1>3, SMTT(30) DEF Ring, Apart
  <2>2. j # n => (a[j] < a[i] => a[j] < a[n] /\ a[n] < a[i])
    BY <1>1, <1>3 DEF Ring, Turns
  <2>3. m # i => (a[n] < a[i] => a[m] < a[i] /\ a[n] < a[m])
    BY <1>1, <1>3 DEF Ring, Turns
  <2>4. m < n /\ a[m] <= a[n]
    BY <1>1, <1>3
  <2> DEFINE p == a[i]  q == b[i]  x == a[j]  y == b[j]  u == a[m]  v == b[m]
             w == a[n]  z == b[n]
  <2>5. /\ p \in Int /\ q \in Int /\ x \in Int /\ y \in Int /\ u \in Int /\ v \in Int
        /\ w \in Int /\ z \in Int /\ p < q /\ x < y /\ u < v /\ w < z /\ u <= w
        /\ q <= x \/ y <= p
        /\ x # w => (x < p => x < w /\ w < p)
        /\ u # p => (w < p => u < p /\ w < u)
    BY <1>1, <1>2, <1>3, <2>1, <2>2, <2>3, <2>4
  <2> HIDE DEF p, q, x, y, u, v, w, z
  <2>6. p < x
    BY <2>5
  <2> QED
    BY <2>6 DEF p, x
<1>4. ASSUME NEW i \in 1..(n - m + 1) PROVE 1 <= c[i] /\ i + (m - 1) \in 1..n
  <2>1. i + (m - 1) \in 1..n
    OBVIOUS
  <2> QED
    BY <1>2, <2>1
<1>5. ASSUME NEW i \in 1..(n - m + 1), NEW j \in 1..(n - m + 1), i < j PROVE c[i] < c[j]
  <2>1. PICK x \in 1..n, y \in 1..n : /\ x = i + (m - 1) /\ y = j + (m - 1)
                                      /\ m <= x /\ x < y
    BY <1>4, <1>5
  <2>2. a[x] < a[y]
    BY <1>3, <2>1
  <2> QED
    BY <2>1, <2>2
<1>6. ASSUME NEW i \in 1..(n - m + 1), NEW j \in 1..(n - m + 1), i < j
      PROVE  /\ c[j] < c[i] => d[j] <= 1 /\ 1 <= c[i]
             /\ 1 <= c[j] => c[i] < c[j] /\ 1 <= c[i]
  <2>1. c[i] \in Int /\ c[j] \in Int /\ c[i] < c[j] /\ 1 <= c[i]
    BY <1>4, <1>5, <1>6
  <2> QED
    BY <2>1
<1> QED
  BY <1>4, <1>6 DEF Free

\* Where a segment may begin.
Offsets == 1..(End - Aim)

\* The offsets of the segments are such.
LEMMA OffsFacts ==
    ASSUME NEW s \in [Sids -> SegRecs]
    PROVE  OffsOf(s) \in [Sids -> Offsets] /\ \A x \in Sids : OffsOf(s)[x] = s[x].offset
<1>1. \A x \in Sids : s[x].offset \in Offsets
  BY DEF SegRecs, Offsets
<1> QED
  BY <1>1 DEF OffsOf

\* A whole segment fits at each.
LEMMA OffsetInt ==
    ASSUME NEW o \in [Sids -> Offsets]
    PROVE  /\ o \in [Sids -> Int]
           /\ \A x \in Sids : 1 <= o[x] /\ o[x] + Aim <= End
BY Sizes DEF Offsets

\* What smp_open_segs keeps of a list is its end, and the free space it finds
\* continues that.
LEMMA KeptFacts ==
    ASSUME NEW o \in [Sids -> Offsets], NEW L \in Seq(DiskEntries), L # <<>>
    PROVE  /\ KeptOf(L, o).first \in 1..Len(L) /\ KeptOf(L, o).free \in 1..End
           /\ RingOf(L, o) =>
                 FreeOf(SubSeq(L, KeptOf(L, o).first, Len(L)), o, KeptOf(L, o).free)
<1> DEFINE n == Len(L)
           last == L[n]
           fo == o[last.sid] + last.length
           tail == End - fo
           between == o[L[1].sid] > o[last.sid]
           gap(j) == o[L[j].sid] - fo
           stops1 == {j \in DOMAIN L : o[L[j].sid] <= o[last.sid] \/ gap(j) > Reserve}
           i1 == IF between THEN StopAt(L, 1, stops1) ELSE 1
           l1 == IF ~between THEN tail
                 ELSE IF i1 < Len(L) /\ o[L[i1].sid] > o[last.sid] THEN gap(i1)
                 ELSE gap(i1 - 1)
           lead(j) == o[L[j].sid] - 1
           stops2 == {j \in DOMAIN L : lead(j) > Reserve}
           i2 == StopAt(L, i1, stops2)
           l2 == IF i2 < Len(L) THEN lead(i2)
                 ELSE IF i2 > i1 THEN lead(i2 - 1) ELSE l1
           K == KeptOf(L, o)
           A == Begins(L, o)
           B == Ends(L, o)
<1>0. o \in [Sids -> Int]
  BY OffsetInt
<1>1. n \in Nat /\ n >= 1 /\ 1 \in 1..n /\ n \in 1..n /\ DOMAIN L = 1..n
  OBVIOUS
<1>2. A \in [1..n -> Int] /\ B \in [1..n -> Int]
  BY OffsetInt, ListBounds
<1>3. ASSUME NEW j \in 1..n
      PROVE  /\ A[j] = o[L[j].sid] /\ B[j] = (o[L[j].sid] + L[j].length)
             /\ o[L[j].sid] \in Int /\ 1 <= o[L[j].sid] /\ o[L[j].sid] < (o[L[j].sid] + L[j].length)
             /\ (o[L[j].sid] + L[j].length) \in Int /\ (o[L[j].sid] + L[j].length) <= End
  <2>1. /\ L[j] \in DiskEntries /\ A[j] = o[L[j].sid]
        /\ B[j] = o[L[j].sid] + L[j].length
    BY OffsetInt, ListBounds
  <2>2. L[j].sid \in Sids /\ L[j].length \in 1..Aim
    BY <2>1 DEF DiskEntries
  <2>3. /\ o[L[j].sid] \in Int /\ 1 <= o[L[j].sid]
        /\ o[L[j].sid] + Aim <= End
    BY <2>2, OffsetInt
  <2> QED
    BY <2>1, <2>2, <2>3, Sizes
<1>4. K = IF L[Len(L)] # L[1] /\ ~between /\ tail >= Reserve
          THEN [first |-> 1, free |-> fo, reserve |-> tail]
          ELSE IF l1 >= Reserve
          THEN [first |-> i1, free |-> fo, reserve |-> l1]
          ELSE [first |-> i2, free |-> 1, reserve |-> l2]
  BY DEF KeptOf
<1>5. /\ i1 \in 1..n
      /\ between /\ i1 < n => i1 \in stops1
  BY <1>1, Stops
<1>6. i2 \in i1..n
  BY <1>5, Stops
<1> HIDE DEF i1, i2, l1, l2, K
<1>11. i1 = n \/ i1 < n
  <2> HIDE DEF n
  <2> QED
    BY <1>1, <1>5
<1>7. \/ K.first = 1 /\ K.free = fo
      \/ K.first = i1 /\ K.free = fo
      \/ K.first = i2 /\ K.free = 1 /\ ~(l1 >= Reserve)
  BY <1>4
<1>8. K.first \in 1..n
  BY <1>1, <1>5, <1>6, <1>7
<1>9. K.free \in 1..End
  BY <1>1, <1>3, <1>7, Sizes
<1>10. ASSUME RingOf(L, o)
       PROVE  FreeOf(SubSeq(L, K.first, Len(L)), o, K.free)
  <2> DEFINE M == SubSeq(L, K.first, Len(L))
             m == K.first
  <2>1. /\ M \in Seq(DiskEntries) /\ Len(M) = n - (m - 1)
        /\ \A i \in 1..(n - (m - 1)) : M[i] = L[i + (m - 1)]
    BY <1>8, Suffix
  <2>2. Ring(n, A, B)
    BY <1>10 DEF RingOf
  <2>3. CASE K.free = fo
    <3>1. Free(n, A, B, B[n]) /\ B[n] = fo /\ fo \in Int
      BY <1>1, <1>2, <1>3, <2>2, RingLast
    <3>2. FreeOf(L, o, fo)
      BY <3>1 DEF FreeOf
    <3>3. m - 1 \in Nat /\ (m - 1) + Len(M) <= Len(L)
      BY <1>1, <1>8, <2>1
    <3>4. \A i \in 1..Len(M) : M[i] = L[i + (m - 1)]
      BY <2>1
    <3> HIDE DEF M, m
    <3>5. FreeOf(M, o, fo)
      BY <2>1, <3>1, <3>2, <3>3, <3>4, ListSub, <1>0
    <3> QED
      BY <2>3, <3>5 DEF M, m
  <2>4. CASE K.free = 1 /\ K.first = i2 /\ ~(l1 >= Reserve)
    <3>1. i1 = n \/ o[L[i1].sid] <= o[last.sid]
      <4>1. CASE ~between
        <5>1. i1 = 1
          BY <4>1 DEF i1
        <5> QED
          BY <1>1, <1>3, <4>1, <5>1
      <4>2. CASE between /\ i1 # n
        <5>1. i1 < n
          BY <1>11, <4>2
        <5>5. i1 \in stops1
          <6> HIDE DEF stops1, between
          <6> QED
            BY <1>5, <4>2, <5>1
        <5>2. o[L[i1].sid] <= o[last.sid] \/ gap(i1) > Reserve
          BY <5>5
        <5>3. o[L[i1].sid] > o[last.sid] => l1 = gap(i1)
          BY <4>2, <5>1 DEF l1
        <5>4. /\ o[L[i1].sid] \in Int /\ o[last.sid] \in Int /\ fo \in Int /\ Reserve \in Int
              /\ gap(i1) \in Int
          BY <1>1, <1>3, <1>5, Sizes
        <5> DEFINE x == o[L[i1].sid]  y == o[last.sid]  g == gap(i1)
        <5>6. /\ x \in Int /\ y \in Int /\ g \in Int /\ (x <= y \/ g > Reserve)
              /\ x > y => l1 = g
              /\ Reserve \in Int /\ ~(l1 >= Reserve)
          BY <2>4, <5>2, <5>3, <5>4
        <5> HIDE DEF x, y, g
        <5>7. x <= y
          BY <5>6
        <5> QED
          BY <5>7 DEF x, y
      <4> QED
        BY <4>1, <4>2
    <3>2. i1 = n \/ A[i1] <= A[n]
      BY <1>1, <1>3, <1>5, <3>1
    <3> DEFINE M1 == SubSeq(L, i1, Len(L))
               A1 == Begins(M1, o)
               B1 == Ends(M1, o)
    <3>3. /\ M1 \in Seq(DiskEntries) /\ Len(M1) = n - (i1 - 1)
          /\ \A i \in 1..(n - (i1 - 1)) : M1[i] = L[i + (i1 - 1)]
      BY <1>5, Suffix
    <3>4. n - (i1 - 1) = n - i1 + 1 /\ i1 - 1 \in Nat
      BY <1>1, <1>5
    <3> HIDE DEF M1
    <3>5. /\ A1 \in [1..(n - i1 + 1) -> Int] /\ B1 \in [1..(n - i1 + 1) -> Int]
          /\ \A i \in 1..(n - i1 + 1) : A1[i] = o[M1[i].sid]
                                        /\ B1[i] = o[M1[i].sid] + M1[i].length
      BY <3>3, <3>4, ListBounds, OffsetInt
    <3>6. ASSUME NEW i \in 1..(n - i1 + 1)
          PROVE  A1[i] = A[i + (i1 - 1)] /\ B1[i] = B[i + (i1 - 1)]
      <4>1. PICK k \in 1..n : k = i + (i1 - 1)
        BY <1>1, <1>5
      <4>2. A[k] = o[L[k].sid] /\ B[k] = o[L[k].sid] + L[k].length
        BY OffsetInt, ListBounds
      <4>3. M1[i] = L[k]
        BY <3>3, <3>4, <4>1
      <4> QED
        BY <3>5, <4>1, <4>2, <4>3
    <3> HIDE DEF A1, B1, A, B
    <3>7. Free(n - i1 + 1, A1, B1, 1)
      BY <1>1, <1>2, <1>5, <2>2, <3>2, <3>5, <3>6, NoTurn
    <3>8. FreeOf(M1, o, 1)
      BY <3>3, <3>4, <3>7 DEF FreeOf, A1, B1
    <3>9. i2 - i1 \in Nat /\ (i2 - i1) + Len(M) <= Len(M1)
      BY <1>1, <1>5, <1>6, <2>1, <2>4, <3>3
    <3>10. ASSUME NEW i \in 1..Len(M) PROVE M[i] = M1[i + (i2 - i1)]
      <4>1. M[i] = L[i + (i2 - 1)]
        BY <2>1, <2>4
      <4>2. i + (i2 - i1) \in 1..(n - (i1 - 1)) /\ (i + (i2 - i1)) + (i1 - 1) = i + (i2 - 1)
        BY <1>1, <1>5, <1>6, <2>1, <2>4
      <4>3. M1[i + (i2 - i1)] = L[(i + (i2 - i1)) + (i1 - 1)]
        BY <3>3, <4>2
      <4> QED
        BY <4>1, <4>2, <4>3
    <3>12. PICK q \in Nat : q = i2 - i1
      BY <3>9
    <3> HIDE DEF M, m
    <3>13. \A i \in 1..Len(M) : M[i] = M1[i + q]
      BY <3>10, <3>12
    <3>14. o \in [Sids -> Int] /\ q + Len(M) <= Len(M1) /\ 1 \in Int
      BY <3>9, <3>12, <1>0
    <3>11. FreeOf(M, o, 1)
      BY <2>1, <3>3, <3>8, <3>13, <3>14, ListSub
    <3> QED
      BY <2>4, <3>11 DEF M
  <2> QED
    BY <1>7, <2>3, <2>4
<1> QED
  BY <1>8, <1>9, <1>10 DEF K

\* Kept, by the offsets.
LEMMA KeptIs ==
    ASSUME sg \in [Sids -> SegRecs], NEW L \in Seq(DiskEntries), L # <<>>
    PROVE  Kept(L) = KeptOf(L, Offs)
<1> DEFINE o == Offs
           n == Len(L)
           last == L[n]
           fo == o[last.sid] + last.length
           between == o[L[1].sid] > o[last.sid]
           gap(j) == o[L[j].sid] - fo
           stops1 == {j \in DOMAIN L : o[L[j].sid] <= o[last.sid] \/ gap(j) > Reserve}
           i1 == IF between THEN StopAt(L, 1, stops1) ELSE 1
           lead(j) == o[L[j].sid] - 1
           stops2 == {j \in DOMAIN L : lead(j) > Reserve}
           i2 == StopAt(L, i1, stops2)
           Gap(j) == Off(L[j]) - fo
           Stops1 == {j \in DOMAIN L : Off(L[j]) <= Off(last) \/ Gap(j) > Reserve}
           Lead(j) == Off(L[j]) - 1
           Stops2 == {j \in DOMAIN L : Lead(j) > Reserve}
<1>1. n \in Nat /\ n >= 1 /\ 1 \in 1..n /\ n \in 1..n /\ DOMAIN L = 1..n
  OBVIOUS
<1>2. ASSUME NEW j \in 1..n PROVE Off(L[j]) = o[L[j].sid] /\ o[L[j].sid] \in Int
  <2>1. L[j].sid \in Sids
    <3>1. L[j] \in DiskEntries
      OBVIOUS
    <3> QED
      BY <3>1 DEF DiskEntries
  <2>3. o \in [Sids -> Offsets]
    BY OffsFacts DEF Offs
  <2>2. o \in [Sids -> Int]
    BY <2>3, OffsetInt
  <2> QED
    BY <2>1, <2>2 DEF Off, Offs, OffsOf
<1>3. EndOf(last) = fo
  BY <1>1, <1>2 DEF EndOf
<1>4. Stops1 = stops1 /\ Stops2 = stops2
  BY <1>1, <1>2
<1>5. /\ i1 \in 1..n /\ i2 \in i1..n
      /\ between /\ i1 < n => i1 \in stops1
  BY <1>1, Stops
<1> HIDE DEF n, i1, i2, o
<1>6. between /\ ~(i1 < n /\ o[L[i1].sid] > o[last.sid]) => i1 - 1 \in 1..n
  <2>1. SUFFICES ASSUME between, ~(i1 < n /\ o[L[i1].sid] > o[last.sid])
                 PROVE  i1 # 1
    BY <1>1, <1>5
  <2>2. SUFFICES ASSUME i1 = 1 PROVE FALSE
    OBVIOUS
  <2>3. n # 1
    BY <1>1, <1>2, <2>1
  <2>4. i1 < n
    BY <1>1, <2>2, <2>3
  <2> QED
    BY <2>1, <2>2, <2>4
<1>7. i2 > i1 => i2 - 1 \in 1..n
  BY <1>1, <1>5
<1>8. \A j \in 1..n : Gap(j) = gap(j) /\ Lead(j) = lead(j)
  BY <1>2
<1> DEFINE b1 == Off(L[1]) > Off(last)
           I1 == IF b1 THEN StopAt(L, 1, Stops1) ELSE 1
           I2 == StopAt(L, I1, Stops2)
           l1 == IF ~between THEN End - fo
                 ELSE IF i1 < Len(L) /\ o[L[i1].sid] > o[last.sid] THEN gap(i1)
                 ELSE gap(i1 - 1)
           l2 == IF i2 < Len(L) THEN lead(i2)
                 ELSE IF i2 > i1 THEN lead(i2 - 1) ELSE l1
           L1 == IF ~b1 THEN End - fo
                 ELSE IF I1 < Len(L) /\ Off(L[I1]) > Off(last) THEN Gap(I1)
                 ELSE Gap(I1 - 1)
           L2 == IF I2 < Len(L) THEN Lead(I2)
                 ELSE IF I2 > I1 THEN Lead(I2 - 1) ELSE L1
<1>9. b1 = between /\ I1 = i1 /\ I2 = i2
  BY <1>1, <1>2, <1>4 DEF i1, i2, n
<1>10. L1 = l1
  <2>1. Len(L) = n /\ o[L[i1].sid] = Off(L[i1]) /\ o[last.sid] = Off(last)
    BY <1>1, <1>2, <1>5 DEF n
  <2>2. Gap(i1) = gap(i1)
    BY <1>5, <1>8
  <2>3. between /\ ~(i1 < n /\ o[L[i1].sid] > o[last.sid]) => Gap(i1 - 1) = gap(i1 - 1)
    BY <1>6, <1>8
  <2> HIDE DEF gap, Gap, fo, between, b1, last, I1
  <2> QED
    BY <1>9, <2>1, <2>2, <2>3
<1>11. L2 = l2
  <2>1. Lead(i2) = lead(i2) /\ (i2 > i1 => Lead(i2 - 1) = lead(i2 - 1))
    BY <1>1, <1>5, <1>7, <1>8
  <2> HIDE DEF lead, Lead, l1, L1, I1, I2
  <2> QED
    BY <1>9, <1>10, <2>1
<1>12. KeptOf(L, o) = IF L[Len(L)] # L[1] /\ ~between /\ End - fo >= Reserve
          THEN [first |-> 1, free |-> fo, reserve |-> End - fo]
          ELSE IF l1 >= Reserve
          THEN [first |-> i1, free |-> fo, reserve |-> l1]
          ELSE [first |-> i2, free |-> 1, reserve |-> l2]
  BY DEF KeptOf, i1, i2, n
<1>13. Kept(L) = IF L[Len(L)] # L[1] /\ ~b1 /\ End - fo >= Reserve
          THEN [first |-> 1, free |-> fo, reserve |-> End - fo]
          ELSE IF L1 >= Reserve
          THEN [first |-> I1, free |-> fo, reserve |-> L1]
          ELSE [first |-> I2, free |-> 1, reserve |-> L2]
  BY <1>3 DEF Kept, n
<1> HIDE DEF b1, between, l1, l2, L1, L2, I1, I2, fo
<1> QED
  BY <1>9, <1>10, <1>11, <1>12, <1>13 DEF o

\* Only the offsets of the segments of the list matter.
LEMMA KeptSame ==
    ASSUME NEW L \in Seq(DiskEntries), L # <<>>, NEW o \in [Sids -> Offsets],
           NEW p \in [Sids -> Offsets], \A j \in 1..Len(L) : p[L[j].sid] = o[L[j].sid]
    PROVE  KeptOf(L, p) = KeptOf(L, o)
<1> DEFINE n == Len(L)
           last == L[n]
           fo == o[last.sid] + last.length
           between == o[L[1].sid] > o[last.sid]
           gap(j) == o[L[j].sid] - fo
           stops1 == {j \in DOMAIN L : o[L[j].sid] <= o[last.sid] \/ gap(j) > Reserve}
           i1 == IF between THEN StopAt(L, 1, stops1) ELSE 1
           lead(j) == o[L[j].sid] - 1
           stops2 == {j \in DOMAIN L : lead(j) > Reserve}
           i2 == StopAt(L, i1, stops2)
           Gap(j) == p[L[j].sid] - fo
           Stops1 == {j \in DOMAIN L : p[L[j].sid] <= p[last.sid] \/ Gap(j) > Reserve}
           Lead(j) == p[L[j].sid] - 1
           Stops2 == {j \in DOMAIN L : Lead(j) > Reserve}
<1>1. n \in Nat /\ n >= 1 /\ 1 \in 1..n /\ n \in 1..n /\ DOMAIN L = 1..n
  OBVIOUS
<1>2. ASSUME NEW j \in 1..n PROVE p[L[j].sid] = o[L[j].sid] /\ o[L[j].sid] \in Int
  <2>1. L[j].sid \in Sids
    <3>1. L[j] \in DiskEntries
      OBVIOUS
    <3> QED
      BY <3>1 DEF DiskEntries
  <2>2. o \in [Sids -> Int]
    BY OffsetInt
  <2> QED
    BY <2>1, <2>2
<1>3. p[last.sid] + last.length = fo
  BY <1>1, <1>2
<1>4. Stops1 = stops1 /\ Stops2 = stops2
  BY <1>1, <1>2
<1>5. /\ i1 \in 1..n /\ i2 \in i1..n
      /\ between /\ i1 < n => i1 \in stops1
  BY <1>1, Stops
<1> HIDE DEF n, i1, i2
<1>6. between /\ ~(i1 < n /\ o[L[i1].sid] > o[last.sid]) => i1 - 1 \in 1..n
  <2>1. SUFFICES ASSUME between, ~(i1 < n /\ o[L[i1].sid] > o[last.sid])
                 PROVE  i1 # 1
    BY <1>1, <1>5
  <2>2. SUFFICES ASSUME i1 = 1 PROVE FALSE
    OBVIOUS
  <2>3. n # 1
    BY <1>1, <1>2, <2>1
  <2>4. i1 < n
    BY <1>1, <2>2, <2>3
  <2> QED
    BY <2>1, <2>2, <2>4
<1>7. i2 > i1 => i2 - 1 \in 1..n
  BY <1>1, <1>5
<1>8. \A j \in 1..n : Gap(j) = gap(j) /\ Lead(j) = lead(j)
  BY <1>2
<1> DEFINE b1 == p[L[1].sid] > p[last.sid]
           I1 == IF b1 THEN StopAt(L, 1, Stops1) ELSE 1
           I2 == StopAt(L, I1, Stops2)
           l1 == IF ~between THEN End - fo
                 ELSE IF i1 < Len(L) /\ o[L[i1].sid] > o[last.sid] THEN gap(i1)
                 ELSE gap(i1 - 1)
           l2 == IF i2 < Len(L) THEN lead(i2)
                 ELSE IF i2 > i1 THEN lead(i2 - 1) ELSE l1
           L1 == IF ~b1 THEN End - fo
                 ELSE IF I1 < Len(L) /\ p[L[I1].sid] > p[last.sid] THEN Gap(I1)
                 ELSE Gap(I1 - 1)
           L2 == IF I2 < Len(L) THEN Lead(I2)
                 ELSE IF I2 > I1 THEN Lead(I2 - 1) ELSE L1
<1>9. b1 = between /\ I1 = i1 /\ I2 = i2
  BY <1>1, <1>2, <1>4 DEF i1, i2, n
<1>10. L1 = l1
  <2>1. Len(L) = n /\ o[L[i1].sid] = p[L[i1].sid] /\ o[last.sid] = p[last.sid]
    BY <1>1, <1>2, <1>5 DEF n
  <2>2. Gap(i1) = gap(i1)
    BY <1>5, <1>8
  <2>3. between /\ ~(i1 < n /\ o[L[i1].sid] > o[last.sid]) => Gap(i1 - 1) = gap(i1 - 1)
    BY <1>6, <1>8
  <2> HIDE DEF gap, Gap, fo, between, b1, last, I1
  <2> QED
    BY <1>9, <2>1, <2>2, <2>3
<1>11. L2 = l2
  <2>1. Lead(i2) = lead(i2) /\ (i2 > i1 => Lead(i2 - 1) = lead(i2 - 1))
    BY <1>1, <1>5, <1>7, <1>8
  <2> HIDE DEF lead, Lead, l1, L1, I1, I2
  <2> QED
    BY <1>9, <1>10, <2>1
<1>12. KeptOf(L, o) = IF L[Len(L)] # L[1] /\ ~between /\ End - fo >= Reserve
          THEN [first |-> 1, free |-> fo, reserve |-> End - fo]
          ELSE IF l1 >= Reserve
          THEN [first |-> i1, free |-> fo, reserve |-> l1]
          ELSE [first |-> i2, free |-> 1, reserve |-> l2]
  BY DEF KeptOf, i1, i2, n
<1>13. KeptOf(L, p) = IF L[Len(L)] # L[1] /\ ~b1 /\ End - fo >= Reserve
          THEN [first |-> 1, free |-> fo, reserve |-> End - fo]
          ELSE IF L1 >= Reserve
          THEN [first |-> I1, free |-> fo, reserve |-> L1]
          ELSE [first |-> I2, free |-> 1, reserve |-> L2]
  BY <1>3 DEF KeptOf, n
<1> HIDE DEF b1, between, l1, l2, L1, L2, I1, I2, fo
<1> QED
  BY <1>9, <1>10, <1>11, <1>12, <1>13

\* The entries for the segments of a list.
LEMMA PtrsFacts ==
    ASSUME NEW ss \in Seq(Sids), NEW s \in [Sids -> SegRecs]
    PROVE  /\ Ptrs(ss, s) \in Seq(DiskEntries) /\ Len(Ptrs(ss, s)) = Len(ss)
           /\ Len(ss) \in Nat
           /\ \A i \in 1..Len(ss) : /\ ss[i] \in Sids
                                    /\ Ptrs(ss, s)[i] = [sid |-> ss[i], length |-> s[ss[i]].length,
                                                         closed |-> s[ss[i]].closed]
                                    /\ Ptrs(ss, s)[i].sid = ss[i]
                                    /\ Ptrs(ss, s)[i].length = s[ss[i]].length
                                    /\ s[ss[i]].length \in 1..Aim
<1>1. Len(ss) \in Nat /\ \A i \in 1..Len(ss) : ss[i] \in Sids
  OBVIOUS
<1>2. ASSUME NEW i \in 1..Len(ss)
      PROVE  /\ [sid |-> ss[i], length |-> s[ss[i]].length, closed |-> s[ss[i]].closed] \in DiskEntries
             /\ s[ss[i]].length \in 1..Aim
  <2>1. s[ss[i]] \in SegRecs
    BY <1>1
  <2> QED
    BY <1>1, <2>1 DEF SegRecs, DiskEntries
<1>3. Ptrs(ss, s) \in [1..Len(ss) -> DiskEntries]
  BY <1>2 DEF Ptrs
<1>4. Ptrs(ss, s) \in Seq(DiskEntries) /\ Len(Ptrs(ss, s)) = Len(ss)
  BY <1>1, <1>3
<1>5. \A i \in 1..Len(ss) : Ptrs(ss, s)[i] = [sid |-> ss[i], length |-> s[ss[i]].length,
                                              closed |-> s[ss[i]].closed]
  BY DEF Ptrs
<1> QED
  BY <1>1, <1>2, <1>4, <1>5

\* M is L without some entries at the front.
IsEnd(M, L) ==
    \E m \in Nat : m + Len(M) = Len(L) /\ \A i \in 1..Len(M) : M[i] = L[i + m]

\* The segments of M are among those of L, and not longer.
Among(M, L) ==
    \A i \in 1..Len(M) : \E j \in 1..Len(L) :
        M[i].sid = L[j].sid /\ M[i].length <= L[j].length

\* An end of a list has nothing that the list does not have.
LEMMA EndAmong ==
    ASSUME NEW L \in Seq(DiskEntries), NEW M \in Seq(DiskEntries), IsEnd(M, L)
    PROVE  Among(M, L)
<1>1. PICK m \in Nat : m + Len(M) = Len(L) /\ \A i \in 1..Len(M) : M[i] = L[i + m]
  BY DEF IsEnd
<1>2. ASSUME NEW i \in 1..Len(M)
      PROVE  \E j \in 1..Len(L) : M[i].sid = L[j].sid /\ M[i].length <= L[j].length
  <2>1. PICK j \in 1..Len(L) : j = i + m
    BY <1>1
  <2>2. M[i] = L[j] /\ L[j] \in DiskEntries
    BY <1>1, <2>1
  <2>3. L[j].length \in Int
    BY <2>2, Sizes DEF DiskEntries
  <2> QED
    BY <2>2, <2>3
<1> QED
  BY <1>2 DEF Among

\* What is kept of a list.
LEMMA KeptEnd ==
    ASSUME NEW o \in [Sids -> Offsets], NEW L \in Seq(DiskEntries)
    PROVE  /\ KeptList(L, o) \in Seq(DiskEntries) /\ IsEnd(KeptList(L, o), L)
           /\ Among(KeptList(L, o), L)
           /\ L = <<>> => KeptList(L, o) = <<>>
<1>1. CASE L = <<>>
  <2>1. KeptList(L, o) = L
    BY <1>1 DEF KeptList
  <2>2. 0 \in Nat /\ 0 + Len(L) = Len(L) /\ \A i \in 1..Len(L) : L[i] = L[i + 0]
    OBVIOUS
  <2>3. IsEnd(L, L)
    BY <2>2 DEF IsEnd
  <2> QED
    BY <1>1, <2>1, <2>3, EndAmong
<1>2. CASE L # <<>>
  <2> DEFINE m == KeptOf(L, o).first
             M == SubSeq(L, m, Len(L))
  <2>1. m \in 1..Len(L) /\ Len(L) \in Nat
    BY <1>2, KeptFacts
  <2>2. /\ M \in Seq(DiskEntries) /\ Len(M) = Len(L) - (m - 1)
        /\ \A i \in 1..(Len(L) - (m - 1)) : M[i] = L[i + (m - 1)]
    BY <2>1, Suffix
  <2>3. KeptList(L, o) = M
    BY <1>2 DEF KeptList
  <2> HIDE DEF M, m
  <2>4. m - 1 \in Nat /\ (m - 1) + Len(M) = Len(L)
    BY <2>1, <2>2
  <2>5. IsEnd(M, L)
    BY <2>2, <2>4 DEF IsEnd
  <2> QED
    BY <1>2, <2>2, <2>3, <2>5, EndAmong
<1> QED
  BY <1>1, <1>2

\* What holds of a list holds of a part of it.
LEMMA GoodPart ==
    ASSUME NEW L \in Seq(DiskEntries), NEW M \in Seq(DiskEntries), Among(M, L),
           NEW o \in [Sids -> Offsets], NEW c, NEW n, NEW ss, NEW f \in Int
    PROVE  /\ Good(L, o, c, n) => Good(M, o, c, n)
           /\ InUse(L, o, ss, f) => InUse(M, o, ss, f)
<1>1. o \in [Sids -> Int] /\ Cells \in SUBSET Int /\ Sids \in SUBSET Int /\ Aim \in Int
  BY OffsetInt, Sizes DEF Cells, Sids
<1>2. ASSUME NEW i \in 1..Len(M)
      PROVE  /\ o[M[i].sid] \in Int /\ M[i].length \in Int /\ M[i].sid \in Sids
             /\ \E j \in 1..Len(L) : /\ M[i].sid = L[j].sid /\ M[i].length <= L[j].length
                                     /\ L[j].length \in Int
  <2>1. M[i] \in DiskEntries
    OBVIOUS
  <2>2. M[i].sid \in Sids /\ M[i].length \in Int
    BY <2>1, Sizes DEF DiskEntries
  <2>3. PICK j \in 1..Len(L) : M[i].sid = L[j].sid /\ M[i].length <= L[j].length
    BY DEF Among
  <2>4. L[j] \in DiskEntries
    OBVIOUS
  <2>5. L[j].length \in Int
    BY <2>4, Sizes DEF DiskEntries
  <2> QED
    BY <1>1, <2>2, <2>3, <2>5
<1>3. ASSUME Safe(L, o, n) PROVE Safe(M, o, n)
  <2> SUFFICES ASSUME NEW i \in 1..Len(M), NEW b \in Sids, M[i].sid < b /\ b <= n
               PROVE  \/ o[M[i].sid] + M[i].length <= o[b]
                      \/ o[b] + Aim <= o[M[i].sid]
    BY DEF Safe
  <2>1. PICK j \in 1..Len(L) : /\ M[i].sid = L[j].sid /\ M[i].length <= L[j].length
                               /\ L[j].length \in Int
    BY <1>2
  <2>2. \/ o[L[j].sid] + L[j].length <= o[b]
        \/ o[b] + Aim <= o[L[j].sid]
    BY <1>3, <2>1 DEF Safe
  <2>3. o[b] \in Int /\ o[M[i].sid] \in Int /\ M[i].length \in Int
    BY <1>1, <1>2
  <2> QED
    BY <1>1, <2>1, <2>2, <2>3
<1>4. ASSUME Whole(L, o, c) PROVE Whole(M, o, c)
  <2> SUFFICES ASSUME NEW i \in 1..Len(M), NEW x \in Cells,
                      o[M[i].sid] <= x /\ x < o[M[i].sid] + M[i].length
               PROVE  c[x] = M[i].sid
    BY DEF Whole
  <2>1. PICK j \in 1..Len(L) : /\ M[i].sid = L[j].sid /\ M[i].length <= L[j].length
                               /\ L[j].length \in Int
    BY <1>2
  <2>3. o[M[i].sid] \in Int /\ M[i].length \in Int /\ x \in Int
    BY <1>1, <1>2
  <2>4. x < o[L[j].sid] + L[j].length /\ o[L[j].sid] <= x
    BY <2>1, <2>3
  <2>2. c[x] = L[j].sid
    BY <1>4, <2>4 DEF Whole
  <2> QED
    BY <2>1, <2>2
<1>5. ASSUME InUse(L, o, ss, f) PROVE InUse(M, o, ss, f)
  <2> SUFFICES ASSUME NEW i \in 1..Len(M)
               PROVE  IF Len(ss) < 2 THEN o[M[i].sid] + M[i].length <= f
                      ELSE IF o[ss[1]] < f
                      THEN o[ss[1]] <= o[M[i].sid] /\ o[M[i].sid] + M[i].length <= f
                      ELSE o[M[i].sid] + M[i].length <= f \/ o[ss[1]] <= o[M[i].sid]
    BY DEF InUse
  <2>1. PICK j \in 1..Len(L) : /\ M[i].sid = L[j].sid /\ M[i].length <= L[j].length
                               /\ L[j].length \in Int
    BY <1>2
  <2>2. IF Len(ss) < 2 THEN o[L[j].sid] + L[j].length <= f
        ELSE IF o[ss[1]] < f
        THEN o[ss[1]] <= o[L[j].sid] /\ o[L[j].sid] + L[j].length <= f
        ELSE o[L[j].sid] + L[j].length <= f \/ o[ss[1]] <= o[L[j].sid]
    BY <1>5 DEF InUse
  <2>3. o[M[i].sid] \in Int /\ M[i].length \in Int
    BY <1>2
  <2>4. o[L[j].sid] + L[j].length <= f => o[M[i].sid] + M[i].length <= f
    BY <2>1, <2>3
  <2> QED
    BY <2>1, <2>2, <2>4
<1> QED
  BY <1>3, <1>4, <1>5 DEF Good

\* The segment x, of full length, after a list.
Fresh(x) == [sid |-> x, length |-> Aim, closed |-> FALSE]

\* smp_new_seg of a list.
LEMMA ListGrows ==
    ASSUME NEW L \in Seq(DiskEntries), NEW o \in [Sids -> Int], NEW p \in [Sids -> Int],
           NEW x \in Sids, RingOf(L, o), NEW f \in Nat, 1 <= f, FreeOf(L, o, f),
           NEW off \in Int, Continues(Len(L), Begins(L, o), f, off),
           \A i \in 1..Len(L) : p[L[i].sid] = o[L[i].sid], p[x] = off
    PROVE  RingOf(Append(L, Fresh(x)), p)
<1> DEFINE M == Append(L, Fresh(x))
           n == Len(L)
           C == Begins(M, p)
           D == Ends(M, p)
           A == Begins(L, o)
           B == Ends(L, o)
<1>1. Fresh(x) \in DiskEntries
  BY Sizes DEF Fresh, DiskEntries
<1>2. /\ M \in Seq(DiskEntries) /\ n \in Nat /\ Len(M) = n + 1 /\ M[n + 1] = Fresh(x)
      /\ \A i \in 1..n : M[i] = L[i]
  BY <1>1
<1>3. A \in [1..n -> Int] /\ B \in [1..n -> Int] /\ Ring(n, A, B) /\ Free(n, A, B, f)
  BY ListBounds DEF RingOf, FreeOf
<1>4. C \in [1..(n + 1) -> Int] /\ D \in [1..(n + 1) -> Int]
  BY <1>2, ListBounds
<1>5. C[n + 1] = off /\ D[n + 1] = off + Aim
  <2>1. n + 1 \in 1..Len(M)
    BY <1>2
  <2>2. C[n + 1] = p[M[n + 1].sid] /\ D[n + 1] = p[M[n + 1].sid] + M[n + 1].length
    BY <1>2, <2>1, ListBounds
  <2> QED
    BY <1>2, <2>2 DEF Fresh
<1>6. ASSUME NEW i \in 1..n PROVE C[i] = A[i] /\ D[i] = B[i]
  <2>1. i \in 1..Len(M)
    BY <1>2
  <2>2. C[i] = p[M[i].sid] /\ D[i] = p[M[i].sid] + M[i].length
    BY <1>2, <2>1, ListBounds
  <2>3. A[i] = o[L[i].sid] /\ B[i] = o[L[i].sid] + L[i].length
    BY ListBounds
  <2> QED
    BY <1>2, <2>2, <2>3
<1>7. Continues(n, A, f, off)
  OBVIOUS
<1>9. \A i \in 1..n : C[i] = A[i] /\ D[i] = B[i]
  BY <1>6
<1>10. n \in Nat
  BY <1>2
<1> HIDE DEF C, D, A, B, n
<1>8. Ring(n + 1, C, D)
  BY <1>3, <1>4, <1>5, <1>7, <1>9, <1>10, RingGrows, ZenonT(60)
<1> QED
  BY <1>2, <1>8 DEF RingOf, C, D

\* The cells of a new segment, and the lists it does not touch.
NewCells(c, n, off) == [x \in Cells |-> IF x \in off..(off + Aim - 1) THEN n ELSE c[x]]
Clear(L, o, off) ==
    \A i \in 1..Len(L) : o[L[i].sid] + L[i].length <= off \/ off + Aim <= o[L[i].sid]

\* A new segment outside a list does not harm it.
LEMMA GoodGrows ==
    ASSUME NEW L \in Seq(DiskEntries), NEW o \in [Sids -> Offsets], NEW n \in Nat,
           NEW x \in Sids, x = n + 1, NEW off \in Offsets,
           NEW p \in [Sids -> Offsets], p = [o EXCEPT ![x] = off], NEW c,
           Ascends(L, n), Clear(L, o, off), Good(L, o, c, n)
    PROVE  /\ Good(L, p, NewCells(c, x, off), x)
           /\ Good(Append(L, Fresh(x)), p, NewCells(c, x, off), x)
<1> DEFINE d == NewCells(c, x, off)
<1>1. /\ o \in [Sids -> Int] /\ Cells \in SUBSET Int /\ Sids \in SUBSET Int /\ Aim \in Int
      /\ off \in Int /\ p[x] = off /\ Len(L) \in Nat
  BY OffsetInt, Sizes DEF Cells, Sids, Offsets
<1>2. ASSUME NEW i \in 1..Len(L)
      PROVE  /\ L[i].sid \in Sids /\ L[i].length \in Int /\ o[L[i].sid] \in Int
             /\ L[i].sid # x /\ p[L[i].sid] = o[L[i].sid]
             /\ o[L[i].sid] + L[i].length <= off \/ off + Aim <= o[L[i].sid]
  <2>1. L[i] \in DiskEntries
    OBVIOUS
  <2>2. L[i].sid \in Sids /\ L[i].length \in Int
    BY <2>1, Sizes DEF DiskEntries
  <2>3. L[i].sid <= n /\ L[i].sid \in Int
    BY <1>1, <2>2 DEF Ascends
  <2> QED
    BY <1>1, <2>2, <2>3 DEF Clear
<1>3. Safe(L, p, x)
  <2> SUFFICES ASSUME NEW i \in 1..Len(L), NEW b \in Sids, L[i].sid < b /\ b <= x
               PROVE  \/ p[L[i].sid] + L[i].length <= p[b]
                      \/ p[b] + Aim <= p[L[i].sid]
    BY DEF Safe
  <2>1. CASE b = x
    BY <1>1, <1>2, <2>1
  <2>2. CASE b # x
    <3>1. b <= n /\ p[b] = o[b]
      BY <1>1, <2>2
    <3>2. \/ o[L[i].sid] + L[i].length <= o[b]
          \/ o[b] + Aim <= o[L[i].sid]
      BY <3>1 DEF Good, Safe
    <3> QED
      BY <1>2, <3>1, <3>2
  <2> QED
    BY <2>1, <2>2
<1>4. Whole(L, p, d)
  <2> SUFFICES ASSUME NEW i \in 1..Len(L), NEW y \in Cells,
                      p[L[i].sid] <= y /\ y < p[L[i].sid] + L[i].length
               PROVE  d[y] = L[i].sid
    BY DEF Whole
  <2>1. c[y] = L[i].sid
    BY <1>2 DEF Good, Whole
  <2>2. y \notin off..(off + Aim - 1)
    BY <1>1, <1>2
  <2> QED
    BY <2>1, <2>2 DEF NewCells
<1> DEFINE M == Append(L, Fresh(x))
<1> HIDE DEF d
<1>5. /\ Len(M) = Len(L) + 1 /\ M[Len(L) + 1] = Fresh(x)
      /\ \A i \in 1..Len(L) : M[i] = L[i]
  <2>1. Fresh(x) \in DiskEntries
    BY Sizes DEF Fresh, DiskEntries
  <2> QED
    BY <2>1
<1>6. \A i \in 1..Len(M) : i \in 1..Len(L) \/ M[i] = Fresh(x)
  BY <1>1, <1>5
<1>7. Fresh(x).sid = x /\ Fresh(x).length = Aim
  BY DEF Fresh
<1> HIDE DEF M
<1>8. Safe(M, p, x)
  <2> SUFFICES ASSUME NEW i \in 1..Len(M), NEW b \in Sids, M[i].sid < b /\ b <= x
               PROVE  \/ p[M[i].sid] + M[i].length <= p[b]
                      \/ p[b] + Aim <= p[M[i].sid]
    BY DEF Safe
  <2>1. x \in Int /\ b \in Int
    BY <1>1
  <2>2. i \in 1..Len(L) /\ M[i] = L[i]
    BY <1>5, <1>6, <1>7, <2>1
  <2> QED
    BY <1>3, <2>2 DEF Safe
<1>9. Whole(M, p, d)
  <2> SUFFICES ASSUME NEW i \in 1..Len(M), NEW y \in Cells,
                      p[M[i].sid] <= y /\ y < p[M[i].sid] + M[i].length
               PROVE  d[y] = M[i].sid
    BY DEF Whole
  <2>1. CASE i \in 1..Len(L)
    BY <1>4, <1>5, <2>1 DEF Whole
  <2>2. CASE M[i] = Fresh(x)
    <3>1. M[i].sid = x /\ off <= y /\ y < off + Aim
      BY <1>1, <1>7, <2>2
    <3>2. y \in off..(off + Aim - 1)
      BY <1>1, <3>1
    <3> QED
      BY <3>1, <3>2 DEF d, NewCells
  <2> QED
    BY <1>6, <2>1, <2>2
<1> QED
  BY <1>3, <1>4, <1>8, <1>9 DEF Good, d, M

\* The new segment is outside of the list it continues.
LEMMA RingClear ==
    ASSUME NEW L \in Seq(DiskEntries), NEW p \in [Sids -> Int], NEW x \in Sids,
           RingOf(Append(L, Fresh(x)), p)
    PROVE  Clear(L, p, p[x])
<1> DEFINE M == Append(L, Fresh(x))
           n == Len(L)
<1>1. Fresh(x) \in DiskEntries /\ Fresh(x).sid = x /\ Fresh(x).length = Aim
  BY Sizes DEF Fresh, DiskEntries
<1>2. /\ M \in Seq(DiskEntries) /\ n \in Nat /\ Len(M) = n + 1 /\ M[n + 1] = Fresh(x)
      /\ \A i \in 1..n : M[i] = L[i]
  BY <1>1
<1> HIDE DEF M, n
<1>3. ASSUME NEW i \in 1..n
      PROVE  p[L[i].sid] + L[i].length <= p[x] \/ p[x] + Aim <= p[L[i].sid]
  <2>1. i \in 1..Len(M) /\ n + 1 \in 1..Len(M) /\ i # n + 1
    BY <1>2
  <2>2. \/ Ends(M, p)[i] <= Begins(M, p)[n + 1]
        \/ Ends(M, p)[n + 1] <= Begins(M, p)[i]
    BY <2>1 DEF RingOf, Ring, Apart, M
  <2>3. /\ Begins(M, p)[i] = p[M[i].sid] /\ Ends(M, p)[i] = p[M[i].sid] + M[i].length
        /\ Begins(M, p)[n + 1] = p[M[n + 1].sid]
        /\ Ends(M, p)[n + 1] = p[M[n + 1].sid] + M[n + 1].length
    BY <1>2, <2>1, ListBounds
  <2> QED
    BY <1>1, <1>2, <2>2, <2>3
<1> QED
  BY <1>3 DEF Clear, n

\* A list lies between the beginning of its first and the end of its last.
LEMMA RingArc ==
    ASSUME NEW M \in Seq(DiskEntries), NEW p \in [Sids -> Int], RingOf(M, p), M # <<>>,
           NEW ss, Len(ss) = Len(M), ss[1] = M[1].sid,
           NEW f, f = p[M[Len(M)].sid] + M[Len(M)].length
    PROVE  InUse(M, p, ss, f)
<1> DEFINE n == Len(M)
           a == Begins(M, p)
           b == Ends(M, p)
<1>1. /\ n \in Nat /\ 1 \in 1..n /\ n \in 1..n
      /\ a \in [1..n -> Int] /\ b \in [1..n -> Int]
  BY ListBounds
<1>2. \A i \in 1..n : a[i] = p[M[i].sid] /\ b[i] = p[M[i].sid] + M[i].length
  BY ListBounds
<1>3. Ring(n, a, b)
  BY DEF RingOf
<1>4. f = b[n] /\ p[ss[1]] = a[1]
  BY <1>1, <1>2
<1> HIDE DEF n, a, b
<1>5. ASSUME NEW i \in 1..n
      PROVE  IF n < 2 THEN b[i] <= b[n]
             ELSE IF a[1] < b[n] THEN a[1] <= a[i] /\ b[i] <= b[n]
             ELSE b[i] <= b[n] \/ a[1] <= a[i]
  <2> DEFINE u == a[1]  v == b[1]  x == a[i]  y == b[i]  w == a[n]  z == b[n]
  <2>0. Aim \in Int /\ End \in Int
    BY Sizes
  <2>1. /\ u \in Int /\ v \in Int /\ x \in Int /\ y \in Int /\ w \in Int /\ z \in Int
        /\ u < v /\ x < y /\ w < z
    BY <1>1, <1>3, <2>0 DEF Ring, Laid
  <2>2. /\ i # n => (y <= w \/ z <= x)
        /\ i # 1 => (v <= x \/ y <= u)
        /\ n # 1 => (v <= w \/ z <= u)
    BY <1>1, <1>3 DEF Ring, Apart
  <2>3. i # 1 /\ i # n => /\ w < x => u < x /\ w < u
                          /\ x < u => x < w /\ w < u
    BY <1>1, <1>3 DEF Ring, Turns
  <2>4. (i = 1 => x = u /\ y = v) /\ (i = n => x = w /\ y = z) /\ (n = 1 => u = w /\ v = z)
    BY <1>1
  <2>5. n < 2 => i = n
    BY <1>1
  <2> HIDE DEF u, v, x, y, w, z
  <2>6. IF n < 2 THEN y <= z
        ELSE IF u < z THEN u <= x /\ y <= z
        ELSE y <= z \/ u <= x
    BY <1>1, <2>1, <2>2, <2>3, <2>4, <2>5
  <2> QED
    BY <2>6 DEF u, v, x, y, w, z
<1>6. Len(ss) = n /\ Len(M) = n
  BY DEF n
<1> QED
  BY <1>2, <1>4, <1>5, <1>6 DEF InUse

\* The segments that are left when the first m - 1 are removed.
Left(ss, m) == SubSeq(ss, m, Len(ss))

\* Its elements are those of ss from m on.
LEMMA LeftFacts ==
    ASSUME NEW ss \in Seq(Sids), NEW m \in 1..(Len(ss) + 1)
    PROVE  /\ Left(ss, m) \in Seq(Sids) /\ Len(ss) \in Nat
           /\ Len(Left(ss, m)) = Len(ss) - (m - 1)
           /\ \A i \in 1..Len(Left(ss, m)) : /\ i + (m - 1) \in 1..Len(ss)
                                             /\ Left(ss, m)[i] = ss[i + (m - 1)]
           /\ \A j \in m..Len(ss) : \E i \in 1..Len(Left(ss, m)) : Left(ss, m)[i] = ss[j]
<1>1. /\ Left(ss, m) \in Seq(Sids) /\ Len(Left(ss, m)) = Len(ss) - (m - 1)
      /\ \A i \in 1..(Len(ss) - (m - 1)) : Left(ss, m)[i] = ss[i + (m - 1)]
      /\ Len(ss) \in Nat
  BY Suffix DEF Left
<1>2. \A i \in 1..Len(Left(ss, m)) : i + (m - 1) \in 1..Len(ss)
  BY <1>1
<1>3. ASSUME NEW j \in m..Len(ss)
      PROVE  \E i \in 1..Len(Left(ss, m)) : Left(ss, m)[i] = ss[j]
  <2>1. j - (m - 1) \in 1..Len(Left(ss, m)) /\ (j - (m - 1)) + (m - 1) = j
    BY <1>1
  <2> QED
    BY <1>1, <2>1
<1> QED
  BY <1>1, <1>2, <1>3

\* If c is in the list it is the last entry, and only that.
IsLast(c, ss) == \A i \in 1..Len(ss) : ss[i] = c => i = Len(ss)

\* Only empty segments at the front are removed, and never the current one.
LEMMA FrontGone ==
    ASSUME NEW ss \in Seq(Sids), NEW s \in [Sids -> SegRecs], NEW c \in Nat,
           IsLast(c, ss)
    PROVE  \E m \in 1..(Len(ss) + 1) :
              /\ WithoutEmpty(ss, c, s) = Left(ss, m)
              /\ \A i \in 1..(m - 1) : ~(s[ss[i]].nobj > 0)
              /\ \A i \in 1..Len(ss) : ss[i] = c => m <= Len(ss)
<1> DEFINE full == {i \in DOMAIN ss : s[ss[i]].nobj > 0}
           k == IF full = {} THEN Len(ss) + 1 ELSE Min(full)
           front == SubSeq(ss, 1, k - 1)
           rest == SubSeq(ss, k, Len(ss))
           head == IF Contains(front, c) THEN <<c>> ELSE <<>>
<1>1. Len(ss) \in Nat /\ DOMAIN ss = 1..Len(ss) /\ \A i \in 1..Len(ss) : ss[i] \in Sids
  OBVIOUS
<1>8. full \in SUBSET Nat /\ full \in SUBSET (1..Len(ss))
  BY <1>1
<1>9. \A i \in 1..Len(ss) : i \notin full => ~(s[ss[i]].nobj > 0)
  BY <1>1
<1> HIDE DEF full
<1>2. k \in 1..(Len(ss) + 1) /\ \A i \in full : k <= i
  <2>1. CASE full = {}
    BY <1>1, <2>1
  <2>2. CASE full # {}
    <3>2. \E m \in full : \A i \in full : m <= i
      BY <1>8, <2>2, LeastNat
    <3>4. Min(full) \in full /\ \A i \in full : Min(full) <= i
      BY <3>2 DEF Min
    <3>3. k \in full /\ \A i \in full : k <= i
      BY <2>2, <3>4
    <3> HIDE DEF k
    <3>5. k \in Nat /\ k \in 1..Len(ss)
      BY <1>8, <3>3
    <3> QED
      BY <1>1, <3>3, <3>5
  <2> QED
    BY <2>1, <2>2
<1>3. WithoutEmpty(ss, c, s) = head \o rest
  BY DEF WithoutEmpty, full
<1> HIDE DEF k
<1>4. /\ front \in Seq(Sids) /\ Len(front) = k - 1
      /\ \A i \in 1..(k - 1) : front[i] = ss[i]
  <2>1. 1 \in Int /\ k - 1 \in Int /\ \A i \in 1..(k - 1) : ss[i] \in Sids
    BY <1>1, <1>2
  <2>2. PICK q \in Int : q = k - 1
    BY <2>1
  <2>3. /\ SubSeq(ss, 1, q) \in Seq(Sids)
        /\ Len(SubSeq(ss, 1, q)) = IF 1 <= q THEN q - 1 + 1 ELSE 0
        /\ \A i \in 1..(q - 1 + 1) : SubSeq(ss, 1, q)[i] = ss[1 + i - 1]
    BY <1>1, <2>1, <2>2, SubSeqProperties
  <2>4. \A i \in 1..q : SubSeq(ss, 1, q)[i] = ss[i]
    BY <2>3
  <2> QED
    BY <1>1, <1>2, <2>2, <2>3, <2>4
<1>5. \A i \in 1..(k - 1) : i \in 1..Len(ss) /\ ~(s[ss[i]].nobj > 0)
  <2>1. \A i \in 1..(k - 1) : i \in 1..Len(ss) /\ i \notin full
    BY <1>1, <1>2
  <2> QED
    BY <1>9, <2>1
<1> HIDE DEF front, rest, head
<1>6. CASE Contains(front, c)
  <2>1. PICK i \in 1..(k - 1) : ss[i] = c
    BY <1>4, <1>6 DEF Contains
  <2>10. i = Len(ss)
    BY <1>5, <2>1 DEF IsLast
  <2>2. i = Len(ss) /\ k = Len(ss) + 1 /\ 1 <= Len(ss)
    BY <1>1, <1>2, <2>1, <2>10
  <2>3. rest = <<>>
    <3>1. rest \in Seq(Sids) /\ Len(rest) = Len(ss) - (k - 1)
      BY <1>2, Suffix DEF rest
    <3>2. Len(rest) = 0
      BY <1>1, <2>2, <3>1
    <3> QED
      BY <3>1, <3>2
  <2>4. /\ Left(ss, Len(ss)) \in Seq(Sids) /\ Len(Left(ss, Len(ss))) = Len(ss) - (Len(ss) - 1)
        /\ \A j \in 1..(Len(ss) - (Len(ss) - 1)) : Left(ss, Len(ss))[j] = ss[j + (Len(ss) - 1)]
    <3>1. Len(ss) \in 1..(Len(ss) + 1)
      BY <1>1, <2>2
    <3> QED
      BY <3>1, Suffix DEF Left
  <2>8. Len(Left(ss, Len(ss))) = 1 /\ Left(ss, Len(ss))[1] = c
    BY <1>1, <2>1, <2>2, <2>4
  <2>5. Left(ss, Len(ss)) = <<c>>
    BY <2>4, <2>8
  <2>6. WithoutEmpty(ss, c, s) = Left(ss, Len(ss))
    <3>1. head = <<c>> /\ <<c>> \o <<>> = <<c>>
      BY <1>6 DEF head
    <3> QED
      BY <1>3, <2>3, <2>5, <3>1
  <2>7. \A j \in 1..(Len(ss) - 1) : ~(s[ss[j]].nobj > 0)
    BY <1>1, <1>5, <2>2
  <2>9. Len(ss) \in 1..(Len(ss) + 1)
    BY <1>1, <2>2
  <2> QED
    BY <1>1, <2>6, <2>7, <2>9
<1>7. CASE ~Contains(front, c)
  <2>1. rest \in Seq(Sids)
    BY <1>2, Suffix DEF rest
  <2>5. <<>> \o rest = rest /\ head = <<>>
    BY <1>7, <2>1 DEF head
  <2>2. WithoutEmpty(ss, c, s) = Left(ss, k)
    BY <1>3, <2>5 DEF Left, rest
  <2>3. ASSUME NEW i \in 1..Len(ss), ss[i] = c PROVE k <= Len(ss)
    <3>1. i = Len(ss)
      BY <2>3 DEF IsLast
    <3>2. i \notin 1..(k - 1)
      BY <1>4, <1>7, <2>3 DEF Contains
    <3> QED
      BY <1>1, <1>2, <3>1, <3>2
  <2> QED
    BY <1>2, <1>5, <2>2, <2>3
<1> QED
  BY <1>6, <1>7

\* The same of what is kept.
LEMMA KeptListSame ==
    ASSUME NEW L \in Seq(DiskEntries), NEW o \in [Sids -> Offsets],
           NEW p \in [Sids -> Offsets], \A j \in 1..Len(L) : p[L[j].sid] = o[L[j].sid]
    PROVE  KeptList(L, p) = KeptList(L, o)
<1>1. L # <<>> => KeptOf(L, p) = KeptOf(L, o)
  BY KeptSame
<1> QED
  BY <1>1 DEF KeptList

-----------------------------------------------------------------------------
(***************************************************************************)
(* Steps                                                                   *)
(***************************************************************************)

\* What a save writes.
LEMMA NowIs ==
    ASSUME TypeOK
    PROVE  SegPtrs = Now /\ Signed = [sig |-> TRUE, list |-> Now]
<1>1. DOMAIN segs = 1..Len(segs)
  BY DEF TypeOK
<1> QED
  BY <1>1 DEF SegPtrs, Now, Ptrs, Signed

\* Types of what the invariant is made of.
LEMMA NowFacts ==
    ASSUME TypeOK
    PROVE  /\ Now \in Seq(DiskEntries) /\ Len(Now) = Len(segs) /\ Len(segs) \in Nat
           /\ Offs \in [Sids -> Offsets] /\ Offs \in [Sids -> Int]
           /\ \A s \in Sids : Offs[s] = sg[s].offset
           /\ \A i \in 1..Len(segs) : /\ segs[i] \in Sids /\ Now[i].sid = segs[i]
                                      /\ Now[i].length = sg[segs[i]].length
                                      /\ Now[i] = [sid |-> segs[i], length |-> sg[segs[i]].length,
                                                   closed |-> sg[segs[i]].closed]
<1>1. segs \in Seq(Sids) /\ sg \in [Sids -> SegRecs]
  BY DEF TypeOK
<1>2. Offs \in [Sids -> Offsets] /\ \A s \in Sids : Offs[s] = sg[s].offset
  BY <1>1, OffsFacts DEF Offs
<1>3. Offs \in [Sids -> Int]
  BY <1>2, OffsetInt
<1> QED
  BY <1>1, <1>2, <1>3, PtrsFacts DEF Now

\* The parts of the invariant that are about the lists and the space.
Struct == OrderInv /\ CurInv /\ RingInv /\ GoodInv /\ UseInv /\ SigInv

\* Where every segment has the place it had.
SameShape ==
    /\ sg' \in [Sids -> SegRecs]
    /\ \A s \in Sids : /\ sg'[s].offset = sg[s].offset /\ sg'[s].length = sg[s].length
                       /\ sg'[s].closed = sg[s].closed

\* Nothing else matters to the lists and the space.
LEMMA QuietStep ==
    ASSUME TypeOK, Struct, SameShape,
           UNCHANGED <<proc, nsid, segs, cur, free_offset, cell, seg1, seg2, save, torn, abut>>
    PROVE  Struct'
<1>1. segs \in Seq(Sids) /\ sg \in [Sids -> SegRecs] /\ cur \in 0..MaxSid /\ MaxSid \in Nat
  BY Sizes DEF TypeOK
<1>2. Now' = Now
  <2>1. \A i \in 1..Len(segs) : segs[i] \in Sids
    BY <1>1
  <2> QED
    BY <2>1 DEF Now, Ptrs, SameShape
<1>3. Offs' = Offs
  BY DEF Offs, OffsOf, SameShape
<1>4. OrderInv'
  BY <1>2 DEF Struct, OrderInv
<1>5. CurInv'
  <2>1. cur # 0 => cur \in Sids
    BY <1>1 DEF Sids
  <2>2. cur # 0 => sg'[cur].length = sg[cur].length /\ sg'[cur].offset = sg[cur].offset
    BY <2>1 DEF SameShape
  <2> QED
    BY <1>2, <2>2 DEF Struct, CurInv
<1>6. RingInv'
  BY <1>2, <1>3 DEF Struct, RingInv
<1>7. GoodInv'
  BY <1>2, <1>3 DEF Struct, GoodInv
<1>8. UseInv'
  BY <1>3 DEF Struct, UseInv
<1>9. SigInv'
  BY DEF Struct, SigInv
<1> QED
  BY <1>4, <1>5, <1>6, <1>7, <1>8, <1>9 DEF Struct

\* The new segment in the lists and in the space.
LEMMA NewSegStep ==
    ASSUME TypeOK, NEW fo \in Nat, 1 <= fo, NEW ss \in Seq(Sids),
           NEW s \in [Sids -> SegRecs], OffsOf(s) = Offs, Fits(fo, ss),
           smp_new_seg(fo, ss, s), Ascends(Ptrs(ss, s), nsid)
    PROVE  /\ nsid \in Nat /\ nsid' = nsid + 1 /\ nsid' \in Sids
           /\ segs' = Append(ss, nsid') /\ segs' \in Seq(Sids)
           /\ cur' = nsid' /\ free_offset' = Offset(fo) + Aim
           /\ sg' = [s EXCEPT ![nsid'] = NewSeg(Offset(fo))] /\ sg' \in [Sids -> SegRecs]
           /\ cell' = NewCells(cell, nsid', Offset(fo))
           /\ cell' \in [Cells -> 0..MaxSid] /\ abut' \in BOOLEAN
           /\ Offset(fo) \in Offsets
           /\ Now' = Append(Ptrs(ss, s), Fresh(nsid'))
           /\ Offs' = [Offs EXCEPT ![nsid'] = Offset(fo)]
           /\ Offs' \in [Sids -> Offsets]
           /\ Ascends(Now', nsid')
           /\ ~abut' => ~abut
           /\ \A i \in 1..Len(ss) : ss[i] # nsid' /\ sg'[ss[i]] = s[ss[i]]
           /\ (~abut' /\ RingOf(Ptrs(ss, s), Offs) /\ FreeOf(Ptrs(ss, s), Offs, fo))
                 => RingOf(Now', Offs') /\ Clear(Ptrs(ss, s), Offs, Offset(fo))
<1> DEFINE off == Offset(fo)
           x == nsid + 1
           L == Ptrs(ss, s)
<1>1. /\ x \in Sids /\ nsid' = x /\ segs' = Append(ss, x) /\ cur' = x
      /\ free_offset' = off + Aim /\ sg' = [s EXCEPT ![x] = NewSeg(off)]
      /\ abut' = (abut \/ (ss # <<>> /\ sg[ss[1]].offset = off))
      /\ cell' = NewCells(cell, x, off)
  BY DEF smp_new_seg, NewCells
<1>2. /\ nsid \in Nat /\ abut \in BOOLEAN /\ cell \in [Cells -> 0..MaxSid]
      /\ sg \in [Sids -> SegRecs]
  BY Sizes DEF TypeOK
<1>3. off \in Offsets
  BY Sizes DEF Fits, Offset, Wraps, Offsets
<1>4. NewSeg(off) \in SegRecs
  BY <1>3, Sizes DEF NewSeg, SegRecs, Offsets, Flags
<1>5. sg' \in [Sids -> SegRecs] /\ segs' \in Seq(Sids)
  BY <1>1, <1>4
<1>6. cell' \in [Cells -> 0..MaxSid]
  BY <1>1, <1>2, Sizes DEF NewCells, Sids
<1>7. /\ L \in Seq(DiskEntries) /\ Len(L) = Len(ss) /\ Len(ss) \in Nat
      /\ \A i \in 1..Len(ss) : ss[i] \in Sids /\ L[i].sid = ss[i]
  BY PtrsFacts
<1>16. \A i \in 1..Len(ss) : L[i] = [sid |-> ss[i], length |-> s[ss[i]].length,
                                     closed |-> s[ss[i]].closed]
  BY PtrsFacts
<1>17. Ascends(L, nsid)
  OBVIOUS
<1>8. \A i \in 1..Len(ss) : ss[i] # x /\ sg'[ss[i]] = s[ss[i]]
  <2> HIDE DEF L
  <2>1. ASSUME NEW i \in 1..Len(ss) PROVE ss[i] <= nsid /\ ss[i] \in Int
    <3>1. L[i].sid <= nsid
      BY <1>7, <1>17 DEF Ascends
    <3>2. L[i].sid = ss[i] /\ ss[i] \in Sids
      BY <1>7
    <3> QED
      BY <3>1, <3>2, Sizes DEF Sids
  <2>2. \A i \in 1..Len(ss) : ss[i] # x
    BY <1>2, <2>1
  <2> QED
    BY <1>1, <1>7, <2>2
<1>9. Offs \in [Sids -> Offsets] /\ Offs \in [Sids -> Int] /\ \A y \in Sids : Offs[y] = sg[y].offset
  BY NowFacts
<1>10. Offs' = [Offs EXCEPT ![x] = off] /\ Offs' \in [Sids -> Offsets]
  <2>1. \A y \in Sids : sg'[y].offset = IF y = x THEN off ELSE s[y].offset
    BY <1>1, <1>4 DEF NewSeg
  <2>2. \A y \in Sids : s[y].offset = Offs[y]
    BY OffsFacts
  <2>3. Offs' = [y \in Sids |-> IF y = x THEN off ELSE Offs[y]]
    BY <2>1, <2>2 DEF Offs, OffsOf
  <2> HIDE DEF off, x
  <2>4. [y \in Sids |-> IF y = x THEN off ELSE Offs[y]] = [Offs EXCEPT ![x] = off]
    BY <1>9, <1>1
  <2>5. [y \in Sids |-> IF y = x THEN off ELSE Offs[y]] \in [Sids -> Offsets]
    BY <1>3, <1>9
  <2> QED
    BY <2>3, <2>4, <2>5
<1> HIDE DEF off, x, L
<1>11. Fresh(x) \in DiskEntries /\ Fresh(x).sid = x
  BY <1>1, Sizes DEF Fresh, DiskEntries
<1>12. Now' = Append(L, Fresh(x))
  <2>1. Len(segs') = Len(ss) + 1 /\ segs'[Len(ss) + 1] = x /\ \A i \in 1..Len(ss) : segs'[i] = ss[i]
    BY <1>1, <1>7
  <2>2. Now' = Ptrs(segs', sg')
    BY DEF Now
  <2>3. /\ Ptrs(segs', sg') \in Seq(DiskEntries) /\ Len(Ptrs(segs', sg')) = Len(segs')
        /\ \A i \in 1..Len(segs') :
              Ptrs(segs', sg')[i] = [sid |-> segs'[i], length |-> sg'[segs'[i]].length,
                                     closed |-> sg'[segs'[i]].closed]
    BY <1>5, PtrsFacts
  <2>4. sg'[x] = NewSeg(off)
    BY <1>1
  <2>5. sg'[x].length = Aim /\ sg'[x].closed = FALSE
    BY <2>4 DEF NewSeg
  <2>6. Ptrs(segs', sg')[Len(ss) + 1] = Fresh(x)
    <3>1. Len(ss) + 1 \in 1..Len(segs')
      BY <1>7, <2>1
    <3>2. Ptrs(segs', sg')[Len(ss) + 1]
            = [sid |-> segs'[Len(ss) + 1], length |-> sg'[segs'[Len(ss) + 1]].length,
               closed |-> sg'[segs'[Len(ss) + 1]].closed]
      BY <2>3, <3>1
    <3> QED
      BY <2>1, <2>5, <3>2 DEF Fresh
  <2>7. \A i \in 1..Len(ss) : Ptrs(segs', sg')[i] = L[i]
    BY <1>7, <1>8, <1>16, <2>1, <2>3
  <2> DEFINE M == Ptrs(segs', sg')
             N == Append(L, Fresh(x))
  <2>8. /\ N \in Seq(DiskEntries) /\ Len(N) = Len(ss) + 1 /\ N[Len(ss) + 1] = Fresh(x)
        /\ \A i \in 1..Len(ss) : N[i] = L[i]
    BY <1>7, <1>11
  <2>9. M \in Seq(DiskEntries) /\ Len(M) = Len(N) /\ \A i \in 1..Len(N) : M[i] = N[i]
    <3> HIDE DEF M, N
    <3>1. \A i \in 1..Len(N) : i \in 1..Len(ss) \/ i = Len(ss) + 1
      BY <1>7, <2>8
    <3>2. M \in Seq(DiskEntries) /\ Len(M) = Len(ss) + 1 /\ M[Len(ss) + 1] = Fresh(x)
          /\ \A i \in 1..Len(ss) : M[i] = L[i]
      BY <2>1, <2>3, <2>6, <2>7 DEF M
    <3> QED
      BY <2>8, <3>1, <3>2
  <2> HIDE DEF M, N
  <2>10. M = N
    BY <2>8, <2>9
  <2> QED
    BY <2>2, <2>10 DEF M, N
<1>13. Ascends(Now', x)
  <2>1. /\ Now' \in Seq(DiskEntries) /\ Len(Now') = Len(L) + 1
        /\ Now'[Len(L) + 1].sid = x /\ \A i \in 1..Len(L) : Now'[i] = L[i]
    BY <1>7, <1>11, <1>12
  <2>2. \A i \in 1..Len(L) : L[i].sid <= nsid /\ L[i].sid \in Int
    BY <1>7, <1>17, Sizes DEF Ascends, Sids
  <2>3. ASSUME NEW i \in 1..Len(L) PROVE Now'[i].sid < x /\ Now'[i].sid <= x
    <3>1. PICK k \in Int : k = L[i].sid /\ k <= nsid
      BY <2>2
    <3>2. Now'[i].sid = k
      BY <2>1, <3>1
    <3>3. k < x /\ k <= x
      BY <1>2, <3>1 DEF x
    <3> QED
      BY <3>2, <3>3
  <2>4. \A i \in 1..(Len(L) + 1) : i \in 1..Len(L) \/ i = Len(L) + 1
    BY <1>7
  <2>5. ASSUME NEW i \in 1..(Len(L) + 1) PROVE Now'[i].sid <= x
    BY <1>2, <2>1, <2>3, <2>4 DEF x
  <2>6. ASSUME NEW i \in 1..(Len(L) + 1), NEW j \in 1..(Len(L) + 1), i < j
        PROVE  Now'[i].sid < Now'[j].sid
    <3>1. i \in 1..Len(L)
      BY <1>7, <2>6
    <3>2. CASE j \in 1..Len(L)
      BY <1>17, <2>1, <2>6, <3>1, <3>2 DEF Ascends
    <3>3. CASE j = Len(L) + 1
      BY <2>1, <2>3, <3>1, <3>3
    <3> QED
      BY <2>4, <3>2, <3>3
  <2> QED
    BY <2>1, <2>5, <2>6 DEF Ascends
<1>14. abut' \in BOOLEAN /\ (~abut' => ~abut)
  BY <1>1, <1>2
<1>15. ASSUME ~abut', RingOf(L, Offs), FreeOf(L, Offs, fo)
       PROVE  RingOf(Now', Offs') /\ Clear(L, Offs, off)
  <2>1. Continues(Len(L), Begins(L, Offs), fo, off)
    <3>1. Len(L) # 0 => ss # <<>> /\ 1 \in 1..Len(L)
      BY <1>7
    <3>2. ss # <<>> => Len(L) # 0
      BY <1>7
    <3>3. Len(L) # 0 => Begins(L, Offs)[1] = sg[ss[1]].offset
      <4> SUFFICES ASSUME Len(L) # 0 PROVE Begins(L, Offs)[1] = sg[ss[1]].offset
        OBVIOUS
      <4>1. 1 \in 1..Len(L) /\ 1 \in 1..Len(ss)
        BY <1>7, <3>1
      <4>2. Begins(L, Offs)[1] = Offs[L[1].sid]
        BY <1>7, <1>9, <4>1, ListBounds
      <4>3. L[1].sid = ss[1] /\ ss[1] \in Sids
        BY <1>7, <4>1
      <4> QED
        BY <1>9, <4>2, <4>3
    <3>4. ss # <<>> => sg[ss[1]].offset # off
      BY <1>1, <1>15
    <3> QED
      BY <3>1, <3>2, <3>3, <3>4 DEF Continues, Fits, off
  <2>2. off \in Int /\ Offs'[x] = off
    BY <1>1, <1>3, <1>9, <1>10, Sizes DEF Offsets
  <2>3. ASSUME NEW i \in 1..Len(L)
        PROVE Offs'[L[i].sid] = Offs[L[i].sid]
    <3>2. i \in 1..Len(ss)
      BY <1>7
    <3>1. L[i].sid \in Sids /\ L[i].sid # x
      BY <1>7, <1>8, <3>2
    <3> QED
      BY <1>9, <1>10, <3>1
  <2>7. Offs' \in [Sids -> Int]
    BY <1>10, OffsetInt
  <2>4. RingOf(Append(L, Fresh(x)), Offs')
    <3>1. \A i \in 1..Len(L) : Offs'[L[i].sid] = Offs[L[i].sid]
      BY <2>3
    <3>2. L \in Seq(DiskEntries) /\ x \in Sids /\ Offs \in [Sids -> Int]
      BY <1>1, <1>7, <1>9
    <3> QED
      BY <1>15, <2>1, <2>2, <2>7, <3>1, <3>2, ListGrows
  <2>5. Clear(L, Offs', off)
    BY <1>1, <1>7, <2>2, <2>4, <2>7, RingClear
  <2>6. Clear(L, Offs, off)
    BY <2>3, <2>5 DEF Clear
  <2> QED
    BY <1>12, <2>4, <2>6
<1> QED
  BY <1>1, <1>2, <1>3, <1>5, <1>6, <1>8, <1>10, <1>12, <1>13, <1>14, <1>15 DEF off, x, L

\* Only the offset of x differs.
SameBut(p, o, x) == \A y \in Sids : y # x => p[y] = o[y]

\* A list that was there before the segment x is not affected by it.
LEMMA OtherList ==
    ASSUME NEW M \in Seq(DiskEntries), NEW o \in [Sids -> Offsets], NEW p \in [Sids -> Offsets],
           NEW n \in Nat, NEW x \in Sids, x = n + 1,
           SameBut(p, o, x), Ascends(M, n)
    PROVE  /\ Ascends(M, x)
           /\ \A i \in 1..Len(M) : p[M[i].sid] = o[M[i].sid]
           /\ RingOf(M, o) => RingOf(M, p)
           /\ KeptList(M, p) = KeptList(M, o)
           /\ Ascends(KeptList(M, o), n)
<1>1. \A i \in 1..Len(M) : M[i].sid \in Sids /\ M[i].sid \in Int /\ M[i].sid <= n
  <2>1. \A i \in 1..Len(M) : M[i] \in DiskEntries
    OBVIOUS
  <2> QED
    BY <2>1, Sizes DEF Ascends, DiskEntries, Sids
<1>2. \A i \in 1..Len(M) : M[i].sid # x /\ M[i].sid <= x
  BY <1>1
<1>3. Ascends(M, x)
  BY <1>2 DEF Ascends
<1>4. \A i \in 1..Len(M) : p[M[i].sid] = o[M[i].sid]
  BY <1>1, <1>2 DEF SameBut
<1>5. o \in [Sids -> Int] /\ p \in [Sids -> Int]
  BY OffsetInt
<1>6. RingOf(M, o) => RingOf(M, p)
  <2>1. Begins(M, p) = Begins(M, o) /\ Ends(M, p) = Ends(M, o)
    BY <1>4 DEF Begins, Ends
  <2> QED
    BY <2>1 DEF RingOf
<1>7. KeptList(M, p) = KeptList(M, o)
  BY <1>4, KeptListSame
<1>8. Ascends(KeptList(M, o), n)
  <2>1. KeptList(M, o) \in Seq(DiskEntries) /\ IsEnd(KeptList(M, o), M)
    BY KeptEnd
  <2>2. PICK m \in Nat : /\ m + Len(KeptList(M, o)) = Len(M)
                         /\ \A i \in 1..Len(KeptList(M, o)) : KeptList(M, o)[i] = M[i + m]
    BY <2>1 DEF IsEnd
  <2>3. m + Len(KeptList(M, o)) <= Len(M)
    BY <2>1, <2>2
  <2> QED
    BY <1>5, <2>1, <2>2, <2>3, ListSub
<1> QED
  BY <1>3, <1>4, <1>6, <1>7, <1>8

\* What is in use is not where the new segment goes, and is in use after it.
LEMMA UseNext ==
    ASSUME NEW K \in Seq(DiskEntries), NEW o \in [Sids -> Offsets], NEW p \in [Sids -> Offsets],
           NEW ss \in Seq(Sids), NEW tt \in Seq(Sids), NEW f \in Nat, 1 <= f,
           InUse(K, o, ss, f), ss # <<>>, Len(tt) = Len(ss),
           NEW off \in Offsets, off = Offset(f),
           Wraps(f) => Len(ss) >= 2,
           Len(ss) >= 2 => /\ tt[1] = ss[1] /\ p[ss[1]] = o[ss[1]] /\ o[ss[1]] # off
                           /\ Wraps(f) \/ o[ss[1]] > off => off + Aim <= o[ss[1]],
           \A i \in 1..Len(K) : p[K[i].sid] = o[K[i].sid]
    PROVE  Clear(K, o, off) /\ InUse(K, p, tt, off + Aim)
<1>1. /\ Aim \in Nat /\ 1 <= Aim /\ End \in Nat /\ off \in Int
      /\ Len(ss) \in Nat /\ 1 \in 1..Len(ss) /\ ss[1] \in Sids
  BY Sizes DEF Offsets
<1>2. o[ss[1]] \in Int /\ o[ss[1]] + Aim <= End /\ 1 <= o[ss[1]]
  BY <1>1, OffsetInt
<1>3. \/ off = f /\ ~(f + Aim > End)
      \/ off = 1 /\ f + Aim > End /\ Len(ss) >= 2
  BY DEF Offset, Wraps
<1>4. ASSUME NEW i \in 1..Len(K)
      PROVE  /\ o[K[i].sid] + K[i].length <= off \/ off + Aim <= o[K[i].sid]
             /\ IF Len(tt) < 2 THEN p[K[i].sid] + K[i].length <= off + Aim
                ELSE IF p[tt[1]] < off + Aim
                THEN p[tt[1]] <= p[K[i].sid] /\ p[K[i].sid] + K[i].length <= off + Aim
                ELSE p[K[i].sid] + K[i].length <= off + Aim \/ p[tt[1]] <= p[K[i].sid]
  <2> DEFINE b == o[K[i].sid]  l == K[i].length  h == o[ss[1]]
  <2>1. K[i] \in DiskEntries
    OBVIOUS
  <2>2. K[i].sid \in Sids /\ K[i].length \in Int
    BY <2>1, Sizes DEF DiskEntries
  <2>3. b \in Int /\ l \in Int /\ p[K[i].sid] = b
    BY <2>2, OffsetInt
  <2>4. IF Len(ss) < 2 THEN b + l <= f
        ELSE IF h < f THEN h <= b /\ b + l <= f
        ELSE b + l <= f \/ h <= b
    BY DEF InUse
  <2>5. Len(ss) >= 2 => h # off /\ p[tt[1]] = h /\ (h > off \/ f + Aim > End => off + Aim <= h)
    BY DEF Wraps
  <2>6. h \in Int /\ h + Aim <= End /\ 1 <= h
    BY <1>2
  <2> HIDE DEF b, l, h
  <2>7. /\ b + l <= off \/ off + Aim <= b
        /\ Len(ss) < 2 => b + l <= off + Aim
        /\ ~(Len(ss) < 2) /\ h < off + Aim => h <= b /\ b + l <= off + Aim
        /\ ~(Len(ss) < 2) /\ ~(h < off + Aim) => b + l <= off + Aim \/ h <= b
    BY <1>1, <1>3, <2>3, <2>4, <2>5, <2>6
  <2>8. ~(Len(ss) < 2) => p[tt[1]] = h
    BY <1>1, <2>5
  <2> QED
    BY <2>3, <2>7, <2>8 DEF b, l
<1> QED
  BY <1>4 DEF Clear, InUse

\* A list on disk, where the next segment is to begin at off.
DiskList(M) ==
    /\ M \in Seq(DiskEntries) /\ Ascends(M, nsid)
    /\ ~abut => RingOf(M, Offs)
KeepsOff(M, off) ==
    /\ Good(KeptList(M, Offs), Offs, cell, nsid)
    /\ Clear(KeptList(M, Offs), Offs, off)

\* A new segment leaves the lists and the space as they should be, where what
\* the next child would keep is elsewhere.
LEMMA NewSegStruct ==
    ASSUME TypeOK, NEW fo \in Nat, 1 <= fo, NEW ss \in Seq(Sids),
           NEW s \in [Sids -> SegRecs], OffsOf(s) = Offs, Fits(fo, ss),
           smp_new_seg(fo, ss, s), Ascends(Ptrs(ss, s), nsid),
           ~abut' => RingOf(Ptrs(ss, s), Offs) /\ FreeOf(Ptrs(ss, s), Offs, fo),
           ~abut' /\ torn' # "stale" => Good(Ptrs(ss, s), Offs, cell, nsid),
           DiskList(seg1'.list), DiskList(seg2'.list), SigInv',
           proc' = "up", save'.pc = 0,
           ~abut' /\ torn' = "no" =>
               /\ KeepsOff(seg1'.list, Offset(fo)) /\ KeepsOff(seg2'.list, Offset(fo))
               /\ InUse(KeptList(seg1'.list, Offs), Offs', segs', free_offset')
               /\ InUse(KeptList(seg2'.list, Offs), Offs', segs', free_offset')
    PROVE  Struct'
<1> DEFINE off == Offset(fo)
           L == Ptrs(ss, s)
           x == nsid'
<1>1. /\ nsid \in Nat /\ x = nsid + 1 /\ x \in Sids
      /\ segs' = Append(ss, x) /\ segs' \in Seq(Sids)
      /\ cur' = x /\ free_offset' = off + Aim
      /\ sg' = [s EXCEPT ![x] = NewSeg(off)] /\ sg' \in [Sids -> SegRecs]
      /\ cell' = NewCells(cell, x, off)
      /\ off \in Offsets
      /\ Now' = Append(L, Fresh(x))
      /\ Offs' = [Offs EXCEPT ![x] = off]
      /\ Offs' \in [Sids -> Offsets]
      /\ Ascends(Now', x)
      /\ ~abut' => ~abut
      /\ (~abut' /\ RingOf(L, Offs) /\ FreeOf(L, Offs, fo))
            => RingOf(Now', Offs') /\ Clear(L, Offs, off)
  BY NewSegStep
<1>2. Offs \in [Sids -> Offsets]
  BY NowFacts
<1>3. L \in Seq(DiskEntries)
  BY PtrsFacts
<1>0. Ascends(L, nsid) /\ (~abut' => RingOf(L, Offs) /\ FreeOf(L, Offs, fo))
      /\ (~abut' /\ torn' # "stale" => Good(L, Offs, cell, nsid))
  OBVIOUS
<1> HIDE DEF off, L, x
<1>4. ASSUME NEW M, DiskList(M)
      PROVE  /\ Ascends(M, x)
             /\ KeptList(M, Offs') = KeptList(M, Offs)
             /\ Ascends(KeptList(M, Offs), nsid)
             /\ ~abut' => RingOf(M, Offs')
             /\ KeptList(M, Offs) \in Seq(DiskEntries)
  <2>1. M \in Seq(DiskEntries) /\ Ascends(M, nsid) /\ (~abut => RingOf(M, Offs))
    BY <1>4 DEF DiskList
  <2>2. /\ Ascends(M, x) /\ KeptList(M, Offs') = KeptList(M, Offs)
        /\ RingOf(M, Offs) => RingOf(M, Offs')
        /\ Ascends(KeptList(M, Offs), nsid)
    <3>1. /\ nsid \in Nat /\ x = nsid + 1 /\ x \in Sids /\ off \in Offsets
          /\ Offs' = [Offs EXCEPT ![x] = off] /\ Offs' \in [Sids -> Offsets]
      BY <1>1
    <3>2. SameBut(Offs', Offs, x)
      BY <1>2, <3>1 DEF SameBut
    <3>3. nsid \in Nat /\ x = nsid + 1 /\ x \in Sids /\ Offs' \in [Sids -> Offsets]
      BY <3>1
    <3> QED
      BY <1>2, <2>1, <3>2, <3>3, OtherList
  <2> QED
    BY <1>1, <1>2, <2>1, <2>2, KeptEnd
<1>5. OrderInv'
  BY <1>1, <1>4 DEF OrderInv, x
<1>6. CurInv'
  <2>1. segs' # <<>> /\ segs'[Len(segs')] = x
    BY <1>1
  <2>2. sg'[x] = NewSeg(off)
    BY <1>1
  <2>3. sg'[x].length = Aim /\ sg'[x].offset = off
    BY <2>2 DEF NewSeg
  <2>4. x # 0
    BY <1>1
  <2> QED
    BY <1>1, <2>1, <2>3, <2>4 DEF CurInv
<1>7. RingInv'
  BY <1>0, <1>1, <1>4 DEF RingInv
<1>8. ASSUME NEW M, DiskList(M), KeepsOff(M, off)
      PROVE  Good(KeptList(M, Offs'), Offs', cell', x)
  <2> DEFINE K == KeptList(M, Offs)
  <2>1. /\ K \in Seq(DiskEntries) /\ Ascends(K, nsid) /\ KeptList(M, Offs') = K
    BY <1>4, <1>8
  <2>2. Good(K, Offs, cell, nsid) /\ Clear(K, Offs, off)
    BY <1>8 DEF KeepsOff
  <2> HIDE DEF K
  <2>3. Good(K, Offs', NewCells(cell, x, off), x)
    BY <1>1, <1>2, <2>1, <2>2, GoodGrows
  <2> QED
    BY <1>1, <2>1, <2>3
<1>9. GoodInv'
  <2> SUFFICES ASSUME ~abut', torn' # "stale"
               PROVE  /\ Good(Now', Offs', cell', nsid')
                      /\ torn' = "no" => /\ Good(KeptList(seg1'.list, Offs'), Offs', cell', nsid')
                                         /\ Good(KeptList(seg2'.list, Offs'), Offs', cell', nsid')
    BY DEF GoodInv
  <2>1. Clear(L, Offs, off) /\ Good(L, Offs, cell, nsid) /\ Ascends(L, nsid)
    BY <1>0, <1>1
  <2>2. Good(Append(L, Fresh(x)), Offs', NewCells(cell, x, off), x)
    BY <1>1, <1>2, <1>3, <2>1, GoodGrows
  <2> QED
    BY <1>1, <1>8, <2>2 DEF x, off
<1>10. UseInv'
  BY <1>4 DEF UseInv
<1> QED
  BY <1>5, <1>6, <1>7, <1>9, <1>10 DEF Struct

\* The space after a list.
LEMMA LastFree ==
    ASSUME NEW M \in Seq(DiskEntries), NEW o \in [Sids -> Int], RingOf(M, o), NEW f \in Int,
           M # <<>> => f = o[M[Len(M)].sid] + M[Len(M)].length
    PROVE  FreeOf(M, o, f)
<1>1. /\ Len(M) \in Nat
      /\ Begins(M, o) \in [1..Len(M) -> Int] /\ Ends(M, o) \in [1..Len(M) -> Int]
  BY ListBounds
<1>2. CASE M = <<>>
  <2>1. Len(M) = 0
    BY <1>2
  <2> QED
    BY <2>1 DEF FreeOf, Free
<1>3. CASE M # <<>>
  <2>1. Len(M) >= 1 /\ Len(M) \in 1..Len(M)
    BY <1>3
  <2>2. Ends(M, o)[Len(M)] = f
    BY <1>3, <2>1, ListBounds
  <2>3. Free(Len(M), Begins(M, o), Ends(M, o), Ends(M, o)[Len(M)])
    BY <1>1, <2>1, RingLast DEF RingOf
  <2> QED
    BY <2>2, <2>3 DEF FreeOf
<1> QED
  BY <1>2, <1>3

\* What is kept of a list is in use after a new segment that continues the list.
LEMMA ArcAfter ==
    ASSUME NEW L \in Seq(DiskEntries), NEW p \in [Sids -> Offsets], NEW x \in Sids,
           RingOf(Append(L, Fresh(x)), p), NEW tt, Len(tt) = Len(Append(L, Fresh(x))),
           tt[1] = Append(L, Fresh(x))[1].sid,
           NEW K \in Seq(DiskEntries), Among(K, L)
    PROVE  InUse(K, p, tt, p[x] + Aim)
<1> DEFINE M == Append(L, Fresh(x))
<1>1. Fresh(x) \in DiskEntries /\ Fresh(x).sid = x /\ Fresh(x).length = Aim
  BY Sizes DEF Fresh, DiskEntries
<1>2. /\ M \in Seq(DiskEntries) /\ M # <<>> /\ Len(L) \in Nat
      /\ Len(M) = Len(L) + 1 /\ M[Len(L) + 1] = Fresh(x)
      /\ \A i \in 1..Len(L) : M[i] = L[i] /\ i \in 1..Len(M)
  BY <1>1
<1>3. p \in [Sids -> Int] /\ Aim \in Int
  BY OffsetInt, Sizes
<1>4. RingOf(M, p) /\ Len(tt) = Len(M) /\ tt[1] = M[1].sid
  OBVIOUS
<1> HIDE DEF M
<1>5. InUse(M, p, tt, p[M[Len(M)].sid] + M[Len(M)].length)
  BY <1>2, <1>3, <1>4, RingArc
<1>6. p[M[Len(M)].sid] + M[Len(M)].length = p[x] + Aim /\ p[x] + Aim \in Int
  BY <1>1, <1>2, <1>3
<1>7. Among(K, M)
  <2>1. ASSUME NEW i \in 1..Len(K)
        PROVE  \E j \in 1..Len(M) : K[i].sid = M[j].sid /\ K[i].length <= M[j].length
    <3>1. PICK j \in 1..Len(L) : K[i].sid = L[j].sid /\ K[i].length <= L[j].length
      BY DEF Among
    <3>2. M[j] = L[j] /\ j \in 1..Len(M)
      BY <1>2
    <3> QED
      BY <3>1, <3>2
  <2> QED
    BY <2>1 DEF Among
<1>8. InUse(M, p, tt, p[x] + Aim)
  BY <1>5, <1>6
<1>9. PICK f \in Int : f = p[x] + Aim
  BY <1>6
<1>10. InUse(K, p, tt, f)
  BY <1>2, <1>7, <1>8, <1>9, GoodPart
<1> QED
  BY <1>9, <1>10

\* A part of a list is out of the way where the list is.
LEMMA ClearPart ==
    ASSUME NEW L \in Seq(DiskEntries), NEW K \in Seq(DiskEntries), Among(K, L),
           NEW o \in [Sids -> Offsets], NEW off \in Offsets, Clear(L, o, off)
    PROVE  Clear(K, o, off)
<1>1. o \in [Sids -> Int] /\ Aim \in Int /\ off \in Int
  BY OffsetInt, Sizes DEF Offsets
<1>2. ASSUME NEW i \in 1..Len(K)
      PROVE  o[K[i].sid] + K[i].length <= off \/ off + Aim <= o[K[i].sid]
  <2>1. PICK j \in 1..Len(L) : K[i].sid = L[j].sid /\ K[i].length <= L[j].length
    BY DEF Among
  <2>2. o[L[j].sid] + L[j].length <= off \/ off + Aim <= o[L[j].sid]
    BY DEF Clear
  <2>3. K[i] \in DiskEntries /\ L[j] \in DiskEntries
    OBVIOUS
  <2>4. K[i].length \in Int /\ L[j].length \in Int /\ K[i].sid \in Sids
    BY <2>3, Sizes DEF DiskEntries
  <2>5. o[K[i].sid] \in Int
    BY <1>1, <2>4
  <2> QED
    BY <1>1, <2>1, <2>2, <2>4, <2>5
<1> QED
  BY <1>2 DEF Clear

\* A list with one entry more.
LEMMA AppendAt ==
    ASSUME NEW S, NEW q \in Seq(S), NEW e \in S
    PROVE  /\ Append(q, e) \in Seq(S) /\ Len(Append(q, e)) = Len(q) + 1 /\ Len(q) \in Nat
           /\ Append(q, e)[Len(q) + 1] = e
           /\ \A i \in 1..Len(q) : Append(q, e)[i] = q[i]
           /\ Len(q) # 0 => Append(q, e)[1] = q[1]
OBVIOUS

\* What the start has of a segment list.
Copies == [sig : BOOLEAN, list : Seq(DiskEntries)]
Saves == [pc : 0..8, sid : 0..MaxSid, then : {"none", "new", "stop"}]

\* The types of the segments of the lists in memory and on disk.
LEMMA TypeParts ==
    ASSUME TypeOK
    PROVE  /\ proc \in {"up", "down", "dead"} /\ starts \in Nat /\ nsid \in 0..MaxSid
           /\ nsid \in Nat /\ MaxSid \in Nat
           /\ segs \in Seq(Sids) /\ cur \in 0..MaxSid /\ free_offset \in Nat
           /\ sg \in [Sids -> SegRecs] /\ cell \in [Cells -> 0..MaxSid]
           /\ seg1 \in Copies /\ seg2 \in Copies /\ save \in Saves
           /\ seg1.list \in Seq(DiskEntries) /\ seg2.list \in Seq(DiskEntries)
           /\ torn \in {"no", "yes", "stale"} /\ abut \in BOOLEAN
           /\ cur # 0 => cur \in Sids
<1>1. MaxSid \in Nat
  BY Sizes
<1>2. nsid \in 0..MaxSid /\ cur \in 0..MaxSid
  BY DEF TypeOK
<1>3. nsid \in Nat /\ (cur # 0 => cur \in Sids)
  BY <1>1, <1>2 DEF Sids
<1>4. seg1 \in Copies /\ seg2 \in Copies /\ save \in Saves
  BY DEF TypeOK, Copies, Saves
<1>5. seg1.list \in Seq(DiskEntries) /\ seg2.list \in Seq(DiskEntries)
  BY <1>4 DEF Copies
<1> QED
  BY <1>1, <1>2, <1>3, <1>4, <1>5 DEF TypeOK

\* The first segment of a list in memory, and the last.
LEMMA NowEnds ==
    ASSUME TypeOK, segs # <<>>
    PROVE  /\ Now # <<>> /\ Len(segs) \in 1..Len(segs) /\ 1 \in 1..Len(segs)
           /\ segs[Len(segs)] \in Sids /\ Now[1].sid = segs[1]
           /\ Offs[Now[Len(Now)].sid] + Now[Len(Now)].length
                = sg[segs[Len(segs)]].offset + sg[segs[Len(segs)]].length
<1>1. /\ Now \in Seq(DiskEntries) /\ Len(Now) = Len(segs) /\ Len(segs) \in Nat
      /\ \A s \in Sids : Offs[s] = sg[s].offset
      /\ \A i \in 1..Len(segs) : /\ segs[i] \in Sids /\ Now[i].sid = segs[i]
                                 /\ Now[i].length = sg[segs[i]].length
  BY NowFacts
<1>2. Len(segs) # 0
  BY TypeParts
<1>3. Len(segs) \in 1..Len(segs) /\ 1 \in 1..Len(segs) /\ Now # <<>>
  BY <1>1, <1>2
<1>4. /\ segs[Len(segs)] \in Sids /\ Now[Len(Now)].sid = segs[Len(segs)]
      /\ Now[Len(Now)].length = sg[segs[Len(segs)]].length
  BY <1>1, <1>3
<1> QED
  BY <1>1, <1>3, <1>4

\* What would be kept of the list in memory, if it were saved.
LEMMA KeptNow ==
    ASSUME TypeOK, Struct
    PROVE  /\ KeptList(Now, Offs) \in Seq(DiskEntries) /\ Among(KeptList(Now, Offs), Now)
           /\ ~abut /\ torn # "stale" => Good(KeptList(Now, Offs), Offs, cell, nsid)
<1>1. Now \in Seq(DiskEntries) /\ Offs \in [Sids -> Offsets]
  BY NowFacts
<1>2. KeptList(Now, Offs) \in Seq(DiskEntries) /\ Among(KeptList(Now, Offs), Now)
  BY <1>1, KeptEnd
<1>3. 0 \in Int /\ (~abut /\ torn # "stale" => Good(Now, Offs, cell, nsid))
  BY DEF Struct, GoodInv
<1> QED
  BY <1>1, <1>2, <1>3, GoodPart

\* The end of a save, with a new segment or without.
LEMMA SaveDoneStruct ==
    ASSUME TypeOK, Struct, smp_save_done
    PROVE  TypeOK' /\ Struct'
<1>1. /\ Now \in Seq(DiskEntries) /\ Len(Now) = Len(segs) /\ Len(segs) \in Nat
      /\ Offs \in [Sids -> Offsets] /\ Offs \in [Sids -> Int]
  BY NowFacts
<1>2. Signed = [sig |-> TRUE, list |-> Now] /\ Signed.list = Now /\ Signed.sig = TRUE
  BY NowIs
<1>3. /\ save.pc = 8 /\ proc = "up" /\ seg1' = seg1 /\ starts' = starts
      /\ seg2' = Signed /\ save' = NoSave /\ torn' = Mended
      /\ save.then = "none" \/ save.then = "new"
      /\ proc' = proc /\ UNCHANGED objVars
  BY DEF smp_save_done
<1>4. seg1 = Signed /\ seg1.list = Now /\ seg2'.list = Now /\ seg1'.list = Now
  BY <1>2, <1>3 DEF Struct, CurInv
<1>5. NoSave.pc = 0 /\ NoSave \in Saves
  BY Sizes DEF NoSave, Saves
<1>6. (torn' # "stale" => torn # "stale") /\ torn' \in {"no", "yes", "stale"}
  BY <1>3 DEF Mended
<1>7. Signed \in Copies
  BY <1>1, <1>2 DEF Copies
<1>8. SigInv'
  BY <1>2, <1>3, <1>4 DEF SigInv
<1>9. /\ KeptList(Now, Offs) \in Seq(DiskEntries) /\ Among(KeptList(Now, Offs), Now)
      /\ ~abut /\ torn # "stale" => Good(KeptList(Now, Offs), Offs, cell, nsid)
  BY KeptNow
<1>10. CASE save.then = "none"
  <2>1. UNCHANGED <<nsid, segs, cur, free_offset, sg, cell, abut>>
    BY <1>3, <1>10 DEF smp_save_done, memVars
  <2>2. Now' = Now /\ Offs' = Offs
    BY <2>1 DEF Now, Offs
  <2>3. OrderInv'
    BY <1>4, <2>1, <2>2 DEF Struct, OrderInv
  <2>4. cur # 0 /\ segs # <<>> /\ segs[Len(segs)] = cur /\ sg[cur].length = Aim
        /\ free_offset = sg[cur].offset + Aim
    BY <1>3, <1>10 DEF Struct, CurInv
  <2>5. CurInv'
    BY <1>3, <1>5, <2>1, <2>4 DEF CurInv
  <2>6. RingInv'
    BY <1>4, <2>1, <2>2 DEF Struct, RingInv
  <2>7. GoodInv'
    BY <1>4, <1>6, <1>9, <2>1, <2>2 DEF Struct, GoodInv
  <2>8. UseInv'
    <3> SUFFICES ASSUME ~abut PROVE InUse(KeptList(Now, Offs), Offs, segs, free_offset)
      BY <1>4, <2>1, <2>2 DEF UseInv
    <3>1. RingOf(Now, Offs)
      BY DEF Struct, RingInv
    <3>2. /\ Now # <<>> /\ Now[1].sid = segs[1]
          /\ free_offset = Offs[Now[Len(Now)].sid] + Now[Len(Now)].length
      BY <2>4, NowEnds
    <3>3. InUse(Now, Offs, segs, free_offset)
      BY <1>1, <3>1, <3>2, RingArc
    <3>4. free_offset \in Int
      BY TypeParts
    <3> QED
      BY <1>1, <1>9, <3>3, <3>4, GoodPart
  <2>9. TypeOK'
    BY <1>3, <1>5, <1>6, <1>7, <2>1 DEF TypeOK, objVars, Copies, Saves
  <2> QED
    BY <1>8, <2>3, <2>5, <2>6, <2>7, <2>8, <2>9 DEF Struct
<1>11. CASE save.then = "new"
  <2> DEFINE fo == smp_segend(save.sid)
  <2>1. Fits(fo, segs) /\ smp_new_seg(fo, segs, sg)
    BY <1>3, <1>11 DEF smp_save_done
  <2>2. /\ save.sid \in Sids
        /\ segs # <<>> => segs[Len(segs)] = save.sid
    BY <1>3, <1>11 DEF Struct, CurInv
  <2>3. fo \in Nat /\ 1 <= fo /\ fo = sg[save.sid].offset + sg[save.sid].length
    <3>1. sg[save.sid] \in SegRecs
      BY <2>2, TypeParts
    <3>2. sg[save.sid].offset \in 1..(End - Aim) /\ sg[save.sid].length \in 1..Aim
      BY <3>1 DEF SegRecs
    <3> QED
      BY <3>2, Sizes DEF smp_segend
  <2> HIDE DEF fo
  <2>4. segs \in Seq(Sids) /\ sg \in [Sids -> SegRecs] /\ OffsOf(sg) = Offs /\ Now = Ptrs(segs, sg)
    BY TypeParts DEF Offs, Now
  <2>5. Ascends(Now, nsid)
    BY DEF Struct, OrderInv
  <2>6. Ascends(Ptrs(segs, sg), nsid)
    BY <2>4, <2>5
  <2>7. /\ nsid' \in Sids /\ segs' = Append(segs, nsid') /\ segs' \in Seq(Sids)
        /\ cur' = nsid' /\ free_offset' = Offset(fo) + Aim
        /\ sg' \in [Sids -> SegRecs] /\ cell' \in [Cells -> 0..MaxSid] /\ abut' \in BOOLEAN
        /\ Offset(fo) \in Offsets
        /\ Now' = Append(Ptrs(segs, sg), Fresh(nsid'))
        /\ Offs' = [Offs EXCEPT ![nsid'] = Offset(fo)]
        /\ Offs' \in [Sids -> Offsets]
        /\ ~abut' => ~abut
        /\ (~abut' /\ RingOf(Ptrs(segs, sg), Offs) /\ FreeOf(Ptrs(segs, sg), Offs, fo))
              => RingOf(Now', Offs') /\ Clear(Ptrs(segs, sg), Offs, Offset(fo))
    BY <2>1, <2>3, <2>4, <2>6, NewSegStep
  <2>8. ~abut' => RingOf(Now, Offs) /\ FreeOf(Now, Offs, fo)
    <3> SUFFICES ASSUME ~abut' PROVE RingOf(Now, Offs) /\ FreeOf(Now, Offs, fo)
      OBVIOUS
    <3>1. RingOf(Now, Offs)
      BY <2>7 DEF Struct, RingInv
    <3>2. Now # <<>> => fo = Offs[Now[Len(Now)].sid] + Now[Len(Now)].length
      <4>1. Now # <<>> => segs # <<>>
        BY <1>1
      <4> QED
        BY <2>2, <2>3, <4>1, NowEnds
    <3>3. fo \in Int
      BY <2>3
    <3>4. FreeOf(Now, Offs, fo)
      BY <1>1, <3>1, <3>2, <3>3, LastFree
    <3> QED
      BY <3>1, <3>4
  <2>9. ~abut' /\ torn' # "stale" => Good(Now, Offs, cell, nsid)
    BY <1>6, <2>7 DEF Struct, GoodInv
  <2>10. DiskList(Now)
    BY <1>1, <2>5 DEF DiskList, Struct, RingInv
  <2>11. ASSUME ~abut', torn' = "no"
         PROVE  /\ KeepsOff(Now, Offset(fo))
                /\ InUse(KeptList(Now, Offs), Offs', segs', free_offset')
    <3>1. Clear(Now, Offs, Offset(fo)) /\ RingOf(Append(Now, Fresh(nsid')), Offs')
      BY <2>4, <2>7, <2>8, <2>11
    <3>2. Clear(KeptList(Now, Offs), Offs, Offset(fo))
      BY <1>1, <1>9, <2>7, <3>1, ClearPart
    <3>3. Good(KeptList(Now, Offs), Offs, cell, nsid)
      BY <1>6, <1>9, <2>7, <2>11
    <3>4. /\ Len(segs') = Len(Append(Now, Fresh(nsid')))
          /\ segs'[1] = Append(Now, Fresh(nsid'))[1].sid
      <4>1. Fresh(nsid').sid = nsid' /\ Fresh(nsid') \in DiskEntries
        BY <2>7, Sizes DEF Fresh, DiskEntries
      <4>2. /\ Len(Append(Now, Fresh(nsid'))) = Len(segs) + 1
            /\ Append(Now, Fresh(nsid'))[Len(segs) + 1] = Fresh(nsid')
            /\ Len(segs) # 0 => Append(Now, Fresh(nsid'))[1] = Now[1]
        BY <1>1, <4>1, AppendAt
      <4>3. /\ Len(segs') = Len(segs) + 1 /\ segs'[Len(segs) + 1] = nsid'
            /\ Len(segs) # 0 => segs'[1] = segs[1]
        BY <1>1, <2>4, <2>7
      <4>4. Len(segs) # 0 => Now[1].sid = segs[1]
        <5>1. Len(segs) # 0 => segs # <<>>
          OBVIOUS
        <5> QED
          BY <5>1, NowEnds
      <4> QED
        BY <1>1, <4>1, <4>2, <4>3, <4>4
    <3>5. InUse(KeptList(Now, Offs), Offs', segs', Offs'[nsid'] + Aim)
      BY <1>1, <1>9, <2>7, <3>1, <3>4, ArcAfter
    <3>6. Offs'[nsid'] = Offset(fo)
      BY <1>1, <2>7
    <3> QED
      BY <2>7, <3>2, <3>3, <3>5, <3>6 DEF KeepsOff
  <2>12. Struct'
    <3>1. /\ ~abut' => RingOf(Ptrs(segs, sg), Offs) /\ FreeOf(Ptrs(segs, sg), Offs, fo)
          /\ ~abut' /\ torn' # "stale" => Good(Ptrs(segs, sg), Offs, cell, nsid)
      BY <2>4, <2>8, <2>9
    <3>2. DiskList(seg1'.list) /\ DiskList(seg2'.list) /\ proc' = "up" /\ save'.pc = 0
      BY <1>3, <1>4, <1>5, <2>10
    <3>3. ~abut' /\ torn' = "no" =>
               /\ KeepsOff(seg1'.list, Offset(fo)) /\ KeepsOff(seg2'.list, Offset(fo))
               /\ InUse(KeptList(seg1'.list, Offs), Offs', segs', free_offset')
               /\ InUse(KeptList(seg2'.list, Offs), Offs', segs', free_offset')
      BY <1>4, <2>11
    <3> QED
      BY <1>8, <2>1, <2>3, <2>4, <2>6, <3>1, <3>2, <3>3, NewSegStruct
  <2>13. TypeOK'
    <3>1. nsid' \in 0..MaxSid /\ free_offset' \in Nat
      BY <2>7, Sizes DEF Sids, Offsets
    <3>2. nsid' \in 0..MaxSid /\ cur' \in 0..MaxSid
      BY <2>7, <3>1
    <3> QED
      BY <1>3, <1>5, <1>6, <1>7, <2>7, <3>1, <3>2 DEF TypeOK, objVars, Copies, Saves
  <2> QED
    BY <2>12, <2>13
<1> QED
  BY <1>3, <1>10, <1>11

\* The current segment is the last, and only that.
LEMMA CurLast ==
    ASSUME TypeOK, Struct, NEW i \in 1..Len(segs), NEW j \in 1..Len(segs), segs[i] = segs[j]
    PROVE  i = j
<1>1. /\ Len(Now) = Len(segs) /\ Len(segs) \in Nat
      /\ \A k \in 1..Len(segs) : segs[k] \in Sids /\ Now[k].sid = segs[k]
  BY NowFacts
<1>2. \A k, l \in 1..Len(segs) : k < l => segs[k] < segs[l] /\ segs[k] \in Int /\ segs[l] \in Int
  <2>1. \A k \in 1..Len(segs) : segs[k] \in Int
    BY <1>1, Sizes DEF Sids
  <2> QED
    BY <1>1, <2>1 DEF Struct, OrderInv, Ascends
<1>3. ~(i < j) /\ ~(j < i)
  BY <1>2
<1> QED
  BY <1>1, <1>3

\* smp_allocx when nothing was allocated: the current segment is given up, and
\* the next begins where it ended.
LEMMA EmptyStruct ==
    ASSUME TypeOK, Struct, Unlocked, cur # 0, NEW i \in DOMAIN segs, segs[i] = cur,
           Fits(free_offset, RemoveAt(segs, i)),
           smp_new_seg(free_offset, RemoveAt(segs, i), [sg EXCEPT ![cur].flag = "gone"]),
           UNCHANGED <<proc, starts, seg1, seg2, save, objVars, torn>>
    PROVE  TypeOK' /\ Struct'
<1> DEFINE ss == RemoveAt(segs, i)
           s == [sg EXCEPT ![cur].flag = "gone"]
           fo == free_offset
           L == Ptrs(ss, s)
<1>1. /\ Now \in Seq(DiskEntries) /\ Len(Now) = Len(segs) /\ Len(segs) \in Nat
      /\ Offs \in [Sids -> Offsets] /\ Offs \in [Sids -> Int]
      /\ \A x \in Sids : Offs[x] = sg[x].offset
      /\ \A k \in 1..Len(segs) : segs[k] \in Sids /\ Now[k].sid = segs[k]
  BY NowFacts
<1>2. /\ segs \in Seq(Sids) /\ cur \in Sids /\ free_offset \in Nat /\ sg \in [Sids -> SegRecs]
      /\ seg1.list \in Seq(DiskEntries) /\ seg2.list \in Seq(DiskEntries) /\ nsid \in Nat
  BY TypeParts
<1>3. /\ segs # <<>> /\ segs[Len(segs)] = cur /\ sg[cur].length = Aim
      /\ free_offset = sg[cur].offset + Aim /\ save.pc = 0 /\ proc = "up"
  BY DEF Struct, CurInv, Unlocked
<1>4. i \in 1..Len(segs) /\ Len(segs) \in 1..Len(segs)
  BY <1>2, <1>3
<1>5. i = Len(segs)
  BY <1>3, <1>4, CurLast
<1>6. /\ ss \in Seq(Sids) /\ Len(ss) = Len(segs) - 1
      /\ \A j \in 1..(Len(segs) - 1) : ss[j] = segs[j]
  <2>1. /\ RemoveAt(segs, i) \in Seq(Sids) /\ Len(RemoveAt(segs, i)) = Len(segs) - 1
        /\ \A j \in 1..(Len(segs) - 1) :
              RemoveAt(segs, i)[j] = IF j < i THEN segs[j] ELSE segs[j + 1]
    BY <1>2, <1>4, RemoveAtFacts
  <2>2. \A j \in 1..(Len(segs) - 1) : j < i
    BY <1>1, <1>5
  <2> QED
    BY <2>1, <2>2
<1>7. /\ s \in [Sids -> SegRecs]
      /\ \A x \in Sids : s[x].offset = sg[x].offset /\ s[x].length = sg[x].length
                         /\ s[x].closed = sg[x].closed
  <2>1. [sg[cur] EXCEPT !.flag = "gone"] \in SegRecs
    BY <1>2 DEF SegRecs, Flags
  <2>2. s = [sg EXCEPT ![cur] = [sg[cur] EXCEPT !.flag = "gone"]]
    BY <1>2
  <2>3. s \in [Sids -> SegRecs]
    BY <1>2, <2>1, <2>2
  <2>4. \A x \in Sids : s[x] = IF x = cur THEN [sg[cur] EXCEPT !.flag = "gone"] ELSE sg[x]
    BY <1>2, <2>2
  <2>5. \A x \in Sids : sg[x] \in SegRecs
    BY <1>2
  <2> QED
    BY <2>3, <2>4, <2>5 DEF SegRecs
<1>8. OffsOf(s) = Offs
  BY <1>7 DEF OffsOf, Offs
<1> HIDE DEF ss, s
<1>9. /\ L \in Seq(DiskEntries) /\ Len(L) = Len(ss)
      /\ \A j \in 1..Len(L) : L[j] = Now[j]
  <2>1. /\ L \in Seq(DiskEntries) /\ Len(L) = Len(ss)
        /\ \A j \in 1..Len(ss) : L[j] = [sid |-> ss[j], length |-> s[ss[j]].length,
                                         closed |-> s[ss[j]].closed]
    BY <1>6, <1>7, PtrsFacts
  <2>2. ASSUME NEW j \in 1..Len(ss) PROVE L[j] = Now[j]
    <3>1. j \in 1..(Len(segs) - 1) /\ j \in 1..Len(segs)
      BY <1>1, <1>6
    <3>2. ss[j] = segs[j] /\ segs[j] \in Sids
      BY <1>1, <1>6, <3>1
    <3>3. Now[j] = [sid |-> segs[j], length |-> sg[segs[j]].length, closed |-> sg[segs[j]].closed]
      BY <3>1, NowFacts
    <3> QED
      BY <1>7, <2>1, <3>2, <3>3
  <2> QED
    BY <2>1, <2>2
<1>10. 0 \in Nat /\ 0 + Len(L) <= Len(Now) /\ \A j \in 1..Len(L) : L[j] = Now[j + 0]
  BY <1>1, <1>6, <1>9
<1>11. /\ RingOf(Now, Offs) => RingOf(L, Offs)
       /\ \A f \in Int : FreeOf(Now, Offs, f) => FreeOf(L, Offs, f)
       /\ \A n \in Nat : Ascends(Now, n) => Ascends(L, n)
  BY <1>1, <1>9, <1>10, ListSub
<1>12. Ascends(L, nsid)
  BY <1>2, <1>11 DEF Struct, OrderInv
<1>13. fo \in Nat /\ 1 <= fo
  <2>1. PICK p \in 1..(End - Aim) : Offs[cur] = p
    BY <1>1, <1>2 DEF Offsets
  <2> QED
    BY <1>1, <1>2, <1>3, <2>1, Sizes
<1>14. Fits(fo, ss) /\ smp_new_seg(fo, ss, s)
  BY DEF ss, s
<1> HIDE DEF fo
<1>15. /\ nsid' \in Sids /\ segs' = Append(ss, nsid') /\ segs' \in Seq(Sids)
       /\ cur' = nsid' /\ free_offset' = Offset(fo) + Aim /\ nsid' = nsid + 1
       /\ sg' \in [Sids -> SegRecs] /\ cell' \in [Cells -> 0..MaxSid] /\ abut' \in BOOLEAN
       /\ Offset(fo) \in Offsets
       /\ Offs' = [Offs EXCEPT ![nsid'] = Offset(fo)]
       /\ Offs' \in [Sids -> Offsets]
       /\ ~abut' => ~abut
  BY <1>6, <1>7, <1>8, <1>12, <1>13, <1>14, NewSegStep
<1>16. ~abut' => RingOf(L, Offs) /\ FreeOf(L, Offs, fo)
  <2> SUFFICES ASSUME ~abut' PROVE RingOf(L, Offs) /\ FreeOf(L, Offs, fo)
    OBVIOUS
  <2>1. RingOf(Now, Offs)
    BY <1>15 DEF Struct, RingInv
  <2>2. Now # <<>> => fo = Offs[Now[Len(Now)].sid] + Now[Len(Now)].length
    BY <1>3, NowEnds DEF fo
  <2>3. fo \in Int
    BY <1>13
  <2>4. FreeOf(Now, Offs, fo)
    BY <1>1, <2>1, <2>2, <2>3, LastFree
  <2> QED
    BY <1>11, <2>1, <2>3, <2>4
<1>17. Among(L, Now)
  <2>1. ASSUME NEW j \in 1..Len(L)
        PROVE  \E k \in 1..Len(Now) : L[j].sid = Now[k].sid /\ L[j].length <= Now[k].length
    <3>1. j \in 1..Len(Now) /\ L[j] = Now[j] /\ L[j] \in DiskEntries
      BY <1>1, <1>9, <1>10
    <3>2. L[j].length \in Int
      BY <3>1, Sizes DEF DiskEntries
    <3> QED
      BY <3>1, <3>2
  <2> QED
    BY <2>1 DEF Among
<1>18. ~abut' /\ torn' # "stale" => Good(L, Offs, cell, nsid)
  <2>1. ~abut' /\ torn' # "stale" => Good(Now, Offs, cell, nsid)
    BY <1>15 DEF Struct, GoodInv
  <2>2. 0 \in Int
    OBVIOUS
  <2> QED
    BY <1>1, <1>9, <1>17, <2>1, <2>2, GoodPart
<1>19. DiskList(seg1.list) /\ DiskList(seg2.list)
  BY <1>2 DEF DiskList, Struct, OrderInv, RingInv
<1>20. SigInv'
  BY DEF Struct, SigInv
<1>21. ASSUME NEW M, DiskList(M), ~abut',
              Good(KeptList(M, Offs), Offs, cell, nsid),
              InUse(KeptList(M, Offs), Offs, segs, free_offset)
       PROVE  /\ KeepsOff(M, Offset(fo))
              /\ InUse(KeptList(M, Offs), Offs', segs', free_offset')
  <2> DEFINE K == KeptList(M, Offs)
             off == Offset(fo)
  <2>1. M \in Seq(DiskEntries) /\ Ascends(M, nsid)
    BY <1>21 DEF DiskList
  <2>2. K \in Seq(DiskEntries)
    BY <1>1, <2>1, KeptEnd
  <2>3. SameBut(Offs', Offs, nsid')
    BY <1>1, <1>15 DEF SameBut
  <2>19. /\ Offs \in [Sids -> Offsets] /\ Offs' \in [Sids -> Offsets]
         /\ nsid \in Nat /\ nsid' \in Sids /\ nsid' = nsid + 1
    BY <1>1, <1>2, <1>15
  <2>4. Ascends(K, nsid)
    BY <2>1, <2>3, <2>19, OtherList
  <2>5. \A j \in 1..Len(K) : Offs'[K[j].sid] = Offs[K[j].sid]
    <3> HIDE DEF K
    <3> QED
      BY <2>2, <2>3, <2>4, <2>19, OtherList
  <2>6. Len(segs') = Len(segs)
    BY <1>1, <1>6, <1>15
  <2>7. Len(segs) >= 2 => ss # <<>> /\ ss[1] = segs[1] /\ segs'[1] = segs[1] /\ ss[1] \in Sids
    <3> SUFFICES ASSUME Len(segs) >= 2
                 PROVE  ss # <<>> /\ ss[1] = segs[1] /\ segs'[1] = segs[1] /\ ss[1] \in Sids
      OBVIOUS
    <3>1. 1 \in 1..(Len(segs) - 1) /\ Len(ss) # 0 /\ Len(ss) \in Nat
      BY <1>1, <1>6
    <3>2. ss # <<>> /\ ss[1] = segs[1] /\ 1 \in 1..Len(ss)
      BY <1>6, <3>1
    <3>3. Append(ss, nsid')[1] = ss[1]
      BY <1>6, <1>15, <3>1, AppendAt
    <3> QED
      BY <1>6, <1>15, <3>2, <3>3
  <2>8. ss # <<>> => Len(segs) >= 2
    BY <1>1, <1>6
  <2>9. Len(segs) >= 2 => ss[1] # nsid'
    BY <1>6, <1>7, <1>8, <1>12, <1>13, <1>14, <2>7, NewSegStep
  <2>10. Len(segs) >= 2 => Offs'[segs[1]] = Offs[segs[1]]
    BY <1>1, <1>15, <2>7, <2>9
  <2>11. ss # <<>> => sg[ss[1]].offset # off
    BY <1>14, <1>21 DEF smp_new_seg
  <2>12. Wraps(fo) => Len(segs) >= 2
    BY <1>14, <2>8 DEF Fits
  <2>13. Len(segs) >= 2 => ((Wraps(fo) \/ Offs[segs[1]] > off) => off + Aim <= Offs[segs[1]])
    BY <1>1, <1>14, <2>7 DEF Fits
  <2>14. Len(segs) >= 2 => Offs[segs[1]] # off
    BY <1>1, <2>7, <2>11
  <2>15. /\ off \in Offsets /\ off = Offset(fo) /\ segs' \in Seq(Sids)
         /\ InUse(K, Offs, segs, fo)
    BY <1>15, <1>21 DEF fo
  <2>16. Len(segs) >= 2 => /\ segs'[1] = segs[1] /\ Offs'[segs[1]] = Offs[segs[1]]
                           /\ Offs[segs[1]] # off
                           /\ Wraps(fo) \/ Offs[segs[1]] > off => off + Aim <= Offs[segs[1]]
    BY <2>7, <2>10, <2>13, <2>14
  <2>18. Offs' \in [Sids -> Offsets]
    BY <1>15
  <2> HIDE DEF K, off
  <2>17. Clear(K, Offs, off) /\ InUse(K, Offs', segs', off + Aim)
    BY <1>1, <1>2, <1>3, <1>13, <2>2, <2>5, <2>6, <2>12, <2>15, <2>16, <2>18, UseNext
  <2> QED
    BY <1>15, <1>21, <2>17 DEF KeepsOff, K, off
<1>22. Struct'
  <2>1. DiskList(seg1'.list) /\ DiskList(seg2'.list) /\ proc' = "up" /\ save'.pc = 0
    BY <1>3, <1>19
  <2>2. ~abut' /\ torn' = "no" =>
             /\ KeepsOff(seg1'.list, Offset(fo)) /\ KeepsOff(seg2'.list, Offset(fo))
             /\ InUse(KeptList(seg1'.list, Offs), Offs', segs', free_offset')
             /\ InUse(KeptList(seg2'.list, Offs), Offs', segs', free_offset')
    <3> SUFFICES ASSUME ~abut', torn' = "no"
                 PROVE  /\ KeepsOff(seg1.list, Offset(fo)) /\ KeepsOff(seg2.list, Offset(fo))
                        /\ InUse(KeptList(seg1.list, Offs), Offs', segs', free_offset')
                        /\ InUse(KeptList(seg2.list, Offs), Offs', segs', free_offset')
      OBVIOUS
    <3>1. /\ Good(KeptList(seg1.list, Offs), Offs, cell, nsid)
          /\ Good(KeptList(seg2.list, Offs), Offs, cell, nsid)
          /\ InUse(KeptList(seg1.list, Offs), Offs, segs, free_offset)
          /\ InUse(KeptList(seg2.list, Offs), Offs, segs, free_offset)
      BY <1>3, <1>15 DEF Struct, GoodInv, UseInv
    <3> QED
      BY <1>19, <1>21, <3>1
  <2> HIDE DEF L
  <2> QED
    BY <1>6, <1>7, <1>8, <1>12, <1>13, <1>14, <1>16, <1>18, <1>20, <2>1, <2>2, NewSegStruct DEF L
<1>23. TypeOK'
  <2>1. nsid' \in 0..MaxSid /\ free_offset' \in Nat
    BY <1>15, Sizes DEF Sids, Offsets
  <2>2. nsid' \in 0..MaxSid /\ cur' \in 0..MaxSid
    BY <1>15, <2>1
  <2> QED
    BY <1>15, <2>1, <2>2 DEF TypeOK, objVars
<1> QED
  BY <1>22, <1>23

\* The list a start goes by.
LEMMA CopyFacts ==
    ASSUME TypeOK, Struct
    PROVE  /\ Copy.list \in Seq(DiskEntries) /\ Ascends(Copy.list, nsid)
           /\ ~abut => RingOf(Copy.list, Offs)
           /\ ~abut /\ torn = "no" => Good(KeptList(Copy.list, Offs), Offs, cell, nsid)
<1>1. seg1.list \in Seq(DiskEntries) /\ seg2.list \in Seq(DiskEntries)
  BY TypeParts
<1> QED
  BY <1>1 DEF Copy, Struct, OrderInv, RingInv, GoodInv

\* What a start keeps of it.
LEMMA RecoveredFacts ==
    ASSUME TypeOK, Struct
    PROVE  /\ Recovered.list = KeptList(Copy.list, Offs)
           /\ Recovered.list \in Seq(DiskEntries) /\ Ascends(Recovered.list, nsid)
           /\ Recovered.free \in Nat /\ 1 <= Recovered.free
           /\ ~abut => /\ RingOf(Recovered.list, Offs)
                       /\ FreeOf(Recovered.list, Offs, Recovered.free)
<1> DEFINE C == Copy.list
           K == KeptList(C, Offs)
<1>1. C \in Seq(DiskEntries) /\ Ascends(C, nsid) /\ (~abut => RingOf(C, Offs))
  BY CopyFacts
<1>2. Offs \in [Sids -> Offsets] /\ Offs \in [Sids -> Int] /\ sg \in [Sids -> SegRecs] /\ nsid \in Nat
  BY NowFacts, TypeParts
<1>3. K \in Seq(DiskEntries) /\ IsEnd(K, C)
  BY <1>1, <1>2, KeptEnd
<1>4. PICK m \in Nat : m + Len(K) = Len(C) /\ \A i \in 1..Len(K) : K[i] = C[i + m]
  BY <1>3 DEF IsEnd
<1> HIDE DEF C, K
<1>5. m + Len(K) <= Len(C)
  BY <1>1, <1>3, <1>4
<1>6. (RingOf(C, Offs) => RingOf(K, Offs)) /\ Ascends(K, nsid)
  BY <1>1, <1>2, <1>3, <1>4, <1>5, ListSub
<1>7. CASE C = <<>>
  <2>1. Recovered.list = <<>> /\ Recovered.free = 1
    BY <1>7 DEF Recovered, C
  <2>2. K = <<>>
    BY <1>7 DEF K, KeptList
  <2>3. FreeOf(K, Offs, 1)
    BY <2>2 DEF FreeOf, Free
  <2> QED
    BY <1>1, <1>3, <1>6, <2>1, <2>2, <2>3 DEF C, K
<1>8. CASE C # <<>>
  <2>1. Kept(C) = KeptOf(C, Offs)
    BY <1>1, <1>2, <1>8, KeptIs
  <2>2. K = SubSeq(C, KeptOf(C, Offs).first, Len(C))
    BY <1>8 DEF K, KeptList
  <2>3. Recovered.list = SubSeq(C, Kept(C).first, Len(C)) /\ Recovered.free = Kept(C).free
    BY <1>8 DEF Recovered, C
  <2>4. Recovered.list = K /\ Recovered.free = KeptOf(C, Offs).free
    BY <2>1, <2>2, <2>3
  <2>5. /\ KeptOf(C, Offs).free \in 1..End
        /\ RingOf(C, Offs) => FreeOf(K, Offs, KeptOf(C, Offs).free)
    BY <1>1, <1>2, <1>8, <2>2, KeptFacts
  <2>6. Recovered.free \in Nat /\ 1 <= Recovered.free
    BY <2>4, <2>5, Sizes
  <2> QED
    BY <1>1, <1>3, <1>6, <2>4, <2>5, <2>6 DEF C, K
<1> QED
  BY <1>7, <1>8

\* What smp_open_segs makes of the list found on disk: sc->segments and the
\* segments themselves.
FoundSegs == [i \in DOMAIN Recovered.list |-> Recovered.list[i].sid]
FoundMem == [n \in Sids |-> IF Contains(FoundSegs, n)
                            THEN Found(CHOOSE e \in ToSet(Recovered.list) : e.sid = n)
                            ELSE sg[n]]

\* They are what was saved, and all are still to be loaded.
LEMMA FoundFacts ==
    ASSUME TypeOK, Struct
    PROVE  /\ FoundSegs \in Seq(Sids) /\ Len(FoundSegs) = Len(Recovered.list)
           /\ FoundMem \in [Sids -> SegRecs] /\ OffsOf(FoundMem) = Offs
           /\ Ptrs(FoundSegs, FoundMem) = Recovered.list
           /\ \A i \in 1..Len(FoundSegs) : FoundMem[FoundSegs[i]].flag = "mustload"
<1> DEFINE R == Recovered.list
           ss == FoundSegs
           s == FoundMem
<1>1. R \in Seq(DiskEntries) /\ Ascends(R, nsid) /\ sg \in [Sids -> SegRecs]
  BY RecoveredFacts, TypeParts
<1>2. Len(R) \in Nat /\ DOMAIN R = 1..Len(R) /\ \A i \in 1..Len(R) : R[i] \in DiskEntries
  BY <1>1
<1>3. \A i \in 1..Len(R) : R[i].sid \in Sids /\ R[i].length \in 1..Aim /\ R[i].closed \in BOOLEAN
  BY <1>2 DEF DiskEntries
<1>4. ss = [i \in 1..Len(R) |-> R[i].sid]
  BY <1>2 DEF FoundSegs
<1>5. ss \in [1..Len(R) -> Sids]
  BY <1>3, <1>4
<1>6. ss \in Seq(Sids) /\ Len(ss) = Len(R) /\ \A i \in 1..Len(R) : ss[i] = R[i].sid
  BY <1>2, <1>4, <1>5
<1> HIDE DEF R
<1>7. ASSUME NEW i \in 1..Len(R), NEW j \in 1..Len(R), R[i].sid = R[j].sid PROVE i = j
  <2>1. i < j => R[i].sid < R[j].sid
    BY <1>1 DEF Ascends
  <2>2. j < i => R[j].sid < R[i].sid
    BY <1>1 DEF Ascends
  <2>3. R[i].sid \in Int /\ R[j].sid \in Int
    BY <1>3, Sizes DEF Sids
  <2>4. ~(i < j) /\ ~(j < i)
    BY <1>7, <2>1, <2>2, <2>3
  <2> QED
    BY <1>2, <2>4
<1>8. ToSet(R) = {R[i] : i \in 1..Len(R)}
  BY <1>2 DEF ToSet
<1>9. ASSUME NEW i \in 1..Len(R) PROVE (CHOOSE e \in ToSet(R) : e.sid = R[i].sid) = R[i]
  <2>1. R[i] \in ToSet(R)
    BY <1>8
  <2>2. \A e \in ToSet(R) : e.sid = R[i].sid => e = R[i]
    <3>1. SUFFICES ASSUME NEW e \in ToSet(R), e.sid = R[i].sid PROVE e = R[i]
      OBVIOUS
    <3>2. PICK j \in 1..Len(R) : e = R[j]
      BY <1>8
    <3> QED
      BY <1>7, <3>1, <3>2
  <2> QED
    BY <2>1, <2>2
<1>10. ASSUME NEW i \in 1..Len(R)
       PROVE  s[R[i].sid] = Found(R[i])
  <2>1. Contains(ss, R[i].sid)
    BY <1>6 DEF Contains
  <2> QED
    BY <1>3, <1>9, <2>1 DEF FoundMem, R
<1>11. ASSUME NEW i \in 1..Len(R)
       PROVE  /\ Found(R[i]) \in SegRecs /\ Found(R[i]).offset = sg[R[i].sid].offset
              /\ Found(R[i]).length = R[i].length /\ Found(R[i]).closed = R[i].closed
              /\ Found(R[i]).flag = "mustload"
  <2>1. sg[R[i].sid] \in SegRecs
    BY <1>1, <1>3
  <2>2. R[i].length \in 1..Aim /\ R[i].closed \in BOOLEAN
    BY <1>3
  <2>3. PICK g, l, c : g = sg[R[i].sid] /\ l = R[i].length /\ c = R[i].closed
    OBVIOUS
  <2>4. Found(R[i]) = [g EXCEPT !.length = l, !.closed = c, !.nobj = 1, !.nalloc = 0,
                                !.flag = "mustload"]
    BY <2>3 DEF Found
  <2>5. g \in SegRecs /\ l \in 1..Aim /\ c \in BOOLEAN
    BY <2>1, <2>2, <2>3
  <2>8. PICK z \in 0..Aim, u \in Int : z = 0 /\ u = 1
    BY Sizes
  <2> DEFINE h == [g EXCEPT !.length = l, !.closed = c, !.nobj = u, !.nalloc = z,
                            !.flag = "mustload"]
  <2>6. h \in SegRecs
    BY <2>5 DEF SegRecs, Flags
  <2>7. h.offset = g.offset /\ h.length = l /\ h.closed = c /\ h.flag = "mustload"
    BY <2>5 DEF SegRecs
  <2>9. Found(R[i]) = h
    BY <2>4, <2>8
  <2> HIDE DEF h
  <2> QED
    BY <2>3, <2>6, <2>7, <2>9
<1>12. ASSUME NEW n \in Sids
       PROVE  s[n] \in SegRecs /\ s[n].offset = sg[n].offset
  <2>1. CASE Contains(ss, n)
    <3>1. PICK i \in 1..Len(R) : ss[i] = n
      BY <1>6, <2>1 DEF Contains
    <3>2. n = R[i].sid
      BY <1>6, <3>1
    <3> QED
      BY <1>10, <1>11, <3>2
  <2>2. CASE ~Contains(ss, n)
    <3>1. s[n] = sg[n]
      BY <2>2 DEF FoundMem
    <3> QED
      BY <1>1, <3>1
  <2> QED
    BY <2>1, <2>2
<1>13. s \in [Sids -> SegRecs] /\ OffsOf(s) = Offs
  <2>1. s \in [Sids -> SegRecs]
    BY <1>12 DEF FoundMem
  <2> HIDE DEF s
  <2> QED
    BY <1>12, <2>1 DEF OffsOf, Offs
<1>14. Ptrs(ss, s) = R
  <2>1. /\ Ptrs(ss, s) \in Seq(DiskEntries) /\ Len(Ptrs(ss, s)) = Len(ss)
        /\ \A i \in 1..Len(ss) : Ptrs(ss, s)[i] = [sid |-> ss[i], length |-> s[ss[i]].length,
                                                   closed |-> s[ss[i]].closed]
    BY <1>6, <1>13, PtrsFacts
  <2>2. ASSUME NEW i \in 1..Len(R) PROVE Ptrs(ss, s)[i] = R[i]
    <3>1. /\ Ptrs(ss, s)[i] = [sid |-> ss[i], length |-> s[ss[i]].length,
                               closed |-> s[ss[i]].closed]
          /\ ss[i] = R[i].sid
      BY <1>6, <2>1
    <3>2. s[ss[i]].length = R[i].length /\ s[ss[i]].closed = R[i].closed
      BY <1>10, <1>11, <3>1
    <3>3. R[i] = [sid |-> R[i].sid, length |-> R[i].length, closed |-> R[i].closed]
      <4>1. R[i] \in DiskEntries
        BY <1>2
      <4> QED
        BY <4>1 DEF DiskEntries
    <3> QED
      BY <3>1, <3>2, <3>3
  <2> HIDE DEF ss, s
  <2> QED
    BY <1>1, <1>6, <2>1, <2>2
<1>15. \A i \in 1..Len(ss) : s[ss[i]].flag = "mustload"
  BY <1>6, <1>10, <1>11
<1> QED
  BY <1>6, <1>13, <1>14, <1>15 DEF R

\* The two ways a start ends.
LEMMA OpenCases ==
    ASSUME smp_open
    PROVE  /\ proc = "down" /\ starts' = starts + 1
           /\ torn' = IF torn # "no" THEN "stale"
                      ELSE IF seg1 # seg2 \/ ~seg1.sig THEN "yes" ELSE "no"
           /\ UNCHANGED <<seg1, seg2, save>>
           /\ \/ proc' = "dead" /\ UNCHANGED <<nsid, segs, cur, free_offset, sg, cell, abut>>
              \/ /\ proc' = "up" /\ Fits(Recovered.free, FoundSegs)
                 /\ smp_new_seg(Recovered.free, FoundSegs, FoundMem)
BY DEF smp_open, FoundSegs, FoundMem, memVars

\* The objects a start finds.
LEMMA OpenObjs ==
    ASSUME TypeOK, smp_open
    PROVE  /\ ost' \in [Objs -> ObjStates]
           /\ home' \in [Objs -> 0..MaxSid] /\ body' \in [Objs -> 0..MaxSid]
<1>1. 0 \in 0..MaxSid /\ "none" \in ObjStates
  BY Sizes DEF ObjStates
<1>2. /\ ost \in [Objs -> ObjStates]
      /\ home \in [Objs -> 0..MaxSid] /\ body \in [Objs -> 0..MaxSid]
  BY DEF TypeOK
<1>3. /\ ost' = [o \in Objs |-> IF Listed(home[o]) THEN ost[o] ELSE "none"]
      /\ home' = [o \in Objs |-> IF Listed(home[o]) THEN home[o] ELSE 0]
      /\ body' = [o \in Objs |-> IF Listed(home[o]) THEN body[o] ELSE 0]
  BY DEF smp_open
<1> QED
  BY <1>1, <1>2, <1>3

\* A start.
LEMMA OpenStruct ==
    ASSUME TypeOK, Struct, smp_open
    PROVE  TypeOK' /\ Struct'
<1>1. /\ proc = "down" /\ starts' = starts + 1
      /\ torn' = IF torn # "no" THEN "stale"
                 ELSE IF seg1 # seg2 \/ ~seg1.sig THEN "yes" ELSE "no"
      /\ UNCHANGED <<seg1, seg2, save>>
      /\ \/ proc' = "dead" /\ UNCHANGED <<nsid, segs, cur, free_offset, sg, cell, abut>>
         \/ /\ proc' = "up" /\ Fits(Recovered.free, FoundSegs)
            /\ smp_new_seg(Recovered.free, FoundSegs, FoundMem)
  BY OpenCases
<1>2. /\ ost' \in [Objs -> ObjStates]
      /\ home' \in [Objs -> 0..MaxSid] /\ body' \in [Objs -> 0..MaxSid]
  BY OpenObjs
<1>3. torn' \in {"no", "yes", "stale"} /\ (torn' # "stale" => torn = "no")
      /\ (torn' = "no" => seg1 = seg2 /\ seg1.sig)
  BY <1>1
<1>4. starts' \in Nat
  BY <1>1, TypeParts
<1>5. segs = <<>> /\ cur = 0 /\ save.pc = 0
  BY <1>1 DEF Struct, CurInv
<1>6. SigInv'
  BY <1>1, <1>3 DEF SigInv
<1>7. CASE proc' = "dead" /\ UNCHANGED <<nsid, segs, cur, free_offset, sg, cell, abut>>
  <2>1. TypeOK'
    BY <1>1, <1>2, <1>3, <1>4, <1>7 DEF TypeOK
  <2>2. Now' = Now /\ Offs' = Offs
    BY <1>7 DEF Now, Offs
  <2>3. OrderInv'
    BY <1>1, <1>7, <2>2 DEF Struct, OrderInv
  <2>4. CurInv'
    BY <1>1, <1>5, <1>7 DEF CurInv
  <2>5. RingInv'
    BY <1>1, <1>7, <2>2 DEF Struct, RingInv
  <2>6. GoodInv'
    BY <1>1, <1>3, <1>7, <2>2 DEF Struct, GoodInv
  <2>7. UseInv'
    BY <1>7 DEF UseInv
  <2> QED
    BY <1>6, <2>1, <2>3, <2>4, <2>5, <2>6, <2>7 DEF Struct
<1>8. CASE /\ proc' = "up" /\ Fits(Recovered.free, FoundSegs)
           /\ smp_new_seg(Recovered.free, FoundSegs, FoundMem)
  <2> DEFINE R == Recovered.list
             fo == Recovered.free
             ss == FoundSegs
             s == FoundMem
  <2>1. /\ R = KeptList(Copy.list, Offs)
        /\ R \in Seq(DiskEntries) /\ Ascends(R, nsid)
        /\ fo \in Nat /\ 1 <= fo
        /\ ~abut => RingOf(R, Offs) /\ FreeOf(R, Offs, fo)
    BY RecoveredFacts
  <2>2. /\ ss \in Seq(Sids) /\ Len(ss) = Len(R)
        /\ s \in [Sids -> SegRecs] /\ OffsOf(s) = Offs
        /\ Ptrs(ss, s) = R
    BY FoundFacts
  <2>3. Fits(fo, ss) /\ smp_new_seg(fo, ss, s) /\ proc' = "up"
    BY <1>8
  <2>4. /\ Copy.list \in Seq(DiskEntries)
        /\ ~abut /\ torn = "no" => Good(KeptList(Copy.list, Offs), Offs, cell, nsid)
    BY CopyFacts
  <2>5. /\ Offs \in [Sids -> Offsets] /\ Offs \in [Sids -> Int] /\ nsid \in Nat
        /\ seg1.list \in Seq(DiskEntries) /\ seg2.list \in Seq(DiskEntries)
    BY NowFacts, TypeParts
  <2> HIDE DEF R, fo, ss, s
  <2>6. Ascends(Ptrs(ss, s), nsid)
    BY <2>1, <2>2
  <2>7. /\ nsid' \in Sids /\ segs' = Append(ss, nsid') /\ segs' \in Seq(Sids)
        /\ cur' = nsid' /\ free_offset' = Offset(fo) + Aim /\ nsid' = nsid + 1
        /\ sg' \in [Sids -> SegRecs] /\ cell' \in [Cells -> 0..MaxSid] /\ abut' \in BOOLEAN
        /\ Offset(fo) \in Offsets
        /\ Now' = Append(Ptrs(ss, s), Fresh(nsid'))
        /\ Offs' = [Offs EXCEPT ![nsid'] = Offset(fo)]
        /\ Offs' \in [Sids -> Offsets]
        /\ ~abut' => ~abut
        /\ (~abut' /\ RingOf(Ptrs(ss, s), Offs) /\ FreeOf(Ptrs(ss, s), Offs, fo))
              => RingOf(Now', Offs') /\ Clear(Ptrs(ss, s), Offs, Offset(fo))
    BY <2>1, <2>2, <2>3, <2>6, NewSegStep
  <2>8. ~abut' => RingOf(Ptrs(ss, s), Offs) /\ FreeOf(Ptrs(ss, s), Offs, fo)
    BY <2>1, <2>2, <2>7
  <2>9. ~abut' /\ torn' # "stale" => Good(Ptrs(ss, s), Offs, cell, nsid)
    BY <1>3, <2>1, <2>2, <2>4, <2>7
  <2>10. DiskList(seg1.list) /\ DiskList(seg2.list)
    BY <2>5 DEF DiskList, Struct, OrderInv, RingInv
  <2>11. ASSUME ~abut', torn' = "no"
         PROVE  /\ KeptList(seg1.list, Offs) = R /\ KeptList(seg2.list, Offs) = R
                /\ KeepsOff(seg1.list, Offset(fo)) /\ KeepsOff(seg2.list, Offset(fo))
                /\ InUse(R, Offs', segs', free_offset')
    <3>1. Copy = seg1 /\ seg2 = seg1
      BY <1>3, <2>11 DEF Copy
    <3>2. KeptList(seg1.list, Offs) = R /\ KeptList(seg2.list, Offs) = R
      BY <2>1, <3>1
    <3>3. Good(R, Offs, cell, nsid)
      BY <1>3, <2>1, <2>4, <2>7, <2>11
    <3>4. Clear(R, Offs, Offset(fo)) /\ RingOf(Append(R, Fresh(nsid')), Offs')
      BY <2>2, <2>7, <2>8, <2>11
    <3>5. Among(R, R)
      <4>1. \A i \in 1..Len(R) : R[i].length <= R[i].length
        <5>1. \A i \in 1..Len(R) : R[i] \in DiskEntries
          BY <2>1
        <5> QED
          BY <5>1, Sizes DEF DiskEntries
      <4> QED
        BY <4>1 DEF Among
    <3>6. /\ Len(segs') = Len(Append(R, Fresh(nsid')))
          /\ segs'[1] = Append(R, Fresh(nsid'))[1].sid
      <4>1. Fresh(nsid').sid = nsid' /\ Fresh(nsid') \in DiskEntries
        BY <2>7, Sizes DEF Fresh, DiskEntries
      <4>2. /\ Len(Append(R, Fresh(nsid'))) = Len(ss) + 1 /\ Len(R) \in Nat
            /\ Append(R, Fresh(nsid'))[Len(ss) + 1] = Fresh(nsid')
            /\ Len(ss) # 0 => Append(R, Fresh(nsid'))[1] = R[1]
        BY <2>1, <2>2, <4>1, AppendAt
      <4>3. /\ Len(segs') = Len(ss) + 1 /\ segs'[Len(ss) + 1] = nsid'
            /\ Len(ss) # 0 => segs'[1] = ss[1]
        BY <2>2, <2>7, AppendAt
      <4>4. Len(ss) # 0 => R[1].sid = ss[1]
        <5>1. Len(ss) # 0 => 1 \in 1..Len(ss)
          BY <2>2
        <5> QED
          BY <2>2, <5>1, PtrsFacts
      <4> QED
        BY <2>2, <4>1, <4>2, <4>3, <4>4
    <3>7. InUse(R, Offs', segs', Offs'[nsid'] + Aim)
      BY <2>1, <2>7, <3>4, <3>5, <3>6, ArcAfter
    <3>8. Offs'[nsid'] = Offset(fo)
      BY <2>5, <2>7
    <3> QED
      BY <2>7, <3>2, <3>3, <3>4, <3>7, <3>8 DEF KeepsOff
  <2>12. Struct'
    <3>1. DiskList(seg1'.list) /\ DiskList(seg2'.list) /\ save'.pc = 0
      BY <1>1, <1>5, <2>10
    <3>2. ~abut' /\ torn' = "no" =>
               /\ KeepsOff(seg1'.list, Offset(fo)) /\ KeepsOff(seg2'.list, Offset(fo))
               /\ InUse(KeptList(seg1'.list, Offs), Offs', segs', free_offset')
               /\ InUse(KeptList(seg2'.list, Offs), Offs', segs', free_offset')
      BY <1>1, <2>11
    <3> QED
      BY <1>6, <2>1, <2>2, <2>3, <2>6, <2>8, <2>9, <3>1, <3>2, NewSegStruct
  <2>13. TypeOK'
    <3>1. nsid' \in 0..MaxSid /\ free_offset' \in Nat
      BY <2>7, Sizes DEF Sids, Offsets
    <3>2. nsid' \in 0..MaxSid /\ cur' \in 0..MaxSid
      BY <2>7, <3>1
    <3> QED
      BY <1>1, <1>2, <1>3, <1>4, <2>3, <2>7, <3>1, <3>2 DEF TypeOK
  <2> QED
    BY <2>12, <2>13
<1> QED
  BY <1>1, <1>7, <1>8

\* An end of a list, with segments that may have become shorter.
LEMMA ShrinkList ==
    ASSUME NEW L \in Seq(DiskEntries), NEW M \in Seq(DiskEntries), NEW o \in [Sids -> Int],
           NEW m \in Nat, m + Len(M) = Len(L),
           \A i \in 1..Len(M) : M[i].sid = L[i + m].sid /\ M[i].length <= L[i + m].length
    PROVE  /\ RingOf(L, o) => RingOf(M, o)
           /\ \A n \in Nat : Ascends(L, n) => Ascends(M, n)
           /\ Among(M, L)
<1> DEFINE k == Len(M)
           a == Begins(L, o)
           b == Ends(L, o)
           c == Begins(M, o)
           d == Ends(M, o)
           e == [i \in 1..k |-> b[i + m]]
<1>1. /\ k \in Nat /\ Len(L) \in Nat
      /\ a \in [1..Len(L) -> Int] /\ b \in [1..Len(L) -> Int]
      /\ c \in [1..k -> Int] /\ d \in [1..k -> Int]
  BY ListBounds
<1>2. \A i \in 1..k : i + m \in 1..Len(L)
  BY <1>1
<1>3. ASSUME NEW i \in 1..k
      PROVE  c[i] = a[i + m] /\ e[i] = b[i + m] /\ c[i] < d[i] /\ d[i] <= e[i]
  <2>1. PICK j \in 1..Len(L) : j = i + m
    BY <1>2
  <2>2. a[j] = o[L[j].sid] /\ b[j] = o[L[j].sid] + L[j].length /\ L[j] \in DiskEntries
    BY ListBounds
  <2>3. c[i] = o[M[i].sid] /\ d[i] = o[M[i].sid] + M[i].length /\ M[i] \in DiskEntries
    BY ListBounds
  <2>4. M[i].sid = L[j].sid /\ M[i].length <= L[j].length
    BY <2>1
  <2>9. PICK x, y \in DiskEntries : x = M[i] /\ y = L[j]
    BY <2>2, <2>3
  <2>10. x.length \in Int /\ 1 <= x.length /\ y.length \in Int /\ x.sid \in Sids
    BY Sizes DEF DiskEntries
  <2>5. /\ M[i].length \in Int /\ 1 <= M[i].length /\ L[j].length \in Int /\ M[i].sid \in Sids
    BY <2>9, <2>10
  <2>6. o[M[i].sid] \in Int
    BY <2>5
  <2>7. e[i] = b[i + m]
    OBVIOUS
  <2> HIDE DEF a, b, c, d, e
  <2>8. c[i] = a[j] /\ c[i] < d[i] /\ d[i] <= b[j]
    BY <2>2, <2>3, <2>4, <2>5, <2>6
  <2> QED
    BY <2>1, <2>7, <2>8
<1>4. e \in [1..k -> Int]
  <2>1. \A i \in 1..k : b[i + m] \in Int
    BY <1>1, <1>2
  <2> QED
    BY <2>1
<1>5. ASSUME RingOf(L, o) PROVE RingOf(M, o)
  <2>1. Ring(Len(L), a, b)
    BY <1>5 DEF RingOf
  <2> HIDE DEF a, b, c, d, e
  <2>2. m + k <= Len(L)
    BY <1>1
  <2>3. Ring(k, c, e)
    BY <1>1, <1>3, <1>4, <2>1, <2>2, RingPart
  <2>4. Ring(k, c, d)
    BY <1>1, <1>3, <1>4, <2>3, RingShrinks
  <2> QED
    BY <2>4 DEF RingOf, c, d
<1>6. ASSUME NEW n \in Nat, Ascends(L, n) PROVE Ascends(M, n)
  <2>1. ASSUME NEW i \in 1..k PROVE M[i].sid <= n
    BY <1>2, <1>6 DEF Ascends
  <2>2. ASSUME NEW i \in 1..k, NEW j \in 1..k, i < j PROVE M[i].sid < M[j].sid
    <3>1. i + m \in 1..Len(L) /\ j + m \in 1..Len(L) /\ i + m < j + m
      BY <1>1, <1>2, <2>2
    <3>2. L[i + m].sid < L[j + m].sid
      BY <1>6, <3>1 DEF Ascends
    <3> QED
      BY <3>2
  <2> QED
    BY <2>1, <2>2 DEF Ascends
<1>7. Among(M, L)
  BY <1>2 DEF Among
<1> QED
  BY <1>5, <1>6, <1>7

\* The lists and the space after the empty segments at the front are removed
\* and the last one may have been closed.
LEMMA LeftPtrs ==
    ASSUME NEW ss \in Seq(Sids), NEW s \in [Sids -> SegRecs], NEW t \in [Sids -> SegRecs],
           NEW m \in 1..(Len(ss) + 1), NEW o \in [Sids -> Int],
           \A x \in Sids : t[x].length <= s[x].length
    PROVE  /\ Ptrs(Left(ss, m), t) \in Seq(DiskEntries)
           /\ RingOf(Ptrs(ss, s), o) => RingOf(Ptrs(Left(ss, m), t), o)
           /\ \A n \in Nat : Ascends(Ptrs(ss, s), n) => Ascends(Ptrs(Left(ss, m), t), n)
           /\ Among(Ptrs(Left(ss, m), t), Ptrs(ss, s))
<1> DEFINE tt == Left(ss, m)
           L == Ptrs(ss, s)
           M == Ptrs(tt, t)
<1>1. /\ tt \in Seq(Sids) /\ Len(ss) \in Nat /\ Len(tt) = Len(ss) - (m - 1)
      /\ \A i \in 1..Len(tt) : i + (m - 1) \in 1..Len(ss) /\ tt[i] = ss[i + (m - 1)]
  BY LeftFacts
<1>2. /\ L \in Seq(DiskEntries) /\ Len(L) = Len(ss)
      /\ \A i \in 1..Len(ss) : ss[i] \in Sids /\ L[i].sid = ss[i] /\ L[i].length = s[ss[i]].length
  BY PtrsFacts
<1> HIDE DEF tt, L
<1>3. /\ M \in Seq(DiskEntries) /\ Len(M) = Len(tt) /\ Len(tt) \in Nat
      /\ \A i \in 1..Len(tt) : M[i].sid = tt[i] /\ M[i].length = t[tt[i]].length
  BY <1>1, PtrsFacts
<1> HIDE DEF M
<1>4. PICK q \in Nat : q = m - 1
  BY <1>1
<1>5. ASSUME NEW i \in 1..Len(M)
      PROVE  M[i].sid = L[i + q].sid /\ M[i].length <= L[i + q].length
  <2>1. PICK j \in 1..Len(ss) : j = i + q
    BY <1>1, <1>3, <1>4
  <2>2. tt[i] = ss[j] /\ ss[j] \in Sids
    BY <1>1, <1>2, <1>3, <1>4, <2>1
  <2>3. M[i].sid = tt[i] /\ M[i].length = t[tt[i]].length
    BY <1>3
  <2>4. L[j].sid = ss[j] /\ L[j].length = s[ss[j]].length
    BY <1>2
  <2> QED
    BY <2>1, <2>2, <2>3, <2>4
<1>6. q + Len(M) = Len(L)
  BY <1>1, <1>2, <1>3, <1>4
<1>7. /\ RingOf(L, o) => RingOf(M, o)
      /\ \A n \in Nat : Ascends(L, n) => Ascends(M, n)
      /\ Among(M, L)
  BY <1>2, <1>3, <1>5, <1>6, ShrinkList
<1> QED
  BY <1>3, <1>7 DEF tt, L, M

\* Empty segments at the front are removed, and a segment may be closed.
LEMMA RemovedStruct ==
    ASSUME TypeOK, Struct, Unlocked, NEW m \in 1..(Len(segs) + 1),
           segs' = Left(segs, m), sg' \in [Sids -> SegRecs],
           \A x \in Sids : sg'[x].offset = sg[x].offset /\ sg'[x].length <= sg[x].length,
           UNCHANGED <<proc, nsid, cell, seg1, seg2, torn, abut>>, save'.pc = 1, CurInv'
    PROVE  Struct' /\ segs' \in Seq(Sids)
<1>1. /\ Now \in Seq(DiskEntries) /\ Offs \in [Sids -> Offsets] /\ Offs \in [Sids -> Int]
  BY NowFacts
<1>2. segs \in Seq(Sids) /\ sg \in [Sids -> SegRecs] /\ nsid \in Nat
  BY TypeParts
<1>3. Offs' = Offs
  BY DEF Offs, OffsOf
<1>4. \A x \in Sids : sg'[x].length <= sg[x].length
  OBVIOUS
<1>5. PICK t \in [Sids -> SegRecs] : t = sg'
  OBVIOUS
<1>6. \A x \in Sids : t[x].length <= sg[x].length
  BY <1>4, <1>5
<1>7. /\ Ptrs(Left(segs, m), t) \in Seq(DiskEntries)
      /\ RingOf(Ptrs(segs, sg), Offs) => RingOf(Ptrs(Left(segs, m), t), Offs)
      /\ \A n \in Nat : Ascends(Ptrs(segs, sg), n) => Ascends(Ptrs(Left(segs, m), t), n)
      /\ Among(Ptrs(Left(segs, m), t), Ptrs(segs, sg))
  BY <1>1, <1>2, <1>6, LeftPtrs
<1>8. Now = Ptrs(segs, sg) /\ Now' = Ptrs(Left(segs, m), t)
  BY <1>5 DEF Now
<1>9. /\ Now' \in Seq(DiskEntries) /\ (RingOf(Now, Offs) => RingOf(Now', Offs))
      /\ (Ascends(Now, nsid) => Ascends(Now', nsid)) /\ Among(Now', Now)
  BY <1>2, <1>7, <1>8
<1>10. 0 \in Int /\ save.pc = 0 /\ proc = "up"
  BY DEF Unlocked
<1>11. Good(Now, Offs, cell, nsid) => Good(Now', Offs, cell, nsid)
  BY <1>1, <1>9, <1>10, GoodPart
<1>12. OrderInv'
  BY <1>9 DEF Struct, OrderInv
<1>13. RingInv'
  BY <1>3, <1>9 DEF Struct, RingInv
<1>14. GoodInv'
  BY <1>3, <1>11 DEF Struct, GoodInv
<1>15. UseInv'
  BY DEF UseInv
<1>16. SigInv'
  BY <1>10 DEF Struct, SigInv
<1>17. segs' \in Seq(Sids)
  BY <1>2, LeftFacts
<1> QED
  BY <1>12, <1>13, <1>14, <1>15, <1>16, <1>17 DEF Struct

\* The segments that WithoutEmpty leaves.
LEMMA LeftOver ==
    ASSUME TypeOK, Struct, NEW s \in [Sids -> SegRecs], NEW c \in Nat,
           c = 0 \/ c = cur
    PROVE  \E m \in 1..(Len(segs) + 1) :
              /\ WithoutEmpty(segs, c, s) = Left(segs, m)
              /\ \A i \in 1..(m - 1) : ~(s[segs[i]].nobj > 0)
              /\ c # 0 => m <= Len(segs)
<1>1. segs \in Seq(Sids) /\ (cur # 0 => cur \in Sids)
  BY TypeParts
<1>2. cur # 0 => segs # <<>> /\ segs[Len(segs)] = cur
  BY DEF Struct, CurInv
<1>3. cur # 0 => Len(segs) \in 1..Len(segs)
  BY <1>2, NowEnds
<1>4. IsLast(c, segs)
  <2> SUFFICES ASSUME NEW i \in 1..Len(segs), segs[i] = c PROVE i = Len(segs)
    BY DEF IsLast
  <2>1. segs[i] \in Sids
    BY <1>1
  <2>2. c # 0
    BY <2>1, Sizes DEF Sids
  <2> QED
    BY <1>2, <1>3, <2>2, CurLast
<1>5. PICK m \in 1..(Len(segs) + 1) :
              /\ WithoutEmpty(segs, c, s) = Left(segs, m)
              /\ \A i \in 1..(m - 1) : ~(s[segs[i]].nobj > 0)
              /\ \A i \in 1..Len(segs) : segs[i] = c => m <= Len(segs)
  BY <1>1, <1>4, FrontGone
<1>6. c # 0 => m <= Len(segs)
  BY <1>2, <1>3, <1>5
<1> QED
  BY <1>5, <1>6

\* The last of the segments that are left is the last.
LEMMA LeftLast ==
    ASSUME NEW ss \in Seq(Sids), NEW m \in 1..(Len(ss) + 1), Left(ss, m) # <<>>
    PROVE  Left(ss, m)[Len(Left(ss, m))] = ss[Len(ss)]
<1>1. /\ Left(ss, m) \in Seq(Sids) /\ Len(ss) \in Nat
      /\ Len(Left(ss, m)) = Len(ss) - (m - 1)
      /\ \A i \in 1..Len(Left(ss, m)) : Left(ss, m)[i] = ss[i + (m - 1)]
  BY LeftFacts
<1>2. Len(Left(ss, m)) # 0 /\ Len(Left(ss, m)) \in Nat
  BY <1>1
<1>3. PICK l \in Nat : l = Len(Left(ss, m)) /\ l \in 1..Len(Left(ss, m))
  BY <1>2
<1>4. l + (m - 1) = Len(ss)
  BY <1>1, <1>3
<1> QED
  BY <1>1, <1>3, <1>4

\* smp_close_seg.
LEMMA CloseStruct ==
    ASSUME TypeOK, Struct, Unlocked, NEW then \in {"new", "stop"}, CloseSeg(then)
    PROVE  TypeOK' /\ Struct'
<1> DEFINE s == [sg EXCEPT ![cur].closed = TRUE, ![cur].length = sg[cur].nalloc]
<1>1. /\ cur # 0 /\ sg[cur].nalloc > 0 /\ sg' = s /\ segs' = WithoutEmpty(segs, 0, s)
      /\ save' = [pc |-> 1, sid |-> cur, then |-> then] /\ cur' = 0
      /\ UNCHANGED <<proc, starts, nsid, free_offset, cell, seg1, seg2, ost, home, body, torn, abut>>
  BY DEF CloseSeg, bounds, objVars, disk
<1>2. segs \in Seq(Sids) /\ cur \in Sids /\ sg \in [Sids -> SegRecs] /\ cur \in 0..MaxSid
  BY <1>1, TypeParts
<1>3. /\ segs # <<>> /\ segs[Len(segs)] = cur /\ sg[cur].length = Aim /\ proc = "up"
  BY <1>1 DEF Struct, CurInv, Unlocked
<1>4. /\ s \in [Sids -> SegRecs]
      /\ \A x \in Sids : s[x].offset = sg[x].offset /\ s[x].length <= sg[x].length
  <2>1. sg[cur] \in SegRecs
    BY <1>2
  <2>2. PICK n \in 1..Aim : n = sg[cur].nalloc
    <3>1. sg[cur].nalloc \in 0..Aim
      BY <2>1 DEF SegRecs
    <3> QED
      BY <1>1, <3>1, Sizes
  <2>3. [sg[cur] EXCEPT !.closed = TRUE, !.length = n] \in SegRecs
    BY <2>1 DEF SegRecs
  <2>4. /\ [sg[cur] EXCEPT !.closed = TRUE, !.length = n].length = n
        /\ [sg[cur] EXCEPT !.closed = TRUE, !.length = n].offset = sg[cur].offset
    BY <2>1 DEF SegRecs
  <2>5. s = [sg EXCEPT ![cur] = [sg[cur] EXCEPT !.closed = TRUE, !.length = n]]
    BY <1>2, <2>2
  <2>6. \A x \in Sids : s[x] = IF x = cur THEN [sg[cur] EXCEPT !.closed = TRUE, !.length = n]
                               ELSE sg[x]
    BY <1>2, <2>5
  <2>7. \A x \in Sids : sg[x].length \in Int
    <3>1. \A x \in Sids : sg[x] \in SegRecs
      BY <1>2
    <3> QED
      BY <3>1, Sizes DEF SegRecs
  <2>8. n <= sg[cur].length
    BY <1>3, <2>2, Sizes
  <2>9. s \in [Sids -> SegRecs]
    BY <1>2, <2>3, <2>5
  <2> HIDE DEF s
  <2>10. ASSUME NEW x \in Sids
         PROVE  s[x].offset = sg[x].offset /\ s[x].length <= sg[x].length
    <3>1. CASE x = cur
      BY <2>4, <2>6, <2>8, <3>1
    <3>2. CASE x # cur
      <4>1. s[x] = sg[x]
        BY <2>6, <3>2
      <4> QED
        BY <2>7, <4>1
    <3> QED
      BY <3>1, <3>2
  <2> QED
    BY <2>9, <2>10
<1> HIDE DEF s
<1>5. PICK m \in 1..(Len(segs) + 1) : WithoutEmpty(segs, 0, s) = Left(segs, m)
  <2>1. 0 \in Nat
    OBVIOUS
  <2> QED
    BY <1>4, <2>1, LeftOver
<1>6. segs' # <<>> => segs'[Len(segs')] = cur
  BY <1>1, <1>2, <1>3, <1>5, LeftLast
<1>7. save'.pc = 1 /\ save'.sid = cur /\ save'.then = then /\ save'.then # "none"
  BY <1>1
<1>8. cur <= nsid
  <2>1. Len(segs) \in 1..Len(segs) /\ Len(Now) = Len(segs)
    BY <1>3, NowEnds, NowFacts
  <2>2. Now[Len(segs)].sid = cur
    BY <1>3, <2>1, NowFacts
  <2> QED
    BY <2>1, <2>2 DEF Struct, OrderInv, Ascends
<1>9. CurInv'
  BY <1>1, <1>2, <1>3, <1>6, <1>7, <1>8 DEF CurInv
<1>10. Struct' /\ segs' \in Seq(Sids)
  <2>1. /\ segs' = Left(segs, m) /\ sg' \in [Sids -> SegRecs]
        /\ \A x \in Sids : sg'[x].offset = sg[x].offset /\ sg'[x].length <= sg[x].length
        /\ UNCHANGED <<proc, nsid, cell, seg1, seg2, torn, abut>>
    BY <1>1, <1>4, <1>5
  <2> QED
    BY <1>7, <1>9, <2>1, RemovedStruct
<1>11. save' \in Saves /\ cur' \in 0..MaxSid
  BY <1>1, <1>2, Sizes DEF Saves
<1>12. sg' \in [Sids -> SegRecs]
  BY <1>1, <1>4
<1>13. TypeOK'
  BY <1>1, <1>10, <1>11, <1>12 DEF TypeOK, Saves
<1> QED
  BY <1>10, <1>13

\* The periodic save of the silo's thread.
LEMMA ThreadStruct ==
    ASSUME TypeOK, Struct, smp_thread
    PROVE  TypeOK' /\ Struct'
<1>1. /\ Unlocked /\ cur # 0 /\ segs' = WithoutEmpty(segs, cur, sg)
      /\ save' = [pc |-> 1, sid |-> 0, then |-> "none"]
      /\ UNCHANGED <<proc, starts, nsid, cur, free_offset, sg, cell, seg1, seg2,
                     ost, home, body, torn, abut>>
  <2>1. /\ Unlocked /\ segs' = WithoutEmpty(segs, cur, sg)
        /\ save' = [pc |-> 1, sid |-> 0, then |-> "none"]
        /\ UNCHANGED <<proc, starts, nsid, cur, free_offset, sg, cell, seg1, seg2,
                       ost, home, body, torn, abut>>
    BY DEF smp_thread, bounds, objVars, disk
  <2>2. cur # 0
    BY <2>1 DEF Unlocked, Struct, CurInv
  <2> QED
    BY <2>1, <2>2
<1>2. segs \in Seq(Sids) /\ cur \in Sids /\ sg \in [Sids -> SegRecs] /\ cur \in Nat
  <2>1. segs \in Seq(Sids) /\ cur \in Sids /\ sg \in [Sids -> SegRecs] /\ cur \in 0..MaxSid
    BY <1>1, TypeParts
  <2> QED
    BY <2>1, Sizes
<1>3. /\ segs # <<>> /\ segs[Len(segs)] = cur /\ sg[cur].length = Aim
      /\ free_offset = sg[cur].offset + Aim /\ proc = "up"
  BY <1>1 DEF Struct, CurInv, Unlocked
<1>4. PICK m \in 1..(Len(segs) + 1) : WithoutEmpty(segs, cur, sg) = Left(segs, m) /\ m <= Len(segs)
  BY <1>1, <1>2, LeftOver
<1>5. segs' # <<>> /\ segs'[Len(segs')] = cur
  <2>1. Len(Left(segs, m)) = Len(segs) - (m - 1) /\ Len(segs) \in Nat
    BY <1>2, LeftFacts
  <2>2. Len(Left(segs, m)) # 0
    BY <1>4, <2>1
  <2>3. Left(segs, m) # <<>>
    BY <2>2
  <2> QED
    BY <1>1, <1>2, <1>3, <1>4, <2>3, LeftLast
<1>6. save'.pc = 1 /\ save'.then = "none"
  BY <1>1
<1>7. CurInv'
  BY <1>1, <1>3, <1>5, <1>6 DEF CurInv
<1>8. Struct' /\ segs' \in Seq(Sids)
  <2>1. \A x \in Sids : sg[x].length <= sg[x].length
    <3>1. \A x \in Sids : sg[x] \in SegRecs
      BY <1>2
    <3> QED
      BY <3>1, Sizes DEF SegRecs
  <2>2. /\ segs' = Left(segs, m) /\ sg' \in [Sids -> SegRecs]
        /\ \A x \in Sids : sg'[x].offset = sg[x].offset /\ sg'[x].length <= sg[x].length
        /\ UNCHANGED <<proc, nsid, cell, seg1, seg2, torn, abut>>
    BY <1>1, <1>2, <1>4, <2>1
  <2> QED
    BY <1>1, <1>6, <1>7, <2>2, RemovedStruct
<1>9. save' \in Saves
  BY <1>1, Sizes DEF Saves
<1>10. TypeOK'
  BY <1>1, <1>8, <1>9 DEF TypeOK, Saves
<1> QED
  BY <1>8, <1>10

\* Each write of a save.
LEMMA SaveSegStruct ==
    ASSUME TypeOK, Struct, smp_save_seg
    PROVE  TypeOK' /\ Struct'
<1>1. /\ proc = "up" /\ save.pc \in 1..7 /\ save' = [save EXCEPT !.pc = @ + 1]
      /\ UNCHANGED <<proc, starts, nsid, segs, cur, free_offset, sg, cell, ost, home, body, torn, abut>>
  BY DEF smp_save_seg, bounds, memVars, objVars
<1>2. /\ seg1' = CASE save.pc = 1 -> Invalid
                   [] save.pc = 2 -> Empty
                   [] save.pc = 3 -> Invalid
                   [] save.pc = 4 -> Signed
                   [] OTHER       -> seg1
      /\ seg2' = CASE save.pc = 5 -> Invalid
                   [] save.pc = 6 -> Empty
                   [] save.pc = 7 -> Invalid
                   [] OTHER       -> seg2
  BY DEF smp_save_seg
<1>3. /\ save.pc \in 1..3 => seg1' \in {Invalid, Empty} /\ seg2' = seg2
      /\ save.pc = 4 => seg1' = Signed /\ seg2' = seg2
      /\ save.pc \in 5..7 => seg1' = seg1 /\ seg2' \in {Invalid, Empty}
  BY <1>1, <1>2
<1>4. save \in Saves /\ save' \in Saves /\ save'.pc = save.pc + 1
      /\ save'.then = save.then /\ save'.sid = save.sid
  <2>1. save \in Saves
    BY TypeParts
  <2>2. PICK k \in 0..8 : k = save.pc + 1
    BY <1>1
  <2>3. save' = [save EXCEPT !.pc = k]
    BY <1>1, <2>1, <2>2 DEF Saves
  <2> QED
    BY <2>1, <2>2, <2>3 DEF Saves
<1>5. Now' = Now /\ Offs' = Offs
  BY <1>1 DEF Now, Offs
<1>6. /\ Now \in Seq(DiskEntries) /\ Offs \in [Sids -> Offsets] /\ Offs \in [Sids -> Int]
  BY NowFacts
<1>7. Signed = [sig |-> TRUE, list |-> Now] /\ Signed.list = Now /\ Signed.sig = TRUE
  BY NowIs
<1>8. /\ Invalid.list = <<>> /\ Empty.list = <<>> /\ Empty.sig = TRUE
      /\ Invalid \in Copies /\ Empty \in Copies /\ Signed \in Copies
  BY <1>6, <1>7 DEF Invalid, Empty, Copies
<1>9. seg1 \in Copies /\ seg2 \in Copies
  BY TypeParts
<1>10. /\ seg1' \in {Invalid, Empty, Signed, seg1} /\ seg2' \in {Invalid, Empty, seg2}
       /\ seg1' = Signed => save.pc = 4 \/ seg1' \in {Invalid, Empty, seg1}
  BY <1>1, <1>3
<1>11. TypeOK'
  <2>1. seg1' \in Copies /\ seg2' \in Copies
    BY <1>8, <1>9, <1>10
  <2> QED
    BY <1>1, <1>4, <2>1 DEF TypeOK, Copies, Saves
<1>12. /\ seg1'.list \in {<<>>, Now, seg1.list} /\ seg2'.list \in {<<>>, seg2.list}
  BY <1>7, <1>8, <1>10
<1>13. /\ KeptList(<<>>, Offs) = <<>> /\ Ascends(<<>>, nsid) /\ RingOf(<<>>, Offs)
       /\ Good(<<>>, Offs, cell, nsid)
  BY DEF KeptList, Ascends, RingOf, Ring, Laid, Apart, Turns, Good, Safe, Whole
<1>14. ~abut /\ torn # "stale" => Good(KeptList(Now, Offs), Offs, cell, nsid)
  BY KeptNow
<1>15. OrderInv'
  BY <1>1, <1>5, <1>12, <1>13 DEF Struct, OrderInv
<1>16. RingInv'
  BY <1>1, <1>5, <1>12, <1>13 DEF Struct, RingInv
<1>17. GoodInv'
  BY <1>1, <1>5, <1>12, <1>13, <1>14 DEF Struct, GoodInv
<1>18. UseInv'
  BY <1>1, <1>4 DEF UseInv
<1>19. save.pc \in Int /\ save.pc # 0
  BY <1>1
<1>20. CurInv'
  <2>1. save'.pc # 0
    BY <1>1, <1>4
  <2>2. save'.pc \in 5..8 => seg1' = [sig |-> TRUE, list |-> Now]
    <3>1. CASE save.pc = 4
      BY <1>3, <1>7, <3>1
    <3>2. CASE save.pc \in 5..7
      BY <1>3, <3>2 DEF Struct, CurInv
    <3>3. CASE save.pc \in 1..3
      BY <1>4, <3>3
    <3> QED
      BY <1>1, <3>1, <3>2, <3>3
  <2> QED
    BY <1>1, <1>4, <1>5, <1>19, <2>1, <2>2 DEF Struct, CurInv
<1>21. SigInv'
  <2> SUFFICES ASSUME torn = "no"
               PROVE  /\ seg1'.sig \/ seg2'.sig
                      /\ save'.pc \in 0..4 => seg2'.sig
    BY <1>1 DEF SigInv
  <2>1. CASE save.pc \in 1..3
    <3>1. seg2.sig
      BY <1>1, <2>1 DEF Struct, SigInv
    <3> QED
      BY <1>3, <2>1, <3>1
  <2>2. CASE save.pc = 4
    BY <1>3, <1>4, <1>7, <2>2
  <2>3. CASE save.pc \in 5..7
    <3>1. seg1.sig = TRUE
      BY <2>3 DEF Struct, CurInv
    <3> QED
      BY <1>3, <1>4, <2>3, <3>1
  <2> QED
    BY <1>1, <2>1, <2>2, <2>3
<1> QED
  BY <1>11, <1>15, <1>16, <1>17, <1>18, <1>20, <1>21 DEF Struct

\* The child goes down: what it had written is there for the next one.  The
\* second copy may just have been written.
LEMMA DownStruct ==
    ASSUME TypeOK, Struct, Down,
           \/ seg2' = seg2 /\ torn' = torn
           \/ save.pc = 8 /\ seg2' = Signed /\ torn' = Mended
    PROVE  TypeOK' /\ Struct'
<1>1. /\ proc' = "down" /\ segs' = <<>> /\ cur' = 0 /\ free_offset' = 0 /\ save' = NoSave
      /\ sg' = [s \in Sids |-> [NewSeg(sg[s].offset) EXCEPT !.length = sg[s].length,
                                                            !.flag = "gone"]]
      /\ cell' = [c \in Cells |-> IF Listed(cell[c]) THEN cell[c] ELSE 0]
      /\ ost' = [o \in Objs |-> IF ost[o] \in OnDisk THEN "disk" ELSE "none"]
      /\ home' = [o \in Objs |-> IF ost[o] \in OnDisk THEN home[o] ELSE 0]
      /\ body' = [o \in Objs |-> IF ost[o] \in OnDisk THEN body[o] ELSE 0]
      /\ UNCHANGED <<starts, nsid, seg1, abut>>
  BY DEF Down, bounds
<1>2. /\ sg \in [Sids -> SegRecs] /\ cell \in [Cells -> 0..MaxSid] /\ 0 \in 0..MaxSid
      /\ seg1 \in Copies /\ seg2 \in Copies /\ seg1.list \in Seq(DiskEntries)
      /\ seg2.list \in Seq(DiskEntries)
  BY TypeParts, Sizes
<1>3. ASSUME NEW s \in Sids
      PROVE  /\ sg'[s] \in SegRecs /\ sg'[s].offset = sg[s].offset
  <2>1. sg[s] \in SegRecs
    BY <1>2
  <2>2. PICK o \in 1..(End - Aim), l \in 1..Aim : o = sg[s].offset /\ l = sg[s].length
    BY <2>1 DEF SegRecs
  <2>3. PICK z \in 0..Aim, u \in Int : z = 0 /\ u = 0
    BY Sizes
  <2>4. sg'[s] = [offset |-> o, length |-> l, nalloc |-> z, nobj |-> u,
                  closed |-> FALSE, flag |-> "gone"]
    <3>1. sg'[s] = [NewSeg(o) EXCEPT !.length = l, !.flag = "gone"]
      BY <1>1, <2>2
    <3> QED
      BY <2>3, <3>1 DEF NewSeg
  <2> QED
    BY <2>2, <2>4 DEF SegRecs, Flags
<1>4. sg' \in [Sids -> SegRecs] /\ Offs' = Offs
  <2>1. sg' \in [Sids -> SegRecs]
    BY <1>1, <1>3
  <2> QED
    BY <1>3, <2>1 DEF Offs, OffsOf
<1>5. cell' \in [Cells -> 0..MaxSid]
  BY <1>1, <1>2
<1>19. /\ proc' = "down" /\ segs' = <<>> /\ cur' = 0 /\ free_offset' = 0 /\ save' = NoSave
       /\ segs' \in Seq(Sids) /\ Len(segs') = 0
  <2>1. <<>> \in Seq(Sids) /\ Len(<<>>) = 0
    OBVIOUS
  <2>2. segs' = <<>>
    BY <1>1
  <2>3. segs' \in Seq(Sids) /\ Len(segs') = 0
    BY <2>1, <2>2, Zenon
  <2> QED
    BY <1>1, <2>3
<1>6. Now' = <<>>
  <2>1. Ptrs(segs', sg') \in Seq(DiskEntries) /\ Len(Ptrs(segs', sg')) = 0
    BY <1>4, <1>19, PtrsFacts
  <2> QED
    BY <2>1 DEF Now
<1>7. Signed = [sig |-> TRUE, list |-> Now] /\ Signed.list = Now /\ Signed.sig = TRUE
  BY NowIs
<1>8. Now \in Seq(DiskEntries) /\ Offs \in [Sids -> Offsets] /\ Offs \in [Sids -> Int]
  BY NowFacts
<1>9. \/ seg2' = seg2 /\ torn' = torn
      \/ seg2' = seg1 /\ seg1 = Signed /\ seg1.list = Now /\ seg1.sig /\ torn' = Mended
  <2>1. CASE save.pc = 8 /\ seg2' = Signed /\ torn' = Mended
    <3>1. save.pc \in 5..8
      BY <2>1
    <3>2. seg1 = [sig |-> TRUE, list |-> Now]
      BY <3>1 DEF Struct, CurInv
    <3> QED
      BY <1>7, <2>1, <3>2
  <2> QED
    BY <2>1
<1>10. torn' \in {"no", "yes", "stale"} /\ (torn' # "stale" => torn # "stale")
  BY <1>9, TypeParts DEF Mended
<1>11. TypeOK'
  <2>1. ost' \in [Objs -> ObjStates]
    BY <1>1 DEF ObjStates
  <2>2. home' \in [Objs -> 0..MaxSid] /\ body' \in [Objs -> 0..MaxSid]
    <3>1. home \in [Objs -> 0..MaxSid] /\ body \in [Objs -> 0..MaxSid]
      BY DEF TypeOK
    <3> QED
      BY <1>1, <1>2, <3>1
  <2>5. NoSave \in Saves
    BY Sizes DEF NoSave, Saves
  <2>3. NoSave \in Saves /\ segs' \in Seq(Sids) /\ cur' \in 0..MaxSid /\ free_offset' \in Nat
    BY <1>2, <1>19, <2>5
  <2>4. seg2' \in Copies
    BY <1>2, <1>9
  <2> QED
    BY <1>1, <1>4, <1>5, <1>10, <2>1, <2>2, <2>3, <2>4 DEF TypeOK, Copies, Saves
<1>12. OrderInv'
  <2>1. Ascends(<<>>, nsid)
    BY DEF Ascends
  <2> QED
    BY <1>1, <1>6, <1>9, <2>1 DEF Struct, OrderInv
<1>13. CurInv'
  <2>1. save'.pc = 0
    BY <1>1 DEF NoSave
  <2>2. ~(save'.pc \in 5..8)
    BY <2>1
  <2> QED
    BY <1>19, <2>1, <2>2 DEF CurInv
<1>14. RingInv'
  <2>1. RingOf(<<>>, Offs)
    BY DEF RingOf, Ring, Laid, Apart, Turns
  <2> QED
    BY <1>1, <1>4, <1>6, <1>9, <2>1 DEF Struct, RingInv
<1>15. ASSUME NEW L \in Seq(DiskEntries), NEW K \in Seq(DiskEntries), Among(K, L),
              L = seg1.list \/ L = seg2.list, Good(K, Offs, cell, nsid)
       PROVE  Good(K, Offs, cell', nsid)
  <2>1. Safe(K, Offs, nsid) /\ Whole(K, Offs, cell)
    BY <1>15 DEF Good
  <2>2. ASSUME NEW i \in 1..Len(K), NEW x \in Cells,
               Offs[K[i].sid] <= x /\ x < Offs[K[i].sid] + K[i].length
        PROVE  cell'[x] = K[i].sid
    <3>1. cell[x] = K[i].sid
      BY <2>1, <2>2 DEF Whole
    <3>2. PICK j \in 1..Len(L) : K[i].sid = L[j].sid
      BY <1>15 DEF Among
    <3>3. Listed(K[i].sid)
      <4>1. DOMAIN L = 1..Len(L)
        OBVIOUS
      <4> QED
        BY <1>15, <3>2, <4>1 DEF Listed
    <3> QED
      BY <1>1, <3>1, <3>3
  <2>3. Whole(K, Offs, cell')
    BY <2>2 DEF Whole
  <2> QED
    BY <2>1, <2>3 DEF Good
<1>16. GoodInv'
  <2> SUFFICES ASSUME ~abut, torn' # "stale"
               PROVE  /\ Good(<<>>, Offs, cell', nsid)
                      /\ torn' = "no" => /\ Good(KeptList(seg1.list, Offs), Offs, cell', nsid)
                                         /\ Good(KeptList(seg2'.list, Offs), Offs, cell', nsid)
    BY <1>1, <1>4, <1>6 DEF GoodInv
  <2>1. Good(<<>>, Offs, cell', nsid)
    BY DEF Good, Safe, Whole
  <2>2. ASSUME torn' = "no"
        PROVE  /\ Good(KeptList(seg1.list, Offs), Offs, cell', nsid)
               /\ Good(KeptList(seg2'.list, Offs), Offs, cell', nsid)
    <3>1. CASE seg2' = seg2 /\ torn' = torn
      <4>1. /\ Good(KeptList(seg1.list, Offs), Offs, cell, nsid)
            /\ Good(KeptList(seg2.list, Offs), Offs, cell, nsid)
        BY <2>2, <3>1 DEF Struct, GoodInv
      <4>2. /\ KeptList(seg1.list, Offs) \in Seq(DiskEntries)
            /\ Among(KeptList(seg1.list, Offs), seg1.list)
            /\ KeptList(seg2.list, Offs) \in Seq(DiskEntries)
            /\ Among(KeptList(seg2.list, Offs), seg2.list)
        BY <1>2, <1>8, KeptEnd
      <4> QED
        BY <1>2, <1>15, <3>1, <4>1, <4>2
    <3>2. CASE seg2' = seg1 /\ seg1.list = Now
      <4>1. /\ KeptList(Now, Offs) \in Seq(DiskEntries) /\ Among(KeptList(Now, Offs), Now)
            /\ Good(KeptList(Now, Offs), Offs, cell, nsid)
        BY <1>10, KeptNow
      <4>2. Good(KeptList(Now, Offs), Offs, cell', nsid)
        BY <1>8, <1>15, <3>2, <4>1
      <4> QED
        BY <3>2, <4>2
    <3> QED
      BY <1>9, <3>1, <3>2
  <2> QED
    BY <2>1, <2>2
<1>17. UseInv'
  BY <1>1 DEF UseInv
<1>18. SigInv'
  <2>1. seg1'.sig \/ seg2'.sig \/ torn' # "no"
    BY <1>1, <1>9 DEF Struct, SigInv
  <2> QED
    BY <1>1, <2>1 DEF SigInv
<1> QED
  BY <1>11, <1>12, <1>13, <1>14, <1>16, <1>17, <1>18 DEF Struct

-----------------------------------------------------------------------------
(***************************************************************************)
(* The objects in the segments                                             *)
(***************************************************************************)

\* What is known of the objects.
Inside == Base /\ (~skew => Exact)

\* The types of the objects, and that their segments are in the order of the list.
LEMMA ObjFacts ==
    ASSUME TypeOK, Struct, NEW o \in Objs
    PROVE  /\ home[o] \in 0..MaxSid /\ body[o] \in 0..MaxSid
           /\ home[o] \in Int /\ body[o] \in Int
           /\ body[o] # 0 => body[o] \in Sids
           /\ Contains(segs, home[o]) => home[o] \in Sids
           /\ ost[o] \in ObjStates
<1>1. home[o] \in 0..MaxSid /\ body[o] \in 0..MaxSid
      /\ ost[o] \in ObjStates
  BY DEF TypeOK
<1>2. \A i \in 1..Len(segs) : segs[i] \in Sids
  BY NowFacts
<1>3. home[o] \in Int /\ body[o] \in Int /\ (body[o] # 0 => body[o] \in Sids)
  BY <1>1, Sizes DEF Sids
<1> QED
  BY <1>1, <1>2, <1>3 DEF Contains

\* The current segment is in the list, and the newest.
LEMMA CurIn ==
    ASSUME TypeOK, Struct, cur # 0
    PROVE  /\ Contains(segs, cur) /\ cur \in Sids /\ cur \in Int /\ cur <= nsid
           /\ \A s \in Sids : Contains(segs, s) => s <= cur
<1>1. segs # <<>> /\ segs[Len(segs)] = cur
  BY DEF Struct, CurInv
<1>2. Len(segs) \in 1..Len(segs) /\ Len(segs) \in Nat /\ cur \in Sids
  BY <1>1, NowEnds, NowFacts, TypeParts
<1>3. cur \in Int /\ \A s \in Sids : s \in Int
  BY <1>2, Sizes DEF Sids
<1>4. Len(Now) = Len(segs) /\ \A i \in 1..Len(segs) : Now[i].sid = segs[i]
  BY NowFacts
<1>5. cur <= nsid
  BY <1>1, <1>2, <1>4 DEF Struct, OrderInv, Ascends
<1>6. ASSUME NEW s \in Sids, Contains(segs, s) PROVE s <= cur
  <2>1. PICK i \in 1..Len(segs) : segs[i] = s
    BY <1>6 DEF Contains
  <2>2. i < Len(segs) => s < cur
    BY <1>1, <1>2, <1>4, <2>1 DEF Struct, OrderInv, Ascends
  <2>3. i = Len(segs) => s = cur
    BY <1>1, <2>1
  <2> QED
    BY <1>2, <1>3, <2>2, <2>3
<1> QED
  BY <1>1, <1>2, <1>3, <1>5, <1>6 DEF Contains

\* The segments in the list are not newer than the newest.
LEMMA SegsOld ==
    ASSUME TypeOK, Struct, NEW s, Contains(segs, s)
    PROVE  s \in Sids /\ s <= nsid /\ s \in Int
<1>1. PICK i \in 1..Len(segs) : segs[i] = s
  BY DEF Contains
<1>2. Len(Now) = Len(segs) /\ segs[i] \in Sids /\ Now[i].sid = segs[i]
  BY NowFacts
<1>3. s <= nsid
  BY <1>1, <1>2 DEF Struct, OrderInv, Ascends
<1> QED
  BY <1>1, <1>2, <1>3, Sizes DEF Sids

\* The objects of a segment are finitely many.
LEMMA MembersFinite ==
    ASSUME NEW s
    PROVE  /\ IsFiniteSet(Members(s)) /\ Cardinality(Members(s)) \in Nat
           /\ Cardinality(Members(s)) = 0 <=> Members(s) = {}
<1>1. Members(s) \in SUBSET Objs /\ IsFiniteSet(Objs)
  BY SiloAssumption DEF Members
<1>2. IsFiniteSet(Members(s))
  BY <1>1, FS_Subset
<1> QED
  BY <1>2, FS_EmptySet, FS_CardinalityType

\* Nothing is in an empty list.
LEMMA NothingIn ==
    ASSUME NEW s
    PROVE  ~Contains(<<>>, s)
<1>1. Len(<<>>) = 0
  OBVIOUS
<1> QED
  BY <1>1 DEF Contains

\* Where nothing changed for the objects.
LEMMA InsideSame ==
    ASSUME Inside, UNCHANGED <<proc, nsid, segs, cur, sg, ost, home, body, thr, abut, skew>>,
           torn' # "stale" => torn # "stale"
    PROVE  Inside'
<1>1. Base'
  <2>1. PlaceInv'
    BY DEF Inside, Base, PlaceInv, Placed
  <2>2. CurNewInv'
    BY DEF Inside, Base, CurNewInv
  <2>3. BodyInv'
    BY DEF Inside, Base, BodyInv, Bodied
  <2>4. ThreadInv'
    BY DEF Inside, Base, ThreadInv
  <2> QED
    BY <2>1, <2>2, <2>3, <2>4 DEF Base
<1>2. ASSUME Exact PROVE Exact'
  <2>1. \A s : Members(s)' = Members(s) /\ Pending(s)' = Pending(s)
    BY DEF Members, Pending, Uncounted
  <2>2. CountInv'
    BY <1>2, <2>1 DEF Exact, CountInv, Counted
  <2>3. HomeInv'
    BY <1>2 DEF Exact, HomeInv, Homed
  <2>4. CurFlagInv'
    BY <1>2 DEF Exact, CurFlagInv
  <2>5. LoadInv'
    BY <1>2 DEF Exact, LoadInv
  <2>6. ServedInv'
    BY <1>2 DEF Exact, ServedInv, Served
  <2> QED
    BY <2>2, <2>3, <2>4, <2>5, <2>6 DEF Exact
<1> QED
  BY <1>1, <1>2 DEF Inside

\* The child goes down.
LEMMA DownInside ==
    ASSUME TypeOK, Struct, Inside, Down, torn' # "stale" => torn # "stale"
    PROVE  Inside'
<1>1. /\ proc' = "down" /\ segs' = <<>> /\ cur' = 0
      /\ ost' = [o \in Objs |-> IF ost[o] \in OnDisk THEN "disk" ELSE "none"]
      /\ home' = [o \in Objs |-> IF ost[o] \in OnDisk THEN home[o] ELSE 0]
      /\ body' = [o \in Objs |-> IF ost[o] \in OnDisk THEN body[o] ELSE 0]
      /\ thr' = Thread("next", 0, 0) /\ skew' = FALSE
      /\ nsid' = nsid /\ abut' = abut
  BY DEF Down, bounds
<1>2. nsid \in Nat /\ MaxSid \in Nat
  BY TypeParts
<1>3. thr' \in Threads /\ thr'.sid = 0 /\ thr'.pc = "next"
  BY <1>1, <1>2 DEF Thread, Threads
<1>4. ASSUME NEW o \in Objs
      PROVE  /\ Placed(o)' /\ (Bodied(o) => Bodied(o)')
             /\ ost'[o] \in {"none", "disk"}
  <2>1. Placed(o)
    BY DEF Inside, Base, PlaceInv
  <2>2. /\ ost'[o] = IF ost[o] \in OnDisk THEN "disk" ELSE "none"
        /\ home'[o] = IF ost[o] \in OnDisk THEN home[o] ELSE 0
        /\ body'[o] = IF ost[o] \in OnDisk THEN body[o] ELSE 0
    BY <1>1
  <2>3. CASE ost[o] \in OnDisk
    <3>1. ost'[o] = "disk" /\ home'[o] = home[o] /\ body'[o] = body[o]
      BY <2>2, <2>3
    <3> QED
      BY <1>1, <2>1, <3>1 DEF Placed, Bodied, Used
  <2>4. CASE ost[o] \notin OnDisk
    <3>1. ost'[o] = "none" /\ home'[o] = 0 /\ body'[o] = 0
      BY <2>2, <2>4
    <3> QED
      BY <1>1, <1>2, <3>1 DEF Placed, Bodied, Used
  <2> QED
    BY <2>3, <2>4
<1>5. PlaceInv' /\ BodyInv'
  BY <1>1, <1>4 DEF Inside, Base, PlaceInv, BodyInv
<1>6. CurNewInv' /\ ThreadInv'
  <2>1. CurNewInv'
    BY <1>1 DEF CurNewInv
  <2>2. thr' \in Threads /\ skew' \in BOOLEAN /\ thr'.sid <= nsid'
    <3>1. 0 <= nsid'
      BY <1>1, <1>2
    <3> QED
      BY <1>1, <1>3, <3>1
  <2> QED
    BY <1>3, <2>1, <2>2 DEF ThreadInv
<1>7. Exact'
  <2>1. \A s : ~Contains(segs', s)
    BY <1>1, NothingIn
  <2>2. \A o \in Objs : ost'[o] \in {"none", "disk"}
    BY <1>4
  <2>3. CountInv' /\ CurFlagInv' /\ LoadInv'
    BY <1>1, <1>3, <2>1 DEF CountInv, CurFlagInv, LoadInv
  <2>4. HomeInv' /\ ServedInv'
    BY <2>2 DEF HomeInv, Homed, ServedInv, Served, Used
  <2> QED
    BY <2>3, <2>4 DEF Exact
<1> QED
  BY <1>5, <1>6, <1>7 DEF Inside, Base

\* A start: no object is in use yet.
LEMMA OpenInside ==
    ASSUME TypeOK, Struct, Inside, smp_open
    PROVE  Inside'
<1>1. /\ proc = "down"
      /\ torn' = IF torn # "no" THEN "stale"
                 ELSE IF seg1 # seg2 \/ ~seg1.sig THEN "yes" ELSE "no"
      /\ \/ proc' = "dead" /\ UNCHANGED <<nsid, segs, cur, free_offset, sg, cell, abut>>
         \/ /\ proc' = "up" /\ Fits(Recovered.free, FoundSegs)
            /\ smp_new_seg(Recovered.free, FoundSegs, FoundMem)
  BY OpenCases
<1>2. /\ ost' = [o \in Objs |-> IF Listed(home[o]) THEN ost[o] ELSE "none"]
      /\ home' = [o \in Objs |-> IF Listed(home[o]) THEN home[o] ELSE 0]
      /\ body' = [o \in Objs |-> IF Listed(home[o]) THEN body[o] ELSE 0]
      /\ UNCHANGED <<thr, skew>>
  BY DEF smp_open
<1>3. ASSUME NEW o \in Objs
      PROVE  /\ ost[o] \in {"none", "disk"} /\ ost'[o] \in {"none", "disk"}
             /\ home'[o] <= nsid /\ body'[o] <= nsid
             /\ home'[o] \in Int /\ body'[o] \in Int
             /\ ost'[o] = "none" => home'[o] = 0 /\ body'[o] = 0
             /\ body'[o] # 0 => home'[o] = home[o] /\ body'[o] = body[o]
  <2>1. Placed(o) /\ home[o] \in Int /\ body[o] \in Int /\ nsid \in Nat
        /\ ost[o] \in ObjStates
    BY ObjFacts, TypeParts DEF Inside, Base, PlaceInv
  <2>2. ost[o] \in {"none", "disk"}
    BY <1>1, <2>1 DEF Placed, Used, ObjStates
  <2>3. /\ ost'[o] = IF Listed(home[o]) THEN ost[o] ELSE "none"
        /\ home'[o] = IF Listed(home[o]) THEN home[o] ELSE 0
        /\ body'[o] = IF Listed(home[o]) THEN body[o] ELSE 0
    BY <1>2
  <2> QED
    BY <2>1, <2>2, <2>3 DEF Placed
<1>4. \A s : Members(s)' = {}
  BY <1>3 DEF Members, Used
<1>5. nsid' = nsid \/ nsid' = nsid + 1
  BY <1>1 DEF smp_new_seg
<1>6. PlaceInv'
  <2> SUFFICES ASSUME NEW o \in Objs PROVE Placed(o)'
    BY DEF PlaceInv
  <2>1. home'[o] <= nsid' /\ body'[o] <= nsid'
    BY <1>3, <1>5, TypeParts
  <2> QED
    BY <1>3, <2>1 DEF Placed, Used
<1>7. BodyInv'
  <2> SUFFICES ASSUME ~abut', torn' # "stale", NEW o \in Objs PROVE Bodied(o)'
    BY DEF BodyInv
  <2>1. ~abut /\ torn # "stale"
    BY <1>1, TypeParts DEF smp_new_seg
  <2>2. Bodied(o)
    BY <2>1 DEF Inside, Base, BodyInv
  <2> QED
    BY <1>3, <2>2 DEF Bodied
<1>10. thr' = thr /\ thr.pc = "next" /\ thr \in Threads /\ thr.sid <= nsid /\ skew \in BOOLEAN
  BY <1>1, <1>2 DEF Inside, Base, ThreadInv
<1>11. ThreadInv' /\ LoadInv'
  <2>1. thr.sid \in Int /\ nsid \in Nat
    BY <1>10, TypeParts DEF Threads
  <2>2. thr.sid <= nsid'
    BY <1>5, <1>10, <2>1
  <2> QED
    BY <1>2, <1>10, <2>2 DEF ThreadInv, LoadInv
<1>12. HomeInv' /\ ServedInv'
  BY <1>3 DEF HomeInv, Homed, ServedInv, Served, Used
<1>13. \A s : Pending(s)' = 0
  BY <1>10 DEF Pending, Uncounted
<1>8. CASE proc' = "dead" /\ UNCHANGED <<nsid, segs, cur, free_offset, sg, cell, abut>>
  <2>1. segs' = <<>> /\ cur' = 0
    BY <1>1, <1>8 DEF Struct, CurInv
  <2>2. \A s : ~Contains(segs', s)
    BY <2>1, NothingIn
  <2>3. CountInv' /\ CurNewInv' /\ CurFlagInv'
    BY <2>1, <2>2 DEF CountInv, CurNewInv, CurFlagInv
  <2> QED
    BY <1>6, <1>7, <1>11, <1>12, <2>3 DEF Inside, Base, Exact
<1>9. CASE smp_new_seg(Recovered.free, FoundSegs, FoundMem)
  <2>1. /\ FoundSegs \in Seq(Sids) /\ FoundMem \in [Sids -> SegRecs]
        /\ \A i \in 1..Len(FoundSegs) : FoundMem[FoundSegs[i]].flag = "mustload"
    BY FoundFacts
  <2>2. /\ nsid' = nsid + 1 /\ nsid' \in Sids /\ segs' = Append(FoundSegs, nsid') /\ cur' = nsid'
        /\ sg' = [FoundMem EXCEPT ![nsid'] = NewSeg(Offset(Recovered.free))]
    BY <1>9 DEF smp_new_seg
  <2>3. sg'[nsid'] = NewSeg(Offset(Recovered.free))
    BY <2>1, <2>2
  <2>4. sg'[nsid'].flag = "new" /\ sg'[nsid'].nobj = 0 /\ ~sg'[nsid'].closed
    BY <2>3 DEF NewSeg
  <2>5. CountInv'
    <3> SUFFICES ASSUME NEW s \in Sids, Contains(segs', s) PROVE Counted(s)'
      BY DEF CountInv
    <3>1. CASE s = nsid'
      BY <1>4, <1>13, <2>4, <3>1, FS_EmptySet DEF Counted
    <3>2. CASE s # nsid'
      <4>1. /\ Len(segs') = Len(FoundSegs) + 1 /\ Len(FoundSegs) \in Nat
            /\ segs'[Len(FoundSegs) + 1] = nsid'
            /\ \A i \in 1..Len(FoundSegs) : segs'[i] = FoundSegs[i]
        BY <2>1, <2>2, AppendAt
      <4>2. PICK i \in 1..Len(segs') : segs'[i] = s
        BY DEF Contains
      <4>3. i \in 1..Len(FoundSegs) /\ FoundSegs[i] = s
        BY <3>2, <4>1, <4>2
      <4>4. sg'[s] = FoundMem[s]
        BY <2>1, <2>2, <3>2
      <4>5. sg'[s].flag = "mustload"
        BY <2>1, <4>3, <4>4
      <4> QED
        BY <1>4, <4>5 DEF Counted
    <3> QED
      BY <3>1, <3>2
  <2>6. CurNewInv'
    <3>1. \A o \in Objs : home'[o] # nsid' /\ body'[o] # nsid'
      BY <1>3, <2>2, TypeParts
    <3> QED
      BY <2>2, <2>4, <3>1 DEF CurNewInv
  <2>7. CurFlagInv'
    BY <2>2, <2>4 DEF CurFlagInv
  <2> QED
    BY <1>6, <1>7, <1>11, <1>12, <2>5, <2>6, <2>7 DEF Inside, Base, Exact
<1> QED
  BY <1>1, <1>8, <1>9

\* What is in a list with one more segment.
LEMMA ContainsAppend ==
    ASSUME NEW ss \in Seq(Sids), NEW n \in Sids, NEW s
    PROVE  Contains(Append(ss, n), s) <=> Contains(ss, s) \/ s = n
<1>1. /\ Len(Append(ss, n)) = Len(ss) + 1 /\ Len(ss) \in Nat
      /\ Append(ss, n)[Len(ss) + 1] = n
      /\ \A i \in 1..Len(ss) : Append(ss, n)[i] = ss[i]
  BY AppendAt
<1>2. ASSUME Contains(Append(ss, n), s), s # n PROVE Contains(ss, s)
  <2>1. PICK i \in 1..Len(Append(ss, n)) : Append(ss, n)[i] = s
    BY <1>2 DEF Contains
  <2>2. i \in 1..Len(ss) /\ ss[i] = s
    BY <1>1, <1>2, <2>1
  <2> QED
    BY <2>2 DEF Contains
<1>3. ASSUME Contains(ss, s) PROVE Contains(Append(ss, n), s)
  <2>1. PICK i \in 1..Len(ss) : ss[i] = s
    BY <1>3 DEF Contains
  <2>2. i \in 1..Len(Append(ss, n)) /\ Append(ss, n)[i] = s
    BY <1>1, <2>1
  <2> QED
    BY <2>2 DEF Contains
<1>4. Contains(Append(ss, n), n)
  <2>1. Len(ss) + 1 \in 1..Len(Append(ss, n))
    BY <1>1
  <2> QED
    BY <1>1, <2>1 DEF Contains
<1> QED
  BY <1>2, <1>3, <1>4

\* The list with the new segment n, and without c, which had no objects.
Follows(c, n) == \A s : Contains(segs', s) <=> (Contains(segs, s) /\ s # c) \/ s = n
OthersSame(c, n) == \A s \in Sids : (s # n /\ s # c) => sg'[s] = sg[s]
NoObjects(c) == \A o \in Objs : home[o] # c /\ body[o] # c

\* A new segment has no objects.
LEMMA NewSegInside ==
    ASSUME TypeOK, Struct, Inside, NEW c, NEW n \in Sids, n = nsid + 1, nsid' = n, cur' = n,
           Follows(c, n), OthersSame(c, n), c \in Int,
           c # 0 => NoObjects(c) /\ (~skew => sg[c].flag = "new"),
           sg'[n].flag = "new", sg'[n].nobj = 0, ~sg'[n].closed,
           UNCHANGED <<proc, ost, home, body, thr, skew>>,
           ~abut' => ~abut, torn' # "stale" => torn # "stale"
    PROVE  Inside'
<1>1. ASSUME NEW o \in Objs
      PROVE  /\ Placed(o) /\ home[o] \in Int /\ body[o] \in Int /\ home[o] <= nsid /\ body[o] <= nsid
             /\ home[o] # n /\ body[o] # n /\ nsid \in Nat
             /\ Contains(segs, home[o]) => home[o] \in Sids
  <2>1. Placed(o) /\ home[o] \in Int /\ body[o] \in Int /\ nsid \in Nat
        /\ (Contains(segs, home[o]) => home[o] \in Sids)
    BY ObjFacts, TypeParts DEF Inside, Base, PlaceInv
  <2>2. home[o] <= nsid /\ body[o] <= nsid
    BY <2>1 DEF Placed
  <2> QED
    BY <2>1, <2>2
<1>2. /\ thr \in Threads /\ thr.sid <= nsid /\ thr.sid \in Int /\ nsid \in Nat /\ thr.sid # n
      /\ skew \in BOOLEAN /\ thr.sid \in 0..MaxSid /\ (proc # "up" => thr.pc = "next")
  <2>1. /\ thr \in Threads /\ thr.sid <= nsid /\ skew \in BOOLEAN
        /\ (proc # "up" => thr.pc = "next")
    BY DEF Inside, Base, ThreadInv
  <2>2. thr.sid \in 0..MaxSid /\ nsid \in Nat
    BY <2>1, TypeParts DEF Threads
  <2> QED
    BY <2>1, <2>2
<1>3. PlaceInv'
  <2> SUFFICES ASSUME NEW o \in Objs PROVE Placed(o)'
    BY DEF PlaceInv
  <2>1. home[o] <= nsid' /\ body[o] <= nsid'
    BY <1>1
  <2> QED
    BY <1>1, <2>1 DEF Placed
<1>4. CurNewInv'
  BY <1>1 DEF CurNewInv
<1>5. BodyInv'
  BY DEF Inside, Base, BodyInv, Bodied
<1>6. ThreadInv'
  <2>1. thr.sid <= n
    BY <1>2
  <2> QED
    BY <1>2, <2>1 DEF ThreadInv
<1>7. ASSUME Exact, ~skew PROVE Exact'
  <2>1. \A s : Members(s)' = Members(s) /\ Pending(s)' = Pending(s)
    BY DEF Members, Pending, Uncounted
  <2>2. Members(n) = {} /\ Pending(n) = 0
    BY <1>1, <1>2 DEF Members, Pending, Uncounted
  <2>3. CountInv'
    <3> SUFFICES ASSUME NEW s \in Sids, Contains(segs', s) PROVE Counted(s)'
      BY DEF CountInv
    <3>1. CASE s = n
      BY <2>1, <2>2, <3>1, FS_EmptySet DEF Counted
    <3>2. CASE s # n
      <4>1. Contains(segs, s) /\ sg'[s] = sg[s]
        BY <3>2 DEF Follows, OthersSame
      <4>2. Counted(s)
        BY <1>7, <4>1 DEF Exact, CountInv
      <4> QED
        BY <2>1, <4>1, <4>2 DEF Counted
    <3> QED
      BY <3>1, <3>2
  <2>4. ASSUME NEW s \in Sids, s <= nsid, s # c
        PROVE  /\ Contains(segs', s) <=> Contains(segs, s)
               /\ sg'[s] = sg[s]
    <3>1. s # n
      BY <1>2, <2>4
    <3> QED
      BY <2>4, <3>1 DEF Follows, OthersSame
  <2>5. HomeInv'
    <3> SUFFICES ASSUME NEW o \in Objs PROVE Homed(o)'
      BY DEF HomeInv
    <3>1. Homed(o)
      BY <1>7 DEF Exact, HomeInv
    <3>2. CASE ost[o] = "busy" /\ Contains(segs', home[o])
      <4>1. home[o] # 0
        BY <1>1, <3>2 DEF Placed
      <4>2. home[o] # c /\ home[o] # n
        BY <1>1, <4>1 DEF NoObjects
      <4>3. Contains(segs, home[o])
        BY <3>2, <4>2 DEF Follows
      <4>4. sg'[home[o]] = sg[home[o]]
        BY <1>1, <2>4, <4>2, <4>3
      <4> QED
        BY <3>1, <3>2, <4>3, <4>4 DEF Homed, Used
    <3>3. CASE ost[o] \in Used
      <4>1. Contains(segs, home[o]) /\ home[o] \in Sids
        BY <1>1, <3>1, <3>3 DEF Homed
      <4>2. home[o] # 0
        BY <4>1, Sizes DEF Sids
      <4>3. home[o] # c
        BY <4>2 DEF NoObjects
      <4>4. Contains(segs', home[o])
        BY <4>1, <4>3 DEF Follows
      <4> QED
        BY <3>3, <4>4 DEF Homed, Used
    <3> QED
      BY <3>2, <3>3 DEF Homed
  <2>6. CurFlagInv'
    BY DEF CurFlagInv
  <2>7. LoadInv'
    <3> SUFFICES ASSUME thr.pc \in {"load", "count", "store"} PROVE LoadInv'
      BY DEF LoadInv
    <3>1. Contains(segs, thr.sid) => thr.sid \in Sids /\ sg[thr.sid].flag = "loading"
      BY <1>7, SegsOld DEF Exact, LoadInv
    <3>2. c # 0 /\ Contains(segs, thr.sid) => thr.sid # c
      BY <1>7, <3>1
    <3>3. Contains(segs, thr.sid) => thr.sid # c
      <4>1. Contains(segs, thr.sid) => thr.sid # 0
        BY <3>1, Sizes DEF Sids
      <4> QED
        BY <3>2, <4>1
    <3>4. Contains(segs', thr.sid) <=> Contains(segs, thr.sid)
      BY <1>2, <3>3 DEF Follows
    <3>5. Contains(segs, thr.sid) => sg'[thr.sid] = sg[thr.sid]
      BY <1>2, <3>1, <3>3 DEF OthersSame
    <3> QED
      BY <1>7, <3>4, <3>5 DEF Exact, LoadInv
  <2>8. ServedInv'
    <3> SUFFICES ASSUME ~abut', torn' # "stale", NEW o \in Objs PROVE Served(o)'
      BY DEF ServedInv
    <3>1. Served(o)
      BY <1>7 DEF Exact, ServedInv
    <3>2. body[o] # 0 /\ Contains(segs, body[o]) => Contains(segs', body[o])
      BY DEF Follows, NoObjects
    <3> QED
      BY <3>1, <3>2 DEF Served
  <2> QED
    BY <2>3, <2>5, <2>6, <2>7, <2>8 DEF Exact
<1> QED
  BY <1>3, <1>4, <1>5, <1>6, <1>7 DEF Inside, Base

\* The end of a save.
LEMMA SaveDoneInside ==
    ASSUME TypeOK, Struct, Inside, smp_save_done
    PROVE  Inside'
<1>1. /\ torn' = Mended /\ proc' = proc /\ UNCHANGED <<ost, home, body, thr, skew>>
      /\ \/ UNCHANGED <<nsid, segs, cur, sg, abut>>
         \/ smp_new_seg(smp_segend(save.sid), segs, sg)
  BY DEF smp_save_done, memVars, objVars
<1>2. torn' # "stale" => torn # "stale"
  BY <1>1 DEF Mended
<1>3. CASE UNCHANGED <<nsid, segs, cur, sg, abut>>
  BY <1>1, <1>2, <1>3, InsideSame
<1>4. CASE smp_new_seg(smp_segend(save.sid), segs, sg)
  <2> DEFINE n == nsid'
             off == Offset(smp_segend(save.sid))
  <2>1. /\ n = nsid + 1 /\ n \in Sids /\ segs' = Append(segs, n) /\ cur' = n
        /\ sg' = [sg EXCEPT ![n] = NewSeg(off)] /\ (~abut' => ~abut)
    BY <1>4 DEF smp_new_seg
  <2> HIDE DEF n, off
  <2>2. segs \in Seq(Sids) /\ sg \in [Sids -> SegRecs]
    BY TypeParts
  <2>3. \A s : Contains(segs', s) <=> Contains(segs, s) \/ s = n
    BY <2>1, <2>2, ContainsAppend
  <2>4. ~Contains(segs, 0)
    <3>1. 0 \notin Sids
      BY Sizes DEF Sids
    <3> QED
      BY <3>1, SegsOld
  <2>5. Follows(0, n)
    BY <2>3, <2>4 DEF Follows
  <2>6. sg'[n] = NewSeg(off) /\ OthersSame(0, n)
    BY <2>1, <2>2 DEF OthersSame
  <2>7. sg'[n].flag = "new" /\ sg'[n].nobj = 0 /\ ~sg'[n].closed
    BY <2>6 DEF NewSeg
  <2>8. n = nsid' /\ 0 \in Int
    BY DEF n
  <2> QED
    BY <1>1, <1>2, <2>1, <2>5, <2>6, <2>7, <2>8, NewSegInside
<1> QED
  BY <1>1, <1>3, <1>4

\* smp_allocx when nothing was allocated.
LEMMA EmptyInside ==
    ASSUME TypeOK, Struct, Inside, Unlocked, cur # 0, sg[cur].nalloc = 0,
           NEW i \in DOMAIN segs, segs[i] = cur,
           smp_new_seg(free_offset, RemoveAt(segs, i), [sg EXCEPT ![cur].flag = "gone"]),
           UNCHANGED <<proc, objVars, thr, torn, skew>>
    PROVE  Inside'
<1> DEFINE n == nsid'
           off == Offset(free_offset)
           ss == RemoveAt(segs, i)
           s == [sg EXCEPT ![cur].flag = "gone"]
<1>1. /\ n = nsid + 1 /\ n \in Sids /\ segs' = Append(ss, n) /\ cur' = n
      /\ sg' = [s EXCEPT ![n] = NewSeg(off)] /\ (~abut' => ~abut)
  BY DEF smp_new_seg
<1>2. segs \in Seq(Sids) /\ sg \in [Sids -> SegRecs] /\ i \in 1..Len(segs)
  BY TypeParts
<1>3. /\ ss \in Seq(Sids) /\ Len(ss) = Len(segs) - 1 /\ Len(segs) \in Nat
      /\ \A j \in 1..(Len(segs) - 1) : ss[j] = IF j < i THEN segs[j] ELSE segs[j + 1]
  BY <1>2, RemoveAtFacts
<1>4. cur \in Sids /\ cur \in Int /\ cur <= nsid /\ segs[Len(segs)] = cur /\ nsid \in Nat
  BY CurIn, TypeParts DEF Struct, CurInv
<1>5. \A x \in Sids : x # cur => s[x] = sg[x]
  BY <1>2
<1>15. s \in [Sids -> SegRecs]
  <2>3. PICK g \in SegRecs : g = sg[cur]
    BY <1>2, <1>4
  <2>4. [g EXCEPT !.flag = "gone"] \in SegRecs
    BY DEF SegRecs, Flags
  <2>1. [sg[cur] EXCEPT !.flag = "gone"] \in SegRecs
    BY <2>3, <2>4
  <2>2. s = [sg EXCEPT ![cur] = [sg[cur] EXCEPT !.flag = "gone"]]
    BY <1>2
  <2> QED
    BY <1>2, <2>1, <2>2
<1> HIDE DEF n, off, ss, s
<1>6. i = Len(segs)
  <2>1. Len(segs) \in 1..Len(segs)
    BY <1>2, <1>3
  <2> QED
    BY <1>2, <1>4, <2>1, CurLast
<1>7. ASSUME NEW x PROVE Contains(ss, x) <=> Contains(segs, x) /\ x # cur
  <2>1. ASSUME Contains(ss, x) PROVE Contains(segs, x) /\ x # cur
    <3>1. PICK j \in 1..Len(ss) : ss[j] = x
      BY <2>1 DEF Contains
    <3>2. j \in 1..(Len(segs) - 1) /\ j < i /\ j \in 1..Len(segs)
      BY <1>3, <1>6
    <3>3. segs[j] = x
      BY <1>3, <3>1, <3>2
    <3>4. x # cur
      BY <1>2, <3>2, <3>3, CurLast
    <3> QED
      BY <3>2, <3>3, <3>4 DEF Contains
  <2>2. ASSUME Contains(segs, x), x # cur PROVE Contains(ss, x)
    <3>1. PICK j \in 1..Len(segs) : segs[j] = x
      BY <2>2 DEF Contains
    <3>2. j # Len(segs)
      BY <1>4, <2>2, <3>1
    <3>3. j \in 1..(Len(segs) - 1) /\ j < i /\ j \in 1..Len(ss)
      BY <1>3, <1>6, <3>2
    <3>4. ss[j] = x
      BY <1>3, <3>1, <3>3
    <3> QED
      BY <3>3, <3>4 DEF Contains
  <2> QED
    BY <2>1, <2>2
<1>8. Follows(cur, n)
  <2>1. \A x : Contains(segs', x) <=> Contains(ss, x) \/ x = n
    BY <1>1, <1>3, ContainsAppend
  <2> QED
    BY <1>7, <2>1 DEF Follows
<1>9. sg'[n] = NewSeg(off) /\ OthersSame(cur, n)
  <2>1. sg'[n] = NewSeg(off) /\ \A x \in Sids : x # n => sg'[x] = s[x]
    BY <1>1, <1>15
  <2> QED
    BY <1>5, <2>1 DEF OthersSame
<1>10. sg'[n].flag = "new" /\ sg'[n].nobj = 0 /\ ~sg'[n].closed
  BY <1>9 DEF NewSeg
<1>11. NoObjects(cur) /\ (~skew => sg[cur].flag = "new")
  BY DEF Inside, Base, CurNewInv, NoObjects, Exact, CurFlagInv
<1>12. nsid' = n /\ UNCHANGED <<proc, ost, home, body, thr, skew>> /\ (torn' # "stale" => torn # "stale")
  BY DEF n, objVars
<1> QED
  BY <1>1, <1>4, <1>8, <1>9, <1>10, <1>11, <1>12, NewSegInside

\* What happens to the segments in the list when those of the first m - 1 go.
SameTally(s, t) == t[s].nobj = sg[s].nobj /\ t[s].flag = sg[s].flag
SameTallies(t) == \A s \in Sids : SameTally(s, t)
CurKept == cur' = 0 \/ (cur' = cur /\ sg' = sg)
EmptyFront(m) == \A i \in 1..(m - 1) : ~(sg[segs[i]].nobj > 0)

\* The thread is not about to count an object in one that goes.
LoadKept ==
    /\ ~skew' => ~skew /\ \A s : Contains(segs, s) /\ Uncounted(s) => Contains(segs', s)
    /\ thr' = thr \/ {thr.pc, thr'.pc} \cap {"load", "count", "store"} = {}

\* Only segments without objects are removed, so no object loses its own: those
\* in front of a segment with objects are older than it, and so no bodies are in
\* them.
LEMMA RemovedInside ==
    ASSUME TypeOK, Struct, Inside, NEW m \in 1..(Len(segs) + 1),
           segs' = Left(segs, m), EmptyFront(m), SameTallies(sg'),
           CurKept, LoadKept, ThreadInv',
           UNCHANGED <<proc, nsid, ost, home, body, torn, abut>>
    PROVE  Inside'
<1>1. segs \in Seq(Sids) /\ Len(segs) \in Nat
  BY TypeParts
<1>2. /\ Len(Left(segs, m)) = Len(segs) - (m - 1)
      /\ \A i \in 1..Len(Left(segs, m)) : /\ i + (m - 1) \in 1..Len(segs)
                                          /\ Left(segs, m)[i] = segs[i + (m - 1)]
      /\ \A j \in m..Len(segs) : \E i \in 1..Len(Left(segs, m)) : Left(segs, m)[i] = segs[j]
  BY <1>1, LeftFacts
<1>3. \A s : Contains(segs', s) => Contains(segs, s)
  BY <1>2 DEF Contains
<1>4. \A j \in m..Len(segs) : Contains(segs', segs[j])
  BY <1>2 DEF Contains
<1>5. ASSUME NEW s, Contains(segs', s) PROVE \E j \in m..Len(segs) : segs[j] = s
  <2>1. PICK i \in 1..Len(Left(segs, m)) : Left(segs, m)[i] = s
    BY <1>5 DEF Contains
  <2>2. i + (m - 1) \in m..Len(segs) /\ segs[i + (m - 1)] = s
    <3>1. i + (m - 1) \in 1..Len(segs) /\ Left(segs, m)[i] = segs[i + (m - 1)]
      BY <1>2
    <3>2. m \in Int /\ i \in Int /\ 1 <= i
      BY <1>1, <1>2
    <3> QED
      BY <1>1, <2>1, <3>1, <3>2
  <2> QED
    BY <2>2
<1>6. PlaceInv' /\ BodyInv'
  BY DEF Inside, Base, PlaceInv, Placed, BodyInv, Bodied
<1>7. CurNewInv'
  BY DEF Inside, Base, CurNewInv, CurKept
<1>8. ASSUME ~skew' PROVE Exact'
  <2>1. Exact /\ \A s : Contains(segs, s) /\ Uncounted(s) => Contains(segs', s)
    BY <1>8 DEF LoadKept, Inside
  <2>2. \A s : Members(s)' = Members(s)
    BY DEF Members
  <2>3. \A s : Pending(s)' = Pending(s)
    <3>1. CASE thr' = thr
      BY <3>1 DEF Pending, Uncounted
    <3>2. CASE {thr.pc, thr'.pc} \cap {"load", "count", "store"} = {}
      BY <3>2 DEF Pending, Uncounted
    <3> QED
      BY <3>1, <3>2 DEF LoadKept
  <2>4. CountInv'
    <3> SUFFICES ASSUME NEW s \in Sids, Contains(segs', s) PROVE Counted(s)'
      BY DEF CountInv
    <3>1. Counted(s) /\ SameTally(s, sg')
      BY <1>3, <2>1 DEF Exact, CountInv, SameTallies
    <3> QED
      BY <2>2, <2>3, <3>1 DEF Counted, SameTally
  <2>5. ASSUME NEW o \in Objs, ost[o] \in Used PROVE Contains(segs', home[o])
    <3>1. Contains(segs, home[o]) /\ home[o] \in Sids
      BY <2>1, <2>5, ObjFacts DEF Exact, HomeInv, Homed
    <3>2. PICK h \in 1..Len(segs) : segs[h] = home[o]
      BY <3>1 DEF Contains
    <3>3. o \in Members(home[o])
      BY <2>5 DEF Members
    <3>4. sg[home[o]].nobj + Pending(home[o]) = Cardinality(Members(home[o]))
      BY <2>1, <3>1, <3>3 DEF Exact, CountInv, Counted
    <3>5. CASE Uncounted(home[o])
      BY <2>1, <3>1, <3>5
    <3>6. CASE ~Uncounted(home[o])
      <4>1. Pending(home[o]) = 0
        BY <3>6 DEF Pending
      <4>2. sg[home[o]].nobj \in Int
        <5>1. sg[home[o]] \in SegRecs
          BY <3>1, TypeParts
        <5> QED
          BY <5>1 DEF SegRecs
      <4>3. sg[home[o]].nobj > 0
        BY <3>3, <3>4, <4>1, <4>2, MembersFinite
      <4>4. h \notin 1..(m - 1)
        BY <3>2, <4>3 DEF EmptyFront
      <4>5. h \in m..Len(segs)
        BY <1>1, <4>4
      <4> QED
        BY <1>4, <3>2, <4>5
    <3> QED
      BY <3>5, <3>6
  <2>6. HomeInv'
    <3> SUFFICES ASSUME NEW o \in Objs PROVE Homed(o)'
      BY DEF HomeInv
    <3>1. Homed(o)
      BY <2>1 DEF Exact, HomeInv
    <3>2. Contains(segs', home[o]) => Contains(segs, home[o]) /\ sg'[home[o]].flag = sg[home[o]].flag
      BY <1>3, ObjFacts DEF SameTally, SameTallies
    <3> QED
      BY <2>5, <3>1, <3>2 DEF Homed
  <2>7. CurFlagInv'
    BY <2>1 DEF Exact, CurFlagInv, CurKept
  <2>8. LoadInv'
    <3> SUFFICES ASSUME thr'.pc \in {"load", "count", "store"} PROVE LoadInv'
      BY DEF LoadInv
    <3>1. thr' = thr
      BY DEF LoadKept
    <3>2. Contains(segs', thr.sid) => Contains(segs, thr.sid) /\ SameTally(thr.sid, sg')
      BY <1>3, SegsOld DEF SameTallies
    <3>3. thr.pc # "load" => Contains(segs, thr.sid) /\ Uncounted(thr.sid)
      BY <2>1, <3>1 DEF Exact, LoadInv, Uncounted
    <3>4. thr.pc # "load" => Contains(segs', thr.sid)
      BY <2>1, <3>3
    <3> QED
      BY <2>1, <3>1, <3>2, <3>4 DEF Exact, LoadInv, SameTally
  <2>9. ServedInv'
    <3> SUFFICES ASSUME ~abut, torn # "stale", NEW o \in Objs, ost[o] = "live", body[o] # 0
                 PROVE  Contains(segs', body[o])
      BY DEF ServedInv, Served
    <3>1. home[o] <= body[o] /\ Contains(segs, body[o])
      BY <2>1 DEF Inside, Base, BodyInv, Bodied, Exact, ServedInv, Served
    <3>2. PICK b \in 1..Len(segs) : segs[b] = body[o]
      BY <3>1 DEF Contains
    <3>3. PICK h \in m..Len(segs) : segs[h] = home[o]
      BY <1>5, <2>5 DEF Used
    <3>4. b < h => body[o] < home[o]
      <4>1. Len(Now) = Len(segs) /\ \A k \in 1..Len(segs) : Now[k].sid = segs[k]
        BY NowFacts
      <4>2. h \in 1..Len(segs)
        BY <1>1
      <4> QED
        BY <3>2, <3>3, <4>1, <4>2 DEF Struct, OrderInv, Ascends
    <3>5. home[o] \in Int /\ body[o] \in Int
      BY ObjFacts
    <3>6. b \in m..Len(segs)
      BY <1>1, <3>1, <3>4, <3>5
    <3> QED
      BY <1>4, <3>2, <3>6
  <2> QED
    BY <2>4, <2>6, <2>7, <2>8, <2>9 DEF Exact
<1> QED
  BY <1>6, <1>7, <1>8 DEF Inside, Base

\* smp_close_seg.
LEMMA CloseInside ==
    ASSUME TypeOK, Struct, Inside, NEW then, CloseSeg(then)
    PROVE  Inside'
<1> DEFINE s == [sg EXCEPT ![cur].closed = TRUE, ![cur].length = sg[cur].nalloc]
<1>1. /\ cur # 0 /\ sg[cur].nalloc > 0 /\ sg' = s /\ segs' = WithoutEmpty(segs, 0, s) /\ cur' = 0
      /\ skew' = (skew \/ \E x \in ToSet(segs) \ ToSet(segs') : Uncounted(x))
      /\ UNCHANGED <<proc, nsid, ost, home, body, thr, torn, abut>>
  BY DEF CloseSeg, bounds, objVars
<1>2. segs \in Seq(Sids) /\ cur \in Sids /\ sg \in [Sids -> SegRecs]
  BY <1>1, TypeParts
<1>3. s \in [Sids -> SegRecs] /\ \A x \in Sids : SameTally(x, s)
  <2>1. sg[cur] \in SegRecs
    BY <1>2
  <2>2. PICK n \in 1..Aim : n = sg[cur].nalloc
    <3>1. sg[cur].nalloc \in 0..Aim
      BY <2>1 DEF SegRecs
    <3> QED
      BY <1>1, <3>1, Sizes
  <2>3. /\ [sg[cur] EXCEPT !.closed = TRUE, !.length = n] \in SegRecs
        /\ [sg[cur] EXCEPT !.closed = TRUE, !.length = n].nobj = sg[cur].nobj
        /\ [sg[cur] EXCEPT !.closed = TRUE, !.length = n].flag = sg[cur].flag
    BY <2>1 DEF SegRecs
  <2>4. s = [sg EXCEPT ![cur] = [sg[cur] EXCEPT !.closed = TRUE, !.length = n]]
    BY <1>2, <2>2
  <2>5. \A x \in Sids : s[x] = IF x = cur THEN [sg[cur] EXCEPT !.closed = TRUE, !.length = n]
                               ELSE sg[x]
    BY <1>2, <2>4
  <2>6. s \in [Sids -> SegRecs]
    BY <1>2, <2>3, <2>4
  <2> HIDE DEF s
  <2> QED
    BY <2>3, <2>5, <2>6 DEF SameTally
<1> HIDE DEF s
<1>4. PICK m \in 1..(Len(segs) + 1) : /\ WithoutEmpty(segs, 0, s) = Left(segs, m)
                                      /\ \A i \in 1..(m - 1) : ~(s[segs[i]].nobj > 0)
  <2>1. 0 \in Nat
    OBVIOUS
  <2> QED
    BY <1>3, <2>1, LeftOver
<1>5. ASSUME NEW i \in 1..(m - 1) PROVE ~(sg[segs[i]].nobj > 0)
  <2>1. i \in 1..Len(segs)
    BY <1>2
  <2>2. segs[i] \in Sids
    BY <1>2, <2>1
  <2>3. sg[segs[i]].nobj = s[segs[i]].nobj
    BY <1>3, <2>2 DEF SameTally
  <2> QED
    BY <1>4, <2>3
<1>6. SameTallies(sg') /\ segs' = Left(segs, m) /\ EmptyFront(m)
  BY <1>1, <1>3, <1>4, <1>5 DEF SameTallies, EmptyFront
<1>7. CurKept /\ UNCHANGED <<proc, nsid, ost, home, body, torn, abut>>
  BY <1>1 DEF CurKept
<1>8. ThreadInv'
  <2>1. ThreadInv
    BY DEF Inside, Base
  <2> QED
    BY <1>1, <2>1 DEF ThreadInv
<1>9. LoadKept
  <2> SUFFICES ASSUME ~skew', NEW x, Contains(segs, x), Uncounted(x)
               PROVE  Contains(segs', x)
    BY <1>1 DEF LoadKept
  <2>1. ToSet(segs) = {segs[i] : i \in 1..Len(segs)} /\ x \in ToSet(segs)
    BY <1>2 DEF ToSet, Contains
  <2>2. x \in ToSet(segs')
    BY <1>1, <2>1
  <2>3. segs' \in Seq(Sids)
    <3>1. Left(segs, m) = SubSeq(segs, m, Len(segs))
      BY DEF Left
    <3> QED
      BY <1>2, <1>6, <3>1
  <2> QED
    BY <2>2, <2>3 DEF ToSet, Contains
<1> QED
  BY <1>6, <1>7, <1>8, <1>9, RemovedInside

\* The periodic save of the silo's thread.
LEMMA ThreadInside ==
    ASSUME TypeOK, Struct, Inside, smp_thread
    PROVE  Inside'
<1>1. /\ segs' = WithoutEmpty(segs, cur, sg) /\ proc = "up" /\ thr.pc = "save"
      /\ thr' = [thr EXCEPT !.pc = "check"]
      /\ UNCHANGED <<proc, nsid, cur, sg, ost, home, body, torn, abut, skew>>
  BY DEF smp_thread, bounds, objVars, Unlocked
<1>2. segs \in Seq(Sids) /\ sg \in [Sids -> SegRecs] /\ cur \in Nat
  <2>1. segs \in Seq(Sids) /\ sg \in [Sids -> SegRecs] /\ cur \in 0..MaxSid
    BY TypeParts
  <2> QED
    BY <2>1, Sizes
<1>3. PICK m \in 1..(Len(segs) + 1) : /\ WithoutEmpty(segs, cur, sg) = Left(segs, m)
                                      /\ \A i \in 1..(m - 1) : ~(sg[segs[i]].nobj > 0)
  BY <1>2, LeftOver
<1>4. SameTallies(sg') /\ segs' = Left(segs, m) /\ EmptyFront(m) /\ CurKept
  BY <1>1, <1>3 DEF SameTallies, SameTally, EmptyFront, CurKept
<1>5. thr \in Threads /\ thr.sid <= nsid /\ skew \in BOOLEAN
  BY DEF Inside, Base, ThreadInv
<1>6. thr' \in Threads /\ thr'.sid = thr.sid /\ thr'.pc = "check"
  BY <1>1, <1>5 DEF Threads
<1>7. ThreadInv'
  BY <1>1, <1>5, <1>6 DEF ThreadInv
<1>8. LoadKept
  BY <1>1, <1>6 DEF LoadKept, Uncounted
<1> QED
  BY <1>1, <1>4, <1>7, <1>8, RemovedInside

-----------------------------------------------------------------------------
(***************************************************************************)
(* Steps of the objects                                                    *)
(***************************************************************************)

\* The segment s with other numbers.
Tallied(s, a, n, f) == [sg EXCEPT ![s] = [sg[s] EXCEPT !.nalloc = a, !.nobj = n, !.flag = f]]

\* Only the numbers of the one segment change.
LEMMA TalliedFacts ==
    ASSUME TypeOK, NEW s \in Sids, NEW a \in 0..Aim, NEW n \in Int, NEW f \in Flags
    PROVE  /\ Tallied(s, a, n, f) \in [Sids -> SegRecs]
           /\ \A x \in Sids : /\ Tallied(s, a, n, f)[x].offset = sg[x].offset
                              /\ Tallied(s, a, n, f)[x].length = sg[x].length
                              /\ Tallied(s, a, n, f)[x].closed = sg[x].closed
           /\ \A x \in Sids : x # s => Tallied(s, a, n, f)[x] = sg[x]
           /\ Tallied(s, a, n, f)[s].nalloc = a /\ Tallied(s, a, n, f)[s].nobj = n
           /\ Tallied(s, a, n, f)[s].flag = f
<1> DEFINE t == Tallied(s, a, n, f)
<1>1. PICK g \in SegRecs : g = sg[s]
  BY TypeParts
<1> DEFINE r == [g EXCEPT !.nalloc = a, !.nobj = n, !.flag = f]
<1>2. /\ r \in SegRecs /\ r.nalloc = a /\ r.nobj = n /\ r.flag = f
      /\ r.offset = g.offset /\ r.length = g.length /\ r.closed = g.closed
  BY DEF SegRecs
<1>3. t = [sg EXCEPT ![s] = r] /\ sg \in [Sids -> SegRecs]
  BY <1>1, TypeParts DEF Tallied
<1> HIDE DEF r, t
<1>4. t \in [Sids -> SegRecs] /\ t[s] = r /\ \A x \in Sids : x # s => t[x] = sg[x]
  BY <1>2, <1>3
<1> QED
  BY <1>1, <1>2, <1>4 DEF t

\* The numbers of the segment t, if it is one, are a, n and f; nothing else changed.
Tally(t, a, n, f) ==
    /\ SameShape
    /\ \A x \in Sids : x # t => sg'[x] = sg[x]
    /\ t \in Sids => sg'[t].nalloc = a /\ sg'[t].nobj = n /\ sg'[t].flag = f

\* Several forms of this.
LEMMA TallyIs ==
    ASSUME TypeOK, NEW s \in Sids, NEW a \in 0..Aim, NEW n \in Int, NEW f \in Flags,
           sg' = Tallied(s, a, n, f)
    PROVE  Tally(s, a, n, f)
<1>1. /\ sg' \in [Sids -> SegRecs]
      /\ \A x \in Sids : /\ sg'[x].offset = sg[x].offset /\ sg'[x].length = sg[x].length
                         /\ sg'[x].closed = sg[x].closed
      /\ \A x \in Sids : x # s => sg'[x] = sg[x]
      /\ sg'[s].nalloc = a /\ sg'[s].nobj = n /\ sg'[s].flag = f
  BY TalliedFacts
<1> QED
  BY <1>1 DEF Tally, SameShape

\* Nothing changed.
LEMMA TallySame ==
    ASSUME TypeOK, sg' = sg, NEW t, t \notin Sids, NEW a, NEW n, NEW f
    PROVE  Tally(t, a, n, f)
  BY TypeParts DEF Tally, SameShape

\* A part of the numbers changes.
LEMMA TalliedForms ==
    ASSUME TypeOK, NEW s \in Sids
    PROVE  /\ sg[s].nalloc \in 0..Aim /\ sg[s].nobj \in Int /\ sg[s].flag \in Flags
           /\ \A a \in 0..Aim : [sg EXCEPT ![s].nalloc = a] = Tallied(s, a, sg[s].nobj, sg[s].flag)
           /\ \A n \in Int : [sg EXCEPT ![s].nobj = n] = Tallied(s, sg[s].nalloc, n, sg[s].flag)
           /\ \A n \in Int, f \in Flags :
                 [sg EXCEPT ![s].flag = f, ![s].nobj = n] = Tallied(s, sg[s].nalloc, n, f)
<1>1. PICK g \in SegRecs : g = sg[s]
  BY TypeParts
<1>2. sg \in [Sids -> SegRecs]
  BY TypeParts
<1>3. g.nalloc \in 0..Aim /\ g.nobj \in Int /\ g.flag \in Flags
  BY DEF SegRecs
<1>4. \A a \in 0..Aim : [g EXCEPT !.nalloc = a]
                         = [g EXCEPT !.nalloc = a, !.nobj = g.nobj, !.flag = g.flag]
  BY DEF SegRecs
<1>5. \A n \in Int : [g EXCEPT !.nobj = n]
                      = [g EXCEPT !.nalloc = g.nalloc, !.nobj = n, !.flag = g.flag]
  BY DEF SegRecs
<1>6. \A n \in Int, f \in Flags : [g EXCEPT !.flag = f, !.nobj = n]
                                   = [g EXCEPT !.nalloc = g.nalloc, !.nobj = n, !.flag = f]
  BY DEF SegRecs
<1>7. ASSUME NEW a \in 0..Aim
      PROVE  [sg EXCEPT ![s].nalloc = a] = Tallied(s, a, sg[s].nobj, sg[s].flag)
  <2>1. [sg EXCEPT ![s].nalloc = a] = [sg EXCEPT ![s] = [g EXCEPT !.nalloc = a]]
    BY <1>1, <1>2
  <2> QED
    BY <1>1, <1>4, <2>1 DEF Tallied
<1>8. ASSUME NEW n \in Int
      PROVE  [sg EXCEPT ![s].nobj = n] = Tallied(s, sg[s].nalloc, n, sg[s].flag)
  <2>1. [sg EXCEPT ![s].nobj = n] = [sg EXCEPT ![s] = [g EXCEPT !.nobj = n]]
    BY <1>1, <1>2
  <2> QED
    BY <1>1, <1>5, <2>1 DEF Tallied
<1>9. ASSUME NEW n \in Int, NEW f \in Flags
      PROVE  [sg EXCEPT ![s].flag = f, ![s].nobj = n] = Tallied(s, sg[s].nalloc, n, f)
  <2>1. [sg EXCEPT ![s].flag = f, ![s].nobj = n]
          = [sg EXCEPT ![s] = [g EXCEPT !.flag = f, !.nobj = n]]
    BY <1>1, <1>2
  <2> QED
    BY <1>1, <1>6, <2>1 DEF Tallied
<1> QED
  BY <1>1, <1>3, <1>7, <1>8, <1>9

\* A number of objects is stored.
LEMMA TallyNobj ==
    ASSUME TypeOK, NEW t, NEW n \in Int, sg' = WithNobj(t, n)
    PROVE  Tally(t, sg[t].nalloc, n, sg[t].flag)
<1>1. sg \in [Sids -> SegRecs]
  BY TypeParts
<1>2. CASE t \in Sids
  <2>1. sg' = [sg EXCEPT ![t].nobj = n]
    BY <1>1, <1>2 DEF WithNobj
  <2>2. PICK a \in 0..Aim, f \in Flags : a = sg[t].nalloc /\ f = sg[t].flag
    BY <1>2, TalliedForms
  <2>3. sg' = Tallied(t, a, n, f)
    BY <1>2, <2>1, <2>2, TalliedForms
  <2>4. Tally(t, a, n, f)
    BY <1>2, <2>3, TallyIs
  <2> QED
    BY <2>2, <2>4
<1>3. CASE t \notin Sids
  <2>1. sg' = sg
    BY <1>1, <1>3 DEF WithNobj
  <2> QED
    BY <1>3, <2>1, TallySame
<1> QED
  BY <1>2, <1>3

\* The flag of a segment is set.
LEMMA TallyFlag ==
    ASSUME TypeOK, NEW t, NEW f \in Flags,
           sg' = [s \in Sids |-> IF s = t THEN [sg[s] EXCEPT !.flag = f] ELSE sg[s]]
    PROVE  Tally(t, sg[t].nalloc, sg[t].nobj, f)
<1>1. sg \in [Sids -> SegRecs]
  BY TypeParts
<1>2. CASE t \in Sids
  <2>1. PICK g \in SegRecs : g = sg[t]
    BY <1>1, <1>2
  <2>2. PICK a \in 0..Aim, n \in Int : a = g.nalloc /\ n = g.nobj
    BY DEF SegRecs
  <2>3. [g EXCEPT !.flag = f] = [g EXCEPT !.nalloc = a, !.nobj = n, !.flag = f]
    BY <2>2 DEF SegRecs
  <2>4. sg' = [sg EXCEPT ![t] = [g EXCEPT !.flag = f]]
    BY <1>1, <1>2, <2>1
  <2>5. sg' = Tallied(t, a, n, f)
    BY <2>1, <2>3, <2>4 DEF Tallied
  <2>6. Tally(t, a, n, f)
    BY <1>2, <2>5, TallyIs
  <2> QED
    BY <2>1, <2>2, <2>6
<1>3. CASE t \notin Sids
  <2>1. sg' = sg
    BY <1>1, <1>3
  <2> QED
    BY <1>3, <2>1, TallySame
<1> QED
  BY <1>2, <1>3

\* Space is allocated in the current segment.
LEMMA TallyAlloc ==
    ASSUME TypeOK, Struct, cur # 0, sg[cur].nalloc < Aim, sg' = [sg EXCEPT ![cur].nalloc = @ + 1]
    PROVE  Tally(cur, sg[cur].nalloc + 1, sg[cur].nobj, sg[cur].flag) /\ sg[cur].nalloc \in Nat
<1>1. cur \in Sids
  BY TypeParts
<1>2. PICK n \in Int, f \in Flags : n = sg[cur].nobj /\ f = sg[cur].flag /\ sg[cur].nalloc \in 0..Aim
  BY <1>1, TalliedForms
<1>3. PICK a \in 0..Aim : a = sg[cur].nalloc + 1
  BY <1>2, Sizes
<1>4. sg' = [sg EXCEPT ![cur].nalloc = a]
  BY <1>1, <1>3, TypeParts
<1>5. sg' = Tallied(cur, a, n, f)
  BY <1>1, <1>2, <1>4, TalliedForms
<1>6. Tally(cur, a, n, f)
  BY <1>1, <1>5, TallyIs
<1> QED
  BY <1>2, <1>3, <1>6, Sizes

\* A step that changes the numbers of one segment, and objects.
LEMMA TallyStruct ==
    ASSUME TypeOK, Struct, NEW t, NEW a, NEW n, NEW f, Tally(t, a, n, f),
           UNCHANGED <<proc, starts, nsid, segs, cur, free_offset, cell, seg1, seg2, save, torn, abut>>,
           ost' \in [Objs -> ObjStates],
           home' \in [Objs -> 0..MaxSid], body' \in [Objs -> 0..MaxSid]
    PROVE  TypeOK' /\ Struct'
<1>1. SameShape /\ sg' \in [Sids -> SegRecs]
  BY DEF Tally, SameShape
<1>2. Struct'
  BY <1>1, QuietStep
<1>3. TypeOK'
  BY <1>1 DEF TypeOK
<1> QED
  BY <1>2, <1>3

\* An object that is as it was, and what is to be shown of one that is not.
SameObj(p) == ost'[p] = ost[p] /\ home'[p] = home[p] /\ body'[p] = body[p]
NewBase(p) ==
    /\ Placed(p)'
    /\ ~abut /\ torn # "stale" => Bodied(p)'
    /\ cur # 0 /\ sg'[cur].nalloc = 0 => home'[p] # cur /\ body'[p] # cur
NewExact(p) == Homed(p)' /\ (~abut /\ torn # "stale" => Served(p)')

\* What holds whatever the counts are, after a step within the segments.
LEMMA BaseStep ==
    ASSUME TypeOK, Struct, Base, NEW t, NEW a, NEW n, NEW f, Tally(t, a, n, f),
           UNCHANGED <<proc, nsid, segs, cur, torn, abut>>,
           t = cur /\ cur # 0 => a = sg[t].nalloc \/ a # 0,
           ThreadInv', \A p \in Objs : SameObj(p) \/ NewBase(p)
    PROVE  Base'
<1>1. cur # 0 => /\ cur \in Sids /\ sg'[cur].closed = sg[cur].closed
                 /\ sg'[cur].nalloc = 0 => sg[cur].nalloc = 0
  <2> SUFFICES ASSUME cur # 0 PROVE /\ cur \in Sids /\ sg'[cur].closed = sg[cur].closed
                                    /\ sg'[cur].nalloc = 0 => sg[cur].nalloc = 0
    OBVIOUS
  <2>1. cur \in Sids
    BY TypeParts
  <2>2. sg'[cur].closed = sg[cur].closed
    BY <2>1 DEF Tally, SameShape
  <2>3. CASE t = cur
    BY <2>1, <2>2, <2>3 DEF Tally
  <2>4. CASE t # cur
    BY <2>1, <2>2, <2>4 DEF Tally
  <2> QED
    BY <2>3, <2>4
<1>2. PlaceInv'
  BY DEF Base, PlaceInv, SameObj, NewBase, Placed
<1>3. BodyInv'
  BY DEF Base, BodyInv, SameObj, NewBase, Bodied
<1>4. CurNewInv'
  <2> SUFFICES ASSUME cur # 0 PROVE CurNewInv'
    BY DEF CurNewInv
  <2>1. ASSUME sg'[cur].nalloc = 0, NEW p \in Objs PROVE home'[p] # cur /\ body'[p] # cur
    BY <1>1, <2>1 DEF Base, CurNewInv, SameObj, NewBase
  <2>2. cur = nsid /\ ~sg'[cur].closed
    BY <1>1 DEF Base, CurNewInv
  <2> QED
    BY <2>1, <2>2 DEF CurNewInv
<1> QED
  BY <1>2, <1>3, <1>4 DEF Base

\* What holds while the counts are exact.
LEMMA ExactStep ==
    ASSUME TypeOK, Struct, Exact, UNCHANGED <<segs, cur, torn, abut>>,
           \A x \in Sids : Contains(segs, x) => Counted(x)',
           \A x \in Sids : sg[x].flag = "new" => sg'[x].flag = "new",
           LoadInv', \A p \in Objs : SameObj(p) \/ NewExact(p)
    PROVE  Exact'
<1>1. CountInv'
  BY DEF CountInv
<1>2. CurFlagInv'
  BY TypeParts DEF Exact, CurFlagInv
<1>3. HomeInv'
  <2> SUFFICES ASSUME NEW p \in Objs PROVE Homed(p)'
    BY DEF HomeInv
  <2>1. CASE SameObj(p)
    <3>1. Homed(p) /\ (Contains(segs, home[p]) => home[p] \in Sids)
      BY ObjFacts DEF Exact, HomeInv
    <3> QED
      BY <2>1, <3>1 DEF Homed, SameObj
  <2> QED
    BY <2>1 DEF NewExact
<1>4. ServedInv'
  BY DEF Exact, ServedInv, SameObj, NewExact, Served
<1> QED
  BY <1>1, <1>2, <1>3, <1>4 DEF Exact

\* Of one object, the others being as they were.
OnlyObj(o) == \A p \in Objs : p # o => SameObj(p)

\* The objects of the segments that it is not in and does not get to.
LEMMA OtherMembers ==
    ASSUME NEW o \in Objs, OnlyObj(o), NEW x, home[o] # x, home'[o] # x
    PROVE  Members(x)' = Members(x)
  BY DEF Members, OnlyObj, SameObj

\* Where nothing about a segment changed.
LEMMA SameCounted ==
    ASSUME NEW x, Counted(x), sg'[x].nobj = sg[x].nobj, sg'[x].flag = sg[x].flag,
           Members(x)' = Members(x), Pending(x)' = Pending(x)
    PROVE  Counted(x)'
  BY DEF Counted

\* The segment a pointer points to.
LEMMA PointsTo ==
    ASSUME TypeOK, NEW s, NEW t \in Pointee(s)
    PROVE  /\ Contains(segs, s) => t = s
           /\ ~Contains(segs, s) => t = 0 \/ (t \in Sids /\ Contains(segs, t) /\ t > s)
           /\ t # 0 => t \in Sids /\ Contains(segs, t)
           /\ Nobj(t) \in Int
<1>1. segs \in Seq(Sids) /\ sg \in [Sids -> SegRecs]
  BY TypeParts
<1>2. Contains(segs, s) => t = s
  BY DEF Pointee
<1>3. ASSUME ~Contains(segs, s), t # 0 PROVE t \in Sids /\ Contains(segs, t) /\ t > s
  <2>1. t \in ToSet(segs) /\ t > s
    BY <1>3 DEF Pointee, Later
  <2>2. PICK i \in 1..Len(segs) : segs[i] = t
    BY <1>1, <2>1 DEF ToSet
  <2> QED
    BY <1>1, <2>1, <2>2 DEF Contains
<1>4. t # 0 => t \in Sids /\ Contains(segs, t)
  <2>1. ASSUME Contains(segs, s) PROVE s \in Sids
    <3>1. PICK i \in 1..Len(segs) : segs[i] = s
      BY <2>1 DEF Contains
    <3> QED
      BY <1>1, <3>1
  <2> QED
    BY <1>2, <1>3, <2>1
<1>5. Nobj(t) \in Int
  <2>1. CASE t = 0
    BY <2>1 DEF Nobj
  <2>2. CASE t # 0
    <3>1. sg[t] \in SegRecs
      BY <1>1, <1>4, <2>2
    <3> QED
      BY <2>2, <3>1 DEF Nobj, SegRecs
  <2> QED
    BY <2>1, <2>2
<1> QED
  BY <1>2, <1>3, <1>4, <1>5

\* The silo's thread.
LEMMA ThrFacts ==
    ASSUME TypeOK, Base
    PROVE  /\ thr \in Threads /\ thr.sid \in 0..MaxSid /\ thr.sid \in Int /\ thr.val \in Int
           /\ thr.sid <= nsid /\ skew \in BOOLEAN
<1>1. thr \in Threads /\ thr.sid <= nsid /\ skew \in BOOLEAN
  BY DEF Base, ThreadInv
<1>2. thr.sid \in 0..MaxSid /\ thr.val \in Int
  BY <1>1 DEF Threads
<1> QED
  BY <1>1, <1>2, Sizes

\* It gets on.
LEMMA ThrNext ==
    ASSUME TypeOK, proc' = "up", nsid' = nsid, skew' \in BOOLEAN,
           NEW pc \in {"next", "load", "count", "store", "check", "save"},
           NEW s \in 0..MaxSid, s <= nsid, NEW n \in Int, thr' = Thread(pc, s, n)
    PROVE  ThreadInv' /\ thr'.pc = pc /\ thr'.sid = s /\ thr'.val = n
<1>1. thr' = [pc |-> pc, sid |-> s, val |-> n]
  BY DEF Thread
<1>2. thr' \in Threads /\ thr'.pc = pc /\ thr'.sid = s /\ thr'.val = n
  BY <1>1 DEF Threads
<1> QED
  BY <1>2 DEF ThreadInv

\* Where the objects do not change.
LEMMA ObjsSame ==
    ASSUME TypeOK, UNCHANGED <<ost, home, body>>
    PROVE  /\ ost' \in [Objs -> ObjStates]
           /\ home' \in [Objs -> 0..MaxSid] /\ body' \in [Objs -> 0..MaxSid]
           /\ \A p \in Objs : SameObj(p)
           /\ \A x : Members(x)' = Members(x)
  BY DEF TypeOK, SameObj, Members

\* The hold of a segment found on disk is cleared.
LEMMA ClearStep ==
    ASSUME TypeOK, Struct, Inside, smp_load_seg_clear
    PROVE  TypeOK' /\ Struct' /\ Inside'
<1>1. PICK i \in DOMAIN segs :
        /\ sg[segs[i]].flag = "mustload"
        /\ \/ /\ sg' = [sg EXCEPT ![segs[i]].flag = "loading", ![segs[i]].nobj = 0]
              /\ thr' = Thread("load", segs[i], 0)
           \/ /\ sg' = [sg EXCEPT ![segs[i]].flag = "unloaded"]
              /\ thr' = Thread("next", segs[i], 0)
  BY DEF smp_load_seg_clear
<1>2. /\ UNCHANGED <<proc, starts, nsid, segs, cur, free_offset, cell, seg1, seg2, save,
                     ost, home, body, torn, abut, skew>>
      /\ proc = "up" /\ thr.pc = "next"
  BY DEF smp_load_seg_clear, bounds, objVars, disk
<1>3. PICK s \in Sids : s = segs[i] /\ Contains(segs, s)
  <2>1. segs \in Seq(Sids)
    BY TypeParts
  <2>2. i \in 1..Len(segs) /\ segs[i] \in Sids
    BY <2>1
  <2> QED
    BY <2>2 DEF Contains
<1>4. sg \in [Sids -> SegRecs] /\ sg[s].nalloc \in 0..Aim /\ sg[s].nobj \in Int
  BY TypeParts, TalliedForms
<1>5. PICK n \in Int, f \in Flags, pc \in {"next", "load"} :
        /\ (f = "loading" /\ n = 0) \/ (f = "unloaded" /\ pc = "next")
        /\ sg' = [sg EXCEPT ![s].flag = f, ![s].nobj = n]
        /\ thr' = Thread(pc, s, 0)
  <2>1. CASE /\ sg' = [sg EXCEPT ![segs[i]].flag = "loading", ![segs[i]].nobj = 0]
             /\ thr' = Thread("load", segs[i], 0)
    <3>1. /\ sg' = [sg EXCEPT ![s].flag = "loading", ![s].nobj = 0]
          /\ thr' = Thread("load", s, 0)
      BY <1>3, <2>1
    <3>2. "loading" \in Flags /\ "load" \in {"next", "load"} /\ 0 \in Int
      BY DEF Flags
    <3>3. PICK n \in Int : n = 0
      OBVIOUS
    <3>4. sg' = [sg EXCEPT ![s].flag = "loading", ![s].nobj = n]
      BY <3>1, <3>3, Zenon
    <3>5. \E f \in Flags, pc \in {"next", "load"} :
             /\ (f = "loading" /\ n = 0) \/ (f = "unloaded" /\ pc = "next")
             /\ sg' = [sg EXCEPT ![s].flag = f, ![s].nobj = n]
             /\ thr' = Thread(pc, s, 0)
      BY <3>1, <3>2, <3>3, <3>4
    <3> QED
      BY <3>5
  <2>2. CASE /\ sg' = [sg EXCEPT ![segs[i]].flag = "unloaded"]
             /\ thr' = Thread("next", segs[i], 0)
    <3>2. PICK g \in SegRecs : g = sg[s]
      BY <1>4
    <3>3. [g EXCEPT !.flag = "unloaded"] = [g EXCEPT !.flag = "unloaded", !.nobj = g.nobj]
      BY DEF SegRecs
    <3>4. sg' = [sg EXCEPT ![s] = [g EXCEPT !.flag = "unloaded"]] /\ thr' = Thread("next", s, 0)
      BY <1>3, <1>4, <2>2, <3>2
    <3>5. [sg EXCEPT ![s].flag = "unloaded", ![s].nobj = sg[s].nobj]
            = [sg EXCEPT ![s] = [g EXCEPT !.flag = "unloaded", !.nobj = g.nobj]]
      BY <1>4, <3>2
    <3>6. sg' = [sg EXCEPT ![s].flag = "unloaded", ![s].nobj = sg[s].nobj]
      BY <3>3, <3>4, <3>5
    <3>7. "unloaded" \in Flags /\ "next" \in {"next", "load"}
      BY DEF Flags
    <3> QED
      BY <1>4, <3>4, <3>6, <3>7
  <2> QED
    BY <1>1, <2>1, <2>2
<1>6. sg' = Tallied(s, sg[s].nalloc, n, f)
  BY <1>5, TalliedForms, ZenonT(60)
<1>7. Tally(s, sg[s].nalloc, n, f)
  BY <1>4, <1>6, TallyIs
<1>8. TypeOK' /\ Struct'
  BY <1>2, <1>7, ObjsSame, TallyStruct
<1>9. s \in 0..MaxSid /\ s <= nsid /\ skew \in BOOLEAN /\ Base
  <2>1. Base
    BY DEF Inside
  <2>2. s \in 0..MaxSid
    BY Sizes DEF Sids
  <2> QED
    BY <1>3, <2>1, <2>2, SegsOld, ThrFacts
<1>10. ThreadInv' /\ thr'.pc = pc /\ thr'.sid = s
  <2>1. 0 \in Int /\ pc \in {"next", "load", "count", "store", "check", "save"}
    OBVIOUS
  <2> QED
    BY <1>2, <1>5, <1>9, <2>1, ThrNext
<1>11. Base'
  <2>1. \A p \in Objs : SameObj(p)
    BY <1>2, ObjsSame
  <2> QED
    BY <1>2, <1>7, <1>9, <1>10, <2>1, BaseStep
<1>12. ASSUME Exact PROVE Exact'
  <2>1. \A p \in Objs : SameObj(p)
    BY <1>2, ObjsSame
  <2>2. \A x : Members(x)' = Members(x) /\ Pending(x) = 0 /\ Pending(x)' = 0
    BY <1>2, <1>10, ObjsSame DEF Pending, Uncounted
  <2>3. Members(s) = {}
    BY <1>1, <1>3, <1>12 DEF Exact, CountInv, Counted
  <2>4. sg'[s].nobj = n /\ sg'[s].flag = f /\ \A x \in Sids : x # s => sg'[x] = sg[x]
    BY <1>7 DEF Tally
  <2>5. ASSUME NEW x \in Sids, Contains(segs, x) PROVE Counted(x)'
    <3>1. CASE x = s
      <4>1. Members(s)' = {} /\ Pending(s)' = 0 /\ Cardinality({}) = 0
        BY <2>2, <2>3, FS_EmptySet
      <4>2. CASE f = "loading" /\ n = 0
        BY <2>4, <3>1, <4>1, <4>2 DEF Counted
      <4>3. CASE f = "unloaded"
        BY <2>4, <3>1, <4>1, <4>3 DEF Counted
      <4> QED
        BY <1>5, <4>2, <4>3
    <3>2. CASE x # s
      <4>1. Counted(x) /\ sg'[x] = sg[x]
        BY <1>12, <2>4, <2>5, <3>2 DEF Exact, CountInv
      <4> QED
        BY <2>2, <4>1, SameCounted
    <3> QED
      BY <3>1, <3>2
  <2>6. \A x \in Sids : sg[x].flag = "new" => sg'[x].flag = "new"
    BY <1>1, <1>3, <2>4
  <2>7. LoadInv'
    BY <1>5, <1>10, <2>4 DEF LoadInv
  <2> QED
    BY <1>2, <1>12, <2>1, <2>5, <2>6, <2>7, ExactStep
<1> QED
  BY <1>2, <1>8, <1>11, <1>12 DEF Inside

\* An object of the segment can be found from now on.
LEMMA InsertStep ==
    ASSUME TypeOK, Struct, Inside, NEW o \in Objs, proc = "up", thr.pc = "load",
           ost[o] = "disk", home[o] = thr.sid,
           ost' = [ost EXCEPT ![o] = "vampire"], thr' = [thr EXCEPT !.pc = "count"],
           skew' = (skew \/ ~Contains(segs, thr.sid)),
           UNCHANGED <<proc, starts, nsid, segs, cur, free_offset, sg, cell, seg1, seg2, save,
                       home, body, torn, abut>>
    PROVE  TypeOK' /\ Struct' /\ Inside'
<1> DEFINE s == thr.sid
<1>1. Base /\ thr \in Threads /\ s \in 0..MaxSid /\ s <= nsid /\ skew \in BOOLEAN
  BY ThrFacts DEF Inside
<1>2. thr' \in Threads /\ thr'.pc = "count" /\ thr'.sid = s /\ ThreadInv'
  <2>1. thr' \in Threads /\ thr'.pc = "count" /\ thr'.sid = s
    BY <1>1 DEF Threads
  <2> QED
    BY <1>1, <2>1 DEF ThreadInv
<1>3. Tally(0, 0, 0, 0)
  <2>1. 0 \notin Sids
    BY Sizes DEF Sids
  <2> QED
    BY <2>1, TallySame
<1>4. /\ ost \in [Objs -> ObjStates]
      /\ home \in [Objs -> 0..MaxSid] /\ body \in [Objs -> 0..MaxSid] /\ "vampire" \in ObjStates
  BY DEF TypeOK, ObjStates
<1>5. TypeOK' /\ Struct'
  <2>1. /\ ost' \in [Objs -> ObjStates]
        /\ home' \in [Objs -> 0..MaxSid] /\ body' \in [Objs -> 0..MaxSid]
    BY <1>4
  <2> QED
    BY <1>3, <2>1, TallyStruct
<1>6. /\ ost'[o] = "vampire" /\ home'[o] = home[o] /\ body'[o] = body[o]
      /\ OnlyObj(o)
  BY <1>4 DEF OnlyObj, SameObj
<1>7. Base'
  <2>1. Placed(o) /\ (~abut /\ torn # "stale" => Bodied(o))
        /\ (cur # 0 /\ sg[cur].nalloc = 0 => home[o] # cur /\ body[o] # cur)
    BY <1>1 DEF Base, PlaceInv, BodyInv, CurNewInv
  <2>2. NewBase(o)
    BY <1>6, <2>1 DEF NewBase, Placed, Bodied
  <2>3. \A p \in Objs : SameObj(p) \/ NewBase(p)
    BY <1>6, <2>2 DEF OnlyObj
  <2> QED
    BY <1>1, <1>2, <1>3, <1>6, <2>3, BaseStep
<1>8. ASSUME Exact, ~skew' PROVE Exact'
  <2>1. s \in Sids /\ Contains(segs, s) /\ sg[s].flag = "loading"
    BY <1>8, SegsOld DEF Exact, LoadInv
  <2>2. o \notin Members(s) /\ Members(s)' = Members(s) \cup {o}
    BY <1>6 DEF Members, Used, OnlyObj, SameObj
  <2>3. Cardinality(Members(s)') = Cardinality(Members(s)) + 1
    BY <2>2, MembersFinite, FS_AddElement
  <2>4. /\ Pending(s) = 0 /\ Pending(s)' = 1
        /\ \A x : x # s => Pending(x)' = Pending(x)
    BY <1>2 DEF Pending, Uncounted
  <2>5. ASSUME NEW x \in Sids, Contains(segs, x) PROVE Counted(x)'
    <3>1. Counted(x)
      BY <1>8, <2>5 DEF Exact, CountInv
    <3>2. CASE x = s
      <4>1. sg[s].nobj = Cardinality(Members(s))
        <5>1. sg[s].nobj + 0 = Cardinality(Members(s)) /\ sg[s].nobj \in Int
          BY <2>1, <2>4, <3>1, <3>2, TalliedForms DEF Counted
        <5> QED
          BY <5>1
      <4>2. sg'[s].nobj + Pending(s)' = Cardinality(Members(s)')
        BY <2>3, <2>4, <4>1
      <4> QED
        BY <2>1, <3>2, <4>2 DEF Counted
    <3>3. CASE x # s
      <4>1. Members(x)' = Members(x)
        BY <1>6, <3>3, OtherMembers
      <4> QED
        BY <2>4, <3>1, <3>3, <4>1, SameCounted
    <3> QED
      BY <3>2, <3>3
  <2>6. LoadInv'
    BY <1>2, <2>1 DEF LoadInv
  <2>7. \A p \in Objs : SameObj(p) \/ NewExact(p)
    <3>1. NewExact(o)
      BY <1>6, <2>1 DEF NewExact, Homed, Served
    <3> QED
      BY <1>6, <3>1 DEF OnlyObj
  <2> QED
    BY <1>8, <2>5, <2>6, <2>7, ExactStep
<1> QED
  BY <1>5, <1>7, <1>8 DEF Inside

\* Without a change to the segments.
LEMMA TallyNone ==
    ASSUME TypeOK, sg' = sg
    PROVE  Tally(0, 0, 0, 0)
<1>1. 0 \notin Sids
  BY Sizes DEF Sids
<1> QED
  BY <1>1, TallySame

\* An object goes.
Gone(o) ==
    /\ ost' = [ost EXCEPT ![o] = "none"]
    /\ home' = [home EXCEPT ![o] = 0]
    /\ body' = [body EXCEPT ![o] = 0]

\* Nothing is left of it.
LEMMA GoneFacts ==
    ASSUME TypeOK, NEW o \in Objs, Gone(o), UNCHANGED <<proc, nsid, cur>>
    PROVE  /\ ost'[o] = "none" /\ home'[o] = 0 /\ body'[o] = 0 /\ OnlyObj(o)
           /\ ost' \in [Objs -> ObjStates]
           /\ home' \in [Objs -> 0..MaxSid] /\ body' \in [Objs -> 0..MaxSid]
           /\ NewBase(o) /\ NewExact(o)
<1>1. /\ ost \in [Objs -> ObjStates] /\ "none" \in ObjStates /\ 0 \in 0..MaxSid /\ nsid \in Nat
      /\ home \in [Objs -> 0..MaxSid] /\ body \in [Objs -> 0..MaxSid]
  BY TypeParts DEF TypeOK, ObjStates
<1>2. ost'[o] = "none" /\ home'[o] = 0 /\ body'[o] = 0 /\ OnlyObj(o)
  BY <1>1 DEF Gone, OnlyObj, SameObj
<1>3. /\ ost' \in [Objs -> ObjStates]
      /\ home' \in [Objs -> 0..MaxSid] /\ body' \in [Objs -> 0..MaxSid]
  BY <1>1 DEF Gone
<1>4. NewBase(o)
  BY <1>1, <1>2 DEF NewBase, Placed, Bodied, Used
<1>5. NewExact(o)
  BY <1>2 DEF NewExact, Homed, Served, Used
<1> QED
  BY <1>2, <1>3, <1>4, <1>5

\* An object whose time is over is not loaded.
LEMMA SkipStep ==
    ASSUME TypeOK, Struct, Inside, NEW o \in Objs, ost[o] = "disk", Gone(o),
           UNCHANGED <<proc, starts, nsid, segs, cur, free_offset, sg, cell, seg1, seg2, save,
                       thr, torn, abut, skew>>
    PROVE  TypeOK' /\ Struct' /\ Inside'
<1>1. /\ ost'[o] = "none" /\ home'[o] = 0 /\ body'[o] = 0 /\ OnlyObj(o)
      /\ ost' \in [Objs -> ObjStates]
      /\ home' \in [Objs -> 0..MaxSid] /\ body' \in [Objs -> 0..MaxSid]
      /\ NewBase(o) /\ NewExact(o)
  BY GoneFacts
<1>2. TypeOK' /\ Struct'
  BY <1>1, TallyNone, TallyStruct
<1>3. \A p \in Objs : SameObj(p) \/ (NewBase(p) /\ NewExact(p))
  BY <1>1 DEF OnlyObj
<1>4. Base /\ ThreadInv'
  BY DEF Inside, Base, ThreadInv
<1>5. Base'
  <2>1. \A p \in Objs : SameObj(p) \/ NewBase(p)
    BY <1>3
  <2>2. 0 = cur /\ cur # 0 => FALSE
    OBVIOUS
  <2> QED
    BY <1>4, <2>1, <2>2, TallyNone, BaseStep
<1>6. ASSUME Exact PROVE Exact'
  <2>1. \A x : Members(x)' = Members(x) /\ Pending(x)' = Pending(x)
    BY <1>1 DEF Members, OnlyObj, SameObj, Used, Pending, Uncounted
  <2>2. \A x \in Sids : Contains(segs, x) => Counted(x)'
    BY <1>6, <2>1, SameCounted DEF Exact, CountInv
  <2>3. LoadInv'
    BY <1>6 DEF Exact, LoadInv
  <2>4. \A p \in Objs : SameObj(p) \/ NewExact(p)
    BY <1>3
  <2> QED
    BY <1>6, <2>2, <2>3, <2>4, ExactStep
<1> QED
  BY <1>2, <1>5, <1>6 DEF Inside

\* The thread does something else, with no count to change.
LEMMA IdleStep ==
    ASSUME TypeOK, Struct, Inside, ThreadInv',
           {thr.pc, thr'.pc} \cap {"load", "count", "store"} = {},
           UNCHANGED <<proc, starts, nsid, segs, cur, free_offset, sg, cell, seg1, seg2, save,
                       ost, home, body, torn, abut, skew>>
    PROVE  TypeOK' /\ Struct' /\ Inside'
<1>1. TypeOK' /\ Struct'
  BY ObjsSame, TallyNone, TallyStruct
<1>2. Base
  BY DEF Inside
<1>3. Base'
  <2>1. \A p \in Objs : SameObj(p)
    BY ObjsSame
  <2> QED
    BY <1>2, <2>1, TallyNone, BaseStep
<1>4. ASSUME Exact PROVE Exact'
  <2>1. \A x : Members(x)' = Members(x) /\ Pending(x)' = Pending(x)
    BY ObjsSame DEF Pending, Uncounted
  <2>2. \A x \in Sids : Contains(segs, x) => Counted(x)'
    BY <1>4, <2>1, SameCounted DEF Exact, CountInv
  <2>3. LoadInv'
    BY DEF LoadInv
  <2>4. \A p \in Objs : SameObj(p)
    BY ObjsSame
  <2> QED
    BY <1>4, <2>2, <2>3, <2>4, ExactStep
<1> QED
  BY <1>1, <1>3, <1>4 DEF Inside

\* The count is read.
LEMMA ReadStep ==
    ASSUME TypeOK, Struct, Inside, smp_load_seg_read
    PROVE  TypeOK' /\ Struct' /\ Inside'
<1>1. /\ proc = "up" /\ thr.pc = "count"
      /\ UNCHANGED <<proc, starts, nsid, segs, cur, free_offset, sg, cell, seg1, seg2, save,
                     ost, home, body, torn, abut, skew>>
  BY DEF smp_load_seg_read, bounds, memVars, disk, objVars
<1>2. PICK t \in Pointee(thr.sid) : thr' = Thread("store", thr.sid, Nobj(t))
  BY DEF smp_load_seg_read
<1>3. Base /\ thr.sid \in 0..MaxSid /\ thr.sid <= nsid /\ skew \in BOOLEAN /\ Nobj(t) \in Int
  BY ThrFacts, PointsTo DEF Inside
<1>4. ThreadInv' /\ thr'.pc = "store" /\ thr'.sid = thr.sid /\ thr'.val = Nobj(t)
  <2>1. "store" \in {"next", "load", "count", "store", "check", "save"}
    OBVIOUS
  <2> QED
    BY <1>1, <1>2, <1>3, <2>1, ThrNext
<1>5. TypeOK' /\ Struct'
  BY <1>1, ObjsSame, TallyNone, TallyStruct
<1>6. \A p \in Objs : SameObj(p)
  BY <1>1, ObjsSame
<1>7. Base'
  BY <1>1, <1>3, <1>4, <1>6, TallyNone, BaseStep
<1>8. ASSUME Exact PROVE Exact'
  <2>1. \A x : Members(x)' = Members(x) /\ Pending(x)' = Pending(x)
    BY <1>1, <1>4, ObjsSame DEF Pending, Uncounted
  <2>2. \A x \in Sids : Contains(segs, x) => Counted(x)'
    BY <1>1, <1>8, <2>1, SameCounted DEF Exact, CountInv
  <2>3. Contains(segs, thr.sid) /\ sg[thr.sid].flag = "loading"
    BY <1>1, <1>8 DEF Exact, LoadInv
  <2>4. t = thr.sid /\ t \in Sids
    BY <2>3, PointsTo, SegsOld
  <2>5. Nobj(t) = sg[thr.sid].nobj
    <3>1. t # 0
      BY <2>4, Sizes DEF Sids
    <3> QED
      BY <2>4, <3>1 DEF Nobj
  <2>6. LoadInv'
    BY <1>1, <1>4, <2>3, <2>5 DEF LoadInv
  <2> QED
    BY <1>1, <1>6, <1>8, <2>2, <2>6, ExactStep
<1> QED
  BY <1>1, <1>5, <1>7, <1>8 DEF Inside

\* The count is stored.
LEMMA StoreStep ==
    ASSUME TypeOK, Struct, Inside, smp_load_seg_store
    PROVE  TypeOK' /\ Struct' /\ Inside'
<1>1. /\ proc = "up" /\ thr.pc = "store" /\ thr' = Thread("load", thr.sid, 0)
      /\ UNCHANGED <<proc, starts, nsid, segs, cur, free_offset, cell, seg1, seg2, save,
                     ost, home, body, torn, abut, skew>>
  BY DEF smp_load_seg_store, bounds, disk, objVars
<1>2. PICK t \in Pointee(thr.sid) : sg' = WithNobj(t, thr.val + 1)
  BY DEF smp_load_seg_store
<1>3. Base /\ thr.sid \in 0..MaxSid /\ thr.sid <= nsid /\ skew \in BOOLEAN /\ thr.val \in Int
  BY ThrFacts DEF Inside
<1>4. ThreadInv' /\ thr'.pc = "load" /\ thr'.sid = thr.sid
  <2>1. "load" \in {"next", "load", "count", "store", "check", "save"} /\ 0 \in Int
    OBVIOUS
  <2> QED
    BY <1>1, <1>3, <2>1, ThrNext
<1>5. PICK n \in Int : n = thr.val + 1
  BY <1>3
<1>6. Tally(t, sg[t].nalloc, n, sg[t].flag)
  BY <1>2, <1>5, TallyNobj
<1>7. TypeOK' /\ Struct'
  BY <1>1, <1>6, ObjsSame, TallyStruct
<1>8. \A p \in Objs : SameObj(p)
  BY <1>1, ObjsSame
<1>9. Base'
  BY <1>1, <1>3, <1>4, <1>6, <1>8, BaseStep
<1>10. ASSUME Exact PROVE Exact'
  <2>1. \A x : Members(x)' = Members(x) /\ Pending(x)' = 0 /\ (x # thr.sid => Pending(x) = 0)
    BY <1>4, <1>1, ObjsSame DEF Pending, Uncounted
  <2>2. Contains(segs, thr.sid) /\ sg[thr.sid].flag = "loading" /\ thr.val = sg[thr.sid].nobj
    BY <1>1, <1>10 DEF Exact, LoadInv
  <2>3. t = thr.sid /\ t \in Sids
    BY <2>2, PointsTo, SegsOld
  <2>4. sg'[t].nobj = n /\ sg'[t].flag = "loading" /\ \A x \in Sids : x # t => sg'[x] = sg[x]
    BY <1>6, <2>2, <2>3 DEF Tally
  <2>5. ASSUME NEW x \in Sids, Contains(segs, x) PROVE Counted(x)'
    <3>1. Counted(x)
      BY <1>10, <2>5 DEF Exact, CountInv
    <3>2. CASE x = t
      <4>1. Pending(t) = 1
        BY <1>1, <2>3 DEF Pending, Uncounted
      <4>2. sg[t].nobj + 1 = Cardinality(Members(t))
        BY <2>2, <2>3, <3>1, <3>2, <4>1 DEF Counted
      <4>3. n = Cardinality(Members(t)')
        BY <1>5, <2>1, <2>2, <2>3, <4>2
      <4>4. n + 0 = n
        OBVIOUS
      <4> QED
        BY <2>1, <2>4, <3>2, <4>3, <4>4 DEF Counted
    <3>3. CASE x # t
      BY <2>1, <2>3, <2>4, <3>1, <3>3, SameCounted
    <3> QED
      BY <3>2, <3>3
  <2>6. \A x \in Sids : sg[x].flag = "new" => sg'[x].flag = "new"
    BY <2>2, <2>3, <2>4
  <2>7. LoadInv'
    BY <1>1, <1>4, <2>3, <2>4 DEF LoadInv
  <2> QED
    BY <1>1, <1>8, <1>10, <2>5, <2>6, <2>7, ExactStep
<1> QED
  BY <1>1, <1>7, <1>9, <1>10 DEF Inside

\* The segment is loaded.
LEMMA DoneStep ==
    ASSUME TypeOK, Struct, Inside, smp_load_seg_done
    PROVE  TypeOK' /\ Struct' /\ Inside'
<1>1. /\ proc = "up" /\ thr.pc = "load" /\ thr' = Thread("next", thr.sid, 0)
      /\ UNCHANGED <<proc, starts, nsid, segs, cur, free_offset, cell, seg1, seg2, save,
                     ost, home, body, torn, abut>>
  BY DEF smp_load_seg_done, bounds, disk, objVars
<1>2. PICK t \in Pointee(thr.sid) :
        /\ sg' = [s \in Sids |-> IF s = t THEN [sg[s] EXCEPT !.flag = "loaded"] ELSE sg[s]]
        /\ skew' = (skew \/ t \notin {0, thr.sid})
  BY DEF smp_load_seg_done
<1>3. Base /\ thr.sid \in 0..MaxSid /\ thr.sid <= nsid /\ skew \in BOOLEAN /\ skew' \in BOOLEAN
  BY <1>2, ThrFacts DEF Inside
<1>4. ThreadInv' /\ thr'.pc = "next" /\ thr'.sid = thr.sid
  <2>1. "next" \in {"next", "load", "count", "store", "check", "save"} /\ 0 \in Int
    OBVIOUS
  <2> QED
    BY <1>1, <1>3, <2>1, ThrNext
<1>5. PICK f \in Flags : f = "loaded"
  BY DEF Flags
<1>6. Tally(t, sg[t].nalloc, sg[t].nobj, f)
  BY <1>2, <1>5, TallyFlag
<1>7. TypeOK' /\ Struct'
  BY <1>1, <1>6, ObjsSame, TallyStruct
<1>8. \A p \in Objs : SameObj(p)
  BY <1>1, ObjsSame
<1>9. Base'
  BY <1>1, <1>3, <1>4, <1>6, <1>8, BaseStep
<1>10. ASSUME Exact, ~skew' PROVE Exact'
  <2>1. \A x : Members(x)' = Members(x) /\ Pending(x)' = Pending(x)
    BY <1>1, <1>4, ObjsSame DEF Pending, Uncounted
  <2>2. t \in Sids => t = thr.sid /\ sg[t].flag = "loading"
    <3>1. t \in Sids => t # 0
      BY Sizes DEF Sids
    <3>2. t # 0 => Contains(segs, t)
      BY PointsTo
    <3> QED
      BY <1>1, <1>2, <1>10, <3>1, <3>2 DEF Exact, LoadInv
  <2>3. \A x \in Sids : x # t => sg'[x] = sg[x]
    BY <1>6 DEF Tally
  <2>4. t \in Sids => sg'[t].nobj = sg[t].nobj /\ sg'[t].flag = "loaded"
    BY <1>5, <1>6 DEF Tally
  <2>5. ASSUME NEW x \in Sids, Contains(segs, x) PROVE Counted(x)'
    <3>1. Counted(x)
      BY <1>10, <2>5 DEF Exact, CountInv
    <3>2. CASE x = t
      BY <2>1, <2>2, <2>4, <3>1, <3>2 DEF Counted
    <3>3. CASE x # t
      BY <2>1, <2>3, <3>1, <3>3, SameCounted
    <3> QED
      BY <3>2, <3>3
  <2>6. \A x \in Sids : sg[x].flag = "new" => sg'[x].flag = "new"
    BY <2>2, <2>3
  <2>7. LoadInv'
    BY <1>4 DEF LoadInv
  <2> QED
    BY <1>1, <1>8, <1>10, <2>5, <2>6, <2>7, ExactStep
<1> QED
  BY <1>2, <1>7, <1>9, <1>10 DEF Inside

\* Space for an object.
LEMMA AllocxStep ==
    ASSUME TypeOK, Struct, Inside, NEW o \in Objs, smp_allocx(o)
    PROVE  TypeOK' /\ Struct' /\ Inside'
<1>1. /\ Unlocked /\ cur # 0 /\ sg[cur].nalloc < Aim /\ ost[o] = "none"
      /\ ost' = [ost EXCEPT ![o] = "busy"]
      /\ home' = [home EXCEPT ![o] = cur]
      /\ body' = [body EXCEPT ![o] = 0]
      /\ sg' = [sg EXCEPT ![cur].nalloc = @ + 1]
      /\ UNCHANGED <<proc, starts, nsid, segs, cur, free_offset, cell, seg1, seg2, save,
                     thr, torn, abut, skew>>
  BY DEF smp_allocx, bounds, disk
<1>2. Contains(segs, cur) /\ cur \in Sids /\ cur \in Int /\ cur <= nsid /\ nsid \in Nat /\ proc = "up"
  BY <1>1, CurIn, TypeParts DEF Unlocked
<1>3. Tally(cur, sg[cur].nalloc + 1, sg[cur].nobj, sg[cur].flag) /\ sg[cur].nalloc \in Nat
  BY <1>1, TallyAlloc
<1>4. PICK a \in Nat : a = sg[cur].nalloc + 1 /\ a # 0
  BY <1>3
<1>5. Tally(cur, a, sg[cur].nobj, sg[cur].flag)
  BY <1>3, <1>4
<1>6. /\ ost \in [Objs -> ObjStates] /\ "busy" \in ObjStates
      /\ home \in [Objs -> 0..MaxSid] /\ body \in [Objs -> 0..MaxSid]
      /\ cur \in 0..MaxSid /\ 0 \in 0..MaxSid
  BY Sizes DEF TypeOK, ObjStates
<1>7. /\ ost' \in [Objs -> ObjStates]
      /\ home' \in [Objs -> 0..MaxSid] /\ body' \in [Objs -> 0..MaxSid]
  BY <1>1, <1>6
<1>8. ost'[o] = "busy" /\ home'[o] = cur /\ body'[o] = 0 /\ OnlyObj(o)
  BY <1>1, <1>6 DEF OnlyObj, SameObj
<1>9. TypeOK' /\ Struct'
  BY <1>1, <1>5, <1>7, TallyStruct
<1>10. Base /\ ThreadInv'
  BY <1>1 DEF Inside, Base, ThreadInv
<1>11. sg'[cur].nalloc = a /\ sg'[cur].nobj = sg[cur].nobj /\ sg'[cur].flag = sg[cur].flag
       /\ \A x \in Sids : x # cur => sg'[x] = sg[x]
  BY <1>2, <1>5 DEF Tally
<1>12. Base'
  <2>1. NewBase(o)
    BY <1>1, <1>2, <1>4, <1>8, <1>11 DEF NewBase, Placed, Bodied
  <2>2. \A p \in Objs : SameObj(p) \/ NewBase(p)
    BY <1>8, <2>1 DEF OnlyObj
  <2> QED
    BY <1>1, <1>4, <1>5, <1>10, <2>2, BaseStep
<1>13. ASSUME Exact PROVE Exact'
  <2>1. \A x : Members(x)' = Members(x) /\ Pending(x)' = Pending(x)
    BY <1>1, <1>8 DEF Members, OnlyObj, SameObj, Used, Pending, Uncounted
  <2>2. ASSUME NEW x \in Sids PROVE sg'[x].nobj = sg[x].nobj /\ sg'[x].flag = sg[x].flag
    BY <1>11
  <2>3. \A x \in Sids : Contains(segs, x) => Counted(x)'
    BY <1>13, <2>1, <2>2, SameCounted DEF Exact, CountInv
  <2>4. LoadInv'
    BY <1>1, <1>13, <2>2, SegsOld DEF Exact, LoadInv
  <2>5. sg'[cur].flag = "new"
    BY <1>1, <1>11, <1>13 DEF Exact, CurFlagInv
  <2>6. \A p \in Objs : SameObj(p) \/ NewExact(p)
    <3>1. NewExact(o)
      BY <1>8, <2>5 DEF NewExact, Homed, Served, Used
    <3> QED
      BY <1>8, <3>1 DEF OnlyObj
  <2> QED
    BY <1>1, <1>13, <2>2, <2>3, <2>4, <2>6, ExactStep
<1> QED
  BY <1>1, <1>9, <1>12, <1>13 DEF Inside

\* The object is counted, in its segment or in what has become of it.
LEMMA AllocobjStep ==
    ASSUME TypeOK, Struct, Inside, NEW o \in Objs, smp_allocobj(o)
    PROVE  TypeOK' /\ Struct' /\ Inside'
<1>1. PICK v \in {"lost", "live"} : ost' = [ost EXCEPT ![o] = v]
  BY DEF smp_allocobj
<1>2. PICK t \in Pointee(home[o]) : sg' = WithNobj(t, Nobj(t) + 1)
  BY DEF smp_allocobj
<1>3. /\ proc = "up" /\ ost[o] = "busy" /\ skew' = (skew \/ ~Contains(segs, home[o]))
      /\ UNCHANGED <<proc, starts, nsid, segs, cur, free_offset, cell, seg1, seg2, save,
                     home, body, thr, torn, abut>>
  BY DEF smp_allocobj, bounds, disk, Unlocked
<1>4. PICK n \in Int : n = Nobj(t) + 1
  BY PointsTo
<1>5. Tally(t, sg[t].nalloc, n, sg[t].flag)
  BY <1>2, <1>4, TallyNobj
<1>6. /\ ost \in [Objs -> ObjStates] /\ v \in ObjStates /\ v \in Used
      /\ home \in [Objs -> 0..MaxSid] /\ body \in [Objs -> 0..MaxSid]
  BY DEF TypeOK, ObjStates, Used
<1>7. /\ ost' \in [Objs -> ObjStates]
      /\ home' \in [Objs -> 0..MaxSid] /\ body' \in [Objs -> 0..MaxSid]
  BY <1>1, <1>3, <1>6
<1>8. ost'[o] = v /\ home'[o] = home[o] /\ body'[o] = body[o] /\ OnlyObj(o)
  BY <1>1, <1>3, <1>6 DEF OnlyObj, SameObj
<1>9. TypeOK' /\ Struct'
  BY <1>3, <1>5, <1>7, TallyStruct
<1>10. Base /\ ThreadInv' /\ Placed(o) /\ body[o] = 0
  BY <1>3, ThrFacts DEF Inside, Base, ThreadInv, PlaceInv, Placed
<1>11. \A x \in Sids : sg'[x].nalloc = sg[x].nalloc /\ sg'[x].flag = sg[x].flag
  BY <1>5 DEF Tally
<1>12. Base'
  <2>1. cur # 0 /\ sg'[cur].nalloc = 0 => home[o] # cur /\ body[o] # cur
    BY <1>10, <1>11, TypeParts DEF Base, CurNewInv
  <2>2. NewBase(o)
    BY <1>3, <1>6, <1>8, <1>10, <2>1 DEF NewBase, Placed, Bodied, Used
  <2>3. \A p \in Objs : SameObj(p) \/ NewBase(p)
    BY <1>8, <2>2 DEF OnlyObj
  <2> QED
    BY <1>3, <1>5, <1>10, <2>3, BaseStep
<1>13. ASSUME Exact, ~skew' PROVE Exact'
  <2>1. Contains(segs, home[o])
    BY <1>3, <1>13
  <2>2. PICK s \in Sids : s = home[o] /\ t = s /\ sg[s].flag = "new" /\ Contains(segs, s)
    BY <1>3, <1>13, <2>1, PointsTo, SegsOld DEF Exact, HomeInv, Homed
  <2>3. n = sg[s].nobj + 1
    <3>1. s # 0
      BY Sizes DEF Sids
    <3> QED
      BY <1>4, <2>2, <3>1 DEF Nobj
  <2>4. sg'[s].nobj = n /\ \A x \in Sids : x # s => sg'[x] = sg[x]
    BY <1>5, <2>2 DEF Tally
  <2>5. o \notin Members(s) /\ Members(s)' = Members(s) \cup {o}
    BY <1>3, <1>6, <1>8, <2>2 DEF Members, Used, OnlyObj, SameObj
  <2>6. Cardinality(Members(s)') = Cardinality(Members(s)) + 1
    BY <2>5, MembersFinite, FS_AddElement
  <2>7. \A x : Pending(x)' = Pending(x)
    BY <1>3 DEF Pending, Uncounted
  <2>8. ASSUME NEW x \in Sids, Contains(segs, x) PROVE Counted(x)'
    <3>1. Counted(x)
      BY <1>13, <2>8 DEF Exact, CountInv
    <3>2. CASE x = s
      <4>1. sg[s].nobj + Pending(s) = Cardinality(Members(s))
        BY <2>2, <3>1, <3>2 DEF Counted
      <4>2. sg[s].nobj \in Int /\ Pending(s) \in Int
        BY TalliedForms DEF Pending
      <4>3. n + Pending(s) = Cardinality(Members(s)')
        BY <2>3, <2>6, <4>1, <4>2
      <4>4. sg'[s].flag = "new"
        BY <1>11, <2>2
      <4> QED
        BY <2>4, <2>7, <3>2, <4>3, <4>4 DEF Counted
    <3>3. CASE x # s
      <4>1. Members(x)' = Members(x)
        BY <1>8, <2>2, <3>3, OtherMembers
      <4> QED
        BY <2>4, <2>7, <3>1, <3>3, <4>1, SameCounted
    <3> QED
      BY <3>2, <3>3
  <2>9. LoadInv'
    <3> SUFFICES ASSUME thr.pc \in {"load", "count", "store"} PROVE LoadInv'
      BY <1>3 DEF LoadInv
    <3>1. Contains(segs, thr.sid) => thr.sid \in Sids /\ thr.sid # s
      BY <1>13, <2>2, SegsOld DEF Exact, LoadInv
    <3>2. Contains(segs, thr.sid) => sg'[thr.sid] = sg[thr.sid]
      BY <2>4, <3>1
    <3> QED
      BY <1>3, <1>13, <3>2 DEF Exact, LoadInv
  <2>10. \A p \in Objs : SameObj(p) \/ NewExact(p)
    <3>1. NewExact(o)
      BY <1>3, <1>6, <1>8, <1>10, <2>1 DEF NewExact, Homed, Served, Used
    <3> QED
      BY <1>8, <3>1 DEF OnlyObj
  <2> QED
    BY <1>3, <1>11, <1>13, <2>8, <2>9, <2>10, ExactStep
<1> QED
  BY <1>3, <1>9, <1>12, <1>13 DEF Inside

\* Space for a body, in a segment that is not older than the object's.
LEMMA AllocStep ==
    ASSUME TypeOK, Struct, Inside, NEW o \in Objs, smp_alloc(o)
    PROVE  TypeOK' /\ Struct' /\ Inside'
<1>1. /\ Unlocked /\ cur # 0 /\ sg[cur].nalloc < Aim /\ ost[o] \in {"live", "lost"}
      /\ body' = [body EXCEPT ![o] = cur]
      /\ sg' = [sg EXCEPT ![cur].nalloc = @ + 1]
      /\ UNCHANGED <<proc, starts, nsid, segs, cur, free_offset, cell, seg1, seg2, save,
                     ost, home, thr, torn, abut, skew>>
  BY DEF smp_alloc, bounds, disk
<1>2. Contains(segs, cur) /\ cur \in Sids /\ cur \in Int /\ cur <= nsid /\ nsid \in Nat /\ proc = "up"
  BY <1>1, CurIn, TypeParts DEF Unlocked
<1>3. Tally(cur, sg[cur].nalloc + 1, sg[cur].nobj, sg[cur].flag) /\ sg[cur].nalloc \in Nat
  BY <1>1, TallyAlloc
<1>4. PICK a \in Nat : a = sg[cur].nalloc + 1 /\ a # 0
  BY <1>3
<1>5. Tally(cur, a, sg[cur].nobj, sg[cur].flag)
  BY <1>3, <1>4
<1>6. /\ ost \in [Objs -> ObjStates] /\ home \in [Objs -> 0..MaxSid]
      /\ body \in [Objs -> 0..MaxSid] /\ cur \in 0..MaxSid
  BY DEF TypeOK
<1>7. /\ ost' \in [Objs -> ObjStates]
      /\ home' \in [Objs -> 0..MaxSid] /\ body' \in [Objs -> 0..MaxSid]
  BY <1>1, <1>6
<1>8. ost'[o] = ost[o] /\ home'[o] = home[o] /\ body'[o] = cur /\ OnlyObj(o)
  BY <1>1, <1>6 DEF OnlyObj, SameObj
<1>9. TypeOK' /\ Struct'
  BY <1>1, <1>5, <1>7, TallyStruct
<1>10. Base /\ ThreadInv' /\ Placed(o) /\ home[o] <= cur
  BY <1>1, <1>2 DEF Inside, Base, ThreadInv, PlaceInv, Placed, CurNewInv
<1>11. sg'[cur].nalloc = a /\ sg'[cur].nobj = sg[cur].nobj /\ sg'[cur].flag = sg[cur].flag
       /\ \A x \in Sids : x # cur => sg'[x] = sg[x]
  BY <1>2, <1>5 DEF Tally
<1>12. Base'
  <2>1. NewBase(o)
    BY <1>1, <1>2, <1>4, <1>8, <1>10, <1>11 DEF NewBase, Placed, Bodied
  <2>2. \A p \in Objs : SameObj(p) \/ NewBase(p)
    BY <1>8, <2>1 DEF OnlyObj
  <2> QED
    BY <1>1, <1>4, <1>5, <1>10, <2>2, BaseStep
<1>13. ASSUME Exact PROVE Exact'
  <2>1. \A x : Members(x)' = Members(x) /\ Pending(x)' = Pending(x)
    BY <1>1 DEF Members, Pending, Uncounted
  <2>2. ASSUME NEW x \in Sids PROVE sg'[x].nobj = sg[x].nobj /\ sg'[x].flag = sg[x].flag
    BY <1>11
  <2>3. \A x \in Sids : Contains(segs, x) => Counted(x)'
    BY <1>13, <2>1, <2>2, SameCounted DEF Exact, CountInv
  <2>4. LoadInv'
    BY <1>1, <1>13, <2>2, SegsOld DEF Exact, LoadInv
  <2>5. Homed(o)
    BY <1>13 DEF Exact, HomeInv
  <2>6. \A p \in Objs : SameObj(p) \/ NewExact(p)
    <3>1. NewExact(o)
      BY <1>1, <1>2, <1>8, <2>5 DEF NewExact, Homed, Served, Used
    <3> QED
      BY <1>8, <3>1 DEF OnlyObj
  <2> QED
    BY <1>1, <1>13, <2>2, <2>3, <2>4, <2>6, ExactStep
<1> QED
  BY <1>1, <1>9, <1>12, <1>13 DEF Inside

\* A segment that may vouch for a body is not older than the headers: an older one
\* that is still in the list does not lie where a newer one lies.
LEMMA VouchNewer ==
    ASSUME TypeOK, Struct, ~abut, torn # "stale", NEW b \in Sids, b <= nsid,
           NEW s \in smp_loaded_st(b)
    PROVE  b <= s
<1>1. s \in ToSet(segs) /\ (s = b \/ Area(s) \cap Area(b) # {})
  BY DEF smp_loaded_st
<1>2. PICK i \in 1..Len(segs) : segs[i] = s
  <2>1. DOMAIN segs = 1..Len(segs)
    BY TypeParts
  <2> QED
    BY <1>1, <2>1 DEF ToSet
<1>3. /\ Len(Now) = Len(segs) /\ s \in Sids /\ Now[i].sid = s /\ Now[i].length = sg[s].length
      /\ Offs[s] = sg[s].offset /\ Offs[b] = sg[b].offset
  BY <1>2, NowFacts
<1>4. s \in Int /\ b \in Int
  BY <1>3, Sizes DEF Sids
<1> SUFFICES ASSUME s < b PROVE FALSE
  BY <1>4
<1>5. Safe(Now, Offs, nsid)
  BY DEF Struct, GoodInv, Good
<1>6. \/ Offs[Now[i].sid] + Now[i].length <= Offs[b]
      \/ Offs[b] + Aim <= Offs[Now[i].sid]
  BY <1>3, <1>5 DEF Safe
<1>7. \/ sg[s].offset + sg[s].length <= sg[b].offset
      \/ sg[b].offset + Aim <= sg[s].offset
  BY <1>3, <1>6
<1>11. Area(s) \cap Area(b) # {}
  BY <1>1, <1>4
<1>8. PICK x : x \in Area(s) /\ x \in Area(b)
  BY <1>11
<1>10. /\ sg[s].offset \in Int /\ sg[s].length \in Int /\ sg[b].offset \in Int
       /\ sg[b].length \in Int /\ sg[b].length <= Aim /\ Aim \in Int
  <2>1. PICK g \in SegRecs, h \in SegRecs : g = sg[s] /\ h = sg[b]
    BY <1>3, TypeParts
  <2>2. g.offset \in 1..(End - Aim) /\ g.length \in 1..Aim /\ h.offset \in 1..(End - Aim)
        /\ h.length \in 1..Aim
    BY DEF SegRecs
  <2> QED
    BY <2>1, <2>2, Sizes
<1>12. PICK p \in Int, l \in Int, q \in Int, k \in Int :
          p = sg[s].offset /\ l = sg[s].length /\ q = sg[b].offset /\ k = sg[b].length
  BY <1>10
<1>14. Area(s) = p..((p + l) - 1) /\ Area(b) = q..((q + k) - 1)
  <2>1. /\ Area(s) = sg[s].offset .. ((sg[s].offset + sg[s].length) - 1)
        /\ Area(b) = sg[b].offset .. ((sg[b].offset + sg[b].length) - 1)
    BY Zenon DEF Area, smp_segend
  <2> QED
    BY <1>12, <2>1, Zenon
<1>9. x \in p..((p + l) - 1) /\ x \in q..((q + k) - 1)
  BY <1>8, <1>14
<1>13. (p + l <= q \/ q + Aim <= p) /\ k <= Aim
  BY <1>7, <1>10, <1>12
<1> QED
  BY <1>9, <1>10, <1>13

\* An object found on disk is good, or is to be expired.
LEMMA FixedStep ==
    ASSUME TypeOK, Struct, Inside, NEW o \in Objs, smp_oc_getobj(o)
    PROVE  TypeOK' /\ Struct' /\ Inside'
<1>1. /\ proc = "up" /\ ost[o] = "vampire"
      /\ UNCHANGED <<proc, starts, nsid, segs, cur, free_offset, sg, cell, seg1, seg2, save,
                     home, thr, torn, abut, skew>>
  BY DEF smp_oc_getobj, bounds, memVars, disk, Unlocked
<1>2. /\ ost \in [Objs -> ObjStates] /\ "live" \in ObjStates /\ "bad" \in ObjStates
      /\ home \in [Objs -> 0..MaxSid] /\ body \in [Objs -> 0..MaxSid] /\ 0 \in 0..MaxSid
  BY Sizes DEF TypeOK, ObjStates
<1>3. Base /\ Placed(o) /\ home[o] \in Int /\ body[o] \in Int /\ (body[o] # 0 => body[o] \in Sids)
      /\ (~abut /\ torn # "stale" => Bodied(o)) /\ ThreadInv'
  BY <1>1, ObjFacts DEF Inside, Base, PlaceInv, BodyInv, ThreadInv
<1>4. PICK v \in {"live", "bad"}, b \in 0..MaxSid :
        /\ ost' = [ost EXCEPT ![o] = v] /\ body' = [body EXCEPT ![o] = b]
        /\ b = body[o] \/ (body[o] # 0 /\ b \in smp_loaded_st(body[o]))
        /\ v = "live" => b = 0 \/ b \in smp_loaded_st(body[o])
  <2>1. CASE /\ ost' = [ost EXCEPT ![o] = "live"]
             /\ \/ body[o] = 0 /\ UNCHANGED body
                \/ body[o] # 0 /\ \E s \in smp_loaded_st(body[o]) : body' = [body EXCEPT ![o] = s]
    <3>1. CASE body[o] = 0 /\ UNCHANGED body
      <4>1. body' = [body EXCEPT ![o] = 0]
        BY <1>2, <3>1
      <4> QED
        BY <1>2, <2>1, <3>1, <4>1
    <3>2. CASE body[o] # 0 /\ \E s \in smp_loaded_st(body[o]) : body' = [body EXCEPT ![o] = s]
      <4>1. PICK s \in smp_loaded_st(body[o]) : body' = [body EXCEPT ![o] = s]
        BY <3>2
      <4>2. s \in 0..MaxSid
        <5>1. s \in ToSet(segs) /\ segs \in Seq(Sids)
          BY TypeParts DEF smp_loaded_st
        <5>2. PICK i \in 1..Len(segs) : segs[i] = s
          BY <5>1 DEF ToSet
        <5> QED
          BY <5>1, <5>2, Sizes DEF Sids
      <4> QED
        BY <2>1, <3>2, <4>1, <4>2
    <3> QED
      BY <2>1, <3>1, <3>2
  <2>2. CASE /\ ost' = [ost EXCEPT ![o] = "bad"]
             /\ UNCHANGED body
    <3>1. body' = [body EXCEPT ![o] = body[o]] /\ body[o] \in 0..MaxSid
      BY <1>2, <2>2
    <3> QED
      BY <2>2, <3>1
  <2> QED
    BY <2>1, <2>2 DEF smp_oc_getobj
<1>5. /\ ost' \in [Objs -> ObjStates]
      /\ home' \in [Objs -> 0..MaxSid] /\ body' \in [Objs -> 0..MaxSid]
  BY <1>1, <1>2, <1>4
<1>6. ost'[o] = v /\ home'[o] = home[o] /\ body'[o] = b /\ OnlyObj(o) /\ v \in Used
  BY <1>1, <1>2, <1>4 DEF OnlyObj, SameObj, Used
<1>7. TypeOK' /\ Struct'
  BY <1>1, <1>5, TallyNone, TallyStruct
<1>8. b # body[o] => /\ body[o] \in Sids /\ body[o] <= nsid /\ b \in smp_loaded_st(body[o])
  BY <1>3, <1>4 DEF Placed
<1>9. b \in smp_loaded_st(body[o]) => Contains(segs, b) /\ b \in Sids /\ b <= nsid /\ sg[b].closed
  <2> SUFFICES ASSUME b \in smp_loaded_st(body[o])
               PROVE  Contains(segs, b) /\ b \in Sids /\ b <= nsid /\ sg[b].closed
    OBVIOUS
  <2>1. b \in ToSet(segs) /\ sg[b].closed /\ segs \in Seq(Sids)
    BY TypeParts DEF smp_loaded_st
  <2>2. Contains(segs, b)
    BY <2>1 DEF ToSet, Contains
  <2> QED
    BY <2>1, <2>2, SegsOld
<1>10. Base'
  <2>1. b <= nsid
    BY <1>3, <1>8, <1>9 DEF Placed
  <2>2. ASSUME ~abut, torn # "stale", b # 0 PROVE home[o] <= b
    <3>1. CASE b = body[o]
      BY <1>3, <2>2, <3>1 DEF Bodied
    <3>2. CASE b # body[o]
      <4>1. body[o] <= b /\ b \in Int /\ body[o] # 0
        <5>1. body[o] <= b
          BY <1>8, <2>2, <3>2, VouchNewer
        <5>2. b \in Int /\ body[o] # 0
          BY <1>8, <3>2, Sizes DEF Sids
        <5> QED
          BY <5>1, <5>2
      <4>2. home[o] <= body[o]
        BY <1>3, <2>2, <4>1 DEF Bodied
      <4> QED
        BY <1>3, <4>1, <4>2
    <3> QED
      BY <3>1, <3>2
  <2>3. cur # 0 /\ sg[cur].nalloc = 0 => home[o] # cur /\ b # cur
    BY <1>3, <1>8, <1>9 DEF Base, CurNewInv
  <2>4. NewBase(o)
    <3>1. Placed(o)'
      BY <1>1, <1>3, <1>6, <2>1 DEF Placed, Used
    <3>2. ~abut /\ torn # "stale" => Bodied(o)'
      BY <1>6, <2>2 DEF Bodied
    <3> QED
      BY <1>1, <1>6, <2>3, <3>1, <3>2 DEF NewBase
  <2>5. \A p \in Objs : SameObj(p) \/ NewBase(p)
    BY <1>6, <2>4 DEF OnlyObj
  <2> QED
    BY <1>1, <1>3, <2>5, TallyNone, BaseStep
<1>11. ASSUME Exact PROVE Exact'
  <2>1. \A x : Members(x)' = Members(x) /\ Pending(x)' = Pending(x)
    BY <1>1, <1>6 DEF Members, OnlyObj, SameObj, Used, Pending, Uncounted
  <2>2. \A x \in Sids : Contains(segs, x) => Counted(x)'
    BY <1>1, <1>11, <2>1, SameCounted DEF Exact, CountInv
  <2>3. LoadInv'
    BY <1>1, <1>11 DEF Exact, LoadInv
  <2>4. Homed(o)
    BY <1>11 DEF Exact, HomeInv
  <2>5. NewExact(o)
    <3>1. Homed(o)'
      BY <1>1, <1>6, <2>4 DEF Homed, Used
    <3>2. Served(o)'
      BY <1>1, <1>4, <1>6, <1>9 DEF Served
    <3> QED
      BY <3>1, <3>2 DEF NewExact
  <2>6. \A p \in Objs : SameObj(p) \/ NewExact(p)
    BY <1>6, <2>5 DEF OnlyObj
  <2> QED
    BY <1>1, <1>11, <2>2, <2>3, <2>6, ExactStep
<1> QED
  BY <1>1, <1>7, <1>10, <1>11 DEF Inside

\* An object goes, by smp_oc_freeobj.
LEMMA FreedStep ==
    ASSUME TypeOK, Struct, Inside, NEW o \in Objs, smp_oc_freeobj(o)
    PROVE  TypeOK' /\ Struct' /\ Inside'
<1>1. /\ proc = "up" /\ ost[o] \in {"live", "bad"} /\ Gone(o)
      /\ UNCHANGED <<proc, starts, nsid, segs, cur, free_offset, cell, seg1, seg2, save, torn, abut>>
  BY DEF smp_oc_freeobj, bounds, disk, Gone, Unlocked
<1>2. PICK t \in Checked(home[o]) :
        /\ sg' = WithNobj(t, Nobj(t) - 1)
        /\ \/ /\ UNCHANGED thr
              /\ skew' = (skew \/ t # home[o] \/ (Uncounted(t) /\ thr.pc = "store"))
           \/ /\ thr' = Thread("load", t, 0)
              /\ skew' = TRUE
  BY DEF smp_oc_freeobj
<1>3. t \in Pointee(home[o]) /\ t # 0
  BY DEF Checked
<1>4. t \in Sids /\ Contains(segs, t) /\ t <= nsid /\ t \in 0..MaxSid
  <2>1. t \in Sids /\ Contains(segs, t)
    BY <1>3, PointsTo
  <2>2. t \in 0..MaxSid
    BY <2>1, Sizes DEF Sids
  <2> QED
    BY <2>1, <2>2, SegsOld
<1>5. PICK n \in Int : n = Nobj(t) - 1
  BY <1>3, PointsTo
<1>6. Tally(t, sg[t].nalloc, n, sg[t].flag)
  BY <1>2, <1>5, TallyNobj
<1>7. /\ ost'[o] = "none" /\ home'[o] = 0 /\ body'[o] = 0 /\ OnlyObj(o)
      /\ ost' \in [Objs -> ObjStates]
      /\ home' \in [Objs -> 0..MaxSid] /\ body' \in [Objs -> 0..MaxSid]
      /\ NewBase(o) /\ NewExact(o)
  BY <1>1, GoneFacts
<1>8. TypeOK' /\ Struct'
  BY <1>1, <1>6, <1>7, TallyStruct
<1>9. Base /\ ThreadInv'
  <2>1. Base /\ skew \in BOOLEAN
    BY ThrFacts DEF Inside
  <2>2. CASE thr' = Thread("load", t, 0) /\ skew' = TRUE
    <3>1. "load" \in {"next", "load", "count", "store", "check", "save"} /\ 0 \in Int
      OBVIOUS
    <3> QED
      BY <1>1, <1>4, <2>1, <2>2, <3>1, ThrNext
  <2>3. CASE UNCHANGED thr /\ skew' \in BOOLEAN
    BY <1>1, <2>1, <2>3 DEF Base, ThreadInv
  <2> QED
    BY <1>2, <2>1, <2>2, <2>3
<1>10. Base'
  <2>1. \A p \in Objs : SameObj(p) \/ NewBase(p)
    BY <1>7 DEF OnlyObj
  <2> QED
    BY <1>1, <1>6, <1>9, <2>1, BaseStep
<1>11. ASSUME Exact, ~skew' PROVE Exact'
  <2>1. UNCHANGED thr /\ t = home[o] /\ ~(Uncounted(t) /\ thr.pc = "store")
    BY <1>2, <1>11
  <2>2. n = sg[t].nobj - 1 /\ sg[t].nobj \in Int
    BY <1>3, <1>4, <1>5, TalliedForms DEF Nobj
  <2>3. sg'[t].nobj = n /\ sg'[t].flag = sg[t].flag /\ \A x \in Sids : x # t => sg'[x] = sg[x]
    BY <1>4, <1>6 DEF Tally
  <2>4. o \in Members(t) /\ Members(t)' = Members(t) \ {o}
    BY <1>1, <1>7, <2>1 DEF Members, Used, OnlyObj, SameObj
  <2>5. Cardinality(Members(t)') = Cardinality(Members(t)) - 1
    BY <2>4, MembersFinite, FS_RemoveElement
  <2>6. \A x : Pending(x)' = Pending(x)
    BY <2>1 DEF Pending, Uncounted
  <2>7. ASSUME NEW x \in Sids, Contains(segs, x) PROVE Counted(x)'
    <3>1. Counted(x)
      BY <1>11, <2>7 DEF Exact, CountInv
    <3>2. CASE x = t
      <4>1. sg[t].flag \in {"new", "loading", "loaded"}
            /\ sg[t].nobj + Pending(t) = Cardinality(Members(t))
        BY <2>4, <3>1, <3>2 DEF Counted
      <4>2. Pending(t) \in Int /\ Cardinality(Members(t)) \in Int
        BY MembersFinite DEF Pending
      <4>3. n + Pending(t) = Cardinality(Members(t)')
        BY <2>2, <2>5, <4>1, <4>2
      <4> QED
        BY <2>3, <2>6, <3>2, <4>1, <4>3 DEF Counted
    <3>3. CASE x # t
      <4>1. Members(x)' = Members(x)
        <5>1. home[o] # x /\ home'[o] # x
          BY <1>7, <2>1, <3>3, Sizes DEF Sids
        <5> QED
          BY <1>7, <5>1, OtherMembers
      <4> QED
        BY <2>3, <2>6, <3>1, <3>3, <4>1, SameCounted
    <3> QED
      BY <3>2, <3>3
  <2>8. \A x \in Sids : sg[x].flag = "new" => sg'[x].flag = "new"
    BY <2>3
  <2>9. LoadInv'
    <3> SUFFICES ASSUME thr.pc \in {"load", "count", "store"} PROVE LoadInv'
      BY <2>1 DEF LoadInv
    <3>1. Contains(segs, thr.sid) => thr.sid \in Sids
      BY SegsOld
    <3>2. Contains(segs, thr.sid) => sg'[thr.sid].flag = sg[thr.sid].flag
      BY <2>3, <3>1
    <3>3. thr.pc = "store" => thr.sid # t
      BY <2>1 DEF Uncounted
    <3>4. thr.pc = "store" /\ Contains(segs, thr.sid) => sg'[thr.sid] = sg[thr.sid]
      BY <2>3, <3>1, <3>3
    <3> QED
      BY <1>1, <1>11, <2>1, <3>2, <3>4 DEF Exact, LoadInv
  <2>10. \A p \in Objs : SameObj(p) \/ NewExact(p)
    BY <1>7 DEF OnlyObj
  <2> QED
    BY <1>1, <1>11, <2>7, <2>8, <2>9, <2>10, ExactStep
<1>12. ~skew' => ~skew
  BY <1>2
<1> QED
  BY <1>8, <1>10, <1>11, <1>12 DEF Inside

-----------------------------------------------------------------------------
(***************************************************************************)
(* The theorems                                                            *)
(***************************************************************************)

\* The child goes down without having written more.
LEMMA DieStep ==
    ASSUME TypeOK, Struct, Inside, Die
    PROVE  TypeOK' /\ Struct' /\ Inside'
<1>1. Down /\ seg2' = seg2 /\ torn' = torn
  BY DEF Die
<1> QED
  BY <1>1, DownStruct, DownInside

\* The first states.
LEMMA SiloInit ==
    ASSUME Init
    PROVE  TypeOK /\ Struct /\ Inside
<1>1. /\ proc = "down" /\ starts = 0 /\ nsid = 0 /\ segs = <<>> /\ cur = 0 /\ free_offset = 0
      /\ sg = [s \in Sids |-> [NewSeg(1) EXCEPT !.flag = "gone"]]
      /\ cell = [c \in Cells |-> 0]
      /\ seg1 = Empty /\ seg2 = Empty /\ save = NoSave
      /\ ost = [o \in Objs |-> "none"] /\ home = [o \in Objs |-> 0] /\ body = [o \in Objs |-> 0]
      /\ thr = Thread("next", 0, 0)
      /\ torn = "no" /\ abut = FALSE /\ skew = FALSE
  BY DEF Init
<1>2. <<>> \in Seq(Sids) /\ <<>> \in Seq(DiskEntries) /\ Len(<<>>) = 0
  OBVIOUS
<1>3. Empty \in Copies /\ Empty.list = <<>> /\ Empty.sig = TRUE /\ NoSave \in Saves /\ NoSave.pc = 0
  BY <1>2, Sizes DEF Empty, Copies, NoSave, Saves
<1>4. sg \in [Sids -> SegRecs]
  <2>1. [NewSeg(1) EXCEPT !.flag = "gone"] \in SegRecs
    <3>1. PICK z \in 0..Aim, u \in Int, o \in 1..(End - Aim), l \in 1..Aim :
             z = 0 /\ u = 0 /\ o = 1 /\ l = Aim
      BY Sizes
    <3>2. NewSeg(o) = [offset |-> o, length |-> l, nalloc |-> z, nobj |-> u, closed |-> FALSE,
                       flag |-> "new"]
      BY <3>1 DEF NewSeg
    <3>3. NewSeg(o) \in SegRecs
      BY <3>2 DEF SegRecs, Flags
    <3>4. [NewSeg(o) EXCEPT !.flag = "gone"] \in SegRecs
      BY <3>3 DEF SegRecs, Flags
    <3> QED
      BY <3>1, <3>4
  <2> QED
    BY <1>1, <2>1
<1>5. TypeOK
  <2>1. 0 \in 0..MaxSid /\ 0 \in Nat
    BY Sizes
  <2> QED
    BY <1>1, <1>2, <1>3, <1>4, <2>1 DEF TypeOK, Copies, Saves, ObjStates
<1>6. Now = <<>>
  <2>1. Now \in Seq(DiskEntries) /\ Len(Now) = Len(segs)
    BY <1>5, NowFacts
  <2>2. Len(Now) = 0
    BY <1>1, <1>2, <2>1
  <2> QED
    BY <2>1, <2>2
<1>7. /\ KeptList(<<>>, Offs) = <<>> /\ Ascends(<<>>, nsid) /\ RingOf(<<>>, Offs)
      /\ Good(<<>>, Offs, cell, nsid)
  BY DEF KeptList, Ascends, RingOf, Ring, Laid, Apart, Turns, Good, Safe, Whole
<1>8. OrderInv /\ RingInv /\ GoodInv
  BY <1>1, <1>3, <1>6, <1>7 DEF OrderInv, RingInv, GoodInv
<1>9. CurInv /\ UseInv /\ SigInv
  BY <1>1, <1>3 DEF CurInv, UseInv, SigInv
<1>10. \A s : ~Contains(segs, s)
  BY <1>1, <1>2 DEF Contains
<1>11. CountInv /\ CurNewInv /\ CurFlagInv
  BY <1>1, <1>10 DEF CountInv, CurNewInv, CurFlagInv
<1>12. PlaceInv /\ BodyInv
  BY <1>1 DEF PlaceInv, Placed, BodyInv, Bodied, Used
<1>13. thr \in Threads /\ thr.pc = "next" /\ thr.sid = 0
  <2>1. PICK z \in 0..MaxSid, v \in Int : z = 0 /\ v = 0
    BY Sizes
  <2>2. Thread("next", z, v) \in Threads /\ Thread("next", z, v).pc = "next"
        /\ Thread("next", z, v).sid = z
    BY DEF Thread, Threads
  <2> QED
    BY <1>1, <2>1, <2>2
<1>14. ThreadInv /\ LoadInv
  <2>1. skew \in BOOLEAN
    BY <1>1, Zenon
  <2>2. thr.sid <= nsid
    BY <1>1, <1>13
  <2>3. ThreadInv
    BY <1>13, <2>1, <2>2 DEF ThreadInv
  <2>4. LoadInv
    BY <1>13 DEF LoadInv
  <2> QED
    BY <2>3, <2>4
<1>15. HomeInv /\ ServedInv
  <2>1. \A o \in Objs : ost[o] = "none"
    BY <1>1
  <2> QED
    BY <2>1 DEF HomeInv, Homed, ServedInv, Served, Used
<1>16. Base /\ Exact
  BY <1>11, <1>12, <1>14, <1>15 DEF Base, Exact
<1> QED
  BY <1>5, <1>8, <1>9, <1>16 DEF Struct, Inside

\* Each step of an object.
LEMMA ObjStep ==
    ASSUME TypeOK, Struct, Inside, NEW o \in Objs,
           smp_load_seg(o) \/ smp_allocx(o) \/ smp_allocobj(o) \/ smp_alloc(o)
           \/ smp_oc_getobj(o) \/ smp_oc_freeobj(o)
    PROVE  TypeOK' /\ Struct' /\ Inside'
<1>1. CASE smp_load_seg(o)
  <2>1. /\ proc = "up" /\ thr.pc = "load" /\ ost[o] = "disk" /\ home[o] = thr.sid
        /\ UNCHANGED <<proc, starts, nsid, segs, cur, free_offset, sg, cell, seg1, seg2, save,
                       torn, abut>>
    BY <1>1 DEF smp_load_seg, bounds, memVars, disk
  <2>2. CASE /\ ost' = [ost EXCEPT ![o] = "vampire"]
             /\ thr' = [thr EXCEPT !.pc = "count"]
             /\ skew' = (skew \/ ~Contains(segs, thr.sid))
             /\ UNCHANGED <<home, body>>
    BY <2>1, <2>2, InsertStep
  <2>3. CASE Gone(o) /\ UNCHANGED <<thr, skew>>
    BY <2>1, <2>3, SkipStep
  <2> QED
    BY <1>1, <2>2, <2>3 DEF smp_load_seg, Gone
<1>2. CASE smp_allocx(o)
  BY <1>2, AllocxStep
<1>3. CASE smp_allocobj(o)
  BY <1>3, AllocobjStep
<1>4. CASE smp_alloc(o)
  BY <1>4, AllocStep
<1>5. CASE smp_oc_getobj(o)
  BY <1>5, FixedStep
<1>6. CASE smp_oc_freeobj(o)
  BY <1>6, FreedStep
<1> QED
  BY <1>1, <1>2, <1>3, <1>4, <1>5, <1>6

\* The silo's thread between two segments, and while it waits.
LEMMA ThreadIdle ==
    ASSUME TypeOK, Struct, Inside, smp_thread_loaded \/ smp_thread_check
    PROVE  TypeOK' /\ Struct' /\ Inside'
<1>1. /\ proc = "up" /\ proc' = "up" /\ nsid' = nsid /\ skew' = skew
      /\ UNCHANGED <<proc, starts, nsid, segs, cur, free_offset, sg, cell, seg1, seg2, save,
                     ost, home, body, torn, abut, skew>>
  BY DEF smp_thread_loaded, smp_thread_check, Unlocked, bounds, memVars, objVars, disk
<1>2. /\ thr \in Threads /\ thr.sid \in 0..MaxSid /\ thr.val \in Int /\ thr.sid <= nsid
      /\ skew \in BOOLEAN
  BY ThrFacts DEF Inside
<1>3. PICK p \in {"next", "check"}, q \in {"check", "save"}, s \in 0..MaxSid, n \in Int :
         thr.pc = p /\ s <= nsid /\ thr' = Thread(q, s, n)
  <2>1. CASE smp_thread_loaded
    <3>1. thr.pc = "next" /\ thr' = Thread("check", 0, 0)
      BY <2>1 DEF smp_thread_loaded
    <3>2. 0 \in 0..MaxSid /\ 0 <= nsid /\ 0 \in Int
      BY Sizes, TypeParts DEF TypeOK
    <3> QED
      BY <3>1, <3>2
  <2>2. CASE smp_thread_check
    <3>1. thr.pc = "check" /\ thr' = [thr EXCEPT !.pc = "save"]
      BY <2>2 DEF smp_thread_check
    <3>2. [thr EXCEPT !.pc = "save"] = Thread("save", thr.sid, thr.val)
      BY <1>2 DEF Thread, Threads
    <3> QED
      BY <1>2, <3>1, <3>2
  <2> QED
    BY <2>1, <2>2
<1>4. q \in {"next", "load", "count", "store", "check", "save"}
  BY <1>3
<1>5. ThreadInv' /\ thr'.pc = q
  BY <1>1, <1>2, <1>3, <1>4, ThrNext
<1>6. {thr.pc, thr'.pc} \cap {"load", "count", "store"} = {}
  BY <1>3, <1>5
<1> QED
  BY <1>1, <1>5, <1>6, IdleStep

\* Each step.
LEMMA SiloNext ==
    ASSUME TypeOK, Struct, Inside, Next
    PROVE  TypeOK' /\ Struct' /\ Inside'
<1>1. CASE smp_open
  BY <1>1, OpenStruct, OpenInside
<1>2. CASE Crash
  BY <1>2, DieStep DEF Crash
<1>3. CASE smp_close
  <2>1. CASE Unlocked /\ CloseSeg("stop")
    <3>1. "stop" \in {"new", "stop"}
      OBVIOUS
    <3> QED
      BY <2>1, <3>1, CloseStruct, CloseInside
  <2>2. CASE Die
    BY <2>2, DieStep
  <2> QED
    BY <1>3, <2>1, <2>2 DEF smp_close
<1>4. CASE smp_save_seg
  <2>1. UNCHANGED <<proc, nsid, segs, cur, sg, ost, home, body, thr, abut, skew>> /\ torn' = torn
    BY <1>4 DEF smp_save_seg, bounds, memVars, objVars
  <2> QED
    BY <1>4, <2>1, SaveSegStruct, InsideSame
<1>5. CASE smp_save_done
  BY <1>5, SaveDoneStruct, SaveDoneInside
<1>6. CASE smp_save_end
  <2>1. save.pc = 8 /\ seg2' = Signed /\ torn' = Mended /\ Down
    BY <1>6 DEF smp_save_end
  <2>2. torn' # "stale" => torn # "stale"
    BY <2>1 DEF Mended
  <2> QED
    BY <2>1, <2>2, DownStruct, DownInside
<1>7. CASE smp_load_seg_clear
  BY <1>7, ClearStep
<1>8. CASE smp_load_seg_read \/ smp_load_seg_store \/ smp_load_seg_done
  BY <1>8, ReadStep, StoreStep, DoneStep
<1>9. CASE smp_thread_loaded \/ smp_thread_check
  BY <1>9, ThreadIdle
<1>10. CASE smp_thread
  BY <1>10, ThreadStruct, ThreadInside
<1>11. CASE smp_allocx_close
  <2>1. Unlocked /\ CloseSeg("new") /\ "new" \in {"new", "stop"}
    BY <1>11 DEF smp_allocx_close
  <2> QED
    BY <2>1, CloseStruct, CloseInside
<1>12. CASE smp_allocx_empty
  <2>1. Unlocked /\ cur # 0 /\ sg[cur].nalloc = 0
    BY <1>12 DEF smp_allocx_empty
  <2>2. PICK i \in DOMAIN segs :
        /\ segs[i] = cur
        /\ \/ Die
           \/ /\ Fits(free_offset, RemoveAt(segs, i))
              /\ smp_new_seg(free_offset, RemoveAt(segs, i), [sg EXCEPT ![cur].flag = "gone"])
              /\ UNCHANGED <<proc, starts, seg1, seg2, save, objVars, thr, torn, skew>>
    BY <1>12 DEF smp_allocx_empty
  <2>3. CASE Die
    BY <2>3, DieStep
  <2>4. CASE /\ Fits(free_offset, RemoveAt(segs, i))
             /\ smp_new_seg(free_offset, RemoveAt(segs, i), [sg EXCEPT ![cur].flag = "gone"])
             /\ UNCHANGED <<proc, starts, seg1, seg2, save, objVars, thr, torn, skew>>
    <3>1. TypeOK' /\ Struct'
      BY <2>1, <2>2, <2>4, EmptyStruct
    <3>2. UNCHANGED <<proc, objVars, thr, torn, skew>>
      BY <2>4
    <3>3. Inside'
      BY <2>1, <2>2, <2>4, <3>2, EmptyInside
    <3> QED
      BY <3>1, <3>3
  <2> QED
    BY <2>2, <2>3, <2>4
<1>13. CASE \E o \in Objs : smp_load_seg(o) \/ smp_allocx(o) \/ smp_allocobj(o)
                            \/ smp_alloc(o) \/ smp_oc_getobj(o) \/ smp_oc_freeobj(o)
  BY <1>13, ObjStep
<1> QED
  BY <1>1, <1>2, <1>3, <1>4, <1>5, <1>6, <1>7, <1>8, <1>9, <1>10, <1>11, <1>12,
     <1>13 DEF Next

\* The invariant holds in every state the silo can be in: the lists are rings of
\* segments, what the next child would keep of either copy is intact and not where
\* the next segment goes; and, until the child counts an object in two threads at
\* once, in a segment that is free, or too late, each segment's count is that of its
\* objects and an object in use has its segments.
THEOREM SiloIInv == Spec => []IInv
<1>1. Init => IInv
  BY SiloInit DEF IInv, Struct, Inside
<1>2. IInv /\ [Next]_vars => IInv'
  <2> SUFFICES ASSUME IInv, [Next]_vars PROVE IInv'
    OBVIOUS
  <2>1. TypeOK /\ Struct /\ Inside
    BY DEF IInv, Struct, Inside
  <2>2. CASE Next
    <3>1. TypeOK' /\ Struct' /\ Inside'
      BY <2>1, <2>2, SiloNext
    <3> QED
      BY <3>1 DEF IInv, Struct, Inside
  <2>3. CASE UNCHANGED vars
    <3>1. UNCHANGED <<proc, starts, nsid, segs, cur, free_offset, sg, cell, seg1, seg2, save,
                      ost, home, body, thr, torn, abut, skew>>
      BY <2>3 DEF vars, bounds, memVars, objVars, disk
    <3>2. Inside'
      BY <2>1, <3>1, InsideSame
    <3>3. Struct'
      <4>1. SameShape
        BY <2>1, <3>1, TypeParts DEF SameShape
      <4> QED
        BY <2>1, <3>1, <4>1, QuietStep
    <3>4. TypeOK'
      BY <2>1, <3>1 DEF TypeOK
    <3> QED
      BY <3>2, <3>3, <3>4 DEF IInv, Struct, Inside
  <2> QED
    BY <2>2, <2>3
<1> QED
  BY <1>1, <1>2, PTL DEF Spec

\* The segments in use lie in the silo and do not overlap, for any sizes and any
\* sequence of crashes, until one is opened where the oldest one begins.
THEOREM SegmentsApart == Spec => []DisjointBefore
<1>1. ASSUME IInv PROVE DisjointBefore
  <2> SUFFICES ASSUME ~abut, NEW i \in DOMAIN segs, NEW j \in DOMAIN segs
               PROVE  /\ Area(segs[i]) \subseteq Cells
                      /\ i < j => Area(segs[i]) \cap Area(segs[j]) = {}
    BY DEF DisjointBefore, SegmentsDisjoint
  <2>1. TypeOK /\ RingOf(Now, Offs)
    BY <1>1 DEF IInv, RingInv
  <2>2. i \in 1..Len(segs) /\ j \in 1..Len(segs)
    BY <2>1, TypeParts
  <2>3. /\ Now \in Seq(DiskEntries) /\ Len(Now) = Len(segs) /\ Len(segs) \in Nat
        /\ Offs \in [Sids -> Int]
        /\ \A s \in Sids : Offs[s] = sg[s].offset
        /\ \A k \in 1..Len(segs) : /\ segs[k] \in Sids /\ Now[k].sid = segs[k]
                                   /\ Now[k].length = sg[segs[k]].length
    BY <2>1, NowFacts
  <2> DEFINE a == Begins(Now, Offs)
             b == Ends(Now, Offs)
  <2>4. ASSUME NEW k \in 1..Len(segs)
        PROVE  a[k] \in Int /\ b[k] \in Int /\ Area(segs[k]) = a[k]..(b[k] - 1)
    <3>1. a[k] = Offs[Now[k].sid] /\ b[k] = Offs[Now[k].sid] + Now[k].length
      BY <2>3 DEF Begins, Ends
    <3>2. a[k] \in Int /\ b[k] \in Int
      BY <2>3, ListBounds
    <3>3. a[k] = sg[segs[k]].offset /\ b[k] = sg[segs[k]].offset + sg[segs[k]].length
      BY <2>3, <3>1
    <3> QED
      BY <3>2, <3>3 DEF Area, smp_segend
  <2>5. Laid(Len(Now), a, b) /\ Apart(Len(Now), a, b)
    BY <2>1 DEF RingOf, Ring
  <2> HIDE DEF a, b
  <2>6. 1 <= a[i] /\ b[i] <= a[i] + Aim /\ a[i] + Aim <= End
    BY <2>2, <2>3, <2>5 DEF Laid
  <2>7. i < j => b[i] <= a[j] \/ b[j] <= a[i]
    BY <2>2, <2>3, <2>5 DEF Apart
  <2>8. /\ a[i] \in Int /\ b[i] \in Int /\ Area(segs[i]) = a[i]..(b[i] - 1)
        /\ a[j] \in Int /\ b[j] \in Int /\ Area(segs[j]) = a[j]..(b[j] - 1)
    BY <2>2, <2>4
  <2>9. a[i]..(b[i] - 1) \subseteq 1..Media
    BY <2>6, <2>8, Sizes
  <2>10. i < j => (a[i]..(b[i] - 1)) \cap (a[j]..(b[j] - 1)) = {}
    BY <2>7, <2>8
  <2> QED
    BY <2>8, <2>9, <2>10 DEF Cells
<1> QED
  BY <1>1, SiloIInv, PTL

\* Whenever the child dies the next one finds a valid copy of the segment list, and
\* every closed segment it keeps still has its cells, as long as both copies agreed
\* when this child opened the silo or it has saved the list since.
THEOREM ListsIntact == Spec => []TablesIntact
<1>1. ASSUME IInv PROVE TablesIntact
  <2> SUFFICES ASSUME torn = "no", ~abut
               PROVE  /\ Copy.sig
                      /\ \A e \in ToSet(Recovered.list) :
                            e.closed => \A c \in Off(e)..(EndOf(e) - 1) : cell[c] = e.sid
    BY DEF TablesIntact
  <2>1. TypeOK /\ Struct
    BY <1>1 DEF IInv, Struct
  <2>2. Copy.sig
    BY <2>1 DEF Copy, Struct, SigInv
  <2> DEFINE R == Recovered.list
  <2>3. R \in Seq(DiskEntries) /\ Whole(R, Offs, cell)
    <3>1. R = KeptList(Copy.list, Offs) /\ R \in Seq(DiskEntries)
      BY <2>1, RecoveredFacts
    <3>2. Good(KeptList(Copy.list, Offs), Offs, cell, nsid)
      BY <2>1, CopyFacts
    <3> QED
      BY <3>1, <3>2 DEF Good
  <2> HIDE DEF R
  <2>4. ASSUME NEW e \in ToSet(R), NEW c \in Off(e)..(EndOf(e) - 1)
        PROVE  cell[c] = e.sid
    <3>1. PICK i \in 1..Len(R) : e = R[i]
      BY <2>3 DEF ToSet
    <3>2. e \in DiskEntries
      BY <2>3, <3>1
    <3>3. e.sid \in Sids /\ e.length \in 1..Aim
      BY <3>2 DEF DiskEntries
    <3>4. /\ Offs[e.sid] = sg[e.sid].offset /\ Offs[e.sid] \in Int
          /\ 1 <= Offs[e.sid] /\ Offs[e.sid] + Aim <= End
      BY <2>1, <3>3, NowFacts, OffsetInt
    <3>5. PICK p \in Int, l \in Int : p = Offs[e.sid] /\ l = e.length /\ l <= Aim
      BY <3>3, <3>4, Sizes
    <3>6. Off(e) = p /\ EndOf(e) = p + l
      BY <3>4, <3>5 DEF Off, EndOf
    <3>7. c \in p..(p + l - 1)
      BY <3>6
    <3>9. 1 <= p /\ p + Aim <= Media + 1 /\ Aim \in Int /\ Media \in Int
      BY <3>4, <3>5, Sizes
    <3>10. c \in Int /\ p <= c /\ c < p + l
      BY <3>5, <3>7
    <3>11. l <= Aim
      BY <3>5
    <3>8. c \in Cells /\ p <= c /\ c < p + l
      BY <3>9, <3>10, <3>11 DEF Cells
    <3> QED
      BY <2>3, <3>1, <3>5, <3>8 DEF Whole
  <2> QED
    BY <2>2, <2>4 DEF R
<1> QED
  BY <1>1, SiloIInv, PTL

\* An object that may be served has the segments of its headers and of its body, as
\* what is reclaimed is older than every segment that has objects: until this child
\* counts an object in two threads at once, in a segment that is free, or too late.
THEOREM LiveKept == Spec => []BodyKept
<1>1. ASSUME IInv PROVE BodyKept
  <2> SUFFICES ASSUME ~skew, NEW o \in Objs, ost[o] = "live"
               PROVE  /\ Contains(segs, home[o])
                      /\ (body[o] # 0 /\ ~abut /\ torn # "stale") => Contains(segs, body[o])
    BY DEF BodyKept, LiveHasSegments
  <2>1. Homed(o) /\ (~abut /\ torn # "stale" => Served(o))
    BY <1>1 DEF IInv, Exact, HomeInv, ServedInv
  <2> QED
    BY <2>1 DEF Homed, Served, Used
<1> QED
  BY <1>1, SiloIInv, PTL

=============================================================================
