-------------------------------- MODULE Silo --------------------------------
(***************************************************************************)
(* Persistent storage: the segments of a silo, the two copies of the       *)
(* segment list on disk, and what a child finds there after a crash, a     *)
(* clean stop or a "suicide" (storage_persistent.c,                        *)
(* storage_persistent_silo.c, storage_persistent_subr.c).                  *)
(*                                                                         *)
(* The silo is a shared mapping: what the child has written when it dies   *)
(* is there for the next one, whichever instruction it died at.  The space *)
(* is Media cells; a segment takes Aim cells when it is opened and as many *)
(* as it has allocations when it is closed.  A segment is named by a       *)
(* number given when it is created, so that an area and the segment that   *)
(* once was there can be told apart.                                       *)
(***************************************************************************)
EXTENDS Integers, FiniteSetsExt, SequencesExt

CONSTANTS
    Objs,       \* objects
    Media,      \* cells of the silo after SMP_SPC_STUFF
    Aim,        \* aim_segl
    Reserve,    \* free_reserve
    MaxSid,     \* bound: segments created
    MaxStart    \* bound: starts of the child

ASSUME SiloAssumption ==
    /\ Media \in Nat /\ Aim \in 1..Media
    /\ Reserve \in Aim..Media
    /\ MaxSid \in Nat /\ MaxStart \in Nat
    /\ IsFiniteSet(Objs)

Sids == 1..MaxSid
Cells == 1..Media
End == Media + 1          \* mediasize

VARIABLES
    proc,           \* the child: up, down, or dead when no start can succeed
    starts, nsid,   \* what the bounds count
    segs,           \* sc->segments
    cur,            \* sc->cur_seg, 0 for none
    free_offset,
    sg,             \* the struct smp_seg of each segment
    cell,           \* who was given each cell last, 0 for nobody
    seg1, seg2,     \* the two copies of the segment list
    save,           \* the save under way, with sc->mtx held
    ost,            \* none; busy: no smp_object yet; disk; vampire; live; bad:
                    \* expired by smp_oc_getobj; lost: its smp_object was
                    \* filled in where the index was, not where it is
    home, body,     \* the segments of the object and of its body, 0 for none
    thr,            \* the silo's thread: what it does next, the segment it has
                    \* got to, and the count it has read
    torn,           \* the copies of the list when the child opened the silo: no
                    \* (they agreed, or have been saved since), yes, or stale
                    \* (a child before also went down with them different)
    abut,           \* a segment has been opened where the oldest one begins
    skew            \* this child has changed a count in two threads at once, has
                    \* used a segment that was free, or has freed one with an
                    \* object that was not counted yet

memVars == <<segs, cur, free_offset, sg>>
objVars == <<ost, home, body>>
bounds == <<starts, nsid>>
disk == <<cell, seg1, seg2>>
vars == <<proc, bounds, memVars, disk, save, objVars, thr, torn, abut, skew>>

NoSave == [pc |-> 0, sid |-> 0, then |-> "none"]
Thread(pc, s, n) == [pc |-> pc, sid |-> s, val |-> n]
NewSeg(off) == [offset |-> off, length |-> Aim, nalloc |-> 0, nobj |-> 0,
                closed |-> FALSE, flag |-> "new"]
smp_segend(s) == sg[s].offset + sg[s].length
Area(s) == sg[s].offset .. (smp_segend(s) - 1)

\* sc->mtx is free.
Unlocked == proc = "up" /\ save.pc = 0

----------------------------------------------------------------------------
(* The segment list on disk.  A signature is first reset: the copy is then *)
(* valid and empty.  Appending to it makes it invalid until the new hash   *)
(* is in place.                                                            *)

\* What smp_save_seg writes of the segments.
SegPtrs == [i \in DOMAIN segs |-> [sid |-> segs[i], length |-> sg[segs[i]].length,
                                   closed |-> sg[segs[i]].closed]]

Invalid == [sig |-> FALSE, list |-> <<>>]
Empty == [sig |-> TRUE, list |-> <<>>]
Signed == [sig |-> TRUE, list |-> SegPtrs]

\* A mutant: empty segments are removed wherever they are.
WithoutEmpty_any(ss, c, s) ==
    SelectSeq(ss, LAMBDA x : x = c \/ s[x].nobj > 0)

\* Removing the empty segments at the front, up to the first that has
\* objects; the current one stays.
WithoutEmpty(ss, c, s) ==
    LET full == {i \in DOMAIN ss : s[ss[i]].nobj > 0}
        k == IF full = {} THEN Len(ss) + 1 ELSE Min(full)
        front == SubSeq(ss, 1, k - 1)
    IN  (IF Contains(front, c) THEN <<c>> ELSE <<>>) \o SubSeq(ss, k, Len(ss))

\* A mutant: both copies are reset before the first is written.
smp_save_seg_both ==
    /\ proc = "up" /\ save.pc \in 1..7
    /\ seg1' = IF save.pc = 4 THEN Signed ELSE IF save.pc \in 1..3 THEN Invalid ELSE seg1
    /\ seg2' = IF save.pc < 7 THEN Invalid ELSE seg2
    /\ save' = [save EXCEPT !.pc = @ + 1]
    /\ UNCHANGED <<proc, bounds, memVars, cell, objVars, thr, torn, abut, skew>>

\* smp_save_segs after that: smp_save_seg of the first copy, then of the second.
smp_save_seg ==
    /\ proc = "up" /\ save.pc \in 1..7
    /\ seg1' = CASE save.pc = 1 -> Invalid
                 [] save.pc = 2 -> Empty
                 [] save.pc = 3 -> Invalid
                 [] save.pc = 4 -> Signed
                 [] OTHER       -> seg1
    /\ seg2' = CASE save.pc = 5 -> Invalid
                 [] save.pc = 6 -> Empty
                 [] save.pc = 7 -> Invalid
                 [] OTHER       -> seg2
    /\ save' = [save EXCEPT !.pc = @ + 1]
    /\ UNCHANGED <<proc, bounds, memVars, cell, objVars, thr, torn, abut, skew>>

----------------------------------------------------------------------------
(* The end of the child, at any step.                                      *)

\* Objects whose smp_object a later start finds, in segments it may find.
OnDisk == {"disk", "vampire", "live"}
Listed(s) == \E t \in {seg1, seg2} : \E i \in DOMAIN t.list : t.list[i].sid = s

\* What was only in memory is gone; cells of segments no list names are as
\* good as never given.
Down ==
    /\ proc' = "down"
    /\ segs' = <<>> /\ cur' = 0 /\ free_offset' = 0
    /\ save' = NoSave
    /\ sg' = [s \in Sids |-> [NewSeg(sg[s].offset) EXCEPT !.length = sg[s].length,
                                                          !.flag = "gone"]]
    /\ cell' = [c \in Cells |-> IF Listed(cell[c]) THEN cell[c] ELSE 0]
    /\ ost' = [o \in Objs |-> IF ost[o] \in OnDisk THEN "disk" ELSE "none"]
    /\ home' = [o \in Objs |-> IF ost[o] \in OnDisk THEN home[o] ELSE 0]
    /\ body' = [o \in Objs |-> IF ost[o] \in OnDisk THEN body[o] ELSE 0]
    /\ thr' = Thread("next", 0, 0) /\ skew' = FALSE
    /\ UNCHANGED <<bounds, seg1, abut>>

Die == Down /\ UNCHANGED <<seg2, torn>>

Crash == proc = "up" /\ Die

----------------------------------------------------------------------------
(* smp_new_seg.  The child ends itself when the segment does not fit       *)
(* before the oldest one, and asserts that there is room left at all.      *)

Wraps(fo) == fo + Aim > End
Offset(fo) == IF Wraps(fo) THEN 1 ELSE fo
\* A mutant: the oldest segment is not looked at.
Fits_wrap(fo, ss) == fo < End

Fits(fo, ss) ==
    /\ fo < End
    /\ Wraps(fo) => ss # <<>> /\ Offset(fo) + Aim <= sg[ss[1]].offset
    /\ (ss # <<>> /\ sg[ss[1]].offset > Offset(fo))
        => Offset(fo) + Aim <= sg[ss[1]].offset

\* The new segment after the list ss; what is in memory of the others is s.
smp_new_seg(fo, ss, s) ==
    LET n == nsid + 1
        off == Offset(fo)
    IN  /\ n \in Sids
        /\ nsid' = n
        /\ segs' = Append(ss, n)
        /\ cur' = n
        /\ free_offset' = off + Aim
        /\ sg' = [s EXCEPT ![n] = NewSeg(off)]
        /\ abut' = (abut \/ (ss # <<>> /\ sg[ss[1]].offset = off))
        /\ cell' = [c \in Cells |-> IF c \in off..(off + Aim - 1) THEN n ELSE cell[c]]

----------------------------------------------------------------------------
(* smp_open_segs: segments are dropped from the front of the list, in      *)
(* memory only, until there is a free reserve.                             *)

Off(e) == sg[e.sid].offset
EndOf(e) == Off(e) + e.length

\* The first index from i on at which a loop over L stops, Len(L) at the latest.
StopAt(L, i, stops) == Min({Len(L)} \cup (stops \cap i..(Len(L) - 1)))

\* The index of the first segment kept, the free offset and the reserve found.
Kept(L) ==
    LET last == L[Len(L)]
        fo == EndOf(last)
        tail == End - fo
        between == Off(L[1]) > Off(last)
        gap(j) == Off(L[j]) - fo
        i1 == IF between
              THEN StopAt(L, 1, {j \in DOMAIN L : Off(L[j]) <= Off(last) \/ gap(j) > Reserve})
              ELSE 1
        l1 == IF ~between THEN tail
              ELSE IF i1 < Len(L) /\ Off(L[i1]) > Off(last) THEN gap(i1)
              ELSE gap(i1 - 1)
        lead(j) == Off(L[j]) - 1
        i2 == StopAt(L, i1, {j \in DOMAIN L : lead(j) > Reserve})
        l2 == IF i2 < Len(L) THEN lead(i2)
              ELSE IF i2 > i1 THEN lead(i2 - 1) ELSE l1
    IN  IF L[Len(L)] # L[1] /\ ~between /\ tail >= Reserve
        THEN [first |-> 1, free |-> fo, reserve |-> tail]
        ELSE IF l1 >= Reserve
        THEN [first |-> i1, free |-> fo, reserve |-> l1]
        ELSE [first |-> i2, free |-> 1, reserve |-> l2]

\* The copy a start goes by, and what it keeps of it.
Copy == IF seg1.sig THEN seg1 ELSE seg2
Recovered ==
    IF Copy.list = <<>> THEN [list |-> <<>>, free |-> 1, ok |-> Copy.sig]
    ELSE LET k == Kept(Copy.list)
         IN  [list |-> SubSeq(Copy.list, k.first, Len(Copy.list)),
              free |-> k.free, ok |-> Copy.sig /\ k.reserve >= Reserve]

\* A segment found on disk, with the hold that keeps it until it is loaded.
Found(e) == [sg[e.sid] EXCEPT !.length = e.length, !.closed = e.closed,
                              !.nobj = 1, !.nalloc = 0, !.flag = "mustload"]

\* smp_open in a new child: the lists, and a first segment of its own.
smp_open ==
    /\ proc = "down" /\ starts < MaxStart
    /\ starts' = starts + 1
    /\ torn' = IF torn # "no" THEN "stale"
               ELSE IF seg1 # seg2 \/ ~seg1.sig THEN "yes" ELSE "no"
    /\ LET r == Recovered
           ss == [i \in DOMAIN r.list |-> r.list[i].sid]
           s == [n \in Sids |->
                    IF Contains(ss, n)
                    THEN Found(CHOOSE e \in ToSet(r.list) : e.sid = n)
                    ELSE sg[n]]
       IN  \/ /\ ~(r.ok /\ Fits(r.free, ss))
              /\ proc' = "dead"
              /\ UNCHANGED <<nsid, memVars, cell, abut>>
           \/ /\ r.ok /\ Fits(r.free, ss)
              /\ proc' = "up"
              /\ smp_new_seg(r.free, ss, s)
    /\ ost' = [o \in Objs |-> IF Listed(home[o]) THEN ost[o] ELSE "none"]
    /\ home' = [o \in Objs |-> IF Listed(home[o]) THEN home[o] ELSE 0]
    /\ body' = [o \in Objs |-> IF Listed(home[o]) THEN body[o] ELSE 0]
    /\ UNCHANGED <<seg1, seg2, save, thr, skew>>

----------------------------------------------------------------------------
(* The silo's thread loads the segments without taking sc->mtx, and then   *)
(* looks at the first one from time to time.                               *)

\* What a pointer to a struct smp_seg points to.  The memory of one that was
\* freed may since be that of a later segment, or of none (0).
Later(s) == {t \in ToSet(segs) : t > s}
Pointee(s) == IF Contains(segs, s) THEN {s} ELSE {0} \cup Later(s)
\* The same where the magic number is checked before it is used.
Checked(s) == Pointee(s) \ {0}

Nobj(t) == IF t = 0 THEN 0 ELSE sg[t].nobj
WithNobj(t, n) ==
    [s \in Sids |-> IF s = t THEN [sg[s] EXCEPT !.nobj = n] ELSE sg[s]]

\* The thread has inserted an object in s that it has not counted yet.
Uncounted(s) == thr.sid = s /\ thr.pc \in {"count", "store"}

\* The next segment to load.  The hold is cleared before the objects are
\* counted in; a segment that was never closed keeps it for good, as does one
\* whose head is no longer its own and fails the test.
smp_load_seg_clear ==
    /\ proc = "up" /\ thr.pc = "next"
    /\ \E i \in DOMAIN segs : LET s == segs[i] IN
        /\ sg[s].flag = "mustload"
        /\ \A j \in 1..(i - 1) : sg[segs[j]].flag # "mustload"
        /\ \/ /\ sg[s].closed
              /\ sg' = [sg EXCEPT ![s].flag = "loading", ![s].nobj = 0]
              /\ thr' = Thread("load", s, 0)
           \/ /\ ~sg[s].closed \/ cell[sg[s].offset] # s
              /\ sg' = [sg EXCEPT ![s].flag = "unloaded"]
              /\ thr' = Thread("next", s, 0)
    /\ UNCHANGED <<proc, bounds, segs, cur, free_offset, disk, save, objVars,
                   torn, abut, skew>>

\* The next object of the segment: it can be found and expires from now on,
\* unless its time is over.
smp_load_seg(o) ==
    /\ proc = "up" /\ thr.pc = "load"
    /\ ost[o] = "disk" /\ home[o] = thr.sid
    /\ \/ /\ Checked(thr.sid) # {}
          /\ ost' = [ost EXCEPT ![o] = "vampire"]
          /\ thr' = [thr EXCEPT !.pc = "count"]
          /\ skew' = (skew \/ ~Contains(segs, thr.sid))
          /\ UNCHANGED <<home, body>>
       \/ /\ ost' = [ost EXCEPT ![o] = "none"]
          /\ home' = [home EXCEPT ![o] = 0]
          /\ body' = [body EXCEPT ![o] = 0]
          /\ UNCHANGED <<thr, skew>>
    /\ UNCHANGED <<proc, bounds, memVars, disk, save, torn, abut>>

\* It is counted after that, with nothing to keep other threads away between
\* the load and the store.
smp_load_seg_read ==
    /\ proc = "up" /\ thr.pc = "count"
    /\ \E t \in Pointee(thr.sid) : thr' = Thread("store", thr.sid, Nobj(t))
    /\ UNCHANGED <<proc, bounds, memVars, disk, save, objVars, torn, abut, skew>>

smp_load_seg_store ==
    /\ proc = "up" /\ thr.pc = "store"
    /\ \E t \in Pointee(thr.sid) : sg' = WithNobj(t, thr.val + 1)
    /\ thr' = Thread("load", thr.sid, 0)
    /\ UNCHANGED <<proc, bounds, segs, cur, free_offset, disk, save, objVars,
                   torn, abut, skew>>

\* No object is left.
smp_load_seg_done ==
    /\ proc = "up" /\ thr.pc = "load"
    /\ ~\E o \in Objs : ost[o] = "disk" /\ home[o] = thr.sid
    /\ \E t \in Pointee(thr.sid) :
        /\ sg' = [s \in Sids |-> IF s = t THEN [sg[s] EXCEPT !.flag = "loaded"] ELSE sg[s]]
        /\ skew' = (skew \/ t \notin {0, thr.sid})
    /\ thr' = Thread("next", thr.sid, 0)
    /\ UNCHANGED <<proc, bounds, segs, cur, free_offset, disk, save, objVars, torn, abut>>

\* The end of the list; when the segment the thread has got to is free, what
\* comes after it may be gone too.
smp_thread_loaded ==
    /\ proc = "up" /\ thr.pc = "next"
    /\ \/ \A s \in ToSet(segs) : sg[s].flag # "mustload"
       \/ thr.sid # 0 /\ ~Contains(segs, thr.sid)
    /\ thr' = Thread("check", 0, 0)
    /\ UNCHANGED <<proc, bounds, memVars, disk, save, objVars, torn, abut, skew>>

\* The first segment is seen to be empty, without the lock.
smp_thread_check ==
    /\ Unlocked /\ thr.pc = "check"
    /\ cur # 0 /\ segs # <<>> /\ sg[segs[1]].nobj = 0
    /\ thr' = [thr EXCEPT !.pc = "save"]
    /\ UNCHANGED <<proc, bounds, memVars, disk, save, objVars, torn, abut, skew>>

\* The save that follows, whatever has become of that segment.
smp_thread ==
    /\ Unlocked /\ thr.pc = "save"
    /\ segs' = WithoutEmpty(segs, cur, sg)
    /\ save' = [pc |-> 1, sid |-> 0, then |-> "none"]
    /\ thr' = [thr EXCEPT !.pc = "check"]
    /\ UNCHANGED <<proc, bounds, cur, free_offset, sg, disk, objVars, torn, abut, skew>>

----------------------------------------------------------------------------
(* Allocation.                                                             *)

\* smp_close_seg of a segment with allocations: it is compacted, its
\* signatures are written, and the list is saved.
CloseSeg(then) ==
    LET s == [sg EXCEPT ![cur].closed = TRUE, ![cur].length = sg[cur].nalloc]
    IN  /\ cur # 0 /\ sg[cur].nalloc > 0
        /\ sg' = s
        /\ segs' = WithoutEmpty(segs, 0, s)
        /\ save' = [pc |-> 1, sid |-> cur, then |-> then]
        /\ cur' = 0
        /\ skew' = (skew \/ \E x \in ToSet(segs) \ ToSet(segs') : Uncounted(x))
        /\ UNCHANGED <<proc, bounds, free_offset, disk, objVars, thr, torn, abut>>

\* smp_allocx with too little space left.
smp_allocx_close == Unlocked /\ CloseSeg("new")

\* The same when nothing has been allocated: the request is larger than a
\* segment.  The segment goes, its space stays behind the free offset.
smp_allocx_empty ==
    /\ Unlocked /\ cur # 0 /\ sg[cur].nalloc = 0
    /\ \E i \in DOMAIN segs :
        LET ss == RemoveAt(segs, i) IN
        /\ segs[i] = cur
        /\ \/ /\ ~Fits(free_offset, ss)
              /\ Die
           \/ /\ Fits(free_offset, ss)
              /\ smp_new_seg(free_offset, ss, [sg EXCEPT ![cur].flag = "gone"])
              /\ UNCHANGED <<proc, starts, seg1, seg2, save, objVars, thr, torn, skew>>

\* The clean stop: the manager closes the CLI.
smp_close ==
    \/ Unlocked /\ CloseSeg("stop")
    \/ Unlocked /\ cur # 0 /\ sg[cur].nalloc = 0 /\ Die

\* Both copies are whole again; a list out of date that was read stays read.
Mended == IF torn = "stale" THEN "stale" ELSE "no"

\* The end of a save.  The offset is read from the segment just closed, which
\* the save has freed if it was empty: the child may then go down.
smp_save_done ==
    /\ proc = "up" /\ save.pc = 8
    /\ \/ save.then = "none" /\ UNCHANGED <<proc, nsid, memVars, cell, objVars, abut>>
          /\ seg2' = Signed /\ save' = NoSave /\ torn' = Mended
       \/ /\ save.then = "new" /\ Fits(smp_segend(save.sid), segs)
          /\ smp_new_seg(smp_segend(save.sid), segs, sg)
          /\ seg2' = Signed /\ save' = NoSave /\ torn' = Mended
          /\ UNCHANGED <<proc, objVars>>
    /\ UNCHANGED <<starts, seg1, thr, skew>>

\* The same when the child ends: after a clean stop, for want of space, or
\* because the freed segment was read.
smp_save_end ==
    /\ proc = "up" /\ save.pc = 8
    /\ \/ save.then = "stop"
       \/ save.then = "new" /\ ~Fits(smp_segend(save.sid), segs)
       \/ save.then = "new" /\ ~Contains(segs, save.sid)
    /\ seg2' = Signed /\ torn' = Mended
    /\ Down

\* smp_allocx for an object: space and a harmless smp_object in the current
\* segment; the object is not counted yet.
smp_allocx(o) ==
    /\ Unlocked /\ cur # 0 /\ sg[cur].nalloc < Aim
    /\ ost[o] = "none"
    /\ ost' = [ost EXCEPT ![o] = "busy"]
    /\ home' = [home EXCEPT ![o] = cur]
    /\ body' = [body EXCEPT ![o] = 0]
    /\ sg' = [sg EXCEPT ![cur].nalloc = @ + 1]
    /\ UNCHANGED <<proc, bounds, segs, cur, free_offset, disk, save, thr, torn, abut, skew>>

\* Closing the segment has moved the smp_objects down.
Compacted(s) == sg[s].closed /\ sg[s].length < Aim

\* smp_allocobj with the lock taken again and nothing looked at: another thread
\* may have closed the segment, and moved the smp_object that is now filled in
\* where it was; or closed and freed it, as it had no objects.
smp_allocobj(o) ==
    /\ Unlocked /\ ost[o] = "busy"
    /\ ost' = [ost EXCEPT ![o] = IF Contains(segs, home[o]) /\ Compacted(home[o])
                                 THEN "lost" ELSE "live"]
    /\ \E t \in Pointee(home[o]) : sg' = WithNobj(t, Nobj(t) + 1)
    /\ skew' = (skew \/ ~Contains(segs, home[o]))
    /\ UNCHANGED <<proc, bounds, segs, cur, free_offset, disk, save, home, body,
                   thr, torn, abut>>

\* smp_alloc: storage for the object's body.
smp_alloc(o) ==
    /\ Unlocked /\ cur # 0 /\ sg[cur].nalloc < Aim
    /\ ost[o] \in {"live", "lost"} /\ body[o] = 0
    /\ body' = [body EXCEPT ![o] = cur]
    /\ sg' = [sg EXCEPT ![cur].nalloc = @ + 1]
    /\ UNCHANGED <<proc, bounds, segs, cur, free_offset, disk, save, ost, home,
                   thr, torn, abut, skew>>

----------------------------------------------------------------------------
(* Objects found on disk are checked when they are first used.             *)

\* The segments that may vouch for the place where a body was: listed, loaded
\* and covering it.  Besides the body's own segment that may be a newer one
\* given the same place; the magic number and the lengths there may be right.
smp_loaded_st(b) ==
    {s \in ToSet(segs) : /\ sg[s].closed /\ sg[s].flag = "loaded"
                         /\ (s = b \/ Area(s) \cap Area(b) # {})}

\* The fix-up: the object is good when every part of it is in a loaded
\* segment, else it is expired at once.
smp_oc_getobj(o) ==
    /\ Unlocked /\ ost[o] = "vampire"
    /\ Checked(home[o]) # {}
    /\ \/ /\ ost' = [ost EXCEPT ![o] = "live"]
          /\ \/ body[o] = 0 /\ UNCHANGED body
             \/ body[o] # 0 /\ \E s \in smp_loaded_st(body[o]) : body' = [body EXCEPT ![o] = s]
       \/ /\ body[o] # 0 /\ body[o] \notin smp_loaded_st(body[o])
          /\ ost' = [ost EXCEPT ![o] = "bad"]
          /\ UNCHANGED body
    /\ UNCHANGED <<proc, bounds, memVars, disk, save, home, thr, torn, abut, skew>>

\* The lock keeps other frees away, not the thread that loads the segment: of
\* an increment and a decrement at the same time one may be lost.
smp_oc_freeobj(o) ==
    /\ Unlocked /\ ost[o] \in {"live", "bad"}
    /\ \E t \in Checked(home[o]) :
        /\ Nobj(t) > 0
        /\ sg' = WithNobj(t, Nobj(t) - 1)
        /\ \/ /\ UNCHANGED thr
              /\ skew' = (skew \/ t # home[o] \/ (Uncounted(t) /\ thr.pc = "store"))
           \/ /\ Uncounted(t)
              /\ thr' = Thread("load", t, 0)
              /\ skew' = TRUE
    /\ ost' = [ost EXCEPT ![o] = "none"]
    /\ home' = [home EXCEPT ![o] = 0]
    /\ body' = [body EXCEPT ![o] = 0]
    /\ UNCHANGED <<proc, bounds, segs, cur, free_offset, disk, save, torn, abut>>

----------------------------------------------------------------------------
\* smp_newsilo, by the manager.
Init ==
    /\ proc = "down" /\ starts = 0 /\ nsid = 0
    /\ segs = <<>> /\ cur = 0 /\ free_offset = 0
    /\ sg = [s \in Sids |-> [NewSeg(1) EXCEPT !.flag = "gone"]]
    /\ cell = [c \in Cells |-> 0]
    /\ seg1 = Empty /\ seg2 = Empty
    /\ save = NoSave
    /\ ost = [o \in Objs |-> "none"]
    /\ home = [o \in Objs |-> 0] /\ body = [o \in Objs |-> 0]
    /\ thr = Thread("next", 0, 0)
    /\ torn = "no" /\ abut = FALSE /\ skew = FALSE

Next ==
    \/ smp_open \/ Crash \/ smp_close
    \/ smp_save_seg \/ smp_save_done \/ smp_save_end
    \/ smp_load_seg_clear \/ smp_load_seg_read \/ smp_load_seg_store \/ smp_load_seg_done
    \/ smp_thread_loaded \/ smp_thread_check \/ smp_thread
    \/ smp_allocx_close \/ smp_allocx_empty
    \/ \E o \in Objs : smp_load_seg(o) \/ smp_allocx(o) \/ smp_allocobj(o)
                       \/ smp_alloc(o) \/ smp_oc_getobj(o) \/ smp_oc_freeobj(o)

Spec == Init /\ [][Next]_vars

----------------------------------------------------------------------------
\* Whenever the child dies, the next start finds a valid copy of the segment
\* list, and no cell of a closed segment it keeps has been given to another
\* segment: provided both copies agreed when this child opened the silo, or it
\* has saved the list since, and no child went down twice without a save.
TablesIntact ==
    torn = "no" /\ ~abut =>
        /\ Copy.sig
        /\ Recovered.ok => \A e \in ToSet(Recovered.list) :
               e.closed => \A c \in Off(e)..(EndOf(e) - 1) : cell[c] = e.sid

\* The segments in use lie in the silo and do not overlap, as smp_open_segs
\* asserts of the list it reads.  By itself it does not hold: smp_new_seg looks
\* at the oldest segment with >, not with >=.
SegmentsDisjoint ==
    \A i, j \in DOMAIN segs :
        /\ Area(segs[i]) \subseteq Cells
        /\ i < j => Area(segs[i]) \cap Area(segs[j]) = {}

\* That holds, also when the space is used again from its beginning, until a
\* segment is opened exactly where the oldest one begins.
DisjointBefore == ~abut => SegmentsDisjoint

\* An object that may be served has the segments of its headers and of its
\* body.
LiveHasSegments ==
    \A o \in Objs : (proc = "up" /\ ost[o] = "live")
        => /\ Contains(segs, home[o])
           /\ (body[o] # 0 /\ ~abut /\ torn # "stale") => Contains(segs, body[o])

\* That holds, as a segment is never reclaimed while an older one has objects
\* and the body is never older than the headers, until this child counts an
\* object in two threads at once, in a segment that is free, or too late
\* (unless, for the body, it was found in a segment that lies over another, or
\* that a list out of date has brought back).  By itself it does not hold: see
\* smp_allocobj, smp_load_seg_store and smp_oc_freeobj.  (storage_persistent.c:
\* "we track the objects which own the storage and when there are no more
\* objects in in the first segment, it can be reclaimed".)
BodyKept == ~skew => LiveHasSegments

\* Does not hold: a crash during the save of one copy, and another crash
\* during the next save, leave no valid copy.  (storage_persistent_silo.c: "we
\* will always have at least one valid copy on in the silo".)
OneValidCopy == seg1.sig \/ seg2.sig

\* Does not hold: of a list with one segment near the end nothing is dropped,
\* and no reserve is found.  (smp_open_segs: assert (l >= sc->free_reserve).)
ReserveFound ==
    (proc = "down" /\ Copy.sig /\ Copy.list # <<>>)
        => Kept(Copy.list).reserve >= Reserve
=============================================================================
