------------------------------- MODULE ShmLog -------------------------------
(***************************************************************************)
(* The shared memory log: a ring of words that the threads of the child    *)
(* write records into (cache_shmlog.c) and that a program of another       *)
(* process reads with no lock (lib/libvarnishapi/vsl.c).                   *)
(*                                                                         *)
(* Word 0 of the ring is a serial number, seq; the records are in the      *)
(* words 1 to Size.  A record is a header word, which has its length, and  *)
(* further words.  Space is reserved under vsl_mtx, and filled without it; *)
(* until then its first word is the end marker the record before left      *)
(* there.  Each action makes one store that the reader can tell from       *)
(* another, or one load of the reader's.                                   *)
(***************************************************************************)
EXTENDS Naturals, SequencesExt, FiniteSetsExt

CONSTANTS
    Writers,    \* threads of the child
    Size,       \* words of the ring
    Lens,       \* lengths of records in words, header included
    WlbSize,    \* words of a worker's own buffer, wle - wlb
    SeqMax,     \* the largest serial number, 2^32 - 1 in the code
    None,
    MaxRec,     \* bound: records written
    MaxLap      \* bound: times the log starts from the front

ASSUME LogAssumption ==
    /\ Size \in Nat /\ WlbSize \in 1..Size /\ Lens \subseteq 2..(WlbSize - 1)
    /\ SeqMax \in Nat \ {0} /\ MaxRec \in Nat /\ MaxLap \in Nat
    /\ None \notin Writers

VARIABLES
    seq,        \* vsl_start[0]
    ring,       \* the other words
    vsl_ptr,
    vsl_mtx,    \* who holds the lock, or None
    wlb,        \* the lengths of the records in a worker's buffer
    wr,         \* the write a thread is engaged in
    child,      \* up, down, or in VSL_Init
    rd,         \* the reader: struct vsl and what it is doing
    \* history
    nrec,       \* records reserved; they are numbered
    lap,        \* times the log has started from the front
    lapped,     \* the writers have overtaken the reader
    late,       \* they have overtaken a writer
    raced       \* they started from the front at a bad moment (see BadMoment)

logVars == <<seq, ring, vsl_ptr, vsl_mtx, wlb, wr, child>>
history == <<nrec, lap, lapped, late, raced>>
vars == <<logVars, rd, history>>

EndMarker == [k |-> "end", rec |-> 0, len |-> 0]
WrapMarker == [k |-> "wrap", rec |-> 0, len |-> 0]
Header(r, l) == [k |-> "header", rec |-> r, len |-> l]
Data(r) == [k |-> "data", rec |-> r, len |-> 0]

NoWrite == [pc |-> "none", p |-> 0, rec |-> 0, recs |-> <<>>]
Words(recs) == FoldSeq(LAMBDA l, n : l + n, 0, recs)
Area(w) == wr[w].p .. (wr[w].p + Words(wr[w].recs) - 1)
Filling == {w \in Writers : wr[w].pc \in {"fill", "header"}}

NoReader == [pc |-> "closed", ptr |-> 1, last_seq |-> 0, rec |-> 0, last |-> 0, lap |-> 0]

\* mgt_SHM_Init: any serial number, an end marker and a log never written to.
Init ==
    /\ seq \in 1..SeqMax
    /\ ring = [i \in 1..Size |-> IF i = 1 THEN EndMarker ELSE Data(0)]
    /\ vsl_ptr = 1
    /\ vsl_mtx = None
    /\ wlb = [w \in Writers |-> <<>>] /\ wr = [w \in Writers |-> NoWrite]
    /\ child = "down"
    /\ rd = NoReader
    /\ nrec = 0 /\ lap = 0 /\ lapped = FALSE /\ late = FALSE /\ raced = FALSE

-----------------------------------------------------------------------------
(***************************************************************************)
(* What history says of a store.  The reader stands at rd.ptr, or still    *)
(* looks at the record rd.rec before it; if it is one lap behind, the      *)
(* words from there on are unread, and if two, all are.                    *)
(***************************************************************************)
Standing == IF rd.pc = "use" THEN rd.rec ELSE rd.ptr

\* The words up to n are about to be overwritten, in the writers' lap.
Overtakes(n) == rd.pc # "closed" /\ rd.lap < lap /\ (rd.lap + 1 < lap \/ n >= Standing)

\* The front is about to be overwritten by the next lap.
OvertakesFront == rd.pc # "closed" /\ (rd.lap < lap \/ (Standing = 1 /\ ring[1] # EndMarker))

\* The log starts from the front while a record before is not filled, or while the reader
\* has seen an end marker, which a record has replaced since, and not yet the serial
\* number, or while it looks for the end of the log.
BadMoment(w) ==
    \/ Filling \ {w} # {}
    \/ rd.pc = "end" /\ ring[rd.ptr] # EndMarker
    \/ rd.pc = "walk"

-----------------------------------------------------------------------------
(***************************************************************************)
(* The writers.                                                            *)
(***************************************************************************)
NextSeq == IF seq = SeqMax THEN 1 ELSE seq + 1

\* The first store of vsl_wrap.
vsl_wrap_front == ring' = [ring EXCEPT ![1] = EndMarker]

\* Mutant: the serial number stays.
vsl_wrap_seq_same == UNCHANGED seq

\* The second; zero is skipped.
vsl_wrap_seq == seq' = NextSeq

\* vsl_get finds that recs do not fit before the end, and starts from the front.
vsl_get_wrap(w) ==
    /\ wr[w].pc = "get" /\ vsl_mtx = None /\ lap < MaxLap
    /\ vsl_ptr + Words(wr[w].recs) > Size
    /\ vsl_mtx' = w
    /\ vsl_wrap_front
    /\ wr' = [wr EXCEPT ![w].pc = "seq"]
    /\ lapped' = (lapped \/ OvertakesFront)
    /\ late' = (late \/ \E v \in Filling : 1 \in Area(v))
    /\ UNCHANGED <<seq, vsl_ptr, wlb, child, rd, nrec, lap, raced>>

vsl_get_seq(w) ==
    /\ wr[w].pc = "seq"
    /\ vsl_wrap_seq
    /\ wr' = [wr EXCEPT ![w].pc = "mark"]
    /\ lap' = lap + 1
    /\ raced' = (raced \/ BadMoment(w))
    /\ UNCHANGED <<ring, vsl_ptr, vsl_mtx, wlb, child, rd, nrec, lapped, late>>

vsl_get_mark(w) ==
    /\ wr[w].pc = "mark"
    /\ ring' = [ring EXCEPT ![vsl_ptr] = WrapMarker]
    /\ vsl_ptr' = 1
    /\ wr' = [wr EXCEPT ![w].pc = "reserve"]
    /\ UNCHANGED <<seq, vsl_mtx, wlb, child, rd, history>>

\* The space is reserved and the end marker put behind it.
vsl_get(w) ==
    /\ \/ wr[w].pc = "get" /\ vsl_mtx = None /\ vsl_ptr + Words(wr[w].recs) <= Size
       \/ wr[w].pc = "reserve"
    /\ LET end == vsl_ptr + Words(wr[w].recs) IN
        /\ vsl_ptr' = end
        /\ ring' = [ring EXCEPT ![end] = EndMarker]
        /\ lapped' = (lapped \/ Overtakes(end))
        /\ late' = (late \/ \E v \in Filling : Area(v) \cap vsl_ptr..end # {})
    /\ vsl_mtx' = None
    /\ wr' = [wr EXCEPT ![w].pc = "fill", ![w].p = vsl_ptr, ![w].rec = nrec + 1]
    /\ nrec' = nrec + Len(wr[w].recs)
    /\ UNCHANGED <<seq, wlb, child, rd, lap, raced>>

\* The words of the k-th record of a write, and where it begins.
Start(w, k) == wr[w].p + Words(SubSeq(wr[w].recs, 1, k - 1))
WordOf(w, i) ==
    LET k == Max({j \in DOMAIN wr[w].recs : Start(w, j) <= i})
        r == wr[w].rec + k - 1
    IN  IF i = Start(w, k) THEN Header(r, wr[w].recs[k]) ELSE Data(r)

\* Mutant: the last word is not copied.
Fill_short(w) ==
    /\ wr[w].pc = "fill"
    /\ ring' = [i \in 1..Size |-> IF i \in Area(w) \ {wr[w].p, Max(Area(w))}
                                  THEN WordOf(w, i) ELSE ring[i]]
    /\ wr' = [wr EXCEPT ![w].pc = "header"]
    /\ UNCHANGED <<seq, vsl_ptr, vsl_mtx, wlb, child, rd, history>>

\* Everything but the first word, by memcpy.
Fill(w) ==
    /\ wr[w].pc = "fill"
    /\ ring' = [i \in 1..Size |-> IF i \in Area(w) \ {wr[w].p} THEN WordOf(w, i) ELSE ring[i]]
    /\ wr' = [wr EXCEPT ![w].pc = "header"]
    /\ UNCHANGED <<seq, vsl_ptr, vsl_mtx, wlb, child, rd, history>>

\* After the barrier, the first word.
vsl_hdr(w) ==
    /\ wr[w].pc = "header"
    /\ ring' = [ring EXCEPT ![wr[w].p] = WordOf(w, wr[w].p)]
    /\ wr' = [wr EXCEPT ![w] = NoWrite]
    /\ UNCHANGED <<seq, vsl_ptr, vsl_mtx, wlb, child, rd, history>>

Begin(w, recs) ==
    /\ child = "up" /\ wr[w].pc = "none"
    /\ nrec + Len(recs) + FoldFunction(LAMBDA x, n : Len(x.recs) + n, 0,
            [v \in {v \in Writers : wr[v].pc \in {"get", "seq", "mark", "reserve"}} |-> wr[v]])
         <= MaxRec
    /\ wr' = [wr EXCEPT ![w] = [NoWrite EXCEPT !.pc = "get", !.recs = recs]]
    /\ UNCHANGED <<seq, ring, vsl_ptr, vsl_mtx, child, rd, history>>

\* VSL, VSLR: one record straight to the log.
VSL(w, l) == Begin(w, <<l>>) /\ UNCHANGED wlb

\* WSL, WSLR: a record in the worker's buffer, which is flushed if there is no room.
WSLR(w, l) ==
    /\ child = "up" /\ wr[w].pc = "none"
    /\ Words(wlb[w]) + l < WlbSize
    /\ wlb' = [wlb EXCEPT ![w] = Append(@, l)]
    /\ UNCHANGED <<seq, ring, vsl_ptr, vsl_mtx, wr, child, rd, history>>

WSL_Flush(w) ==
    /\ wlb[w] # <<>>
    /\ Begin(w, wlb[w])
    /\ wlb' = [wlb EXCEPT ![w] = <<>>]

Write(w) ==
    \/ \E l \in Lens : VSL(w, l) \/ WSLR(w, l)
    \/ WSL_Flush(w)
    \/ vsl_get_wrap(w) \/ vsl_get_seq(w) \/ vsl_get_mark(w) \/ vsl_get(w)
    \/ Fill(w) \/ vsl_hdr(w)

-----------------------------------------------------------------------------
(***************************************************************************)
(* The child dies and another one starts: VSL_Init starts the log from the *)
(* front, without a wrap marker.                                           *)
(***************************************************************************)
Crash ==
    /\ child = "up"
    /\ child' = "down"
    /\ vsl_mtx' = None
    /\ wlb' = [w \in Writers |-> <<>>] /\ wr' = [w \in Writers |-> NoWrite]
    /\ raced' = (raced \/ Filling # {})
    /\ UNCHANGED <<seq, ring, vsl_ptr, rd, nrec, lap, lapped, late>>

VSL_Init_front ==
    /\ child = "down" /\ lap < MaxLap
    /\ child' = "init"
    /\ vsl_ptr' = 1
    /\ vsl_wrap_front
    /\ lapped' = (lapped \/ OvertakesFront)
    /\ UNCHANGED <<seq, vsl_mtx, wlb, wr, rd, nrec, lap, late, raced>>

VSL_Init_seq ==
    /\ child = "init"
    /\ child' = "up"
    /\ vsl_wrap_seq
    /\ lap' = lap + 1
    /\ raced' = (raced \/ BadMoment(None))
    /\ UNCHANGED <<ring, vsl_ptr, vsl_mtx, wlb, wr, rd, nrec, lapped, late>>

-----------------------------------------------------------------------------
(***************************************************************************)
(* The reader.                                                             *)
(***************************************************************************)
readUnchanged == <<logVars, history>>

\* VSL_Open: from the front with the option -d, else from the end of the log.
VSL_Open_CallBack ==
    /\ rd.pc = "closed"
    /\ \E pc \in {"next", "walk"} :
        rd' = [NoReader EXCEPT !.pc = pc, !.last_seq = seq, !.lap = lap]
    /\ UNCHANGED readUnchanged

\* Mutant: the word for the identifier is forgotten.
VSL_NEXT_id(r) ==
    LET n == r.ptr + ring[r.ptr].len - 1 IN
    IF ring[r.ptr].k = "header" /\ n <= Size THEN [r EXCEPT !.ptr = n]
    ELSE [r EXCEPT !.pc = "astray"]

\* VSL_NEXT, of whatever is at the pointer: only a header has a length in the ring.
VSL_NEXT(r) ==
    LET n == r.ptr + ring[r.ptr].len IN
    IF ring[r.ptr].k = "header" /\ n <= Size THEN [r EXCEPT !.ptr = n]
    ELSE [r EXCEPT !.pc = "astray"]

VSL_Open_walk ==
    /\ rd.pc = "walk"
    /\ rd' = IF ring[rd.ptr] = EndMarker THEN [rd EXCEPT !.pc = "next"] ELSE VSL_NEXT(rd)
    /\ UNCHANGED readUnchanged

vsl_nextlog_wrap ==
    /\ rd.pc = "next" /\ ring[rd.ptr] = WrapMarker
    /\ rd' = [rd EXCEPT !.ptr = 1, !.lap = @ + 1]
    /\ UNCHANGED readUnchanged

vsl_nextlog_end ==
    /\ rd.pc = "next" /\ ring[rd.ptr] = EndMarker
    /\ rd' = [rd EXCEPT !.pc = "end"]
    /\ UNCHANGED readUnchanged

\* The serial number tells whether to sleep here, or return, or go to the front.
Stays == rd.ptr = 1 \/ rd.last_seq = seq

vsl_nextlog_seq ==
    /\ rd.pc = "end"
    /\ rd' = IF Stays THEN [rd EXCEPT !.pc = "next"]
             ELSE [rd EXCEPT !.pc = "next", !.ptr = 1, !.lap = lap]
    /\ UNCHANGED readUnchanged

\* A record: the caller gets a pointer into the ring.
vsl_nextlog_record ==
    /\ rd.pc = "next" /\ ring[rd.ptr].k \in {"header", "data"}
    /\ rd' = VSL_NEXT([rd EXCEPT !.pc = "use", !.rec = rd.ptr,
                                 !.last_seq = IF rd.ptr = 1 THEN seq ELSE @])
    /\ UNCHANGED readUnchanged

\* VSL_Dispatch: the handler has looked at the record.
VSL_Dispatch ==
    /\ rd.pc = "use"
    /\ rd' = [rd EXCEPT !.pc = "next", !.last = ring[rd.rec].rec]
    /\ UNCHANGED readUnchanged

Read == \/ VSL_Open_CallBack \/ VSL_Open_walk
        \/ vsl_nextlog_wrap \/ vsl_nextlog_end \/ vsl_nextlog_seq \/ vsl_nextlog_record
        \/ VSL_Dispatch

Next ==
    \/ \E w \in Writers : Write(w)
    \/ Crash \/ VSL_Init_front \/ VSL_Init_seq
    \/ Read

Spec == Init /\ [][Next]_vars

-----------------------------------------------------------------------------
(***************************************************************************)
(* Properties.                                                             *)
(***************************************************************************)
TypeOK ==
    /\ seq \in 1..SeqMax
    /\ ring \in [1..Size -> [k : {"end", "wrap", "header", "data"}, rec : 0..MaxRec, len : 0..Size]]
    /\ vsl_ptr \in 1..Size /\ vsl_mtx \in Writers \cup {None}
    /\ wlb \in [Writers -> Seq(Lens)]
    /\ child \in {"up", "down", "init"}
    /\ rd.pc \in {"closed", "walk", "next", "end", "use", "astray"} /\ rd.ptr \in 1..Size

\* The record the reader was given is all there, and is newer than the one before:
\* threads that fill their space in any order, and a child that dies at any store, do not
\* make the reader see a record in part, twice or out of order.
InOrder ==
    ~lapped /\ ~late /\ rd.pc = "use" =>
        LET r == ring[rd.rec].rec IN
        /\ r > rd.last
        /\ \A i \in (rd.rec + 1)..(rd.rec + ring[rd.rec].len - 1) : ring[i] = Data(r)

\* Nor does it miss one, or lose its way, unless the log starts from the front at a bad
\* moment.
NoneSkipped ==
    ~lapped /\ ~late /\ ~raced =>
        /\ rd.pc # "astray"
        /\ rd.pc = "use" /\ rd.last # 0 => ring[rd.rec].rec = rd.last + 1

\* A reader that sleeps is where the next record will be: at vsl_ptr, at a record not yet
\* filled, or at the front; else it would sleep for a whole lap.
CaughtUp ==
    (/\ ~lapped /\ ~late /\ child = "up" /\ vsl_mtx = None
     /\ rd.pc = "end" /\ Stays /\ ring[rd.ptr] = EndMarker)
    => rd.ptr \in {vsl_ptr} \cup {wr[w].p : w \in Filling}
=============================================================================
