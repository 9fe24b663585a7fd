------------------------------ MODULE ObjCache ------------------------------
(***************************************************************************)
(* The object cache of the varnishd child: objheads, objcores and their    *)
(* reference counts (cache_hash.c), driven by the session state engine     *)
(* (cache_center.c), the expiry thread and LRU nuking (cache_expire.c),    *)
(* purges, and the waiting lists on which sessions are parked while an     *)
(* object is being fetched.                                                *)
(*                                                                         *)
(* One action is one critical section under oh->mtx (or under the LRU and  *)
(* EXP locks), so everything the code does between two locks interleaves.  *)
(* A session stands for the sess and the worker thread that drives it: it  *)
(* has a worker whenever its step is neither "IDLE" nor "WAITING".         *)
(*                                                                         *)
(* VCL is the administrator's program; what it may decide is a choice over *)
(* the constant Vcl.  What may go wrong is a choice over Faults.           *)
(***************************************************************************)
EXTENDS Naturals, Sequences, FiniteSets

CONSTANTS
    Sessions,      \* client sessions
    Timer,         \* the expiry thread (exp_timer)
    OCs,           \* memory for objcores
    Heads,         \* request digests, one possible objhead each
    Variants,      \* values of the request headers that a Vary: names
    NoVary,        \* the vary of an object that matches every request
    PassObj,       \* an object without an objcore (pass, error)
    None,          \* NULL
    RushExponent,  \* params->rush_exponent
    MaxRestarts,   \* params->max_restarts
    MaxOhref,      \* bound: no drops above this objhead count, they leak one
    Vcl,           \* what the VCL program may decide
    Faults         \* what may fail

VclChoices == {"pass", "pipe", "error", "restart", "hit_for_pass", "stream",
               "esi", "purge", "obj_ttl", "always_miss", "ignore_busy"}
FaultKinds == {"backend",    \* a fetch fails
               "sick",       \* the director is unhealthy
               "nuke",       \* storage is full, LRU objects are nuked
               "nostorage",  \* STV_NewObject returns NULL
               "badvary",    \* VRY_Create cannot parse Vary:
               "drop"}       \* WRK_Queue refuses a session

ASSUME ConstantsAreDistinct ==
    /\ Timer \notin Sessions
    /\ None \notin Sessions \cup OCs \cup Heads
    /\ PassObj \notin OCs \cup {None}
    /\ {NoVary, None} \cap Variants = {}
    /\ NoVary # None
ASSUME FiniteInstance == IsFiniteSet(Sessions) /\ IsFiniteSet(OCs)
ASSUME ParamsAreSane ==
    /\ RushExponent \in Nat \ {0}
    /\ MaxRestarts \in Nat
    /\ MaxOhref \in Nat
    /\ Vcl \subseteq VclChoices
    /\ Faults \subseteq FaultKinds

Threads == Sessions \cup {Timer}

Steps == {"IDLE", "RECV", "PIPE", "LOOKUP", "WAITING", "HITREF", "HITPASS",
          "HIT", "MISS", "PASS", "FETCH", "FETCHBODY", "BODY", "UNBUSY",
          "PREPRESP", "DELIVER", "STREAMBODY", "STREAMED", "DROP", "DROPPED",
          "ERROR", "DONE"}

VARIABLES
    \* struct objhead
    objcs,     \* head -> the list oh->objcs
    ohref,     \* head -> oh->refcnt, 0 when there is no such objhead
    waiters,   \* head -> oh->waitinglist, <<>> for NULL
    \* struct objcore (and the object it points to)
    alive,     \* the objcores that are allocated and on, or coming off, a head
    refcnt,    \* objcore -> oc->refcnt
    head,      \* objcore -> oc->objhead
    busy,      \* the objcores with OC_F_BUSY
    hfp,       \* the objcores with OC_F_PASS (hit-for-pass)
    hasobj,    \* the objcores with oc->methods # NULL
    phase,     \* objcore -> "fresh", "grace" or "dead" (ttl <= 0 or past grace)
    vary,      \* objcore -> oc->busyobj->vary while busy, then o->vary
    lru,       \* the objcores on an LRU list and in the expiry heap
    \* struct sess and the worker driving it
    step,      \* sp->step, refined by the locks taken within one step
    req,       \* what the request and vcl_recv{} decided
    objcore,   \* sp->objcore
    obj,       \* sp->obj
    parent,    \* the object being delivered around an ESI include
    hoh,       \* the objhead reference held: oh in HSH_Lookup, sp->hash_objhead
    nbusyobj,  \* wrk->nbusyobj # NULL
    stream,    \* wrk->do_stream
    ret,       \* where HSH_Unbusy or HSH_Drop returns to
    \* any thread
    taken,     \* objcore taken off the LRU, its reference not yet released
    dying,     \* objcore whose count this thread took to 0, not yet freed
    purging    \* session -> objcores HSH_Purge has referenced and not yet done

headVars == <<objcs, ohref, waiters>>
ocVars   == <<alive, refcnt, head, busy, hfp, hasobj, phase, vary, lru>>
sessVars == <<step, req, objcore, obj, parent, hoh, nbusyobj, stream, ret>>
threadVars == <<taken, dying, purging>>
vars == <<headVars, ocVars, sessVars, threadVars>>

\* A request before vcl_recv{} has looked at it.
NoReq == [head |-> None, variant |-> None, miss |-> FALSE, ignore |-> FALSE,
          esi |-> FALSE, restarts |-> 0]

Init ==
    /\ objcs = [h \in Heads |-> <<>>]
    /\ ohref = [h \in Heads |-> 0]
    /\ waiters = [h \in Heads |-> <<>>]
    /\ alive = {} /\ busy = {} /\ hfp = {} /\ hasobj = {} /\ lru = {}
    /\ refcnt = [c \in OCs |-> 0]
    /\ head = [c \in OCs |-> None]
    /\ phase = [c \in OCs |-> "dead"]
    /\ vary = [c \in OCs |-> NoVary]
    /\ step = [s \in Sessions |-> "IDLE"]
    /\ req = [s \in Sessions |-> NoReq]
    /\ objcore = [s \in Sessions |-> None]
    /\ obj = [s \in Sessions |-> None]
    /\ parent = [s \in Sessions |-> None]
    /\ hoh = [s \in Sessions |-> None]
    /\ nbusyobj = [s \in Sessions |-> FALSE]
    /\ stream = [s \in Sessions |-> FALSE]
    /\ ret = [s \in Sessions |-> None]
    /\ taken = [t \in Threads |-> None]
    /\ dying = [t \in Threads |-> None]
    /\ purging = [s \in Sessions |-> {}]

\* The session's thread is at this step and not inside HSH_Deref, HSH_Purge
\* or EXP_NukeOne.
At(s, stp) ==
    /\ step[s] = stp
    /\ dying[s] = None
    /\ taken[s] = None
    /\ purging[s] = {}

\* The objcores of a list.
Elems(q) == {q[i] : i \in DOMAIN q}

\* Mutant of Without: whatever c is, the first entry goes.
Without_first(q, c) == Tail(q)

\* VTAILQ_REMOVE: q without the entry c, which is in it once.
Without(q, c) ==
    LET k == CHOOSE i \in DOMAIN q : q[i] = c
    IN  [i \in 1..(Len(q) - 1) |-> IF i < k THEN q[i] ELSE q[i + 1]]

\* step and req after the session s goes on to the step stp.
Goto(s, stp) == [step EXCEPT ![s] = stp]
Restarted(s) == [req EXCEPT ![s].restarts = @ + 1]

-----------------------------------------------------------------------------
(***************************************************************************)
(* hsh_rush: under oh->mtx, requeue the first RushExponent sessions of the *)
(* waiting list.  When WRK_QueueSession refuses one it deletes the session *)
(* and the loop ends.  stp and rq are the caller's own step and req.       *)
(***************************************************************************)
\* Mutant of Requeued: the last one taken off the list is forgotten.
Requeued_short(q, n) == {q[i] : i \in 1..(n - 1)}

Requeued(q, n) == {q[i] : i \in 1..n}

\* Mutant of hsh_rush: nobody is woken.
hsh_rush_none(h, stp, rq) ==
    waiters' = waiters /\ step' = stp /\ req' = rq /\ hoh' = hoh

hsh_rush(h, stp, rq) ==
    LET q == waiters[h]
        most == IF Len(q) < RushExponent THEN Len(q) ELSE RushExponent
    IN  \/ /\ waiters' = [waiters EXCEPT ![h] = SubSeq(q, most + 1, Len(q))]
           /\ step' = [s \in Sessions |->
                          IF s \in Requeued(q, most) THEN "LOOKUP" ELSE stp[s]]
           /\ req' = rq
           /\ hoh' = hoh
        \/ /\ "drop" \in Faults /\ ohref[h] <= MaxOhref
           /\ \E n \in 0..(most - 1) :
                 /\ waiters' = [waiters EXCEPT ![h] = SubSeq(q, n + 2, Len(q))]
                 /\ step' = [s \in Sessions |->
                                IF s \in Requeued(q, n) THEN "LOOKUP"
                                ELSE IF s = q[n + 1] THEN "IDLE" ELSE stp[s]]
                 /\ req' = [rq EXCEPT ![q[n + 1]] = NoReq]
                 /\ hoh' = [hoh EXCEPT ![q[n + 1]] = None]

(***************************************************************************)
(* HSH_Deref, the part under oh->mtx.  The thread t that takes the count   *)
(* to zero goes on to DerefTail.                                           *)
(***************************************************************************)
HSH_Deref(t, c, stp, rq) ==
    /\ refcnt' = [refcnt EXCEPT ![c] = @ - 1]
    /\ IF refcnt[c] = 1
       THEN /\ objcs' = [objcs EXCEPT ![head[c]] = Without(@, c)]
            /\ dying' = [dying EXCEPT ![t] = c]
       ELSE UNCHANGED <<objcs, dying>>
    /\ hsh_rush(head[c], stp, rq)
    /\ UNCHANGED <<ohref, alive, head, busy, hfp, hasobj, vary>>

\* HSH_Deref after the unlock: free the objcore, drop its objhead reference.
DerefTail(t) ==
    LET c == dying[t] IN
    /\ c # None
    /\ dying' = [dying EXCEPT ![t] = None]
    /\ alive' = alive \ {c}
    /\ busy' = busy \ {c}
    /\ hfp' = hfp \ {c}
    /\ hasobj' = hasobj \ {c}
    /\ phase' = [phase EXCEPT ![c] = "dead"]
    /\ vary' = [vary EXCEPT ![c] = NoVary]
    /\ head' = [head EXCEPT ![c] = None]
    /\ ohref' = [ohref EXCEPT ![head[c]] = @ - 1]
    /\ nbusyobj' = IF c \in busy /\ t \in Sessions
                   THEN [nbusyobj EXCEPT ![t] = TRUE] ELSE nbusyobj
    /\ UNCHANGED <<objcs, waiters, refcnt, lru, step, req, objcore, obj,
                   parent, hoh, stream, ret, taken, purging>>

\* HSH_Deref(w, NULL, &sp->obj), then on to the step stp.  A pass object has
\* no objcore and is only freed.
DerefObj(s, stp, rq) ==
    /\ obj' = [obj EXCEPT ![s] = None]
    /\ IF obj[s] = PassObj
       THEN /\ step' = Goto(s, stp)
            /\ req' = rq
            /\ UNCHANGED <<objcs, ohref, waiters, alive, refcnt, head, busy,
                           hfp, hasobj, vary, hoh, dying>>
       ELSE HSH_Deref(s, obj[s], Goto(s, stp), rq)
    /\ UNCHANGED <<phase, lru, objcore, parent, nbusyobj, stream, taken,
                   purging>>

\* Mutant of DerefObjcore: the caller forgets to give the objcore up.
DerefObjcore_forgotten(s, stp, rq) ==
    /\ step' = Goto(s, stp)
    /\ req' = rq
    /\ UNCHANGED <<headVars, ocVars, objcore, obj, parent, hoh, nbusyobj, stream,
                   ret, threadVars>>

\* HSH_Deref(w, sp->objcore, NULL) of an objcore that has no object yet.
DerefObjcore(s, stp, rq) ==
    /\ HSH_Deref(s, objcore[s], Goto(s, stp), rq)
    /\ objcore' = [objcore EXCEPT ![s] = None]
    /\ UNCHANGED <<phase, lru, obj, parent, nbusyobj, stream, ret, taken,
                   purging>>

-----------------------------------------------------------------------------
(***************************************************************************)
(* The request arrives: cnt_first, cnt_wait, cnt_start, cnt_recv, cnt_pipe *)
(***************************************************************************)

\* A complete request is in, or one that http_DissectRequest rejects.
cnt_start(s) ==
    /\ At(s, "IDLE")
    /\ \E stp \in {"RECV"} \cup (IF "error" \in Vcl THEN {"ERROR"} ELSE {}) :
          step' = Goto(s, stp)
    /\ UNCHANGED <<headVars, ocVars, req, objcore, obj, parent, hoh, nbusyobj,
                   stream, ret, threadVars>>

\* vcl_recv{} and vcl_hash{}.  The digest and the hash flags only matter to a
\* lookup, so they are left alone otherwise.
cnt_recv(s) ==
    /\ At(s, "RECV")
    /\ IF req[s].restarts >= MaxRestarts
       THEN step' = Goto(s, "ERROR") /\ req' = req /\ stream' = stream
       ELSE /\ stream' = [stream EXCEPT ![s] = FALSE]
            /\ \/ \E h \in Heads, v \in Variants,
                     m \in {b \in BOOLEAN : b => "always_miss" \in Vcl},
                     i \in {b \in BOOLEAN : b => "ignore_busy" \in Vcl} :
                     /\ req' = [req EXCEPT ![s] =
                                  [head |-> h, variant |-> v, miss |-> m,
                                   ignore |-> i, esi |-> @.esi,
                                   restarts |-> @.restarts]]
                     /\ step' = Goto(s, "LOOKUP")
               \/ "pass" \in Vcl /\ step' = Goto(s, "PASS") /\ req' = req
               \/ "error" \in Vcl /\ step' = Goto(s, "ERROR") /\ req' = req
               \/ /\ "pipe" \in Vcl /\ ~req[s].esi
                  /\ step' = Goto(s, "PIPE") /\ req' = req
    /\ UNCHANGED <<headVars, ocVars, objcore, obj, parent, hoh, nbusyobj, ret,
                   threadVars>>

cnt_pipe(s) ==
    /\ At(s, "PIPE")
    /\ step' = Goto(s, "DONE")
    /\ UNCHANGED <<headVars, ocVars, req, objcore, obj, parent, hoh, nbusyobj,
                   stream, ret, threadVars>>

-----------------------------------------------------------------------------
(***************************************************************************)
(* HSH_Lookup.  hash->lookup finds or creates the objhead and references   *)
(* it; a session that comes off the waiting list brings its reference.     *)
(***************************************************************************)
hash_lookup(s) ==
    /\ At(s, "LOOKUP")
    /\ hoh[s] = None
    /\ hoh' = [hoh EXCEPT ![s] = req[s].head]
    /\ ohref' = [ohref EXCEPT ![req[s].head] = @ + 1]
    /\ UNCHANGED <<objcs, waiters, ocVars, step, req, objcore, obj, parent,
                   nbusyobj, stream, ret, threadVars>>

\* Mutant of VRY_Match: an object without a Vary matches no request.
VRY_Match_exact(s, v) == v = req[s].variant

VRY_Match(s, v) == v \in {NoVary, req[s].variant}

\* Positions of objcs whose object the request may use as it is / in grace.
Usable(s, q, ph) ==
    {i \in DOMAIN q : /\ q[i] \notin busy
                      /\ phase[q[i]] = ph
                      /\ VRY_Match(s, vary[q[i]])}

\* The search stops at the first fresh match.
Scanned(s, q) ==
    {i \in DOMAIN q : \A j \in Usable(s, q, "fresh") : i <= j}

\* Busy objcores the search looks at, and those the request has to wait for.
BusySeen(s, q) ==
    {i \in Scanned(s, q) :
        q[i] \in busy /\ ~req[s].ignore /\ ~req[s].miss}
BusyMatch(s, q) == {i \in BusySeen(s, q) : VRY_Match(s, vary[q[i]])}

\* The objects the search may return: the first fresh one, or else one in
\* grace if somebody is fetching or nobody can (the code takes the least
\* expired of several; which one that is, is left open).
Found(s, q) ==
    LET fresh == Usable(s, q, "fresh")
    IN  IF fresh # {} THEN {i \in fresh : \A j \in fresh : i <= j}
        ELSE IF BusyMatch(s, q) # {} \/ "sick" \in Faults
             THEN Usable(s, q, "grace")
             ELSE {}

\* VRY_Match was called, so sp->vary_l is set and the new busyobj gets a vary.
VaryCompared(s, q) ==
    \E i \in Scanned(s, q) :
        /\ vary[q[i]] # NoVary
        /\ i \in BusySeen(s, q) \/ (q[i] \notin busy /\ phase[q[i]] # "dead")

\* The critical section of HSH_Lookup finds an object: take a reference.
LookupHit(s) ==
    /\ At(s, "LOOKUP")
    /\ hoh[s] # None
    /\ ~req[s].miss
    /\ \E i \in Found(s, objcs[hoh[s]]) :
          LET c == objcs[hoh[s]][i] IN
          /\ refcnt' = [refcnt EXCEPT ![c] = @ + 1]
          /\ obj' = [obj EXCEPT ![s] = c]
    /\ nbusyobj' = [nbusyobj EXCEPT ![s] = TRUE]
    /\ step' = Goto(s, "HITREF")
    /\ UNCHANGED <<headVars, alive, head, busy, hfp, hasobj, phase, vary, lru,
                   req, objcore, parent, hoh, stream, ret, threadVars>>

\* No object to use (or only one in grace and the backend is well).
NothingFound(s, q) ==
    \/ req[s].miss
    \/ Usable(s, q, "fresh") = {}
       /\ (BusyMatch(s, q) = {} \/ Usable(s, q, "grace") = {})

\* A busy object matches: park the session on the waiting list, its objhead
\* reference in sp->hash_objhead.  An ESI include is not parked, it comes back
\* to this step after a nap (cache_esi_deliver.c).
LookupWait(s) ==
    /\ At(s, "LOOKUP")
    /\ hoh[s] # None
    /\ NothingFound(s, objcs[hoh[s]])
    /\ BusyMatch(s, objcs[hoh[s]]) # {}
    /\ nbusyobj' = [nbusyobj EXCEPT ![s] = FALSE]
    /\ IF req[s].esi
       THEN UNCHANGED <<waiters, step>>
       ELSE /\ waiters' = [waiters EXCEPT ![hoh[s]] = Append(@, s)]
            /\ step' = Goto(s, "WAITING")
    /\ UNCHANGED <<objcs, ohref, ocVars, req, objcore, obj, parent, hoh,
                   stream, ret, threadVars>>

\* Nothing: insert a new busy objcore at the tail.  It inherits the session's
\* objhead reference.
LookupMiss(s) ==
    LET h == hoh[s] IN
    /\ At(s, "LOOKUP")
    /\ h # None
    /\ NothingFound(s, objcs[h])
    /\ BusyMatch(s, objcs[h]) = {}
    /\ \E c \in OCs \ alive :
          /\ alive' = alive \cup {c}
          /\ busy' = busy \cup {c}
          /\ refcnt' = [refcnt EXCEPT ![c] = 1]
          /\ head' = [head EXCEPT ![c] = h]
          /\ vary' = [vary EXCEPT ![c] = IF VaryCompared(s, objcs[h])
                                         THEN req[s].variant ELSE NoVary]
          /\ objcs' = [objcs EXCEPT ![h] = Append(@, c)]
          /\ objcore' = [objcore EXCEPT ![s] = c]
    /\ hoh' = [hoh EXCEPT ![s] = None]
    /\ nbusyobj' = [nbusyobj EXCEPT ![s] = FALSE]
    /\ step' = Goto(s, "MISS")
    /\ UNCHANGED <<ohref, waiters, hfp, hasobj, phase, lru, req, obj, parent,
                   stream, ret, threadVars>>

\* Mutants of LookupHitTail: no hash->deref, no test for OC_F_PASS.
LookupHitTail_noderef(s) ==
    /\ At(s, "HITREF")
    /\ hoh' = [hoh EXCEPT ![s] = None]
    /\ step' = Goto(s, IF obj[s] \in hfp THEN "HITPASS" ELSE "HIT")
    /\ UNCHANGED <<headVars, ocVars, req, objcore, obj, parent, nbusyobj,
                   stream, ret, threadVars>>
LookupHitTail_nopass(s) ==
    /\ At(s, "HITREF")
    /\ ohref' = [ohref EXCEPT ![hoh[s]] = @ - 1]
    /\ hoh' = [hoh EXCEPT ![s] = None]
    /\ step' = Goto(s, "HIT")
    /\ UNCHANGED <<objcs, waiters, ocVars, req, objcore, obj, parent, nbusyobj,
                   stream, ret, threadVars>>

\* After the unlock: hash->deref(oh), and cnt_lookup tells hits and
\* hit-for-pass objects apart.
LookupHitTail(s) ==
    /\ At(s, "HITREF")
    /\ ohref' = [ohref EXCEPT ![hoh[s]] = @ - 1]
    /\ hoh' = [hoh EXCEPT ![s] = None]
    /\ step' = Goto(s, IF obj[s] \in hfp THEN "HITPASS" ELSE "HIT")
    /\ UNCHANGED <<objcs, waiters, ocVars, req, objcore, obj, parent, nbusyobj,
                   stream, ret, threadVars>>

\* cnt_lookup drops a hit-for-pass object and passes.
cnt_lookup_hitpass(s) ==
    /\ At(s, "HITPASS")
    /\ DerefObj(s, "PASS", req)
    /\ UNCHANGED ret

-----------------------------------------------------------------------------
\* Mutant of HSH_Unbusy: the objcore stays where it is on objcs.
HSH_Unbusy_inplace(s, stp, ph, v) ==
    /\ busy' = busy \ {obj[s]}
    /\ phase' = [phase EXCEPT ![obj[s]] = ph]
    /\ vary' = [vary EXCEPT ![obj[s]] = v]
    /\ nbusyobj' = [nbusyobj EXCEPT ![s] = TRUE]
    /\ hsh_rush(head[obj[s]], Goto(s, stp), req)
    /\ UNCHANGED <<objcs, ohref, alive, refcnt, head, hfp, hasobj, lru, objcore,
                   obj, parent, stream, threadVars>>

(***************************************************************************)
(* HSH_Unbusy: under oh->mtx the objcore moves to the head of objcs, stops *)
(* being busy, gives its busyobj back to the worker and wakes waiters.     *)
(* ph and v are the ttl and the Vary of the object that is now visible.    *)
(***************************************************************************)
HSH_Unbusy(s, stp, ph, v) ==
    LET c == obj[s]
        h == head[c]
    IN  /\ objcs' = [objcs EXCEPT ![h] = <<c>> \o Without(@, c)]
        /\ busy' = busy \ {c}
        /\ phase' = [phase EXCEPT ![c] = ph]
        /\ vary' = [vary EXCEPT ![c] = v]
        /\ nbusyobj' = [nbusyobj EXCEPT ![s] = TRUE]
        /\ hsh_rush(h, Goto(s, stp), req)
        /\ UNCHANGED <<ohref, alive, refcnt, head, hfp, hasobj, lru, objcore,
                       obj, parent, stream, threadVars>>

\* The backend decides the ttl (none, or some) and the Vary of the response.
Unbusy(s) ==
    /\ At(s, "UNBUSY")
    /\ \E ph \in {"fresh", "dead"}, v \in {NoVary, req[s].variant} \ {None} :
          HSH_Unbusy(s, ret[s], ph, v)
    /\ ret' = [ret EXCEPT ![s] = None]

\* HSH_Drop: kill the object, waking those who wait for it.
HSH_Drop(s) ==
    /\ At(s, "DROP")
    /\ IF obj[s] = PassObj
       THEN /\ step' = Goto(s, "DROPPED")
            /\ UNCHANGED <<headVars, ocVars, req, objcore, obj, parent, hoh,
                           nbusyobj, stream, threadVars>>
       ELSE HSH_Unbusy(s, "DROPPED", "dead", vary[obj[s]])
    /\ UNCHANGED ret

HSH_Drop_Deref(s) ==
    /\ At(s, "DROPPED")
    /\ DerefObj(s, ret[s], req)
    /\ ret' = [ret EXCEPT ![s] = None]

-----------------------------------------------------------------------------
(***************************************************************************)
(* The steps of the session state engine after the lookup                  *)
(***************************************************************************)

\* The steps a VCL method may name besides the one it takes by default.
Exits(stps) == {stp \in stps : \/ stp = "PASS"  /\ "pass" \in Vcl
                               \/ stp = "ERROR" /\ "error" \in Vcl
                               \/ stp = "RECV"  /\ "restart" \in Vcl}

\* vcl_hit{}: deliver, or drop the object and pass, fail or restart.
cnt_hit(s) ==
    /\ At(s, "HIT")
    /\ \/ /\ step' = Goto(s, "PREPRESP")
          /\ UNCHANGED <<headVars, ocVars, req, objcore, obj, parent, hoh,
                         nbusyobj, stream, ret, threadVars>>
       \/ \E stp \in Exits({"PASS", "ERROR", "RECV"}) :
             /\ DerefObj(s, stp, IF stp = "RECV" THEN Restarted(s) ELSE req)
             /\ UNCHANGED ret

\* vcl_hit{} sets obj.ttl.
SetObjTtl(s) ==
    /\ At(s, "HIT")
    /\ "obj_ttl" \in Vcl
    /\ \E ph \in {"fresh", "dead"} :
          phase' = [phase EXCEPT ![obj[s]] = ph]
    /\ UNCHANGED <<headVars, alive, refcnt, head, busy, hfp, hasobj, vary, lru,
                   sessVars, threadVars>>

\* vcl_miss{}: fetch, or give the objcore up and pass or fail.
cnt_miss(s) ==
    /\ At(s, "MISS")
    /\ \/ /\ step' = Goto(s, "FETCH")
          /\ UNCHANGED <<headVars, ocVars, req, objcore, obj, parent, hoh,
                         nbusyobj, stream, ret, threadVars>>
       \/ \E stp \in Exits({"PASS", "ERROR"}) : DerefObjcore(s, stp, req)

cnt_pass(s) ==
    /\ At(s, "PASS")
    /\ \E stp \in {"FETCH"} \cup Exits({"ERROR"}) : step' = Goto(s, stp)
    /\ UNCHANGED <<headVars, ocVars, req, objcore, obj, parent, hoh, nbusyobj,
                   stream, ret, threadVars>>

\* The response headers are in and vcl_fetch{} wants the body, perhaps as a
\* hit-for-pass object.
cnt_fetch_deliver(s) ==
    /\ At(s, "FETCH")
    /\ step' = Goto(s, "FETCHBODY")
    /\ \/ hfp' = hfp
       \/ /\ "hit_for_pass" \in Vcl
          /\ hfp' = hfp \cup ({objcore[s]} \ {None})
    /\ UNCHANGED <<headVars, alive, refcnt, head, busy, hasobj, phase, vary,
                   lru, req, objcore, obj, parent, hoh, nbusyobj, stream, ret,
                   threadVars>>

\* The backend failed, or vcl_fetch{} says error or restart: "Clean up partial
\* fetch".
cnt_fetch_cleanup(s) ==
    /\ At(s, "FETCH")
    /\ \E stp \in Exits({"ERROR", "RECV"})
                  \cup (IF "backend" \in Faults THEN {"ERROR"} ELSE {}) :
          LET rq == IF stp = "RECV" THEN Restarted(s) ELSE req IN
          IF objcore[s] # None
          THEN DerefObjcore(s, stp, rq)
          ELSE /\ step' = Goto(s, stp)
               /\ req' = rq
               /\ UNCHANGED <<headVars, ocVars, objcore, obj, parent, hoh,
                              nbusyobj, stream, ret, threadVars>>

\* Mutant of STV_MkObject: sp->objcore is not cleared.
STV_MkObject_keeps(s) ==
    /\ obj' = [obj EXCEPT ![s] = IF objcore[s] = None THEN PassObj
                                 ELSE objcore[s]]
    /\ hasobj' = hasobj \cup ({objcore[s]} \ {None})
    /\ objcore' = objcore

\* STV_MkObject: the new object takes over sp->objcore and its reference.
STV_MkObject(s) ==
    /\ obj' = [obj EXCEPT ![s] = IF objcore[s] = None THEN PassObj
                                 ELSE objcore[s]]
    /\ hasobj' = hasobj \cup ({objcore[s]} \ {None})
    /\ objcore' = [objcore EXCEPT ![s] = None]

\* Make the object, then fetch its body or stream it.
cnt_fetchbody(s) ==
    /\ At(s, "FETCHBODY")
    /\ STV_MkObject(s)
    /\ \/ step' = Goto(s, "BODY") /\ stream' = stream
       \/ /\ "stream" \in Vcl /\ ~req[s].esi
          /\ step' = Goto(s, "PREPRESP")
          /\ stream' = [stream EXCEPT ![s] = TRUE]
    /\ UNCHANGED <<headVars, alive, refcnt, head, busy, hfp, phase, vary, lru,
                   req, parent, hoh, nbusyobj, ret, threadVars>>

\* Vary: does not parse, or there is no storage: off to ERROR, the busy
\* objcore still in sp->objcore.
cnt_fetchbody_error(s) ==
    /\ At(s, "FETCHBODY")
    /\ \/ "badvary" \in Faults /\ objcore[s] # None
       \/ "nostorage" \in Faults
    /\ step' = Goto(s, "ERROR")
    /\ UNCHANGED <<headVars, ocVars, req, objcore, obj, parent, hoh, nbusyobj,
                   stream, ret, threadVars>>

\* Mutant of EXP_Insert: no reference for the LRU list and the heap.
EXP_Insert_noref(s, stp) ==
    /\ lru' = lru \cup {obj[s]}
    /\ step' = Goto(s, "UNBUSY")
    /\ ret' = [ret EXCEPT ![s] = stp]
    /\ UNCHANGED <<headVars, alive, refcnt, head, busy, hfp, hasobj, phase, vary>>

\* EXP_Insert: the LRU list and the expiry heap take a reference of their own
\* while the object is still busy.
EXP_Insert(s, stp) ==
    /\ refcnt' = [refcnt EXCEPT ![obj[s]] = @ + 1]
    /\ lru' = lru \cup {obj[s]}
    /\ step' = Goto(s, "UNBUSY")
    /\ ret' = [ret EXCEPT ![s] = stp]
    /\ UNCHANGED <<headVars, alive, head, busy, hfp, hasobj, phase, vary>>

\* FetchBody and what follows it, in cnt_fetchbody and in cnt_streambody.
FetchBody_ok(s) ==
    /\ At(s, "BODY") \/ At(s, "STREAMBODY")
    /\ LET next == IF step[s] = "BODY" THEN "PREPRESP" ELSE "STREAMED" IN
       IF obj[s] # PassObj
       THEN EXP_Insert(s, next)
       ELSE step' = Goto(s, next) /\ UNCHANGED <<headVars, ocVars, ret>>
    /\ UNCHANGED <<req, objcore, obj, parent, hoh, nbusyobj, stream, threadVars>>

FetchBody_fail(s) ==
    /\ "backend" \in Faults
    /\ \/ /\ At(s, "BODY")
          /\ step' = Goto(s, "DROP")
          /\ ret' = [ret EXCEPT ![s] = "ERROR"]
       \/ /\ At(s, "STREAMBODY")
          /\ step' = Goto(s, "STREAMED")
          /\ ret' = ret
    /\ UNCHANGED <<headVars, ocVars, req, objcore, obj, parent, hoh, nbusyobj,
                   stream, threadVars>>

\* vcl_deliver{}: deliver or stream, or restart with the object given up.
cnt_prepresp(s) ==
    /\ At(s, "PREPRESP")
    /\ \/ /\ step' = Goto(s, IF stream[s] THEN "STREAMBODY" ELSE "DELIVER")
          /\ UNCHANGED <<headVars, ocVars, req, objcore, obj, parent, hoh,
                         nbusyobj, stream, ret, threadVars>>
       \/ /\ "restart" \in Vcl
          /\ req[s].restarts < MaxRestarts
          /\ IF stream[s]
             THEN /\ step' = Goto(s, "DROP")
                  /\ ret' = [ret EXCEPT ![s] = "RECV"]
                  /\ req' = Restarted(s)
                  /\ UNCHANGED <<headVars, ocVars, objcore, obj, parent, hoh,
                                 nbusyobj, stream, threadVars>>
             ELSE DerefObj(s, "RECV", Restarted(s)) /\ UNCHANGED ret

\* The response is written; a streamed one was written while it was fetched.
cnt_deliver(s) ==
    /\ At(s, "DELIVER") \/ At(s, "STREAMED")
    /\ DerefObj(s, "DONE", [req EXCEPT ![s].restarts = 0])
    /\ UNCHANGED ret

\* Delivering an ESI object meets an include (one level of nesting): the
\* session runs the included request and keeps the object.
ESI_include(s) ==
    /\ At(s, "DELIVER")
    /\ "esi" \in Vcl /\ ~req[s].esi
    /\ parent' = [parent EXCEPT ![s] = obj[s]]
    /\ obj' = [obj EXCEPT ![s] = None]
    /\ req' = [req EXCEPT ![s] = [NoReq EXCEPT !.esi = TRUE]]
    /\ step' = Goto(s, "RECV")
    /\ UNCHANGED <<headVars, ocVars, objcore, hoh, nbusyobj, stream, ret,
                   threadVars>>

\* Mutant of cnt_error: vcl_error{} may restart without a limit.
cnt_error_nolimit(s) ==
    /\ At(s, "ERROR")
    /\ STV_MkObject(s)
    /\ nbusyobj' = [nbusyobj EXCEPT ![s] = TRUE]
    /\ stream' = [stream EXCEPT ![s] = FALSE]
    /\ \/ step' = Goto(s, "PREPRESP") /\ UNCHANGED <<req, ret>>
       \/ /\ "restart" \in Vcl
          /\ step' = Goto(s, "DROP")
          /\ ret' = [ret EXCEPT ![s] = "RECV"]
          /\ req' = Restarted(s)
    /\ UNCHANGED <<headVars, alive, refcnt, head, busy, hfp, phase, vary, lru,
                   parent, hoh, threadVars>>

\* Build an error object, then vcl_error{}: deliver or restart.
cnt_error(s) ==
    /\ At(s, "ERROR")
    /\ STV_MkObject(s)
    /\ nbusyobj' = [nbusyobj EXCEPT ![s] = TRUE]    \* HSH_Prealloc
    /\ stream' = [stream EXCEPT ![s] = FALSE]
    /\ \/ step' = Goto(s, "PREPRESP") /\ UNCHANGED <<req, ret>>
       \/ /\ "restart" \in Vcl
          /\ req[s].restarts < MaxRestarts
          /\ step' = Goto(s, "DROP")
          /\ ret' = [ret EXCEPT ![s] = "RECV"]
          /\ req' = Restarted(s)
    /\ UNCHANGED <<headVars, alive, refcnt, head, busy, hfp, phase, vary, lru,
                   parent, hoh, threadVars>>

\* "Out of objects"
cnt_error_nostorage(s) ==
    /\ At(s, "ERROR")
    /\ "nostorage" \in Faults
    /\ nbusyobj' = [nbusyobj EXCEPT ![s] = TRUE]
    /\ stream' = [stream EXCEPT ![s] = FALSE]
    /\ step' = Goto(s, "DONE")
    /\ UNCHANGED <<headVars, ocVars, req, objcore, obj, parent, hoh, ret,
                   threadVars>>

\* The request is over: an include returns to the delivery around it, any
\* other session waits for its next request or is closed (it is, if it still
\* has an objcore), and its worker goes away.
cnt_done(s) ==
    /\ At(s, "DONE")
    /\ stream' = [stream EXCEPT ![s] = FALSE]
    /\ IF req[s].esi
       THEN /\ step' = Goto(s, "DELIVER")
            /\ obj' = [obj EXCEPT ![s] = parent[s]]
            /\ parent' = [parent EXCEPT ![s] = None]
            /\ UNCHANGED <<objcore, nbusyobj>>
       ELSE /\ step' = Goto(s, "IDLE")
            /\ objcore' = [objcore EXCEPT ![s] = None]
            /\ nbusyobj' = [nbusyobj EXCEPT ![s] = FALSE]
            /\ UNCHANGED <<obj, parent>>
    /\ req' = [req EXCEPT ![s] = NoReq]
    /\ UNCHANGED <<headVars, ocVars, hoh, ret, threadVars>>

-----------------------------------------------------------------------------
(***************************************************************************)
(* Purge, expiry and LRU nuking                                            *)
(***************************************************************************)

\* Mutant of HSH_Purge: busy objects are purged too.
HSH_Purge_busy(s) ==
    /\ At(s, "HIT") \/ At(s, "MISS")
    /\ "purge" \in Vcl
    /\ LET h == head[IF step[s] = "HIT" THEN obj[s] ELSE objcore[s]]
       IN  /\ purging' = [purging EXCEPT ![s] = Elems(objcs[h])]
           /\ refcnt' = [c \in OCs |-> IF c \in Elems(objcs[h])
                                       THEN refcnt[c] + 1 ELSE refcnt[c]]
    /\ UNCHANGED <<headVars, alive, head, busy, hfp, hasobj, phase, vary, lru,
                   sessVars, taken, dying>>

\* Mutant of HSH_Purge: objects that are coming off the list are purged too.
HSH_Purge_unlocked(s) ==
    /\ At(s, "HIT") \/ At(s, "MISS")
    /\ "purge" \in Vcl
    /\ LET h == head[IF step[s] = "HIT" THEN obj[s] ELSE objcore[s]]
           victims == {c \in alive : head[c] = h} \ busy
       IN  /\ purging' = [purging EXCEPT ![s] = victims]
           /\ refcnt' = [c \in OCs |-> IF c \in victims THEN refcnt[c] + 1
                                       ELSE refcnt[c]]
    /\ UNCHANGED <<headVars, alive, head, busy, hfp, hasobj, phase, vary, lru,
                   sessVars, taken, dying>>

\* HSH_Purge from vcl_hit{} or vcl_miss{}: reference every object of the head
\* that is not busy ...
HSH_Purge(s) ==
    /\ At(s, "HIT") \/ At(s, "MISS")
    /\ "purge" \in Vcl
    /\ LET h == head[IF step[s] = "HIT" THEN obj[s] ELSE objcore[s]]
           victims == Elems(objcs[h]) \ busy
       IN  /\ purging' = [purging EXCEPT ![s] = victims]
           /\ refcnt' = [c \in OCs |-> IF c \in victims THEN refcnt[c] + 1
                                       ELSE refcnt[c]]
    /\ UNCHANGED <<headVars, alive, head, busy, hfp, hasobj, phase, vary, lru,
                   sessVars, taken, dying>>

\* ... then, with no lock held, expire and release them one at a time.
HSH_Purge_one(s) ==
    /\ dying[s] = None
    /\ \E c \in purging[s] :
          /\ purging' = [purging EXCEPT ![s] = @ \ {c}]
          /\ phase' = [phase EXCEPT ![c] = "dead"]
          /\ HSH_Deref(s, c, step, req)
    /\ UNCHANGED <<lru, objcore, obj, parent, nbusyobj, stream, ret, taken>>

\* Time passes (or a ban matches) for an object in the cache.
Age(c) ==
    /\ c \in hasobj \ busy
    /\ \/ phase[c] = "fresh" /\ phase' = [phase EXCEPT ![c] = "grace"]
       \/ phase[c] # "dead" /\ phase' = [phase EXCEPT ![c] = "dead"]
    /\ UNCHANGED <<headVars, alive, refcnt, head, busy, hfp, hasobj, vary, lru,
                   sessVars, threadVars>>

\* Take an objcore off the LRU list and the heap, with the reference they had.
TakeOffLru(t, c) ==
    /\ lru' = lru \ {c}
    /\ taken' = [taken EXCEPT ![t] = c]
    /\ UNCHANGED <<headVars, alive, refcnt, head, busy, hfp, hasobj, phase,
                   vary, sessVars, dying, purging>>

\* exp_timer: an expired object that is not busy.
exp_timer(c) ==
    /\ taken[Timer] = None /\ dying[Timer] = None
    /\ c \in lru \ busy
    /\ phase[c] = "dead"
    /\ TakeOffLru(Timer, c)

\* EXP_NukeOne, from a storage allocation: an object nobody else references.
EXP_NukeOne(s) ==
    /\ "nuke" \in Faults
    /\ \E stp \in {"FETCHBODY", "BODY", "STREAMBODY", "ERROR"} : At(s, stp)
    /\ \E c \in lru \ busy :
          /\ refcnt[c] = 1
          /\ TakeOffLru(s, c)

\* ... and both release the reference without the LRU lock.
TakenDeref(t) ==
    /\ taken[t] # None /\ dying[t] = None
    /\ taken' = [taken EXCEPT ![t] = None]
    /\ HSH_Deref(t, taken[t], step, req)
    /\ UNCHANGED <<phase, lru, objcore, obj, parent, nbusyobj, stream, ret,
                   purging>>

-----------------------------------------------------------------------------
\* One step of a request.
SessStep(s) ==
    \/ cnt_recv(s) \/ cnt_pipe(s)
    \/ hash_lookup(s) \/ LookupHit(s) \/ LookupWait(s) \/ LookupMiss(s)
    \/ LookupHitTail(s) \/ cnt_lookup_hitpass(s)
    \/ cnt_hit(s) \/ cnt_miss(s) \/ cnt_pass(s)
    \/ cnt_fetch_deliver(s) \/ cnt_fetch_cleanup(s)
    \/ cnt_fetchbody(s) \/ cnt_fetchbody_error(s)
    \/ FetchBody_ok(s) \/ FetchBody_fail(s)
    \/ Unbusy(s) \/ HSH_Drop(s) \/ HSH_Drop_Deref(s)
    \/ cnt_prepresp(s) \/ cnt_deliver(s)
    \/ cnt_error(s) \/ cnt_error_nostorage(s) \/ cnt_done(s)
    \/ HSH_Purge_one(s) \/ TakenDeref(s) \/ DerefTail(s)

\* What a client or VCL may make a session do, but need not.
SessChoice(s) ==
    cnt_start(s) \/ SetObjTtl(s) \/ HSH_Purge(s) \/ EXP_NukeOne(s)
        \/ ESI_include(s)

TimerStep == (\E c \in OCs : exp_timer(c)) \/ TakenDeref(Timer)
                 \/ DerefTail(Timer)

Next ==
    \/ \E s \in Sessions : SessStep(s) \/ SessChoice(s)
    \/ TimerStep
    \/ \E c \in OCs : Age(c)

Spec == Init /\ [][Next]_vars

\* Worker threads and the expiry thread keep running, and time passes.
Fairness ==
    /\ \A s \in Sessions : WF_vars(SessStep(s))
    /\ WF_vars(TimerStep)
    /\ WF_vars(\E c \in OCs : Age(c))

FairSpec == Spec /\ Fairness

-----------------------------------------------------------------------------
(***************************************************************************)
(* Properties                                                              *)
(***************************************************************************)
Requests == [head : Heads \cup {None}, variant : Variants \cup {None},
             miss : BOOLEAN, ignore : BOOLEAN, esi : BOOLEAN,
             restarts : 0..MaxRestarts]

\* The types of the state; restarts never exceeds max_restarts.
TypeOK ==
    /\ objcs \in [Heads -> Seq(OCs)]
    /\ ohref \in [Heads -> Nat]
    /\ waiters \in [Heads -> Seq(Sessions)]
    /\ alive \subseteq OCs
    /\ refcnt \in [OCs -> Nat]
    /\ head \in [OCs -> Heads \cup {None}]
    /\ busy \subseteq alive
    /\ hfp \subseteq alive
    /\ hasobj \subseteq alive
    /\ phase \in [OCs -> {"fresh", "grace", "dead"}]
    /\ vary \in [OCs -> Variants \cup {NoVary}]
    /\ lru \subseteq OCs
    /\ step \in [Sessions -> Steps]
    /\ req \in [Sessions -> Requests]
    /\ objcore \in [Sessions -> OCs \cup {None}]
    /\ obj \in [Sessions -> OCs \cup {PassObj, None}]
    /\ parent \in [Sessions -> OCs \cup {PassObj, None}]
    /\ hoh \in [Sessions -> Heads \cup {None}]
    /\ nbusyobj \in [Sessions -> BOOLEAN]
    /\ stream \in [Sessions -> BOOLEAN]
    /\ ret \in [Sessions -> {None, "PREPRESP", "STREAMED", "RECV", "ERROR"}]
    /\ taken \in [Threads -> OCs \cup {None}]
    /\ dying \in [Threads -> OCs \cup {None}]
    /\ purging \in [Sessions -> SUBSET OCs]

\* Everything that may hold a reference on an objcore, and what does on c.
Tokens == {"objcore", "obj", "parent", "purge", "taken", "lru"} \X Threads

Holders(c) ==
    {k \in Tokens :
        \/ k[1] = "objcore" /\ k[2] \in Sessions /\ objcore[k[2]] = c
        \/ k[1] = "obj" /\ k[2] \in Sessions /\ obj[k[2]] = c
        \/ k[1] = "parent" /\ k[2] \in Sessions /\ parent[k[2]] = c
        \/ k[1] = "purge" /\ k[2] \in Sessions /\ c \in purging[k[2]]
        \/ k[1] = "taken" /\ taken[k[2]] = c
        \/ k[1] = "lru" /\ k[2] = Timer /\ c \in lru}

\* What holds a reference on the objhead h: its objcores, and the sessions in
\* the middle of a lookup or on its waiting list.
HeadTokens == ({"oc"} \X OCs) \cup ({"sess"} \X Sessions)

HeadHolders(h) ==
    {k \in HeadTokens :
        \/ k[1] = "oc" /\ k[2] \in alive /\ head[k[2]] = h
        \/ k[1] = "sess" /\ hoh[k[2]] = h}

\* No use after free, whatever fails: a count is never below the number of
\* pointers that own a reference, so nothing is freed under a holder.
RefcntCovers ==
    /\ \A c \in OCs : Cardinality(Holders(c)) <= refcnt[c]
    /\ \A h \in Heads : Cardinality(HeadHolders(h)) <= ohref[h]
    /\ \A c \in OCs \ alive : refcnt[c] = 0
    /\ \A c \in alive : head[c] \in Heads

\* oc->refcnt is exactly the number of pointers that own a reference: nothing
\* is freed under a holder and no reference is leaked, whatever path a request
\* takes through hits, misses, restarts, drops, purges, expiry and nuking.
RefcntExact == \A c \in OCs : refcnt[c] = Cardinality(Holders(c))

\* oh->refcnt is exactly the number of objcores on, or coming off, the head
\* and of sessions looking it up or waiting on it.
OhrefExact == \A h \in Heads : ohref[h] = Cardinality(HeadHolders(h))

\* The list of an objhead holds exactly its referenced objcores, each once,
\* and every one that is not busy has an object (oc_getobj in HSH_Lookup).
ListsExact ==
    \A h \in Heads :
        /\ Elems(objcs[h]) = {c \in alive : head[c] = h /\ refcnt[c] > 0}
        /\ Cardinality(Elems(objcs[h])) = Len(objcs[h])
        /\ Elems(objcs[h]) \ busy \subseteq hasobj

\* "Busy objects go on the tail, so they will not trip up searches": no search
\* meets a busy objcore before an object it could use.
BusyAtTail ==
    \A h \in Heads : \A i, j \in DOMAIN objcs[h] :
        i < j /\ objcs[h][i] \in busy => objcs[h][j] \in busy

\* A busy objcore belongs to exactly one session, by exactly one of its pointers, and
\* only the LRU may hold another reference on it.
BusyOwned ==
    \A c \in busy : refcnt[c] > 0 =>
        \E s \in Sessions :
            Holders(c) \ {<<"lru", Timer>>}
                \in {{<<"objcore", s>>}, {<<"obj", s>>}, {<<"parent", s>>}}

\* Requests are coalesced: two fetches are under way for one objhead only if
\* they are for different variants of a response that is known to vary (or VCL
\* asked not to wait).
Coalesced ==
    Vcl \cap {"always_miss", "ignore_busy"} = {} =>
        \A c, d \in busy :
            c # d /\ head[c] = head[d] /\ refcnt[c] > 0 /\ refcnt[d] > 0 =>
                NoVary # vary[c] /\ vary[c] # vary[d] /\ vary[d] # NoVary

\* AZ(sp->wrk->nbusyobj) in HSH_Unbusy.
NoSpareBusyobj ==
    \A s \in Sessions :
        step[s] \in {"UNBUSY", "DROP"} /\ obj[s] # PassObj => ~nbusyobj[s]

\* AZ(sp->objcore) in HSH_Lookup.
NoLeftoverObjcore ==
    \A s \in Sessions : step[s] \in {"LOOKUP", "WAITING"} => objcore[s] = None

\* The other assertions of cache_hash.c and cache_center.c that depend on
\* more than one thread: assert(oh->refcnt > 1) and assert(hash->deref(oh)) in
\* HSH_Lookup, AZ(HSH_Deref(objcore)) in cnt_miss and cnt_fetch, AN(oc->methods)
\* in HSH_Deref, AZ(sp->obj) and AssertObjCorePassOrBusy along the steps,
\* assert(!(flags & OC_F_PASS)) in cnt_hit, AZ(sp->wrk) in hsh_rush and
\* assert(VTAILQ_EMPTY) in HSH_DeleteObjHead.
AssertsHold ==
    /\ \A s \in Sessions :
          /\ hoh[s] # None => ohref[hoh[s]] > Len(objcs[hoh[s]])
          /\ step[s] = "HITREF" => ohref[hoh[s]] > 1
          /\ objcore[s] # None => refcnt[objcore[s]] = 1
          /\ step[s] \in {"IDLE", "RECV", "LOOKUP", "WAITING", "MISS", "PASS",
                          "ERROR", "DONE"} => obj[s] = None
          /\ step[s] \in {"BODY", "STREAMBODY", "UNBUSY", "DROP"} =>
                obj[s] \in busy \cup {PassObj}
          /\ step[s] = "HIT" => obj[s] \in hasobj \ (hfp \cup busy)
          /\ step[s] = "WAITING" <=> \E h \in Heads : s \in Elems(waiters[h])
    /\ \A c \in OCs : refcnt[c] > 1 => c \in hasobj
    /\ \A h \in Heads :
          ohref[h] = 0 => objcs[h] = <<>> /\ waiters[h] = <<>>

\* A session that will call HSH_Deref or HSH_Unbusy on the head h, or search it.
Waker(s, h) ==
    \/ hoh[s] = h /\ step[s] # "WAITING"
    \/ \E c \in {objcore[s], obj[s], parent[s]} \cap OCs : head[c] = h

\* No lost wake-up: whenever sessions are parked on a head some session or the
\* expiry thread is still going to come by and wake them.
WaiterHasWaker ==
    \A h \in Heads : waiters[h] # <<>> =>
        \/ \E s \in Sessions : Waker(s, h) \/ \E c \in purging[s] : head[c] = h
        \/ \E t \in Threads : taken[t] # None /\ head[taken[t]] = h

\* A count that has reached zero stays there until the objcore is freed: the
\* assert(oc->refcnt > 0) of HSH_Ref, for every way to take a reference.
ZeroIsFinal ==
    [][\A c \in alive : refcnt[c] = 0 => refcnt'[c] = 0]_vars

\* "The hash code to restart the session, still in STP_LOOKUP, later when the
\* busy object isn't": a parked session does not stay parked for ever.
WaitersRestart ==
    \A s \in Sessions : step[s] = "WAITING" ~> step[s] # "WAITING"

=============================================================================
