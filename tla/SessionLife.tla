----------------------------- MODULE SessionLife -----------------------------
(***************************************************************************)
(* The life of a client session between the threads of the cache process:  *)
(* session memory (cache_session.c), the acceptor (cache_acceptor.c), the  *)
(* worker pools (WorkerPool), the waiter that keeps idle connections       *)
(* (cache_waiter_*.c), and the points of the state engine where a session  *)
(* leaves its worker (cache_center.c).                                     *)
(*                                                                         *)
(* A session is owned by one thread at a time, or sits on one list; what   *)
(* it does while a worker runs it is in ObjCache.                          *)
(***************************************************************************)
EXTENDS WorkerPool, SequencesExt

CONSTANTS
    acceptor, waiter,   \* the two threads that queue sessions beside the workers
    Waiters,            \* the waiters that may be configured, of {"epoll", "poll", "kqueue", "ports"}
    MaxSess,            \* params->max_sess
    PipeSize            \* sessions that fit in vca_pipes

ASSUME SessionAssumption ==
    /\ Callers = {acceptor, waiter} /\ acceptor # waiter
    /\ IsFiniteSet(Sessions)
    /\ Waiters \subseteq {"epoll", "poll", "kqueue", "ports"}
    /\ MaxSess \in Nat /\ PipeSize \in Nat

VARIABLES
    vca_act,        \* the configured waiter
    ses_qp,         \* which list of free memory is the acceptor's
    ses_free_mem,   \* the two lists
    ses_mem_mtx,    \* who has the lock and the list that thread inserts into
    n_sess_mem,     \* VSC_C_main->n_sess_mem
    apc,            \* where the acceptor is, and the session it has
    del,            \* calls of SES_Delete, per thread
    pipe,           \* sessions between vca_return_session and the waiter
    sesshead,       \* the waiter's list
    armed,          \* sessions whose socket the kernel watches for the waiter
    pending,        \* kqueue: sessions with a change in ki[]
    old,            \* sessions idle for longer than sess_timeout
    parked          \* sessions on the waiting list of a busy object

sessVars == <<vca_act, ses_qp, ses_free_mem, ses_mem_mtx, n_sess_mem, apc, del,
              pipe, sesshead, armed, pending, old, parked>>
vars == <<poolVars, sessVars>>

NoLock == [t |-> NULL, list |-> 0]
NoDel == [pc |-> "none", sp |-> NULL]

-----------------------------------------------------------------------------
Free == ses_free_mem[0] \cup ses_free_mem[1]
InHand(t) == {call[t].sp, del[t].sp} \ {NULL}
\* A worker has the session it waits to start, runs or is giving up.
Run(w) == IF wpc[w] \in {"start", "run", "return"} THEN {wsp[w]} ELSE
          IF wpc[w] = "idle" THEN {wsp[w]} \ {NULL} ELSE {}
InUse ==
    (UNION {ToSet(queue[p]) : p \in Pools}) \cup ToSet(pipe) \cup ToSet(sesshead)
    \cup parked \cup ({apc.sp} \ {NULL})
    \cup (UNION {InHand(t) : t \in Threads}) \cup (UNION {Run(w) : w \in Workers})
\* Addresses malloc can return.
Unallocated == Sessions \ (Free \cup InUse)

SessInit ==
    /\ vca_act \in Waiters
    /\ ses_qp = 0
    /\ ses_free_mem = [i \in 0..1 |-> {}]
    /\ ses_mem_mtx = NoLock
    /\ n_sess_mem = 0
    /\ apc = [pc |-> "accept", sp |-> NULL]
    /\ del = [t \in Threads |-> NoDel]
    /\ pipe = <<>> /\ sesshead = <<>>
    /\ armed = {} /\ pending = {} /\ old = {} /\ parked = {}

Init == PoolInit /\ SessInit

-----------------------------------------------------------------------------
(***************************************************************************)
(* SES_Delete.  The memory goes to the list that is not the acceptor's, or *)
(* is freed if the parameter sess_workspace has changed; then the caller   *)
(* may make a spare one.  The test of n_sess_mem in ses_sm_alloc is not    *)
(* under the lock that guards its increment.                               *)
(***************************************************************************)

\* The session is closed and its thread is in SES_Delete.
Delete(t, s) == del' = [del EXCEPT ![t] = [pc |-> "delete", sp |-> s]]

\* Afterwards: precreate a sessmem, or not, because there are enough, max_sess is
\* reached, or malloc failed.
Spare(t) ==
    \/ /\ n_sess_mem' < MaxSess
       /\ \E s \in Unallocated \cup ({del[t].sp} \ Free') :
            del' = [del EXCEPT ![t] = [pc |-> "spare", sp |-> s]]
    \/ del' = [del EXCEPT ![t] = NoDel]

SES_Delete_free(t) ==
    /\ del[t].pc = "delete"
    /\ n_sess_mem' = n_sess_mem - 1
    /\ UNCHANGED <<poolVars, vca_act, ses_qp, ses_free_mem, ses_mem_mtx, apc, pipe,
                   sesshead, armed, pending, old, parked>>
    /\ Spare(t)

\* Mutant: insert into the acceptor's list.
SES_Delete_lock_samelist(t) ==
    /\ del[t].pc \in {"delete", "spare"}
    /\ ses_mem_mtx = NoLock
    /\ ses_mem_mtx' = [t |-> t, list |-> ses_qp]
    /\ n_sess_mem' = IF del[t].pc = "spare" THEN n_sess_mem + 1 ELSE n_sess_mem
    /\ del' = [del EXCEPT ![t].pc = IF @ = "delete" THEN "insert" ELSE "spare_insert"]
    /\ UNCHANGED <<poolVars, vca_act, ses_qp, ses_free_mem, apc, pipe, sesshead, armed,
                   pending, old, parked>>

\* Lck_Lock(&ses_mem_mtx) and the choice of the list; a new sessmem is counted.
SES_Delete_lock(t) ==
    /\ del[t].pc \in {"delete", "spare"}
    /\ ses_mem_mtx = NoLock
    /\ ses_mem_mtx' = [t |-> t, list |-> 1 - ses_qp]
    /\ n_sess_mem' = IF del[t].pc = "spare" THEN n_sess_mem + 1 ELSE n_sess_mem
    /\ del' = [del EXCEPT ![t].pc = IF @ = "delete" THEN "insert" ELSE "spare_insert"]
    /\ UNCHANGED <<poolVars, vca_act, ses_qp, ses_free_mem, apc, pipe, sesshead, armed,
                   pending, old, parked>>

SES_Delete_insert(t) ==
    /\ del[t].pc \in {"insert", "spare_insert"}
    /\ ses_free_mem' = [ses_free_mem EXCEPT ![ses_mem_mtx.list] = @ \cup {del[t].sp}]
    /\ ses_mem_mtx' = NoLock
    /\ UNCHANGED <<poolVars, vca_act, ses_qp, n_sess_mem, apc, pipe, sesshead, armed,
                   pending, old, parked>>
    /\ IF del[t].pc = "insert" THEN Spare(t) ELSE del' = [del EXCEPT ![t] = NoDel]

SES_Delete(t) == SES_Delete_free(t) \/ SES_Delete_lock(t) \/ SES_Delete_insert(t)

-----------------------------------------------------------------------------
(***************************************************************************)
(* WRK_QueueSession: the session goes to a pool, or is closed and deleted. *)
(***************************************************************************)
WRK_QueueSession(t, s) ==
    \/ (WRK_Queue_tickle(t, s) \/ WRK_Queue_enqueue(t, s)) /\ del' = del
    \/ WRK_Queue_refuse(t) /\ Delete(t, s)

\* A thread that is done with its calls of the other modules.
Ready(t) == call[t] = NoCall /\ del[t] = NoDel

-----------------------------------------------------------------------------
(***************************************************************************)
(* The acceptor: vca_acct and SES_New.  It takes memory off its own list   *)
(* without a lock.                                                         *)
(***************************************************************************)
acceptRest == <<vca_act, n_sess_mem, del, pipe, sesshead, armed, pending, old, parked>>

\* accept(2), and SES_New up to the choice of a sessmem.
vca_accept ==
    /\ apc.pc = "accept" /\ Ready(acceptor)
    /\ \/ \E s \in ses_free_mem[ses_qp] : apc' = [pc |-> "remove", sp |-> s]
       \/ ses_free_mem[ses_qp] = {} /\ apc' = [pc |-> "flip", sp |-> NULL]
    /\ UNCHANGED <<poolVars, ses_qp, ses_free_mem, ses_mem_mtx, acceptRest>>

\* Flip the lists with the lock held, and look at the new one.
SES_New_flip ==
    /\ apc.pc = "flip"
    /\ ses_mem_mtx = NoLock
    /\ ses_qp' = 1 - ses_qp
    /\ \/ \E s \in ses_free_mem[1 - ses_qp] : apc' = [pc |-> "remove", sp |-> s]
       \/ ses_free_mem[1 - ses_qp] = {} /\ apc' = [pc |-> "alloc", sp |-> NULL]
    /\ UNCHANGED <<poolVars, ses_free_mem, ses_mem_mtx, acceptRest>>

SES_New_remove ==
    /\ apc.pc = "remove"
    /\ ses_free_mem' = [ses_free_mem EXCEPT ![ses_qp] = @ \ {apc.sp}]
    /\ apc' = [apc EXCEPT !.pc = "queue"]
    /\ UNCHANGED <<poolVars, ses_qp, ses_mem_mtx, acceptRest>>

\* ses_sm_alloc, or no memory: the connection is closed and dropped.
SES_New_alloc ==
    /\ apc.pc = "alloc"
    /\ \/ /\ n_sess_mem < MaxSess
          /\ \E s \in Unallocated : apc' = [pc |-> "count", sp |-> s]
       \/ apc' = [pc |-> "accept", sp |-> NULL]
    /\ UNCHANGED <<poolVars, ses_qp, ses_free_mem, ses_mem_mtx, acceptRest>>

SES_New_count ==
    /\ apc.pc = "count"
    /\ n_sess_mem' = n_sess_mem + 1
    /\ apc' = [apc EXCEPT !.pc = "queue"]
    /\ UNCHANGED <<poolVars, vca_act, ses_qp, ses_free_mem, ses_mem_mtx, del, pipe,
                   sesshead, armed, pending, old, parked>>

vca_acct_queue ==
    /\ apc.pc = "queue"
    /\ WRK_QueueSession(acceptor, apc.sp)
    /\ apc' = [pc |-> "accept", sp |-> NULL]
    /\ UNCHANGED <<vca_act, ses_qp, ses_free_mem, ses_mem_mtx, n_sess_mem, pipe, sesshead,
                   armed, pending, old, parked>>

Acceptor == \/ vca_accept \/ SES_New_flip \/ SES_New_remove
            \/ SES_New_alloc \/ SES_New_count \/ vca_acct_queue

-----------------------------------------------------------------------------
(***************************************************************************)
(* Where the state engine gives up a session.  sp->wrk is cleared first:   *)
(* from then on another worker may get the session.                        *)
(***************************************************************************)
workRest == <<vca_act, ses_qp, ses_free_mem, ses_mem_mtx, n_sess_mem, apc, sesshead,
              armed, pending>>
poolRest == <<idle, queue, nthr, last_lqueue, wpool, wsp, woken, call, herder, kissed>>

\* Mutant: sp->wrk is not cleared.
cnt_wait_herd_keepwrk(w) ==
    /\ wpc[w] = "run" /\ Ready(w)
    /\ wpc' = [wpc EXCEPT ![w] = "return"]
    /\ UNCHANGED <<poolRest, wrk, workRest, del, pipe, old, parked>>

\* cnt_wait, or cnt_done: no complete request yet, the session goes to the waiter.
cnt_wait_herd(w) ==
    /\ wpc[w] = "run" /\ Ready(w)
    /\ wrk' = [wrk EXCEPT ![wsp[w]] = NULL]
    /\ wpc' = [wpc EXCEPT ![w] = "return"]
    /\ UNCHANGED <<poolRest, workRest, del, pipe, old, parked>>

\* Mutant: a full pipe is not noticed.
vca_return_session_noverflow(w) ==
    /\ wpc[w] = "return" /\ Ready(w)
    /\ wpc' = [wpc EXCEPT ![w] = "after"]
    /\ pipe' = IF Len(pipe) < PipeSize THEN Append(pipe, wsp[w]) ELSE pipe
    /\ old' = old \ {wsp[w]}
    /\ UNCHANGED <<poolRest, wrk, workRest, parked, del>>

\* The pipe takes the session; or the socket is bad or the pipe full, and it is closed.
vca_return_session(w) ==
    /\ wpc[w] = "return" /\ Ready(w)
    /\ wpc' = [wpc EXCEPT ![w] = "after"]
    /\ \/ Len(pipe) < PipeSize /\ pipe' = Append(pipe, wsp[w]) /\ del' = del
       \/ Delete(w, wsp[w]) /\ pipe' = pipe
    /\ old' = old \ {wsp[w]}
    /\ UNCHANGED <<poolRest, wrk, workRest, parked>>

\* cnt_done: the connection is closed.
cnt_done_close(w) ==
    /\ wpc[w] = "run" /\ Ready(w)
    /\ wrk' = [wrk EXCEPT ![wsp[w]] = NULL]
    /\ wpc' = [wpc EXCEPT ![w] = "after"]
    /\ Delete(w, wsp[w])
    /\ UNCHANGED <<poolRest, workRest, pipe, old, parked>>

\* HSH_Lookup puts the session on a waiting list and cnt_lookup returns.
HSH_Lookup_park(w) ==
    /\ wpc[w] = "run" /\ Ready(w)
    /\ wrk' = [wrk EXCEPT ![wsp[w]] = NULL]
    /\ wpc' = [wpc EXCEPT ![w] = "after"]
    /\ parked' = parked \cup {wsp[w]}
    /\ UNCHANGED <<poolRest, workRest, del, pipe, old>>

\* A running session completes an object: hsh_rush queues a parked one.
hsh_rush(w) ==
    /\ wpc[w] = "run" /\ Ready(w)
    /\ \E s \in parked :
        /\ parked' = parked \ {s}
        /\ WRK_QueueSession(w, s)
    /\ UNCHANGED <<workRest, pipe, old>>

Engine(w) == \/ cnt_wait_herd(w) \/ cnt_done_close(w) \/ HSH_Lookup_park(w)

-----------------------------------------------------------------------------
(***************************************************************************)
(* The waiters.  Only the waiter's thread looks at sesshead.  An event is  *)
(* input from the client (HTC_Rx completes the request, needs more, or     *)
(* fails) or the end of the connection.                                    *)
(***************************************************************************)
waitRest == <<vca_act, ses_qp, ses_free_mem, ses_mem_mtx, n_sess_mem, apc, parked>>

\* The list q after VTAILQ_REMOVE of s.
Without(q, s) == RemoveAt(q, CHOOSE i \in DOMAIN q : q[i] = s)

\* VTAILQ_REMOVE from sesshead and vca_handover: to a pool, or closed.
vca_handover(s) ==
    /\ sesshead' = Without(sesshead, s)
    /\ old' = old \ {s}
    /\ pipe' = pipe
    /\ \/ WRK_QueueSession(waiter, s)
       \/ Delete(waiter, s) /\ UNCHANGED poolVars

\* VTAILQ_REMOVE, vca_close_session and SES_Delete.
vca_hangup(s) ==
    /\ sesshead' = Without(sesshead, s)
    /\ old' = old \ {s}
    /\ Delete(waiter, s)
    /\ UNCHANGED <<poolVars, pipe>>

\* Everything in the pipe is read and watched.
vca_eev_pipe ==
    /\ pipe # <<>>
    /\ sesshead' = sesshead \o pipe
    /\ armed' = armed \cup ToSet(pipe)
    /\ pipe' = <<>>
    /\ UNCHANGED <<poolVars, del, pending, old>>

\* epoll: an event comes once and disarms (EPOLLONESHOT); if more input is needed
\* the session is armed again.
vca_eev ==
    \/ vca_eev_pipe
    \/ \E s \in armed :
        /\ armed' = armed \ {s}
        /\ pending' = pending
        /\ vca_handover(s) \/ vca_hangup(s)

\* The oldest session is at the head, and the only one looked at.
vca_timeout ==
    /\ sesshead # <<>> /\ Head(sesshead) \in old
    /\ armed' = armed \ {Head(sesshead)}
    /\ pending' = pending
    /\ vca_hangup(Head(sesshead))

\* kqueue: what is to be watched is collected in ki[] for the next kevent(2).
vca_kq_flush ==
    /\ pending # {}
    /\ armed' = armed \cup pending
    /\ pending' = {}
    /\ UNCHANGED <<poolVars, del, pipe, sesshead, old>>

vca_kev_pipe ==
    /\ pipe # <<>>
    /\ sesshead' = sesshead \o pipe
    /\ pending' = pending \cup ToSet(pipe)
    /\ pipe' = <<>>
    /\ UNCHANGED <<poolVars, del, armed, old>>

\* An event without data that is no EOF is only logged: nothing watches that session now.
vca_kev ==
    \/ vca_kev_pipe
    \/ \E s \in armed :
        /\ armed' = armed \ {s}
        /\ \/ pending' = pending /\ (vca_handover(s) \/ vca_hangup(s))
           \/ /\ pending' \in {pending, pending \cup {s}}
              /\ UNCHANGED <<poolVars, del, pipe, sesshead, old>>

\* Mutant: pending changes are not flushed.
vca_kqueue_timeout_noflush ==
    /\ sesshead # <<>> /\ Head(sesshead) \in old
    /\ armed' = armed \ {Head(sesshead)}
    /\ pending' = pending
    /\ vca_hangup(Head(sesshead))

\* No change may be pending for a socket that is about to be closed.
vca_kqueue_timeout ==
    /\ sesshead # <<>> /\ Head(sesshead) \in old
    /\ armed' = (armed \cup pending) \ {Head(sesshead)}
    /\ pending' = {}
    /\ vca_hangup(Head(sesshead))

\* poll: every session on the list is looked at; one that needs more goes to the front.
vca_poll_main ==
    \/ vca_eev_pipe
    \/ \E s \in armed :
        \/ armed' = armed \ {s} /\ pending' = pending /\ vca_handover(s)
        \/ /\ sesshead' = <<s>> \o Without(sesshead, s)
           /\ UNCHANGED <<poolVars, del, pipe, old, armed, pending>>

vca_poll_timeout ==
    \E s \in armed \cap old :
        /\ armed' = armed \ {s} /\ pending' = pending
        /\ vca_hangup(s)

\* ports: sessions come one at a time, by port_send.
vca_port_ev ==
    \/ /\ pipe # <<>>
       /\ sesshead' = Append(sesshead, Head(pipe))
       /\ armed' = armed \cup {Head(pipe)}
       /\ pipe' = Tail(pipe)
       /\ UNCHANGED <<poolVars, del, pending, old>>
    \/ \E s \in armed :
        /\ armed' = armed \ {s} /\ pending' = pending
        /\ vca_handover(s) \/ vca_hangup(s)

WaiterEvent ==
    /\ Ready(waiter)
    /\ \/ vca_act = "epoll" /\ vca_eev
       \/ vca_act = "kqueue" /\ (vca_kev \/ vca_kq_flush)
       \/ vca_act = "poll" /\ vca_poll_main
       \/ vca_act = "ports" /\ vca_port_ev
    /\ UNCHANGED waitRest

WaiterTimeout ==
    /\ Ready(waiter)
    /\ \/ vca_act \in {"epoll", "ports"} /\ vca_timeout
       \/ vca_act = "kqueue" /\ vca_kqueue_timeout
       \/ vca_act = "poll" /\ vca_poll_timeout
    /\ UNCHANGED waitRest

\* A session the waiter has gets older than sess_timeout.
Age(s) ==
    /\ s \in ToSet(sesshead) \ old
    /\ old' = old \cup {s}
    /\ UNCHANGED <<poolVars, vca_act, ses_qp, ses_free_mem, ses_mem_mtx, n_sess_mem, apc,
                   del, pipe, sesshead, armed, pending, parked>>

-----------------------------------------------------------------------------
\* A worker goes back to its pool when its calls are done.
PoolNext ==
    /\ PoolStep
    /\ \A w \in Workers : wpc[w] = "after" /\ wpc'[w] # "after" => del[w] = NoDel
    /\ UNCHANGED sessVars

Next ==
    \/ PoolNext
    \/ Acceptor
    \/ \E w \in Workers : Engine(w) \/ vca_return_session(w) \/ hsh_rush(w)
    \/ \E t \in Threads : SES_Delete(t)
    \/ WaiterEvent \/ WaiterTimeout
    \/ \E s \in Sessions : Age(s)

Spec == Init /\ [][Next]_vars

-----------------------------------------------------------------------------
TypeOK ==
    /\ PoolTypeOK
    /\ vca_act \in Waiters /\ ses_qp \in 0..1
    /\ ses_free_mem \in [0..1 -> SUBSET Sessions]
    /\ ses_mem_mtx \in [t : Threads \cup {NULL}, list : 0..1]
    /\ n_sess_mem \in Nat
    /\ apc \in [pc : {"accept", "flip", "remove", "alloc", "count", "queue"},
                sp : Sessions \cup {NULL}]
    /\ del \in [Threads -> [pc : {"none", "delete", "insert", "spare", "spare_insert"},
                            sp : Sessions \cup {NULL}]]
    /\ pipe \in Seq(Sessions) /\ sesshead \in Seq(Sessions)
    /\ armed \subseteq Sessions /\ pending \subseteq Sessions
    /\ old \subseteq Sessions /\ parked \subseteq Sessions

\* How many places hold a session: the lengths of all lists and the sessions in hand.
Places ==
    Cardinality(ses_free_mem[0]) + Cardinality(ses_free_mem[1])
    + Cardinality(UNION {{p} \X DOMAIN queue[p] : p \in Pools})
    + Len(pipe) + Len(sesshead) + Cardinality(parked)
    + (IF apc.pc \in {"count", "queue"} THEN 1 ELSE 0)
    + Cardinality({t \in Threads : call[t].sp # NULL})
    + Cardinality({t \in Threads : del[t].sp # NULL})
    + Cardinality({w \in Workers : Run(w) # {}})

(***************************************************************************)
(* A session is in one place only, whichever thread queues, parks, times   *)
(* out or deletes it, and no session's memory is lost: n_sess_mem counts   *)
(* the sessions that are somewhere.                                        *)
(***************************************************************************)
OnePlace ==
    /\ Places = Cardinality(Free \cup InUse)
    /\ n_sess_mem = Places - Cardinality({t \in Threads : del[t].pc = "spare"})
                    - (IF apc.pc = "count" THEN 1 ELSE 0)

(***************************************************************************)
(* The acceptor takes memory from its list without a lock while others     *)
(* insert into the other one: they never work on the same list.            *)
(***************************************************************************)
OwnFreeList ==
    apc.pc = "remove" => /\ apc.sp \in ses_free_mem[ses_qp]
                         /\ ses_mem_mtx # NoLock => ses_mem_mtx.list # ses_qp

(***************************************************************************)
(* A thread on an idle list waits, and has no session: w->sp is written    *)
(* after the lock is released, by the one thread that took it off the      *)
(* list, and nobody kissed by the herd timer gets one (AZ(w->sp)).  A      *)
(* session that a worker is about to run has no other (AZ(w->sp->wrk)).    *)
(* nthr counts the running threads, and, once the herder has been round,   *)
(* the pool never has fewer than its minimum.                              *)
(***************************************************************************)
PoolSound ==
    /\ \A p \in Pools : \A k \in 1..Len(idle[p]) :
        LET w == idle[p][k] IN
            wpc[w] = "idle" /\ w \notin woken /\ wsp[w] = NULL /\ wpool[w] = p
    /\ kissed # NULL => wsp[kissed] = NULL
    /\ \A w \in Workers : wpc[w] = "start" => wrk[wsp[w]] = NULL
    /\ \A p \in Pools :
        /\ nthr[p] = Cardinality({w \in Workers : wpool[w] = p
                                                  /\ wpc[w] \notin {"none", "created"}})
        /\ Prompt /\ herder.pc = "waiting" => nthr[p] >= ThreadMin

(***************************************************************************)
(* An event the kernel may deliver is for a session on the waiter's list:  *)
(* one that was handed over or closed, whose descriptor may be another     *)
(* client's by now, is not watched and has no change pending.              *)
(***************************************************************************)
WatchedIsListed == armed \cup pending \subseteq ToSet(sesshead)

(***************************************************************************)
(* A session is queued because no thread was idle, and the signal that     *)
(* tells the herder may be lost: while it is queued, some thread of its    *)
(* pool is at work or about to start, so that it comes by the queue again, *)
(* or the herder is on its way to make one.                                *)
(***************************************************************************)
QueuedHasServer ==
    \A p \in Pools : queue[p] # <<>> =>
        /\ idle[p] = <<>>
        /\ \/ \E w \in Workers : wpool[w] = p /\ wpc[w] \notin {"none", "idle"}
           \/ \E w \in Workers : wpool[w] = p /\ wsp[w] # NULL
           \/ \E t \in Threads : call[t].pc = "assign" /\ wpool[call[t].w] = p
           \/ nthr[p] < ThreadMin /\ herder.pc \notin {"sleep", "waiting"}
=============================================================================
