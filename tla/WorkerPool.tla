----------------------------- MODULE WorkerPool -----------------------------
(***************************************************************************)
(* The worker pools of cache_pool.c: threads that are idle or run a        *)
(* session, the queue of sessions for which no thread was idle, the herder *)
(* that makes threads and the herd timer that lets them go.                *)
(*                                                                         *)
(* A critical section under qp->mtx is one action.  What WRK_Queue does    *)
(* after it has let go of the lock, and what the herder reads without it,  *)
(* are actions of their own.  A condition variable holds no state: a       *)
(* signal wakes who waits at that moment and is lost otherwise.            *)
(***************************************************************************)
EXTENDS Naturals, Sequences, FiniteSets

CONSTANTS
    Workers,        \* worker threads that can exist at once
    Sessions,       \* struct sess
    Callers,        \* the other threads that queue sessions
    Pools,          \* wq[]
    ThreadMin,      \* params->wthread_min
    ThreadMax,      \* params->wthread_max
    QueuePercent,   \* params->queue_max
    AddThreshold,   \* params->wthread_add_threshold
    Prompt,         \* a thread that was told to go is gone after wthread_purge_delay
    NULL

Threads == Workers \cup Callers

\* nthr_max and queue_max as wrk_herdtimer_thread scales them.
nthr_max == IF ThreadMax < ThreadMin THEN ThreadMin ELSE ThreadMax
queue_max == (nthr_max * QueuePercent) \div 100

ASSUME PoolAssumption ==
    /\ IsFiniteSet(Workers)
    /\ Pools \subseteq Nat /\ \E n \in Pools : Pools = 0..n
    /\ ThreadMin \in Nat \ {0} /\ ThreadMax \in Nat
    /\ QueuePercent \in Nat /\ AddThreshold \in Nat
    /\ Prompt \in BOOLEAN
    /\ NULL \notin Workers \cup Sessions \cup Callers
    /\ Workers \cap Callers = {}

VARIABLES
    idle,       \* qp->idle
    queue,      \* qp->queue; its length is qp->lqueue
    nthr,       \* qp->nthr
    last_lqueue,
    wpc,        \* where a worker is
    wpool,      \* its pool
    wsp,        \* w->sp
    woken,      \* workers whose condition was signalled while they waited
    wrk,        \* sp->wrk
    call,       \* calls of WRK_Queue past the pool's lock, per thread
    herder,     \* the herder: where it is and which pool it looks at
    kissed      \* the worker the herd timer took off the idle list

poolVars == <<idle, queue, nthr, last_lqueue, wpc, wpool, wsp, woken, wrk,
              call, herder, kissed>>

NoCall == [pc |-> "none", sp |-> NULL, w |-> NULL]

FirstPool == CHOOSE p \in Pools : \A q \in Pools : p <= q
LastPool == CHOOSE p \in Pools : \A q \in Pools : q <= p
NextPool(p) == IF p = LastPool THEN FirstPool
               ELSE CHOOSE q \in Pools : q > p /\ \A r \in Pools : r > p => q <= r

PoolTypeOK ==
    /\ idle \in [Pools -> Seq(Workers)]
    /\ queue \in [Pools -> Seq(Sessions)]
    /\ nthr \in [Pools -> Nat]
    /\ last_lqueue \in [Pools -> Nat]
    /\ wpc \in [Workers -> {"none", "created", "idle", "start", "run", "return", "after"}]
    /\ wpool \in [Workers -> Pools]
    /\ wsp \in [Workers -> Sessions \cup {NULL}]
    /\ woken \subseteq Workers
    /\ wrk \in [Sessions -> Workers \cup {NULL}]
    /\ call \in [Threads -> [pc : {"none", "assign", "signal", "herd"},
                             sp : Sessions \cup {NULL}, w : Workers \cup {NULL}]]
    /\ herder \in [pc : {"breed", "breed_last", "min", "min_last", "sleep", "waiting"},
                   u : Pools, w : Pools]
    /\ kissed \in Workers \cup {NULL}

\* WRK_Init: pools without threads; the herder and the herd timer run.
PoolInit ==
    /\ idle = [p \in Pools |-> <<>>]
    /\ queue = [p \in Pools |-> <<>>]
    /\ nthr = [p \in Pools |-> 0]
    /\ last_lqueue = [p \in Pools |-> 0]
    /\ wpc = [w \in Workers |-> "none"]
    /\ wpool = [w \in Workers |-> FirstPool]
    /\ wsp = [w \in Workers |-> NULL]
    /\ woken = {}
    /\ wrk = [s \in Sessions |-> NULL]
    /\ call = [t \in Threads |-> NoCall]
    /\ herder = [pc |-> "breed", u |-> FirstPool, w |-> FirstPool]
    /\ kissed = NULL

-----------------------------------------------------------------------------
(***************************************************************************)
(* WRK_Queue.  The pool is chosen with a counter that threads update       *)
(* without a lock, so it may be any.                                       *)
(***************************************************************************)

\* An idle thread is taken off the list; it gets the session after the unlock.
WRK_Queue_tickle(t, s) ==
    /\ call[t] = NoCall
    /\ \E p \in Pools :
        /\ idle[p] # <<>>
        /\ idle' = [idle EXCEPT ![p] = Tail(@)]
        /\ call' = [call EXCEPT ![t] = [pc |-> "assign", sp |-> s, w |-> Head(idle[p])]]
    /\ UNCHANGED <<queue, nthr, last_lqueue, wpc, wpool, wsp, woken, wrk, herder, kissed>>

\* No thread is idle and the queue is not too long.
WRK_Queue_enqueue(t, s) ==
    /\ call[t] = NoCall
    /\ \E p \in Pools :
        /\ idle[p] = <<>>
        /\ Len(queue[p]) <= queue_max
        /\ queue' = [queue EXCEPT ![p] = Append(@, s)]
    /\ call' = [call EXCEPT ![t] = [pc |-> "herd", sp |-> NULL, w |-> NULL]]
    /\ UNCHANGED <<idle, nthr, last_lqueue, wpc, wpool, wsp, woken, wrk, herder, kissed>>

\* The queue is too long: WRK_Queue returns -1 and changes nothing.
WRK_Queue_refuse(t) ==
    /\ call[t] = NoCall
    /\ \E p \in Pools : idle[p] = <<>> /\ Len(queue[p]) > queue_max
    /\ UNCHANGED poolVars

WRK_Queue_assign(t) ==
    /\ call[t].pc = "assign"
    /\ wsp' = [wsp EXCEPT ![call[t].w] = call[t].sp]
    /\ call' = [call EXCEPT ![t].pc = "signal", ![t].sp = NULL]
    /\ UNCHANGED <<idle, queue, nthr, last_lqueue, wpc, wpool, woken, wrk, herder, kissed>>

\* What a worker waits for is that its condition is signalled.
Signal(w) == woken' = IF wpc[w] = "idle" THEN woken \cup {w} ELSE woken

WRK_Queue_signal(t) ==
    /\ call[t].pc = "signal"
    /\ Signal(call[t].w)
    /\ call' = [call EXCEPT ![t] = NoCall]
    /\ UNCHANGED <<idle, queue, nthr, last_lqueue, wpc, wpool, wsp, wrk, herder, kissed>>

\* pthread_cond_signal(&herder_cond): the herder goes on with the next pool.
WRK_Queue_herd(t) ==
    /\ call[t].pc = "herd"
    /\ herder' = IF herder.pc = "waiting"
                 THEN [pc |-> "breed", u |-> NextPool(herder.u), w |-> FirstPool]
                 ELSE herder
    /\ call' = [call EXCEPT ![t] = NoCall]
    /\ UNCHANGED <<idle, queue, nthr, last_lqueue, wpc, wpool, wsp, woken, wrk, kissed>>

-----------------------------------------------------------------------------
(***************************************************************************)
(* wrk_thread_real                                                         *)
(***************************************************************************)

\* Mutant: a thread that is done goes idle without a look at the queue.
LoopTop_noqueue(w, p) ==
    /\ wsp' = [wsp EXCEPT ![w] = NULL]
    /\ idle' = [idle EXCEPT ![p] = <<w>> \o @]
    /\ wpc' = [wpc EXCEPT ![w] = "idle"]
    /\ queue' = queue

\* The top of the loop, under the lock: a queued session or the idle list.
LoopTop(w, p) ==
    IF queue[p] # <<>>
    THEN /\ wsp' = [wsp EXCEPT ![w] = Head(queue[p])]
         /\ queue' = [queue EXCEPT ![p] = Tail(@)]
         /\ wpc' = [wpc EXCEPT ![w] = "start"]
         /\ idle' = idle
    ELSE /\ wsp' = [wsp EXCEPT ![w] = NULL]
         /\ idle' = [idle EXCEPT ![p] = <<w>> \o @]
         /\ wpc' = [wpc EXCEPT ![w] = "idle"]
         /\ queue' = queue

wrk_thread_start(w) ==
    /\ wpc[w] = "created"
    /\ nthr' = [nthr EXCEPT ![wpool[w]] = @ + 1]
    /\ LoopTop(w, wpool[w])
    /\ UNCHANGED <<last_lqueue, wpool, woken, wrk, call, herder, kissed>>

\* Lck_CondWait returns: without a session the thread ends.
wrk_thread_wakeup(w) ==
    /\ wpc[w] = "idle" /\ w \in woken
    /\ woken' = woken \ {w}
    /\ \/ /\ wsp[w] # NULL
          /\ wpc' = [wpc EXCEPT ![w] = "start"]
          /\ UNCHANGED <<nthr, wpool, kissed>>
       \/ /\ wsp[w] = NULL
          /\ nthr' = [nthr EXCEPT ![wpool[w]] = @ - 1]
          /\ wpc' = [wpc EXCEPT ![w] = "none"]
          /\ wpool' = [wpool EXCEPT ![w] = FirstPool]
          /\ kissed' = IF kissed = w THEN NULL ELSE kissed
    /\ UNCHANGED <<idle, queue, last_lqueue, wsp, wrk, call, herder>>

\* AZ(w->sp->wrk), then the session has this worker and CNT_Session runs.
wrk_thread_session(w) ==
    /\ wpc[w] = "start"
    /\ wrk' = [wrk EXCEPT ![wsp[w]] = w]
    /\ wpc' = [wpc EXCEPT ![w] = "run"]
    /\ UNCHANGED <<idle, queue, nthr, last_lqueue, wpool, wsp, woken, call, herder, kissed>>

\* CNT_Session has returned: the session is no longer this worker's.
wrk_thread_again(w) ==
    /\ wpc[w] = "after" /\ call[w] = NoCall
    /\ LoopTop(w, wpool[w])
    /\ UNCHANGED <<nthr, last_lqueue, wpool, woken, wrk, call, herder, kissed>>

-----------------------------------------------------------------------------
(***************************************************************************)
(* wrk_herder_thread.  It reads nthr and lqueue without the lock.  A       *)
(* thread counts in nthr when it runs, not when it is made.                *)
(***************************************************************************)

\* wrk_breed_flock up to its nap.  pthread_create fails if there is no room.
wrk_breed_flock(p) ==
    LET need == \/ nthr[p] < ThreadMin
                \/ Len(queue[p]) > AddThreshold /\ Len(queue[p]) > last_lqueue[p]
        free == {w \in Workers : wpc[w] = "none"}
    IN  IF need /\ nthr[p] < nthr_max /\ free # {}
        THEN \E w \in free :
                /\ wpc' = [wpc EXCEPT ![w] = "created"]
                /\ wpool' = [wpool EXCEPT ![w] = p]
        ELSE UNCHANGED <<wpc, wpool>>

herder_breed ==
    /\ herder.pc = "breed"
    /\ wrk_breed_flock(herder.u)
    /\ herder' = [herder EXCEPT !.pc = "breed_last"]
    /\ UNCHANGED <<idle, queue, nthr, last_lqueue, wsp, woken, wrk, call, kissed>>

\* After the nap: qp->last_lqueue = qp->lqueue.
herder_last ==
    /\ herder.pc \in {"breed_last", "min_last"}
    /\ LET p == IF herder.pc = "breed_last" THEN herder.u ELSE herder.w IN
        last_lqueue' = [last_lqueue EXCEPT ![p] = Len(queue[p])]
    /\ herder' = [herder EXCEPT !.pc = "min"]
    /\ UNCHANGED <<idle, queue, nthr, wpc, wpool, wsp, woken, wrk, call, kissed>>

\* Make sure that every pool has its minimum.
herder_min ==
    /\ herder.pc = "min"
    /\ \/ /\ nthr[herder.w] < ThreadMin
          /\ wrk_breed_flock(herder.w)
          /\ herder' = [herder EXCEPT !.pc = "min_last"]
       \/ /\ nthr[herder.w] >= ThreadMin
          /\ herder' = IF herder.w = LastPool THEN [herder EXCEPT !.pc = "sleep"]
                       ELSE [herder EXCEPT !.w = NextPool(@)]
          /\ UNCHANGED <<wpc, wpool>>
    /\ UNCHANGED <<idle, queue, nthr, last_lqueue, wsp, woken, wrk, call, kissed>>

herder_wait ==
    /\ herder.pc = "sleep"
    /\ herder' = [herder EXCEPT !.pc = "waiting"]
    /\ UNCHANGED <<idle, queue, nthr, last_lqueue, wpc, wpool, wsp, woken, wrk, call, kissed>>

(***************************************************************************)
(* wrk_decimate_flock.  The thread idle for longest goes, if it was idle   *)
(* for long enough or there are too many.  It is signalled after the       *)
(* unlock, and still counts in nthr until it has run.  With Prompt, it has *)
(* run before the herd timer's nap ends.                                   *)
(***************************************************************************)
wrk_decimate_flock(p) ==
    /\ kissed = NULL
    /\ nthr[p] > ThreadMin
    /\ idle[p] # <<>>
    /\ LET n == Len(idle[p]) IN
        /\ kissed' = idle[p][n]
        /\ idle' = [idle EXCEPT ![p] = SubSeq(@, 1, n - 1)]
    /\ UNCHANGED <<queue, nthr, last_lqueue, wpc, wpool, wsp, woken, wrk, call, herder>>

wrk_decimate_kiss ==
    /\ kissed # NULL /\ kissed \notin woken
    /\ Signal(kissed)
    /\ kissed' = IF Prompt THEN kissed ELSE NULL
    /\ UNCHANGED <<idle, queue, nthr, last_lqueue, wpc, wpool, wsp, wrk, call, herder>>

WorkerStep(w) == wrk_thread_start(w) \/ wrk_thread_wakeup(w)
                 \/ wrk_thread_session(w) \/ wrk_thread_again(w)
CallStep(t) == WRK_Queue_assign(t) \/ WRK_Queue_signal(t) \/ WRK_Queue_herd(t)
HerderStep == herder_breed \/ herder_last \/ herder_min \/ herder_wait
TimerStep == wrk_decimate_kiss \/ \E p \in Pools : wrk_decimate_flock(p)

PoolStep == \/ \E w \in Workers : WorkerStep(w)
            \/ \E t \in Threads : CallStep(t)
            \/ HerderStep \/ TimerStep
=============================================================================
