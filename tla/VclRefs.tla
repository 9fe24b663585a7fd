------------------------------- MODULE VclRefs -------------------------------
(***************************************************************************)
(* VCL programs and the references to them: cache_vcl.c, and the points of *)
(* cache_center.c and cache_pool.c where a worker takes, caches, parks and *)
(* releases a reference.                                                   *)
(*                                                                         *)
(* All changes of the list of VCLs are made by the CLI thread; workers     *)
(* only take and release references, under vcl_mtx.                        *)
(***************************************************************************)
EXTENDS Naturals, FiniteSets, SequencesExt

CONSTANTS
    Workers,    \* worker threads
    Vcls,       \* addresses of struct vcls; each stands for one VCL file
    MaxParked,  \* bound: sessions that wait for busy objects
    NULL

ASSUME RefAssumption ==
    /\ IsFiniteSet(Workers) /\ IsFiniteSet(Vcls)
    /\ NULL \notin Vcls

VARIABLES
    vcl_head,   \* the list, in order of loading
    vcl,        \* per address: "none", "avail", "discard", "fini", or "failed"
    busy,       \* conf->busy
    vcl_active,
    wvcl,       \* wrk->vcl, the reference a worker keeps between requests
    svcl,       \* sp->vcl of the session the worker runs
    wpc,        \* worker: "idle", "get" in VCL_Refresh, or "run"
    parked      \* references of sessions on waiting lists, per VCL

refVars == <<vcl_head, vcl, busy, vcl_active, wvcl, svcl, wpc, parked>>

RefInit ==
    /\ vcl_head = <<>>
    /\ vcl = [v \in Vcls |-> "none"]
    /\ busy = [v \in Vcls |-> 0]
    /\ vcl_active = NULL
    /\ wvcl = [w \in Workers |-> NULL]
    /\ svcl = [w \in Workers |-> NULL]
    /\ wpc = [w \in Workers |-> "idle"]
    /\ parked = [v \in Vcls |-> 0]

listVars == <<vcl_head, vcl, vcl_active>>

\* VTAILQ_REMOVE: the list q without its entry v.
Without(q, v) == RemoveAt(q, CHOOSE i \in DOMAIN q : q[i] = v)

-----------------------------------------------------------------------------
(***************************************************************************)
(* Workers.                                                                *)
(***************************************************************************)
\* VCL_Rel of one reference to v.
VCL_Rel(v) == busy' = [busy EXCEPT ![v] = @ - 1]

\* Mutant: VCL_Refresh gives the reference up and goes on using the VCL.
VCL_Refresh_same_rel(w) ==
    /\ wpc[w] = "idle"
    /\ wvcl[w] # NULL /\ wvcl[w] = vcl_active
    /\ svcl' = [svcl EXCEPT ![w] = wvcl[w]]
    /\ wvcl' = [wvcl EXCEPT ![w] = NULL]
    /\ wpc' = [wpc EXCEPT ![w] = "run"]
    /\ VCL_Rel(wvcl[w])
    /\ UNCHANGED <<listVars, parked>>

\* cnt_start, when the worker's VCL is the active one, a test without the lock.
VCL_Refresh_same(w) ==
    /\ wpc[w] = "idle"
    /\ wvcl[w] # NULL /\ wvcl[w] = vcl_active
    /\ svcl' = [svcl EXCEPT ![w] = wvcl[w]]
    /\ wvcl' = [wvcl EXCEPT ![w] = NULL]
    /\ wpc' = [wpc EXCEPT ![w] = "run"]
    /\ UNCHANGED <<listVars, busy, parked>>

\* cnt_start, when it is not: give up the reference, then take one to the active VCL.
VCL_Refresh_rel(w) ==
    /\ wpc[w] = "idle" /\ wvcl[w] \notin {NULL, vcl_active}
    /\ VCL_Rel(wvcl[w])
    /\ wvcl' = [wvcl EXCEPT ![w] = NULL]
    /\ wpc' = [wpc EXCEPT ![w] = "get"]
    /\ UNCHANGED <<listVars, svcl, parked>>

\* The first request waits for a VCL to become active.
VCL_Get(w) ==
    /\ wpc[w] \in {"idle", "get"} /\ wvcl[w] = NULL /\ vcl_active # NULL
    /\ busy' = [busy EXCEPT ![vcl_active] = @ + 1]
    /\ svcl' = [svcl EXCEPT ![w] = vcl_active]
    /\ wpc' = [wpc EXCEPT ![w] = "run"]
    /\ UNCHANGED <<listVars, wvcl, parked>>

\* The session waits for a busy object, with its reference; its worker goes on.
HSH_Lookup_park(w) ==
    /\ wpc[w] = "run" /\ MapThenSumSet(LAMBDA v : parked[v], Vcls) < MaxParked
    /\ parked' = [parked EXCEPT ![svcl[w]] = @ + 1]
    /\ svcl' = [svcl EXCEPT ![w] = NULL]
    /\ wpc' = [wpc EXCEPT ![w] = "idle"]
    /\ UNCHANGED <<listVars, busy, wvcl>>

\* Another worker, with a reference of its own perhaps, takes the session on.
Resume(w, v) ==
    /\ wpc[w] = "idle" /\ parked[v] > 0
    /\ parked' = [parked EXCEPT ![v] = @ - 1]
    /\ svcl' = [svcl EXCEPT ![w] = v]
    /\ wpc' = [wpc EXCEPT ![w] = "run"]
    /\ UNCHANGED <<listVars, busy, wvcl>>

\* WRK_QueueSession drops a parked session because the queue is full.
WRK_QueueSession_drop(v) ==
    /\ parked[v] > 0
    /\ parked' = [parked EXCEPT ![v] = @ - 1]
    /\ VCL_Rel(v)
    /\ UNCHANGED <<listVars, wvcl, svcl, wpc>>

\* cnt_done: the worker keeps the session's reference in place of its own.
cnt_done(w) ==
    /\ wpc[w] = "run"
    /\ IF wvcl[w] # NULL THEN VCL_Rel(wvcl[w]) ELSE UNCHANGED busy
    /\ wvcl' = [wvcl EXCEPT ![w] = svcl[w]]
    /\ svcl' = [svcl EXCEPT ![w] = NULL]
    /\ wpc' = [wpc EXCEPT ![w] = "idle"]
    /\ UNCHANGED <<listVars, parked>>

\* The thread ends (or diag_bitmap 0x00040000 is set) and releases its VCL.
wrk_thread_end(w) ==
    /\ wpc[w] = "idle" /\ wvcl[w] # NULL
    /\ VCL_Rel(wvcl[w])
    /\ wvcl' = [wvcl EXCEPT ![w] = NULL]
    /\ UNCHANGED <<listVars, svcl, wpc, parked>>

RefStep(w) ==
    \/ VCL_Refresh_same(w) \/ VCL_Refresh_rel(w) \/ VCL_Get(w)
    \/ HSH_Lookup_park(w) \/ wrk_thread_end(w)
    \/ \E v \in Vcls : Resume(w, v)

-----------------------------------------------------------------------------
(***************************************************************************)
(* What the CLI thread does with the list.  What a program's init_vcl and  *)
(* fini_vcl do to backends is in Backend.                                  *)
(***************************************************************************)
\* The end of VCL_Load: the program is initialised.
VCL_Load_done(v) ==
    /\ vcl_head' = Append(vcl_head, v)
    /\ vcl' = [vcl EXCEPT ![v] = "avail"]
    /\ vcl_active' = IF vcl_active = NULL THEN v ELSE vcl_active
    /\ UNCHANGED <<busy, wvcl, svcl, wpc, parked>>

\* init_vcl failed: the program is unmapped and its memory freed.
VCL_Load_fail(v) ==
    /\ vcl' = [vcl EXCEPT ![v] = "failed"]
    /\ UNCHANGED <<vcl_head, vcl_active, busy, wvcl, svcl, wpc, parked>>

ccf_config_use(v) ==
    /\ vcl_active' = v
    /\ UNCHANGED <<vcl_head, vcl, busy, wvcl, svcl, wpc, parked>>

\* Mutant: the active VCL is not refused.
ccf_config_discard_any(v) ==
    /\ vcl' = [vcl EXCEPT ![v] = "discard"]
    /\ UNCHANGED <<vcl_head, vcl_active, busy, wvcl, svcl, wpc, parked>>

ccf_config_discard(v) ==
    /\ vcl' = IF v = vcl_active THEN vcl ELSE [vcl EXCEPT ![v] = "discard"]
    /\ UNCHANGED <<vcl_head, vcl_active, busy, wvcl, svcl, wpc, parked>>

\* VCL_Nuke takes the VCL off the list before fini_vcl.
Disposable(v) == vcl[v] = "discard" /\ busy[v] = 0

VCL_Nuke(v) ==
    /\ vcl_head' = Without(vcl_head, v)
    /\ vcl' = [vcl EXCEPT ![v] = "fini"]
    /\ UNCHANGED <<vcl_active, busy, wvcl, svcl, wpc, parked>>

VCL_Nuke_free(v) ==
    /\ vcl' = [vcl EXCEPT ![v] = "none"]
    /\ UNCHANGED <<vcl_head, vcl_active, busy, wvcl, svcl, wpc, parked>>
=============================================================================
