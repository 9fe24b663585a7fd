------------------------------- MODULE Backend -------------------------------
(***************************************************************************)
(* Backends shared by the loaded VCLs, their connections and their health: *)
(* cache_backend_cfg.c, cache_backend.c, cache_dir.c, cache_backend_poll.c *)
(* and the calls of cache_fetch.c and cache_pipe.c that take and give back *)
(* connections; cache_cli.c for the order in which the CLI thread works.   *)
(*                                                                         *)
(* Four kinds of threads meet here: the CLI thread loads and disposes of   *)
(* VCLs; workers use backends under the protection of the VCL they hold a  *)
(* reference to; one probe thread per probed backend changes its health.   *)
(***************************************************************************)
EXTENDS VclRefs

CONSTANTS
    Backends,
    Uses,           \* per VCL: the sequence of its backends, as init_vcl adds them
    Hosts,          \* per VCL: the backends its requests are directed to
    Probes,         \* per VCL: the set of backends it declares a probe for
    BadVmod,        \* VCLs that import a VMOD, which may fail to load
    MaxConn,        \* .max_connections, 0 for no limit
    Window, Threshold, Initial,     \* of the probes
    Matched,        \* the backends that the matchers of backend.set_health find
    AdminStates     \* the states it is used to set

ASSUME BackendAssumption ==
    /\ NULL \notin Backends
    /\ \A v \in Vcls : /\ Uses[v] \in Seq(Backends)
                       /\ \A i, j \in DOMAIN Uses[v] : Uses[v][i] = Uses[v][j] => i = j
                       /\ Probes[v] \cup Hosts[v] \subseteq Range(Uses[v])
    /\ BadVmod \subseteq Vcls
    /\ MaxConn \in Nat /\ Window \in Nat /\ Threshold \in Nat /\ Initial \in Nat
    /\ Initial <= Threshold /\ Threshold <= Window
    /\ Matched \subseteq Backends /\ AdminStates \subseteq {"probe", "sick", "healthy"}

VARIABLES
    be,         \* struct backend, per backend
    director,   \* per VCL: the backends that a simple director of it refers to
    vbc,        \* the backend of the connection a session has, or NULL
    getfd,      \* where a worker is in vbe_GetVbe, and for which backend
    vt,         \* struct vbp_target and its thread, per backend
    cli,        \* what the CLI thread is doing
    panic,      \* an assertion failed: the child is dead
    lost        \* backends whose count was overwritten by VBE_AddBackend

beVars == <<be, director, vbc, getfd, vt, cli, panic, lost>>
vars == <<refVars, beVars>>

NoBackend == [alive |-> FALSE, refcount |-> 0, n_conn |-> 0, idle |-> 0,
              healthy |-> TRUE, admin_health |-> "probe"]
NoTarget == [pc |-> "none", vcls |-> <<>>, has |-> FALSE, stop |-> FALSE,
             happy |-> [i \in 1..Window |-> FALSE]]
NoGet == [pc |-> "none", b |-> NULL]
NoCmd == [pc |-> "idle", v |-> NULL, todo |-> <<>>, dirs |-> <<>>, tmp |-> 0]

Init ==
    /\ RefInit
    /\ be = [b \in Backends |-> NoBackend]
    /\ director = [v \in Vcls |-> {}]
    /\ vbc = [w \in Workers |-> NULL]
    /\ getfd = [w \in Workers |-> NoGet]
    /\ vt = [b \in Backends |-> NoTarget]
    /\ cli = NoCmd
    /\ panic = FALSE
    /\ lost = {}

-----------------------------------------------------------------------------
(***************************************************************************)
(* Getting a connection: vbe_GetVbe, one step per critical section.        *)
(***************************************************************************)
Get(w, pc, b) == getfd' = [getfd EXCEPT ![w] = [pc |-> pc, b |-> b]]

\* Drop a worker's reference.  Only the CLI thread may drop the last one.
VBE_DropRefLocked(b, r) ==
    /\ be' = [be EXCEPT ![b] = r]
    /\ panic' = (r.refcount = 0)

\* Look for a connection to recycle.
vbe_GetVbe_pop(w) ==
    /\ getfd[w].pc = "pop"
    /\ LET b == getfd[w].b IN
       IF be[b].idle > 0
         THEN /\ be' = [be EXCEPT ![b].idle = @ - 1, ![b].refcount = @ + 1]
              /\ Get(w, "check", b)
         ELSE UNCHANGED be /\ Get(w, "new", b)
    /\ UNCHANGED <<refVars, director, vbc, vt, cli, panic, lost>>

\* vbe_CheckFd: the backend kept it open, or it did not and we look for another one.
vbe_GetVbe_check(w) ==
    /\ getfd[w].pc = "check"
    /\ LET b == getfd[w].b IN
       \/ /\ vbc' = [vbc EXCEPT ![w] = b] /\ Get(w, "none", NULL)
          /\ UNCHANGED <<be, panic>>
       \/ /\ VBE_DropRefLocked(b, [be[b] EXCEPT !.n_conn = @ - 1, !.refcount = @ - 1])
          /\ Get(w, "pop", b) /\ UNCHANGED vbc
    /\ UNCHANGED <<refVars, director, vt, cli, lost>>

\* Health as the administrator and the probe see it; saint mode may also refuse a
\* backend, for some objects and some time.  Of a backend that is declared healthy the
\* threshold is out of reach, but an object on its trouble list is still refused.
vbe_Healthy(b) ==
    \/ be[b].admin_health = "healthy"
    \/ be[b].admin_health = "probe" /\ be[b].healthy
SaintRefuses(b) == be[b].admin_health # "sick"

\* No connection to recycle.  The tests of health and of max_connections are not under the
\* lock; idle connections count.
vbe_GetVbe_new(w) ==
    /\ getfd[w].pc = "new"
    /\ LET b == getfd[w].b
           full == MaxConn > 0 /\ be[b].n_conn >= MaxConn
       IN  \/ vbe_Healthy(b) /\ ~full /\ Get(w, "try", b)
           \/ (~vbe_Healthy(b) \/ SaintRefuses(b) \/ full) /\ Get(w, "none", NULL)
    /\ UNCHANGED <<refVars, director, be, vbc, vt, cli, panic, lost>>

bes_conn_try_begin(w) ==
    /\ getfd[w].pc = "try"
    /\ LET b == getfd[w].b IN
       /\ be' = [be EXCEPT ![b].refcount = @ + 1, ![b].n_conn = @ + 1]
       /\ Get(w, "connect", b)
    /\ UNCHANGED <<refVars, director, vbc, vt, cli, panic, lost>>

\* Mutant: a failed connection stays counted.
bes_conn_try_end_keep(w) ==
    /\ getfd[w].pc = "connect"
    /\ LET b == getfd[w].b IN
       \/ /\ vbc' = [vbc EXCEPT ![w] = b] /\ Get(w, "none", NULL) /\ UNCHANGED be
       \/ /\ be' = [be EXCEPT ![b].refcount = @ - 1]
          /\ Get(w, "none", NULL) /\ UNCHANGED vbc
    /\ UNCHANGED <<refVars, director, vt, cli, panic, lost>>

\* vbe_TryConnect on each address in turn: one answered, or none.
bes_conn_try_end(w) ==
    /\ getfd[w].pc = "connect"
    /\ LET b == getfd[w].b IN
       \/ /\ vbc' = [vbc EXCEPT ![w] = b] /\ Get(w, "none", NULL) /\ UNCHANGED be
       \/ /\ be' = [be EXCEPT ![b].refcount = @ - 1, ![b].n_conn = @ - 1]
          /\ Get(w, "none", NULL) /\ UNCHANGED vbc
    /\ UNCHANGED <<refVars, director, vt, cli, panic, lost>>

\* The session is done with it, after an error, a pipe or a backend that closes.
VDI_CloseFd(w) ==
    /\ vbc[w] # NULL
    /\ LET b == vbc[w] IN
       VBE_DropRefLocked(b, [be[b] EXCEPT !.n_conn = @ - 1, !.refcount = @ - 1])
    /\ vbc' = [vbc EXCEPT ![w] = NULL]
    /\ UNCHANGED <<refVars, director, getfd, vt, cli, lost>>

\* The connection goes to the head of connlist.
VDI_RecycleFd(w) ==
    /\ vbc[w] # NULL
    /\ LET b == vbc[w] IN
       VBE_DropRefLocked(b, [be[b] EXCEPT !.idle = @ + 1, !.refcount = @ - 1])
    /\ vbc' = [vbc EXCEPT ![w] = NULL]
    /\ UNCHANGED <<refVars, director, getfd, vt, cli, lost>>

\* A session that has no connection, and is not getting one.
NoConn(w) == vbc[w] = NULL /\ getfd[w] = NoGet

\* The director of a fetch or a pipe tries backend b, one of its hosts.
VDI_GetFd(w, b) ==
    /\ wpc[w] = "run" /\ NoConn(w)
    /\ b \in Hosts[svcl[w]]
    /\ Get(w, "pop", b)
    /\ UNCHANGED <<refVars, director, be, vbc, vt, cli, panic, lost>>

ConnStep(w) ==
    \/ \E b \in Backends : VDI_GetFd(w, b)
    \/ vbe_GetVbe_pop(w) \/ vbe_GetVbe_check(w) \/ vbe_GetVbe_new(w)
    \/ bes_conn_try_begin(w) \/ bes_conn_try_end(w)
    \/ VDI_CloseFd(w) \/ VDI_RecycleFd(w)

\* Steps of VclRefs.
WorkerRef(w) ==
    /\ NoConn(w)
    /\ RefStep(w) \/ cnt_done(w)
    /\ UNCHANGED beVars

-----------------------------------------------------------------------------
(***************************************************************************)
(* Health probes.                                                          *)
(***************************************************************************)
Good(happy) == Cardinality({i \in DOMAIN happy : happy[i]})

\* The bitmap of results, newest first, after one more: vbp_start_poke shifts it.
Shift(happy, ok) == SubSeq(<<ok>> \o happy, 1, Window)

vbp_has_poked(b, r) ==
    /\ vt' = [vt EXCEPT ![b] = r]
    /\ be' = [be EXCEPT ![b].healthy = Good(r.happy) >= Threshold]

probeUnchanged == <<refVars, director, vbc, getfd, cli, lost>>

\* while (!vt->stop), after the sleep of an interval, which ends early when the thread is
\* cancelled.
vbp_wrk_poll_top(b) ==
    /\ vt[b].pc = "top"
    /\ vt' = [vt EXCEPT ![b].pc = IF vt[b].stop THEN "end" ELSE "lock"]
    /\ UNCHANGED <<probeUnchanged, be, panic>>

\* Take over the first VCL's probe; vbp_build_req asserts that there is one.  Of the
\* pointer to the last one only matters that it is not NULL.
vbp_wrk_poll_lock(b) ==
    /\ vt[b].pc = "lock"
    /\ vt' = [vt EXCEPT ![b].has = @ \/ vt[b].vcls # <<>>, ![b].pc = "poke"]
    /\ panic' = (vt[b].vcls = <<>> /\ vt[b].has)
    /\ UNCHANGED <<probeUnchanged, be>>

vbp_poke(b) ==
    /\ vt[b].pc = "poke"
    /\ \E ok \in BOOLEAN :
         vbp_has_poked(b, [vt[b] EXCEPT !.pc = "top", !.happy = Shift(@, ok)])
    /\ UNCHANGED <<probeUnchanged, panic>>

\* pthread_cancel takes effect in a system call of the poke.
vbp_cancelled(b) ==
    /\ vt[b].pc = "poke" /\ vt[b].stop
    /\ vt' = [vt EXCEPT ![b].pc = "end"]
    /\ UNCHANGED <<probeUnchanged, be, panic>>

ProbeStep(b) ==
    \/ vbp_wrk_poll_top(b) \/ vbp_wrk_poll_lock(b) \/ vbp_poke(b) \/ vbp_cancelled(b)

-----------------------------------------------------------------------------
(***************************************************************************)
(* The CLI thread.  Before each command it disposes of VCLs and backends.  *)
(***************************************************************************)
\* A command has come in; VBE_Poll is done with the last VCL.
cli_cb_before ==
    /\ cli.pc = "idle"
    /\ cli' = [NoCmd EXCEPT !.pc = "poll", !.todo = vcl_head]
    /\ UNCHANGED <<refVars, director, be, vbc, getfd, vt, panic, lost>>

VBE_Poll == [b \in Backends |->
               IF be[b].alive /\ be[b].refcount = 0 /\ vt[b].pc = "none"
                 THEN NoBackend ELSE be[b]]

VCL_Poll ==
    /\ cli.pc = "poll"
    /\ \/ /\ cli.todo = <<>>
          /\ be' = VBE_Poll
          /\ cli' = [cli EXCEPT !.pc = "cmd"]
          /\ UNCHANGED refVars
       \/ /\ cli.todo # <<>> /\ Disposable(Head(cli.todo))
          /\ VCL_Nuke(Head(cli.todo))
          /\ cli' = [cli EXCEPT !.pc = "fini", !.dirs = Uses[Head(cli.todo)]]
          /\ UNCHANGED be
       \/ /\ cli.todo # <<>> /\ ~Disposable(Head(cli.todo))
          /\ cli' = [cli EXCEPT !.todo = Tail(@)]
          /\ UNCHANGED <<refVars, be>>
    /\ UNCHANGED <<director, vbc, getfd, vt, panic, lost>>

\* The VCL being disposed of: of VCL_Poll, or of the discard command itself.
Doomed == IF cli.todo = <<>> THEN cli.v ELSE Head(cli.todo)

\* VCLS_func_ping, or a command that is refused: its VCL is unknown, active or loaded
\* already, or the file cannot be opened.
VCLS_func_ping ==
    /\ cli.pc = "cmd"
    /\ cli' = NoCmd
    /\ UNCHANGED <<refVars, director, be, vbc, getfd, vt, panic, lost>>

VCL_Load(v) ==
    /\ cli.pc = "cmd" /\ vcl[v] = "none"
    /\ cli' = [cli EXCEPT !.pc = "init", !.v = v, !.dirs = Uses[v]]
    /\ UNCHANGED <<refVars, director, be, vbc, getfd, vt, panic, lost>>

\* VBE_AddBackend and VBP_Insert, called by init_vcl through VRT_init_dir_simple, with
\* the reference count n that the backend gets.  The results that VBP_Insert pretends
\* are judged before vt->probe is filled in, by a threshold of zero: one is enough.
VBP_Insert(b, healthy) ==
    IF vt[b].pc # "none"
      THEN vt' = [vt EXCEPT ![b].vcls = Append(@, cli.v)] /\ healthy = be[b].healthy
      ELSE /\ vt' = [vt EXCEPT ![b] = [NoTarget EXCEPT !.pc = "top", !.vcls = <<cli.v>>,
                                       !.happy = [i \in 1..Window |-> i <= Initial]]]
           /\ healthy = (Initial > 0 \/ be[b].healthy)

VRT_init_dir_simple(b, n) ==
    \E healthy \in BOOLEAN :
      /\ be' = [be EXCEPT ![b] = [@ EXCEPT !.alive = TRUE, !.refcount = n, !.healthy = healthy]]
      /\ IF b \in Probes[cli.v] THEN VBP_Insert(b, healthy)
                                ELSE UNCHANGED vt /\ healthy = be[b].healthy
      /\ director' = [director EXCEPT ![cli.v] = @ \cup {b}]
      /\ cli' = [cli EXCEPT !.pc = "init", !.dirs = Tail(@), !.tmp = 0]
      /\ lost' = IF n = be[b].refcount + 1 THEN lost ELSE lost \cup {b}
      /\ UNCHANGED <<refVars, vbc, getfd, panic>>

VBE_AddBackend_new ==
    /\ cli.pc = "init" /\ cli.dirs # <<>> /\ ~be[Head(cli.dirs)].alive
    /\ VRT_init_dir_simple(Head(cli.dirs), 1)

\* A backend that exists: refcount++ without b->mtx, so that a worker can change the count
\* between the load and the store.
VBE_AddBackend_load ==
    /\ cli.pc = "init" /\ cli.dirs # <<>> /\ be[Head(cli.dirs)].alive
    /\ cli' = [cli EXCEPT !.pc = "store", !.tmp = be[Head(cli.dirs)].refcount + 1]
    /\ UNCHANGED <<refVars, director, be, vbc, getfd, vt, panic, lost>>

VBE_AddBackend_store ==
    /\ cli.pc = "store"
    /\ VRT_init_dir_simple(Head(cli.dirs), cli.tmp)

\* init_vcl returns 1 because a VMOD imported after some of the backends does not load.
init_vcl_fails ==
    /\ cli.pc = "init" /\ cli.v \in BadVmod
    /\ VCL_Load_fail(cli.v)
    /\ cli' = NoCmd
    /\ UNCHANGED <<be, director, vbc, getfd, vt, panic, lost>>

init_vcl_done ==
    /\ cli.pc = "init" /\ cli.dirs = <<>>
    /\ VCL_Load_done(cli.v)
    /\ cli' = NoCmd
    /\ UNCHANGED <<be, director, vbc, getfd, vt, panic, lost>>

\* ccf_config_use, with VBP_Use for each probed backend of the VCL.
vcl_use(v) ==
    /\ cli.pc = "cmd" /\ vcl[v] = "avail"
    /\ ccf_config_use(v)
    /\ vt' = [b \in Backends |-> IF b \in Probes[v]
                THEN [vt[b] EXCEPT !.vcls = <<v>> \o Without(@, v)]
                ELSE vt[b]]
    /\ cli' = NoCmd
    /\ UNCHANGED <<be, director, vbc, getfd, panic, lost>>

\* ccf_config_discard, which disposes of the VCL at once if nothing uses it.
vcl_discard(v) ==
    /\ cli.pc = "cmd" /\ vcl[v] = "avail"
    /\ ccf_config_discard(v)
    /\ cli' = IF vcl'[v] = "discard" THEN [cli EXCEPT !.pc = "discarded", !.v = v] ELSE NoCmd
    /\ UNCHANGED <<be, director, vbc, getfd, vt, panic, lost>>

vcl_discard_nuke ==
    /\ cli.pc = "discarded"
    /\ IF busy[cli.v] = 0
         THEN VCL_Nuke(cli.v) /\ cli' = [cli EXCEPT !.pc = "fini", !.dirs = Uses[cli.v]]
         ELSE UNCHANGED refVars /\ cli' = NoCmd
    /\ UNCHANGED <<be, director, vbc, getfd, vt, panic, lost>>

\* fini_vcl calls vdi_simple_fini for each backend: VBP_Remove first.
VBP_Remove_unlink ==
    /\ cli.pc = "fini" /\ cli.dirs # <<>>
    /\ LET b == Head(cli.dirs)
           rest == Without(vt[b].vcls, Doomed)
       IN  IF b \notin Probes[Doomed]
             THEN UNCHANGED <<be, vt>> /\ cli' = [cli EXCEPT !.pc = "drop"]
             ELSE /\ vt' = [vt EXCEPT ![b].vcls = rest]
                  /\ be' = IF rest = <<>> THEN [be EXCEPT ![b].healthy = TRUE] ELSE be
                  /\ cli' = [cli EXCEPT !.pc = IF rest = <<>> THEN "stop" ELSE "drop"]
    /\ UNCHANGED <<refVars, director, vbc, getfd, panic, lost>>

VBP_Remove_stop ==
    /\ cli.pc = "stop"
    /\ vt' = [vt EXCEPT ![Head(cli.dirs)].stop = TRUE]
    /\ cli' = [cli EXCEPT !.pc = "join"]
    /\ UNCHANGED <<refVars, director, be, vbc, getfd, panic, lost>>

\* Mutant: the health is not set again after the thread has ended.
VBP_Remove_join_health ==
    /\ cli.pc = "join" /\ vt[Head(cli.dirs)].pc = "end"
    /\ vt' = [vt EXCEPT ![Head(cli.dirs)] = NoTarget]
    /\ cli' = [cli EXCEPT !.pc = "drop"]
    /\ UNCHANGED <<refVars, director, be, vbc, getfd, panic, lost>>

\* Mutant: the target is freed without waiting for its thread.
VBP_Remove_join_nowait ==
    /\ cli.pc = "join"
    /\ be' = [be EXCEPT ![Head(cli.dirs)].healthy = TRUE]
    /\ vt' = [vt EXCEPT ![Head(cli.dirs)].vcls = <<>>]
    /\ cli' = [cli EXCEPT !.pc = "drop"]
    /\ UNCHANGED <<refVars, director, vbc, getfd, panic, lost>>

VBP_Remove_join ==
    /\ cli.pc = "join" /\ vt[Head(cli.dirs)].pc = "end"
    /\ be' = [be EXCEPT ![Head(cli.dirs)].healthy = TRUE]
    /\ vt' = [vt EXCEPT ![Head(cli.dirs)] = NoTarget]
    /\ cli' = [cli EXCEPT !.pc = "drop"]
    /\ UNCHANGED <<refVars, director, vbc, getfd, panic, lost>>

\* The last reference closes the idle connections and frees the backend.
VBE_DropRefVcl ==
    /\ cli.pc = "drop"
    /\ LET b == Head(cli.dirs) IN
       /\ be' = [be EXCEPT ![b] = IF be[b].refcount = 1 THEN NoBackend
                                  ELSE [be[b] EXCEPT !.refcount = @ - 1]]
       /\ director' = [director EXCEPT ![Doomed] = @ \ {b}]
    /\ cli' = [cli EXCEPT !.pc = "fini", !.dirs = Tail(@)]
    /\ UNCHANGED <<refVars, vbc, getfd, vt, panic, lost>>

fini_vcl_done ==
    /\ cli.pc = "fini" /\ cli.dirs = <<>>
    /\ VCL_Nuke_free(Doomed)
    /\ cli' = IF cli.todo = <<>> THEN NoCmd
              ELSE [cli EXCEPT !.pc = "poll", !.todo = Tail(@)]
    /\ UNCHANGED <<be, director, vbc, getfd, vt, panic, lost>>

\* cli_backend_set_health, for the backends the matcher finds.
do_set_health(b, h) ==
    /\ cli.pc = "cmd" /\ be[b].alive
    /\ be' = [be EXCEPT ![b].admin_health = h]
    /\ cli' = NoCmd
    /\ UNCHANGED <<refVars, director, vbc, getfd, vt, panic, lost>>

CliStep ==
    \/ cli_cb_before \/ VCL_Poll \/ VCLS_func_ping
    \/ \E v \in Vcls : VCL_Load(v) \/ vcl_use(v) \/ vcl_discard(v)
    \/ VBE_AddBackend_new \/ VBE_AddBackend_load \/ VBE_AddBackend_store
    \/ init_vcl_fails \/ init_vcl_done
    \/ vcl_discard_nuke
    \/ VBP_Remove_unlink \/ VBP_Remove_stop \/ VBP_Remove_join \/ VBE_DropRefVcl
    \/ fini_vcl_done
    \/ \E b \in Matched, h \in AdminStates : do_set_health(b, h)

\* After a panic the manager starts another child process.
Restart ==
    /\ panic
    /\ vcl_head' = <<>> /\ vcl' = [v \in Vcls |-> "none"] /\ vcl_active' = NULL
    /\ busy' = [v \in Vcls |-> 0] /\ parked' = [v \in Vcls |-> 0]
    /\ wvcl' = [w \in Workers |-> NULL] /\ svcl' = [w \in Workers |-> NULL]
    /\ wpc' = [w \in Workers |-> "idle"]
    /\ be' = [b \in Backends |-> NoBackend] /\ director' = [v \in Vcls |-> {}]
    /\ vbc' = [w \in Workers |-> NULL] /\ getfd' = [w \in Workers |-> NoGet]
    /\ vt' = [b \in Backends |-> NoTarget] /\ cli' = NoCmd /\ panic' = FALSE
    /\ lost' = {}

Next ==
    \/ /\ ~panic
       /\ \/ \E w \in Workers : WorkerRef(w) \/ ConnStep(w)
          \/ \E v \in Vcls : WRK_QueueSession_drop(v) /\ UNCHANGED beVars
          \/ \E b \in Backends : ProbeStep(b)
          \/ CliStep
    \/ Restart

Spec == Init /\ [][Next]_vars

-----------------------------------------------------------------------------
(***************************************************************************)
(* Properties.                                                             *)
(***************************************************************************)
\* busy counts the references that workers, their sessions and parked sessions hold: a
\* count too low unmaps the code of a VCL under a session, one too high keeps it for ever.
VclRefsExact ==
    \A v \in Vcls : busy[v] = Cardinality({w \in Workers : wvcl[w] = v})
                              + Cardinality({w \in Workers : svcl[w] = v}) + parked[v]

\* A session's VCL is loaded and each backend it may choose exists, as is the VCL that
\* cnt_start would give to the next request; of backends whose count VBE_AddBackend has
\* overwritten (lost) nothing is said.
HeldIsUsable ==
    \A w \in Workers : \A v \in {svcl[w], wvcl[w], vcl_active} \ {NULL} :
      /\ vcl[v] \in {"avail", "discard"}
      /\ v = vcl_active => vcl[v] = "avail"
      /\ \A b \in Range(Uses[v]) \ lost : be[b].alive

\* Until VBE_AddBackend overwrites the count without b->mtx (lost), the reference count of a
\* backend is the directors and the connections that are in use;
\* n_conn also counts the idle ones; and so a worker never drops the last reference,
\* which VBE_DropRefLocked asserts, and no connection outlives its backend.
Using(b) == {w \in Workers : vbc[w] = b \/ (getfd[w].b = b /\ getfd[w].pc \in {"check", "connect"})}
BackendRefsExact ==
    \A b \in Backends \ lost :
      /\ be[b].refcount = Cardinality({v \in Vcls : b \in director[v]})
                          + Cardinality(Using(b))
      /\ be[b].n_conn = be[b].idle + Cardinality(Using(b))
      /\ be[b].alive <=> be[b].refcount > 0

\* A backend that is not probed is healthy, whatever its last probe thread found just
\* before it was stopped: nobody would ever mark it healthy again.
UnprobedHealthy ==
    \A b \in Backends : vt[b].pc = "none" => be[b].healthy

\* The VCLs that are mapped: loaded, or being loaded or disposed of by the CLI thread.
Mapped == {v \in Vcls : vcl[v] \in {"avail", "discard", "fini"}
                        \/ (cli.pc \in {"init", "store"} /\ cli.v = v)}

\* The probe thread of a backend works on behalf of programs that are mapped and declare
\* the probe.  By itself it does not hold: a program whose init_vcl fails is unmapped, and
\* its backends and their probes stay (VCL_Load calls no fini_vcl).
ProbesMapped == \A b \in Backends : \A v \in Range(vt[b].vcls) : v \in Mapped /\ b \in Probes[v]

\* The probe thread of a backend works on behalf of the VCLs that declare the probe: every
\* loaded one, and no other that is not being loaded or disposed of, but for those that
\* failed to load, which are never taken off.  Its backend is alive, as VBP_Remove waits
\* for the thread; and without a VCL it is only while VBP_Remove is about to end it.
ProbedIsAlive ==
    \A b \in Backends :
      /\ vt[b].pc # "none" /\ b \notin lost => be[b].alive
      /\ {v \in Vcls : vcl[v] \in {"avail", "discard"} /\ b \in Probes[v]} \subseteq Range(vt[b].vcls)
      /\ \A v \in Range(vt[b].vcls) : b \in Probes[v] /\ (vcl[v] # "failed" => v \in Mapped)
      /\ vt[b].pc \notin {"none", "end"} /\ vt[b].vcls = <<>> => cli.pc \in {"stop", "join"}

\* Does not hold.  vbp_build_req asserts that the backend has a probe (XXXAN(vcl)), but its
\* thread may look between the unlock of VBP_Remove and the store of vt->stop; and
\* VBE_DropRefLocked that the last reference is dropped by the CLI thread, but a worker
\* drops it once VBE_AddBackend has overwritten the count.
AssertsHold == ~panic
=============================================================================
