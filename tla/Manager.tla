------------------------------ MODULE Manager ------------------------------
(***************************************************************************)
(* The manager process and the child it keeps alive: mgt_child.c,          *)
(* mgt_cli.c, the VCL list of mgt_vcc.c and the event loop of vev.c that   *)
(* runs them, against a child seen through its CLI pipe, its exit and its  *)
(* standard output.                                                        *)
(*                                                                         *)
(* The manager has one thread.  It is in its event loop (pc top, gap,      *)
(* poll) or inside a callback that has written a command to the child and  *)
(* waits for the answer (pc read); the child runs all the while, so it may *)
(* answer late, hang or die at any point of the callback.                  *)
(***************************************************************************)
EXTENDS Sequences, SequencesExt, Functions

CONSTANTS
    Vcls,           \* the names the operator gives to VCL programs
    Boot,           \* the program of -f or -b, compiled before MGT_Run
    None,           \* no program
    auto_restart,   \* params->auto_restart
    ping,           \* params->ping_interval > 0
    MaxPipe         \* bound: the pipes' contents when a command is given

ASSUME ManagerAssumption ==
    /\ Boot \in Vcls
    /\ None \notin Vcls
    /\ auto_restart \in BOOLEAN
    /\ ping \in BOOLEAN

VARIABLES
    child_state,    \* mgt_child.c's enum
    poker,          \* ev_poker # NULL
    listen,         \* ev_listen # NULL
    cli,            \* child_cli_in, child_VCLI_Out open and known to mgt_cli.c
    output,         \* child_output open
    vclhead,        \* the vclprogs in the order they were added
    active,         \* the vclprog with active == 1, or None
    pc,             \* where the manager's thread is
    ask,            \* the command its callback wants an answer to
    vp,             \* mgt_push_vcls_and_start: the position in the list of programs
    happened,       \* vev_sigs[SIGCHLD].happened
    panic,          \* an assertion of the manager has failed
    proc,           \* the child: none, alive, hung, exiting, zombie
    killed,         \* SIGQUIT has been sent to it
    in, out,        \* the pipes: commands to the child, its answers
    cvcl, cactive,  \* the child's vcl_head (names not discarded), vcl_active
    late            \* a pass-through command to this child was given up

mgtVars == <<child_state, poker, listen, cli, output, vclhead, active, panic>>
loopVars == <<pc, ask, vp, happened>>
childVars == <<proc, killed, in, out, cvcl, cactive, late>>
vars == <<mgtVars, loopVars, childVars>>

\* child_pid >= 0: set at fork, reset when the child is reaped
child_pid == proc # "none"
\* the child has its ends of the pipes open
Up == proc \in {"alive", "hung"}

Cmd(why, v) == [why |-> why, vcl |-> v]
NoCmd == Cmd("none", None)
InPipes == Len(in) + Len(out)

----------------------------------------------------------------------------
(* The child: the commands it serves, and the ways it ends.                *)

\* Whether the child may answer a command with CLIS_OK.  A vcl.load may fail
\* in VCL_Load for reasons of its own; a command that only the child knows
\* may have any outcome.
MayFail(c) == c.why \in {"load", "pass"}
Accepts(c) ==
    /\ c.why = "load" => c.vcl \notin cvcl
    /\ c.why \in {"use", "discard"} => c.vcl \in cvcl
    /\ c.why = "discard" => c.vcl # cactive

\* The child takes a command off the pipe, carries it out and answers.
cls_vlu2 ==
    /\ proc = "alive" /\ cli /\ in # <<>>
    /\ LET c == Head(in) IN
       \E ok \in IF MayFail(c) THEN {Accepts(c), FALSE} ELSE {Accepts(c)} :
          /\ in' = Tail(in)
          /\ out' = Append(out, ok)
          /\ cvcl' = IF ok /\ c.why = "load" THEN cvcl \cup {c.vcl} ELSE
                     IF ok /\ c.why = "discard" THEN cvcl \ {c.vcl} ELSE cvcl
          /\ cactive' = IF ok /\ (c.why = "use" \/ (c.why = "load" /\ cactive = None))
                        THEN c.vcl ELSE cactive
    /\ UNCHANGED <<mgtVars, loopVars, proc, killed, late>>

\* The process ends: its memory and its ends of the pipes go, what it has
\* answered can still be read.
Exit ==
    /\ proc' = "exiting"
    /\ killed' = FALSE /\ late' = FALSE
    /\ in' = <<>>
    /\ cvcl' = {} /\ cactive' = None
    /\ UNCHANGED <<mgtVars, loopVars, out>>

\* End of file on the CLI: the child shuts down and returns from child_main.
CLI_Run_eof ==
    /\ proc = "alive" /\ ~cli
    /\ Exit

\* The child asserts, or an external signal ends it.
pan_ic ==
    /\ proc = "alive"
    /\ Exit

\* The child's CLI thread stops answering for good (a deadlock, swapping).
ChildHangs ==
    /\ proc = "alive"
    /\ proc' = "hung"
    /\ UNCHANGED <<mgtVars, loopVars, killed, in, out, cvcl, cactive, late>>

\* SIGQUIT takes effect.
ChildKilled ==
    /\ killed
    /\ Exit

\* Its files are closed already; now the kernel delivers SIGCHLD.  A manager
\* blocked in poll returns with EINTR.
vev_sighandler ==
    /\ proc = "exiting"
    /\ proc' = "zombie"
    /\ happened' = TRUE
    /\ pc' = IF pc = "poll" THEN "top" ELSE pc
    /\ UNCHANGED <<mgtVars, ask, vp, killed, in, out, cvcl, cactive, late>>

ChildStep == cls_vlu2 \/ CLI_Run_eof \/ ChildKilled \/ vev_sighandler
ChildFault == pan_ic \/ ChildHangs

----------------------------------------------------------------------------
(* Starting and stopping the child.                                        *)

\* mgt_push_vcls_and_start at position i of the list: the program's vcl.load, and
\* when there are no more programs, start.
PushAt(i) == IF i <= Len(vclhead) THEN Cmd("load", vclhead[i]) ELSE Cmd("start", None)

\* start_child after open_sockets succeeded: pipes, fork, events, and the
\* first command of mgt_push_vcls_and_start on its way.  `clean' is whether
\* both event pointers are NULL, as the code asserts.
Spawn(clean) ==
    /\ child_state' = "STARTING"
    /\ cli' = TRUE
    /\ output' = TRUE
    /\ listen' = TRUE
    /\ poker' = ping
    /\ panic' = (panic \/ ~clean)
    /\ proc' = "alive"
    /\ killed' = FALSE
    /\ in' = <<>> /\ out' = <<>>
    /\ cvcl' = {} /\ cactive' = None
    /\ late' = FALSE
    /\ vp' = 1 /\ ask' = PushAt(1)
    /\ pc' = "write"

start_child ==
    /\ child_state = "STOPPED"
    /\ Spawn(~listen /\ ~poker)
    /\ UNCHANGED <<vclhead, active, happened>>

\* mgt_stop_child, called in CH_RUNNING.
StopChild ==
    /\ child_state' = "STOPPING"
    /\ poker' = FALSE
    /\ cli' = FALSE
    /\ panic' = (panic \/ ~cli)

\* Only a running child is killed: one that fails during its start is stopped.
MGT_Child_Cli_Fail ==
    killed' = (killed \/ (child_state = "RUNNING" /\ Up))

----------------------------------------------------------------------------
(* mgt_cli_askchild and mcf_askchild: the manager's thread waits.          *)

Pushing == child_state = "STARTING"

\* What the callback does once it has its answer.
\* mgt_push_vcls_and_start gets the next command out: vcl.use follows the vcl.load
\* of the active program.
PushNext ==
    /\ Pushing
    /\ \/ /\ ask.why = "load" /\ ask.vcl = active
          /\ ask' = Cmd("use", active)
          /\ UNCHANGED vp
       \/ /\ ask.why = "use" \/ (ask.why = "load" /\ ask.vcl # active)
          /\ vp' = vp + 1 /\ ask' = PushAt(vp + 1)
    /\ pc' = "write"
    /\ UNCHANGED mgtVars

PushDone ==
    /\ Pushing
    /\ ask.why = "start"
    /\ vp' = 0 /\ ask' = NoCmd /\ pc' = "top"
    /\ child_state' = "RUNNING"
    /\ UNCHANGED <<poker, listen, cli, output, vclhead, active, panic>>

PushFails ==
    /\ Pushing
    /\ ask' = NoCmd /\ vp' = 0 /\ pc' = "top"
    /\ StopChild
    /\ UNCHANGED <<listen, output, vclhead, active>>

Where(v) == CHOOSE i \in DOMAIN vclhead : vclhead[i] = v

\* vcl.load, vcl.use and vcl.discard once the child said yes, or when there
\* is no child to ask.
Applied(c) ==
    /\ vclhead' = IF c.why = "load" THEN Append(vclhead, c.vcl) ELSE
                  IF c.why = "discard" THEN RemoveAt(vclhead, Where(c.vcl)) ELSE vclhead
    /\ active' = IF c.why = "use" THEN c.vcl ELSE active

CmdDone ==
    /\ ~Pushing
    /\ ask' = NoCmd /\ pc' = "top" /\ UNCHANGED vp
    /\ Applied(ask)
    /\ UNCHANGED <<child_state, poker, listen, cli, output, panic>>

\* A mutant: the answer's status is not looked at.
CmdFails_ignored ==
    /\ ~Pushing
    /\ ask' = NoCmd /\ pc' = "top" /\ UNCHANGED vp
    /\ Applied(ask)
    /\ UNCHANGED <<child_state, poker, listen, cli, output, panic>>

CmdFails ==
    /\ ~Pushing
    /\ ask' = NoCmd /\ pc' = "top" /\ UNCHANGED vp
    /\ UNCHANGED mgtVars

\* The write succeeds while the child has its end of the pipe open.
askchild_write ==
    /\ pc = "write" /\ Up
    /\ in' = Append(in, ask)
    /\ pc' = "read"
    /\ UNCHANGED <<mgtVars, ask, vp, happened, proc, killed, out, cvcl, cactive, late>>

askchild_epipe ==
    /\ pc = "write" /\ ~Up
    /\ MGT_Child_Cli_Fail
    /\ PushFails \/ CmdFails
    /\ UNCHANGED <<happened, proc, in, out, cvcl, cactive, late>>

\* The first answer in the pipe is taken for the answer to this command.
askchild_answer ==
    /\ pc = "read" /\ out # <<>>
    /\ out' = Tail(out)
    /\ IF Head(out) THEN PushNext \/ PushDone \/ CmdDone ELSE PushFails \/ CmdFails
    /\ UNCHANGED <<happened, proc, killed, in, cvcl, cactive, late>>

\* cli_timeout passes, or the child is gone and the pipe is at its end:
\* CLIS_COMMS.  mgt_cli_askchild then gives the child up, mcf_askchild not.
askchild_comms ==
    /\ pc = "read" /\ out = <<>>
    /\ IF ask.why = "pass"
       THEN /\ late' = Up
            /\ UNCHANGED killed
       ELSE /\ MGT_Child_Cli_Fail
            /\ UNCHANGED late
    /\ PushFails \/ CmdFails
    /\ UNCHANGED <<happened, proc, in, out, cvcl, cactive>>

AskStep == askchild_write \/ askchild_epipe \/ askchild_answer \/ askchild_comms

----------------------------------------------------------------------------
(* The event loop.  A signal that arrives after the loop has looked at psig *)
(* and before poll blocks stays pending until something else wakes poll.   *)

\* mgt_sigchld for a process that is not the child: a compiler SUB_run waited
\* for itself, or a child that is not gone yet.
mgt_sigchld_other ==
    /\ pc = "top" /\ happened /\ proc # "zombie"
    /\ happened' = FALSE
    /\ poker' = FALSE
    /\ UNCHANGED <<child_state, listen, cli, output, vclhead, active, panic,
                   pc, ask, vp, childVars>>

\* The child is reaped and not started again: it was being stopped, or
\* auto_restart is off, or the sockets cannot be opened.
mgt_sigchld_stopped ==
    /\ pc = "top" /\ happened /\ proc = "zombie"
    /\ happened' = FALSE
    /\ proc' = "none"
    /\ child_state' = "STOPPED"
    /\ poker' = FALSE /\ listen' = FALSE
    /\ cli' = FALSE /\ output' = FALSE
    /\ panic' = (panic \/ ~output \/ (child_state = "RUNNING" /\ ~cli))
    /\ out' = <<>>
    /\ UNCHANGED <<vclhead, active, pc, ask, vp, killed, in, cvcl, cactive, late>>

\* A mutant: the child's death is taken for the end of any process.
mgt_sigchld_restart_never ==
    /\ pc = "top" /\ happened /\ proc = "zombie" /\ happened' = FALSE
    /\ UNCHANGED <<mgtVars, pc, ask, vp, childVars>>

\* The child died while it was running: a new one is started at once.
mgt_sigchld_restart ==
    /\ pc = "top" /\ happened /\ proc = "zombie"
    /\ child_state = "RUNNING" /\ auto_restart
    /\ happened' = FALSE
    /\ Spawn(output /\ cli)
    /\ UNCHANGED <<vclhead, active>>

mgt_sigchld == mgt_sigchld_other \/ mgt_sigchld_stopped \/ mgt_sigchld_restart

\* vev_schedule_one looks at psig ...
vev_psig ==
    /\ pc = "top" /\ ~happened
    /\ pc' = "gap"
    /\ UNCHANGED <<mgtVars, ask, vp, happened, childVars>>

\* ... and blocks.
vev_poll ==
    /\ pc = "gap"
    /\ pc' = "poll"
    /\ UNCHANGED <<mgtVars, ask, vp, happened, childVars>>

\* A mutant: nothing is sent.
child_poker_quiet ==
    /\ pc \in {"top", "poll"} /\ poker
    /\ pc' = "top"
    /\ UNCHANGED <<mgtVars, ask, vp, happened, childVars>>

\* The ping timer, from the top of the loop or at the end of poll's timeout.
\* Outside CH_RUNNING the callback asks to be deleted: ev_poker then dangles.
child_poker ==
    /\ pc \in {"top", "poll"} /\ poker
    /\ Up => InPipes <= MaxPipe
    /\ IF child_state = "RUNNING"
       THEN /\ pc' = "write" /\ ask' = Cmd("ping", None)
            /\ UNCHANGED panic
       ELSE /\ pc' = "top" /\ panic' = TRUE
            /\ UNCHANGED ask
    /\ UNCHANGED <<child_state, poker, listen, cli, output, vclhead, active,
                   vp, happened, childVars>>

\* The end of the child's output closes the listener.
child_listener ==
    /\ pc = "poll" /\ listen /\ proc \in {"exiting", "zombie"}
    /\ listen' = FALSE
    /\ pc' = "top"
    /\ UNCHANGED <<child_state, poker, cli, output, vclhead, active, panic,
                   ask, vp, happened, childVars>>

LoopStep == vev_psig \/ vev_poll \/ child_poker \/ child_listener \/ mgt_sigchld

----------------------------------------------------------------------------
(* The operator's commands, each a callback of the manager's poll.         *)

\* A command for the child: asked when there is one, else applied at once.
\* A child that is being stopped has no CLI: CLIS_CANT.
AskOrApply(c) ==
    IF ~child_pid
    THEN /\ Applied(c)
         /\ pc' = "top"
         /\ UNCHANGED ask
    ELSE /\ pc' = IF cli THEN "write" ELSE "top"
         /\ ask' = IF cli THEN c ELSE NoCmd
         /\ UNCHANGED <<vclhead, active>>

cmdUnchanged == <<child_state, poker, listen, cli, output, panic, vp, childVars>>

\* vcl.load and vcl.inline.  The compilers are processes of their own and
\* each ends with a SIGCHLD.
mcf_config_load(v) ==
    /\ pc = "poll" /\ InPipes < MaxPipe /\ v \notin Range(vclhead)
    /\ happened' = TRUE
    /\ \/ AskOrApply(Cmd("load", v))
       \/ /\ pc' = "top"                     \* compilation failed
          /\ UNCHANGED <<vclhead, active, ask>>
    /\ UNCHANGED cmdUnchanged

mcf_config_use(v) ==
    /\ pc = "poll" /\ InPipes < MaxPipe /\ v \in Range(vclhead) /\ v # active
    /\ AskOrApply(Cmd("use", v))
    /\ UNCHANGED <<cmdUnchanged, happened>>

mcf_config_discard(v) ==
    /\ pc = "poll" /\ InPipes < MaxPipe /\ v \in Range(vclhead) /\ v # active
    /\ AskOrApply(Cmd("discard", v))
    /\ UNCHANGED <<cmdUnchanged, happened>>

\* A command only the child knows.
mcf_askchild ==
    /\ pc = "poll" /\ cli /\ InPipes < MaxPipe
    /\ pc' = "write" /\ ask' = Cmd("pass", None)
    /\ UNCHANGED <<cmdUnchanged, vclhead, active, happened>>

\* A mutant: the ping timer stays.
mcf_server_stop_poker ==
    /\ pc = "poll" /\ child_state = "RUNNING"
    /\ child_state' = "STOPPING" /\ cli' = FALSE
    /\ pc' = "top"
    /\ UNCHANGED <<listen, output, vclhead, active, ask, vp, happened, childVars,
                   poker, panic>>

mcf_server_stop ==
    /\ pc = "poll" /\ child_state = "RUNNING"
    /\ StopChild
    /\ pc' = "top"
    /\ UNCHANGED <<listen, output, vclhead, active, ask, vp, happened, childVars>>

\* start with programs to run; the sockets may not open (CLIS_CANT).
mcf_server_start ==
    /\ pc = "poll" /\ child_state = "STOPPED" /\ vclhead # <<>>
    /\ \/ start_child
       \/ pc' = "top" /\ UNCHANGED <<mgtVars, ask, vp, happened, childVars>>

Operator ==
    \/ \E v \in Vcls : mcf_config_load(v) \/ mcf_config_use(v)
                       \/ mcf_config_discard(v)
    \/ mcf_askchild \/ mcf_server_stop \/ mcf_server_start

----------------------------------------------------------------------------
\* MGT_Run with the boot program compiled and active, its child just forked.
Init ==
    /\ child_state = "STARTING"
    /\ poker = ping /\ listen = TRUE /\ cli = TRUE /\ output = TRUE
    /\ vclhead = <<Boot>> /\ active = Boot
    /\ panic = FALSE
    /\ pc = "write" /\ vp = 1 /\ ask = PushAt(1) /\ happened = FALSE
    /\ proc = "alive" /\ killed = FALSE
    /\ in = <<>> /\ out = <<>>
    /\ cvcl = {} /\ cactive = None /\ late = FALSE

Next == ChildStep \/ ChildFault \/ AskStep \/ LoopStep \/ Operator

\* The manager's thread always goes on, timeouts and timers expire, signals
\* take effect and a child that is not hung serves its CLI.  The operator and
\* the faults are not fair.  A due timer is served before a pending signal and
\* re-armed from a time taken before its callback, so pings that take longer
\* than ping_interval may keep signals waiting while the child lives.  Once it
\* is dead a ping fails at once with EPIPE; then the timer is not due and the
\* signal is served.
Fairness ==
    /\ WF_vars(cls_vlu2) /\ WF_vars(CLI_Run_eof)
    /\ WF_vars(ChildKilled) /\ WF_vars(vev_sighandler)
    /\ WF_vars(AskStep)
    /\ WF_vars(vev_psig) /\ WF_vars(vev_poll) /\ WF_vars(child_listener)
    /\ SF_vars(child_poker) /\ SF_vars(mgt_sigchld)

Spec == Init /\ [][Next]_vars /\ Fairness

----------------------------------------------------------------------------
InLoop == pc \in {"top", "gap", "poll"}

\* While a child is running, has not been given up and owes no answer to a
\* command the manager stopped waiting for, the manager's list of VCL programs
\* is the child's, and the program the operator activated is the one the child
\* uses (mgt_vcc.c: the list changes only with the child's consent; a timeout
\* kills the child, which is then rebuilt from the list).
InSync ==
    (/\ InLoop /\ child_state = "RUNNING"
     /\ proc = "alive" /\ ~killed /\ ~late)
    => /\ cvcl = Range(vclhead)
       /\ active # None => cactive = active
       /\ in = <<>> /\ out = <<>>

\* Between two callbacks the events and descriptors are those of the state of
\* the child, however it got there: the ping timer lives only in CH_RUNNING
\* (else child_poker would free an event ev_poker still points to), the CLI
\* descriptors exactly in CH_RUNNING, the output descriptor exactly until the
\* child is reaped; no closex or AZ of mgt_child.c fails.
EventsMatchState ==
    /\ ~panic
    /\ InLoop =>
        /\ child_state \in {"RUNNING", "STOPPING", "STOPPED"}
        /\ poker => child_state = "RUNNING"
        /\ cli <=> child_state = "RUNNING"
        /\ output <=> child_pid
        /\ listen => output
        /\ child_pid <=> child_state # "STOPPED"

\* A dead child is noticed while the ping timer is registered, even when its
\* SIGCHLD falls between the look at psig and poll.
DeadIsReaped ==
    (proc = "zombie" /\ poker /\ child_state = "RUNNING") ~> (proc # "zombie")

\* A hung child is killed by the ping timer, as long as the timer is there.
HungIsKilled ==
    (proc = "hung" /\ child_state = "RUNNING" /\ poker)
        ~> (proc # "hung" \/ ~poker)

\* Does not hold.  With ping_interval set a running child that hangs does not
\* stay, unless it is stopped; but any SIGCHLD, such as that of the compiler of
\* a vcl.load, makes mgt_sigchld delete the ping timer of the child.
HungIsReplaced ==
    (proc = "hung" /\ child_state = "RUNNING" /\ ping)
        ~> (proc # "hung" \/ child_state # "RUNNING")
=============================================================================
