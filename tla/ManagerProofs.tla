--------------------------- MODULE ManagerProofs ---------------------------
(***************************************************************************)
(* Proofs about Manager, for any list of VCL programs and any settings:    *)
(* the events and descriptors fit the state of the child, and manager and  *)
(* child agree on the programs.                                            *)
(***************************************************************************)
EXTENDS Manager, ListLemmas

(***************************************************************************)
(* The inductive invariant.                                                *)
(***************************************************************************)
Whys == {"none", "load", "use", "discard", "start", "ping", "pass"}
Cmds == {c \in [why : Whys, vcl : Vcls \cup {None}] :
            c.why \in {"load", "use", "discard"} => c.vcl \in Vcls}

TypeInv ==
    /\ child_state \in {"STARTING", "RUNNING", "STOPPING", "STOPPED"}
    /\ poker \in BOOLEAN /\ listen \in BOOLEAN /\ cli \in BOOLEAN /\ output \in BOOLEAN
    /\ panic \in BOOLEAN /\ happened \in BOOLEAN /\ killed \in BOOLEAN /\ late \in BOOLEAN
    /\ vclhead \in Seq(Vcls) /\ active \in Vcls
    /\ pc \in {"top", "gap", "poll", "write", "read"}
    /\ ask \in Cmds /\ vp \in Nat
    /\ proc \in {"none", "alive", "hung", "exiting", "zombie"}
    /\ in \in Seq(Cmds) /\ out \in Seq(BOOLEAN)
    /\ cvcl \in SUBSET Vcls /\ cactive \in Vcls \cup {None}

\* Descriptors, events and the process in each state of the child, in callbacks too.
EventInv ==
    /\ ~panic
    /\ child_state = "STARTING" => ~InLoop
    /\ ~InLoop => child_state \in {"STARTING", "RUNNING"}
    /\ poker => child_state \in {"STARTING", "RUNNING"}
    /\ cli <=> child_state \in {"STARTING", "RUNNING"}
    /\ output <=> child_pid
    /\ listen => output
    /\ child_pid <=> child_state # "STOPPED"
    /\ killed => Up

\* The list names each program once, and the active one.
ListInv ==
    /\ Distinct(vclhead)
    /\ active \in Range(vclhead)

\* The command in hand is one the list and the state call for.
AskInv ==
    ~InLoop =>
        IF Pushing
        THEN /\ vp \in 1..(Len(vclhead) + 1)
             /\ \/ ask = PushAt(vp)
                \/ vp <= Len(vclhead) /\ ask = Cmd("use", vclhead[vp]) /\ ask.vcl = active
             /\ ~killed /\ ~late
        ELSE \/ ask.why = "load" /\ ask.vcl \in Vcls \ Range(vclhead)
             \/ ask.why \in {"use", "discard"} /\ ask.vcl \in Range(vclhead) \ {active}
             \/ ask.why \in {"ping", "pass"}

\* The first k programs of the list.
FirstOf(k) == {vclhead[i] : i \in 1..k}

\* What the child has when the command in hand was not carried out, and when it was.
Before ==
    IF Pushing
    THEN /\ cvcl = FirstOf(IF ask.why = "use" THEN vp ELSE vp - 1)
         /\ active \in FirstOf(vp - 1) => cactive = active
    ELSE cvcl = Range(vclhead) /\ cactive = active

After ==
    IF Pushing
    THEN /\ cvcl = FirstOf(IF ask.why = "start" THEN vp - 1 ELSE vp)
         /\ active \in FirstOf(IF ask.why = "use" THEN vp ELSE vp - 1) => cactive = active
    ELSE /\ cvcl = IF ask.why = "load" THEN Range(vclhead) \cup {ask.vcl} ELSE
                   IF ask.why = "discard" THEN Range(vclhead) \ {ask.vcl} ELSE Range(vclhead)
         /\ cactive = IF ask.why = "use" THEN ask.vcl ELSE active

\* A child that is not given up is one command behind at most.
Trusted == child_state \in {"STARTING", "RUNNING"} /\ Up /\ ~killed /\ ~late
SyncInv ==
    Trusted =>
        \/ pc # "read" /\ in = <<>> /\ out = <<>> /\ Before
        \/ pc = "read" /\ in = <<ask>> /\ out = <<>> /\ Before
        \/ pc = "read" /\ in = <<>> /\ out = <<FALSE>> /\ Before
        \/ pc = "read" /\ in = <<>> /\ out = <<TRUE>> /\ After

IInv == TypeInv /\ EventInv /\ ListInv /\ AskInv /\ SyncInv

-----------------------------------------------------------------------------
\* What a vcl command does to the list when it is carried out.
LEMMA AppliedFacts ==
    ASSUME TypeInv, ListInv, NEW c \in Cmds, Applied(c),
           c.why = "load" => c.vcl \notin Range(vclhead),
           c.why \in {"use", "discard"} => c.vcl \in Range(vclhead) \ {active}
    PROVE  /\ vclhead' \in Seq(Vcls) /\ active' \in Vcls
           /\ ListInv'
           /\ Range(vclhead') = IF c.why = "load" THEN Range(vclhead) \cup {c.vcl} ELSE
                  IF c.why = "discard" THEN Range(vclhead) \ {c.vcl} ELSE Range(vclhead)
           /\ active' = IF c.why = "use" THEN c.vcl ELSE active
<1> USE DEF Cmds
<1>1. CASE c.why = "load"
    BY <1>1, AppendEntry DEF Applied, ListInv, TypeInv
<1>2. CASE c.why = "discard"
  <2>1. /\ vclhead' = RemoveAt(vclhead, Where(c.vcl)) /\ active' = active
        /\ vclhead \in Seq(Vcls) /\ Distinct(vclhead)
      BY <1>2 DEF Applied, TypeInv, ListInv
  <2>2. Where(c.vcl) \in 1..Len(vclhead) /\ vclhead[Where(c.vcl)] = c.vcl
      BY <1>2, <2>1 DEF Where, Range
  <2>3. /\ vclhead' \in Seq(Vcls) /\ Distinct(vclhead')
        /\ Range(vclhead') = Range(vclhead) \ {c.vcl}
      BY <2>1, <2>2, RemoveEntry
  <2> QED BY <1>2, <2>1, <2>3 DEF ListInv, TypeInv
<1>3. CASE c.why \notin {"load", "discard"}
  <2>1. vclhead' = vclhead
      BY <1>3 DEF Applied
  <2> QED BY <1>3, <2>1 DEF Applied, ListInv, TypeInv
<1> QED BY <1>1, <1>2, <1>3

-----------------------------------------------------------------------------
(* Each part of the invariant is preserved.                                *)

LEMMA EventStep ==
    ASSUME TypeInv, EventInv, AskInv, [Next]_vars
    PROVE  EventInv'
<1> USE ManagerAssumption DEF TypeInv, EventInv, InLoop, child_pid, Up
<1>1. CASE ChildStep \/ ChildFault
  <2>1. CASE cls_vlu2
    <3>1. UNCHANGED <<mgtVars, loopVars, proc, killed>>
      BY <2>1 DEF cls_vlu2
    <3> QED BY <3>1 DEF mgtVars, loopVars
  <2>2. CASE CLI_Run_eof \/ ChildKilled \/ pan_ic
    BY <2>2 DEF CLI_Run_eof, ChildKilled, pan_ic, Exit, mgtVars, loopVars
  <2>3. CASE vev_sighandler \/ ChildHangs
    BY <2>3 DEF vev_sighandler, ChildHangs, mgtVars, loopVars
  <2> QED BY <1>1, <2>1, <2>2, <2>3 DEF ChildStep, ChildFault
<1>2. CASE AskStep
  <2>1. CASE askchild_write
    BY <2>1 DEF askchild_write, mgtVars
  <2>2. CASE askchild_epipe
    BY <2>2 DEF askchild_epipe, PushFails, CmdFails, StopChild, Pushing, MGT_Child_Cli_Fail,
        mgtVars
  <2>3. CASE askchild_answer
    BY <2>3 DEF askchild_answer, PushNext, PushDone, PushFails, CmdDone, CmdFails,
        StopChild, Pushing, mgtVars
  <2>4. CASE askchild_comms
    BY <2>4 DEF askchild_comms, PushFails, CmdFails, StopChild, Pushing,
        MGT_Child_Cli_Fail, mgtVars
  <2> QED BY <1>2, <2>1, <2>2, <2>3, <2>4 DEF AskStep
<1>3. CASE LoopStep
  <2>1. CASE vev_psig \/ vev_poll \/ child_poker \/ child_listener \/ mgt_sigchld_other
    BY <2>1 DEF vev_psig, vev_poll, child_poker, child_listener, mgt_sigchld_other,
        mgtVars, childVars
  <2>2. CASE mgt_sigchld_stopped \/ mgt_sigchld_restart
    BY <2>2 DEF mgt_sigchld_stopped, mgt_sigchld_restart, Spawn
  <2> QED BY <1>3, <2>1, <2>2 DEF LoopStep, mgt_sigchld
<1>4. CASE Operator
  <2>1. CASE \E v \in Vcls : mcf_config_load(v) \/ mcf_config_use(v) \/ mcf_config_discard(v)
    BY <2>1 DEF mcf_config_load, mcf_config_use, mcf_config_discard, AskOrApply,
        cmdUnchanged, childVars
  <2>2. CASE mcf_askchild \/ mcf_server_stop \/ mcf_server_start
    BY <2>2 DEF mcf_askchild, mcf_server_stop, mcf_server_start, start_child, Spawn,
        StopChild, cmdUnchanged, childVars, mgtVars
  <2> QED BY <1>4, <2>1, <2>2 DEF Operator
<1>5. CASE UNCHANGED vars
    BY <1>5 DEF vars, mgtVars, loopVars, childVars
<1> QED BY <1>1, <1>2, <1>3, <1>4, <1>5 DEF Next

\* The list of programs changes only where a vcl command is carried out.
LEMMA ListStep ==
    ASSUME TypeInv, EventInv, ListInv, AskInv, [Next]_vars
    PROVE  \/ UNCHANGED <<vclhead, active>>
           \/ /\ pc = "read" /\ ~Pushing /\ ask \in Cmds /\ Applied(ask)
              /\ askchild_answer /\ CmdDone
           \/ /\ ~child_pid /\ pc = "poll" /\ pc' = "top" /\ UNCHANGED ask
              /\ UNCHANGED cmdUnchanged
              /\ \E c \in Cmds :
                    /\ Applied(c)
                    /\ c.why = "load" => c.vcl \notin Range(vclhead)
                    /\ c.why \in {"use", "discard"} => c.vcl \in Range(vclhead) \ {active}
<1>1. CASE ChildStep \/ ChildFault
    BY <1>1 DEF ChildStep, ChildFault, cls_vlu2, CLI_Run_eof, ChildKilled, pan_ic, Exit,
        vev_sighandler, ChildHangs, mgtVars
<1>2. CASE AskStep
  <2>1. CASE askchild_write \/ askchild_epipe \/ askchild_comms
    BY <2>1 DEF askchild_write, askchild_epipe, askchild_comms, PushFails, CmdFails, mgtVars
  <2>2. CASE askchild_answer
    BY <2>2 DEF askchild_answer, PushNext, PushDone, PushFails, CmdDone, CmdFails,
        mgtVars, TypeInv
  <2> QED BY <1>2, <2>1, <2>2 DEF AskStep
<1>3. CASE LoopStep
    BY <1>3 DEF LoopStep, vev_psig, vev_poll, child_poker, child_listener, mgt_sigchld,
        mgt_sigchld_other, mgt_sigchld_stopped, mgt_sigchld_restart, mgtVars
<1>4. CASE Operator
  <2>1. ASSUME NEW v \in Vcls, NEW w \in {"load", "use", "discard"},
               pc = "poll", AskOrApply(Cmd(w, v)), UNCHANGED cmdUnchanged,
               w = "load" => v \notin Range(vclhead),
               w # "load" => v \in Range(vclhead) \ {active}
        PROVE  \/ UNCHANGED <<vclhead, active>>
               \/ /\ ~child_pid /\ pc = "poll" /\ pc' = "top" /\ UNCHANGED ask
                  /\ UNCHANGED cmdUnchanged
                  /\ \E c \in Cmds :
                        /\ Applied(c)
                        /\ c.why = "load" => c.vcl \notin Range(vclhead)
                        /\ c.why \in {"use", "discard"} => c.vcl \in Range(vclhead) \ {active}
    <3>1. Cmd(w, v) \in Cmds /\ Cmd(w, v).why = w /\ Cmd(w, v).vcl = v
        BY DEF Cmd, Cmds, Whys
    <3>2. CASE child_pid
        BY <2>1, <3>2 DEF AskOrApply
    <3>3. CASE ~child_pid
        BY <2>1, <3>1, <3>3 DEF AskOrApply
    <3> QED BY <3>2, <3>3
  <2>2. ASSUME NEW v \in Vcls, mcf_config_load(v)
        PROVE  UNCHANGED <<vclhead, active>> \/ AskOrApply(Cmd("load", v))
    BY <2>2 DEF mcf_config_load
  <2>3. CASE \E v \in Vcls : mcf_config_load(v) \/ mcf_config_use(v) \/ mcf_config_discard(v)
    BY <2>1, <2>2, <2>3 DEF mcf_config_load, mcf_config_use, mcf_config_discard
  <2>4. CASE mcf_askchild \/ mcf_server_stop \/ mcf_server_start
    BY <2>4 DEF mcf_askchild, mcf_server_stop, mcf_server_start, start_child, mgtVars
  <2> QED BY <1>4, <2>3, <2>4 DEF Operator
<1>5. CASE UNCHANGED vars
    BY <1>5 DEF vars, mgtVars
<1> QED BY <1>1, <1>2, <1>3, <1>4, <1>5 DEF Next

LEMMA ListInvStep ==
    ASSUME TypeInv, EventInv, ListInv, AskInv, [Next]_vars
    PROVE  ListInv' /\ vclhead' \in Seq(Vcls) /\ active' \in Vcls
<1>1. CASE UNCHANGED <<vclhead, active>>
    BY <1>1 DEF ListInv, TypeInv
<1>2. CASE /\ pc = "read" /\ ~Pushing /\ ask \in Cmds /\ Applied(ask)
           /\ askchild_answer /\ CmdDone
  <2>1. /\ ask.why = "load" => ask.vcl \notin Range(vclhead)
        /\ ask.why \in {"use", "discard"} => ask.vcl \in Range(vclhead) \ {active}
      BY <1>2 DEF AskInv, InLoop
  <2> QED BY <1>2, <2>1, AppliedFacts
<1>3. CASE \E c \in Cmds :
              /\ Applied(c)
              /\ c.why = "load" => c.vcl \notin Range(vclhead)
              /\ c.why \in {"use", "discard"} => c.vcl \in Range(vclhead) \ {active}
    BY <1>3, AppliedFacts
<1> QED BY <1>1, <1>2, <1>3, ListStep

LEMMA TypeStep ==
    ASSUME TypeInv, EventInv, ListInv, AskInv, [Next]_vars
    PROVE  TypeInv'
<1>c. Cmds' = Cmds
    BY DEF Cmds, Whys
<1> USE <1>c
<1>0. vclhead' \in Seq(Vcls) /\ active' \in Vcls
    BY ListInvStep
<1>1. NoCmd \in Cmds /\ \A i \in Nat \ {0} : PushAt(i) \in Cmds
    BY ManagerAssumption DEF NoCmd, PushAt, Cmd, Cmds, Whys, TypeInv
<1>2. /\ \A v \in Vcls, w \in {"load", "use", "discard"} : Cmd(w, v) \in Cmds
      /\ \A w \in {"ping", "pass", "start"} : Cmd(w, None) \in Cmds
    BY DEF Cmd, Cmds, Whys
<1>3. CASE ChildStep \/ ChildFault
  <2>1. CASE cls_vlu2
    <3>1. PICK ok \in BOOLEAN :
            /\ in' = Tail(in) /\ out' = Append(out, ok)
            /\ cvcl' = IF ok /\ Head(in).why = "load" THEN cvcl \cup {Head(in).vcl} ELSE
                       IF ok /\ Head(in).why = "discard" THEN cvcl \ {Head(in).vcl} ELSE cvcl
            /\ cactive' = IF ok /\ (Head(in).why = "use"
                                    \/ (Head(in).why = "load" /\ cactive = None))
                          THEN Head(in).vcl ELSE cactive
        BY <2>1 DEF cls_vlu2, Accepts
    <3>2. in # <<>> /\ UNCHANGED <<mgtVars, loopVars, proc, killed, late>>
        BY <2>1 DEF cls_vlu2
    <3>3. Head(in) \in Cmds /\ Tail(in) \in Seq(Cmds)
        BY <3>2 DEF TypeInv
    <3>4. cvcl' \in SUBSET Vcls /\ cactive' \in Vcls \cup {None}
        BY <3>1, <3>3 DEF Cmds, TypeInv
    <3> QED BY <3>1, <3>2, <3>3, <3>4 DEF mgtVars, loopVars, TypeInv
  <2>2. CASE Exit
    <3>1. <<>> \in Seq(Cmds) /\ {} \in SUBSET Vcls
        OBVIOUS
    <3>2. /\ in' = <<>> /\ cvcl' = {} /\ cactive' = None /\ proc' = "exiting"
          /\ killed' = FALSE /\ late' = FALSE /\ UNCHANGED <<mgtVars, loopVars, out>>
        BY <2>2 DEF Exit
    <3> QED BY <3>1, <3>2 DEF mgtVars, loopVars, TypeInv
  <2>3. CASE vev_sighandler
    BY <2>3 DEF vev_sighandler, mgtVars, TypeInv
  <2>4. CASE ChildHangs
    BY <2>4 DEF ChildHangs, mgtVars, loopVars, TypeInv
  <2> QED BY <1>3, <2>1, <2>2, <2>3, <2>4
      DEF ChildStep, ChildFault, CLI_Run_eof, ChildKilled, pan_ic
<1>4. CASE AskStep
  <2>1. CASE askchild_write
    BY <2>1 DEF askchild_write, mgtVars, TypeInv
  <2>2. ASSUME CmdFails \/ PushFails \/ PushNext \/ PushDone \/ CmdDone
        PROVE  /\ ask' \in Cmds /\ vp' \in Nat
               /\ child_state' \in {"STARTING", "RUNNING", "STOPPING", "STOPPED"}
               /\ poker' \in BOOLEAN /\ listen' \in BOOLEAN /\ cli' \in BOOLEAN
               /\ output' \in BOOLEAN /\ panic' \in BOOLEAN
               /\ pc' \in {"top", "gap", "poll", "write", "read"}
    <3>1. CASE PushNext
        BY <1>1, <1>2, <3>1 DEF PushNext, mgtVars, TypeInv
    <3>2. CASE PushDone
        BY <1>1, <3>2 DEF PushDone, TypeInv
    <3>3. CASE PushFails
        BY <1>1, <3>3 DEF PushFails, StopChild, TypeInv
    <3>4. CASE CmdFails
        BY <1>1, <3>4 DEF CmdFails, mgtVars, TypeInv
    <3>5. CASE CmdDone
        BY <1>1, <3>5 DEF CmdDone, TypeInv
    <3> QED BY <2>2, <3>1, <3>2, <3>3, <3>4, <3>5
  <2>3. CASE askchild_epipe
    <3>1. /\ UNCHANGED <<happened, proc, in, out, cvcl, cactive, late>>
          /\ MGT_Child_Cli_Fail /\ (CmdFails \/ PushFails)
        BY <2>3 DEF askchild_epipe
    <3>2. killed' \in BOOLEAN
        BY <3>1 DEF MGT_Child_Cli_Fail
    <3> QED BY <1>0, <2>2, <3>1, <3>2 DEF TypeInv
  <2>4. CASE askchild_answer
    <3>1. out # <<>> /\ out' = Tail(out) /\ UNCHANGED <<happened, proc, killed, in, cvcl, cactive, late>>
        BY <2>4 DEF askchild_answer
    <3>3. out' \in Seq(BOOLEAN)
        BY <3>1 DEF TypeInv
    <3>2. CmdFails \/ PushFails \/ PushNext \/ PushDone \/ CmdDone
        BY <2>4 DEF askchild_answer
    <3> QED BY <1>0, <2>2, <3>1, <3>2, <3>3 DEF TypeInv
  <2>5. CASE askchild_comms
    <3>1. /\ UNCHANGED <<happened, proc, in, out, cvcl, cactive>>
          /\ (CmdFails \/ PushFails)
          /\ (UNCHANGED killed \/ MGT_Child_Cli_Fail)
          /\ (late' = Up \/ late' = late)
        BY <2>5 DEF askchild_comms
    <3>2. CASE UNCHANGED killed
      <4>1. killed' \in BOOLEAN /\ Up \in BOOLEAN
          BY <3>2 DEF Up, TypeInv
      <4>2. late' \in BOOLEAN
          BY <3>1, <4>1 DEF TypeInv
      <4> QED BY <1>0, <2>2, <3>1, <4>1, <4>2 DEF TypeInv
    <3>3. CASE MGT_Child_Cli_Fail
      <4>1. killed' \in BOOLEAN /\ Up \in BOOLEAN
          BY <3>3 DEF MGT_Child_Cli_Fail, Up
      <4>2. late' \in BOOLEAN
          BY <3>1, <4>1 DEF TypeInv
      <4> QED BY <1>0, <2>2, <3>1, <4>1, <4>2 DEF TypeInv
    <3> QED BY <3>1, <3>2, <3>3
  <2> QED BY <1>4, <2>1, <2>3, <2>4, <2>5 DEF AskStep
<1>s. ASSUME NEW b, Spawn(b), happened' \in BOOLEAN PROVE TypeInv'
  <2>1. /\ child_state' = "STARTING" /\ cli' = TRUE /\ output' = TRUE /\ listen' = TRUE
        /\ poker' = ping /\ proc' = "alive" /\ killed' = FALSE /\ in' = <<>> /\ out' = <<>>
        /\ cvcl' = {} /\ cactive' = None /\ late' = FALSE /\ vp' = 1 /\ ask' = PushAt(1)
        /\ pc' = "write"
      BY <1>s DEF Spawn
  <2>2. panic' \in BOOLEAN
      BY <1>s DEF Spawn
  <2>3. /\ <<>> \in Seq(Cmds) /\ <<>> \in Seq(BOOLEAN)
        /\ {} \in SUBSET Vcls /\ PushAt(1) \in Cmds /\ ping \in BOOLEAN /\ 1 \in Nat
      BY <1>1, ManagerAssumption
  <2> QED BY <1>0, <1>s, <2>1, <2>2, <2>3 DEF TypeInv
<1>5. CASE LoopStep
  <2>1. CASE vev_psig
    BY <2>1 DEF vev_psig, mgtVars, childVars, TypeInv
  <2>2. CASE vev_poll
    BY <2>2 DEF vev_poll, mgtVars, childVars, TypeInv
  <2>3. CASE child_poker
    <3>1. ask' \in Cmds /\ pc' \in {"write", "top"} /\ panic' \in BOOLEAN
        BY <1>2, <2>3 DEF child_poker, TypeInv
    <3>2. UNCHANGED <<child_state, poker, listen, cli, output, vclhead, active,
                      vp, happened, childVars>>
        BY <2>3 DEF child_poker
    <3> QED BY <3>1, <3>2 DEF childVars, TypeInv
  <2>4. CASE child_listener
    BY <2>4 DEF child_listener, childVars, TypeInv
  <2>5. CASE mgt_sigchld_other
    BY <2>5 DEF mgt_sigchld_other, childVars, TypeInv
  <2>6. CASE mgt_sigchld_stopped
    <3>1. panic' \in BOOLEAN /\ <<>> \in Seq(BOOLEAN)
        BY <2>6 DEF mgt_sigchld_stopped
    <3>2. /\ child_state' = "STOPPED" /\ poker' = FALSE /\ listen' = FALSE /\ cli' = FALSE
          /\ output' = FALSE /\ happened' = FALSE /\ proc' = "none" /\ out' = <<>>
          /\ UNCHANGED <<vclhead, active, pc, ask, vp, killed, in, cvcl, cactive, late>>
        BY <2>6 DEF mgt_sigchld_stopped
    <3> QED BY <3>1, <3>2 DEF TypeInv
  <2>7. CASE mgt_sigchld_restart
    BY <1>s, <2>7 DEF mgt_sigchld_restart
  <2> QED BY <1>5, <2>1, <2>2, <2>3, <2>4, <2>5, <2>6, <2>7 DEF LoopStep, mgt_sigchld
<1>6. CASE Operator
  <2>1. ASSUME NEW v \in Vcls, mcf_config_load(v) \/ mcf_config_use(v) \/ mcf_config_discard(v)
        PROVE  TypeInv'
    <3>1. ASSUME NEW w \in {"load", "use", "discard"}, AskOrApply(Cmd(w, v))
          PROVE  ask' \in Cmds /\ pc' \in {"write", "top"}
        BY <1>1, <1>2, <3>1 DEF AskOrApply, TypeInv
    <3>2. ask' \in Cmds /\ pc' \in {"write", "top"} /\ happened' \in BOOLEAN
      <4>1. CASE mcf_config_load(v)
          BY <3>1, <4>1 DEF mcf_config_load, TypeInv
      <4>2. CASE mcf_config_use(v) \/ mcf_config_discard(v)
          BY <3>1, <4>2 DEF mcf_config_use, mcf_config_discard, TypeInv
      <4> QED BY <2>1, <4>1, <4>2
    <3>3. UNCHANGED cmdUnchanged
        BY <2>1 DEF mcf_config_load, mcf_config_use, mcf_config_discard
    <3> QED BY <1>0, <3>2, <3>3 DEF cmdUnchanged, childVars, TypeInv
  <2>2. CASE mcf_askchild
    BY <1>2, <2>2 DEF mcf_askchild, cmdUnchanged, childVars, TypeInv
  <2>3. CASE mcf_server_stop
    BY <2>3 DEF mcf_server_stop, StopChild, childVars, TypeInv
  <2>4. CASE mcf_server_start
    <3>1. CASE start_child
        BY <1>s, <3>1 DEF start_child, TypeInv
    <3>2. CASE pc' = "top" /\ UNCHANGED <<mgtVars, ask, vp, happened, childVars>>
        BY <3>2 DEF mgtVars, childVars, TypeInv
    <3> QED BY <2>4, <3>1, <3>2 DEF mcf_server_start
  <2> QED BY <1>6, <2>1, <2>2, <2>3, <2>4 DEF Operator
<1>7. CASE UNCHANGED vars
    BY <1>7 DEF vars, mgtVars, loopVars, childVars, TypeInv
<1> QED BY <1>3, <1>4, <1>5, <1>6, <1>7 DEF Next

\* When the command in hand is not touched, neither is what AskInv says of it.
LEMMA AskStutter ==
    ASSUME AskInv, UNCHANGED <<child_state, vclhead, active, ask, vp>>,
           InLoop => InLoop', killed' => killed, late' => late
    PROVE  AskInv'
<1>1. UNCHANGED Pushing /\ PushAt(vp)' = PushAt(vp)
    BY DEF Pushing, PushAt
<1> QED BY <1>1 DEF AskInv, Cmd

LEMMA AskInvStep ==
    ASSUME TypeInv, EventInv, ListInv, AskInv, [Next]_vars
    PROVE  AskInv'
<1>1. CASE ChildStep \/ ChildFault
  <2>1. /\ UNCHANGED <<child_state, vclhead, active, ask, vp>>
        /\ InLoop => InLoop'
        /\ killed' => killed
        /\ late' => late
    <3>1. CASE cls_vlu2
        BY <3>1 DEF cls_vlu2, mgtVars, loopVars, InLoop
    <3>2. CASE Exit
        BY <3>2 DEF Exit, mgtVars, loopVars, InLoop
    <3>3. CASE vev_sighandler \/ ChildHangs
        BY <3>3 DEF vev_sighandler, ChildHangs, mgtVars, loopVars, InLoop
    <3> QED BY <1>1, <3>1, <3>2, <3>3
        DEF ChildStep, ChildFault, CLI_Run_eof, ChildKilled, pan_ic
  <2> QED BY <2>1, AskStutter
<1>2. CASE AskStep
  <2>1. CASE askchild_write
    <3>1. /\ UNCHANGED <<child_state, vclhead, active, ask, vp, killed, late>>
          /\ ~InLoop
        BY <2>1 DEF askchild_write, mgtVars, InLoop
    <3> QED BY <3>1, AskStutter
  <2>2. CASE PushFails \/ CmdFails \/ PushDone \/ CmdDone
    <3>1. InLoop'
        BY <2>2 DEF PushFails, CmdFails, PushDone, CmdDone, InLoop
    <3> QED BY <3>1 DEF AskInv
  <2>3. CASE askchild_answer /\ PushNext
    <3>1. /\ Pushing /\ Pushing' /\ ~InLoop /\ UNCHANGED <<vclhead, active, killed, late>>
        BY <2>3 DEF askchild_answer, PushNext, Pushing, mgtVars, InLoop
    <3>2. /\ vp \in 1..(Len(vclhead) + 1)
          /\ \/ ask = PushAt(vp)
             \/ vp <= Len(vclhead) /\ ask = Cmd("use", vclhead[vp]) /\ ask.vcl = active
          /\ ~killed /\ ~late
        BY <3>1 DEF AskInv
    <3>3. /\ Len(vclhead) \in Nat
          /\ ask.why \in {"load", "use"} => vp <= Len(vclhead) /\ ask.vcl = vclhead[vp]
        BY <3>2 DEF PushAt, Cmd, TypeInv
    <3>4. CASE ask.why = "load" /\ ask.vcl = active /\ ask' = Cmd("use", active) /\ UNCHANGED vp
        BY <3>1, <3>2, <3>3, <3>4 DEF AskInv, Cmd
    <3>5. CASE /\ ask.why = "use" \/ (ask.why = "load" /\ ask.vcl # active)
               /\ vp' = vp + 1 /\ ask' = PushAt(vp + 1)
      <4>1. ask' = PushAt(vp)'
          BY <3>1, <3>5 DEF PushAt
      <4>2. vp' \in 1..(Len(vclhead') + 1)
          BY <3>1, <3>2, <3>3, <3>5
      <4> QED BY <3>1, <3>2, <4>1, <4>2 DEF AskInv
    <3> QED BY <2>3, <3>4, <3>5 DEF PushNext
  <2> QED BY <1>2, <2>1, <2>2, <2>3 DEF AskStep, askchild_epipe, askchild_answer, askchild_comms
<1>3. ASSUME NEW b, Spawn(b), UNCHANGED vclhead PROVE AskInv'
  <2>1. /\ Pushing' /\ vp' = 1 /\ ask' = PushAt(vp)' /\ ~killed' /\ ~late'
      BY <1>3 DEF Spawn, Pushing, PushAt
  <2>2. vp' \in 1..(Len(vclhead') + 1)
      BY <1>3, <2>1 DEF TypeInv
  <2> QED BY <2>1, <2>2 DEF AskInv
<1>4. CASE LoopStep
  <2>1. CASE vev_psig \/ vev_poll \/ child_listener \/ mgt_sigchld_other \/ mgt_sigchld_stopped
    <3>1. InLoop'
        BY <2>1 DEF vev_psig, vev_poll, child_listener, mgt_sigchld_other, mgt_sigchld_stopped,
            InLoop
    <3> QED BY <3>1 DEF AskInv
  <2>2. CASE child_poker
    <3>1. CASE child_state = "RUNNING"
      <4>1. ask' = Cmd("ping", None) /\ child_state' = "RUNNING"
          BY <2>2, <3>1 DEF child_poker
      <4> QED BY <4>1 DEF AskInv, Pushing, Cmd
    <3>2. CASE child_state # "RUNNING"
      <4>1. InLoop'
          BY <2>2, <3>2 DEF child_poker, InLoop
      <4> QED BY <4>1 DEF AskInv
    <3> QED BY <3>1, <3>2
  <2>3. CASE mgt_sigchld_restart
    BY <1>3, <2>3 DEF mgt_sigchld_restart
  <2> QED BY <1>4, <2>1, <2>2, <2>3 DEF LoopStep, mgt_sigchld
<1>5. CASE Operator
  <2>0. ASSUME pc = "poll" PROVE cli <=> child_state = "RUNNING"
    BY <2>0 DEF EventInv, InLoop
  <2>1. ASSUME NEW v \in Vcls, NEW w \in {"load", "use", "discard"},
               pc = "poll", AskOrApply(Cmd(w, v)), UNCHANGED child_state,
               w = "load" => v \notin Range(vclhead),
               w # "load" => v \in Range(vclhead) \ {active}
        PROVE  AskInv'
    <3>1. CASE InLoop'
        BY <3>1 DEF AskInv
    <3>2. CASE ~InLoop'
      <4>1. child_pid /\ cli /\ ask' = Cmd(w, v) /\ UNCHANGED <<vclhead, active>>
          BY <2>1, <3>2 DEF AskOrApply, InLoop
      <4>2. ~Pushing'
          BY <2>0, <2>1, <4>1 DEF Pushing
      <4> QED BY <2>1, <4>1, <4>2 DEF AskInv, Cmd
    <3> QED BY <3>1, <3>2
  <2>2. ASSUME NEW v \in Vcls, mcf_config_load(v) \/ mcf_config_use(v) \/ mcf_config_discard(v)
        PROVE  AskInv'
    <3>1. pc = "poll" /\ UNCHANGED child_state
        BY <2>2 DEF mcf_config_load, mcf_config_use, mcf_config_discard, cmdUnchanged
    <3>2. CASE mcf_config_load(v) /\ pc' = "top"
        BY <3>2 DEF AskInv, InLoop
    <3>3. CASE mcf_config_load(v) /\ AskOrApply(Cmd("load", v))
        BY <2>1, <3>1, <3>3 DEF mcf_config_load
    <3>4. CASE mcf_config_use(v)
        BY <2>1, <3>1, <3>4 DEF mcf_config_use
    <3>5. CASE mcf_config_discard(v)
        BY <2>1, <3>1, <3>5 DEF mcf_config_discard
    <3> QED BY <2>2, <3>2, <3>3, <3>4, <3>5 DEF mcf_config_load
  <2>3. CASE mcf_askchild
    <3>1. ask' = Cmd("pass", None) /\ child_state' = "RUNNING"
        BY <2>0, <2>3 DEF mcf_askchild, cmdUnchanged
    <3> QED BY <3>1 DEF AskInv, Cmd, Pushing
  <2>4. CASE mcf_server_stop
    BY <2>4 DEF mcf_server_stop, AskInv, InLoop
  <2>5. CASE mcf_server_start
    <3>1. CASE start_child
        BY <1>3, <3>1 DEF start_child
    <3>2. CASE pc' = "top"
        BY <3>2 DEF AskInv, InLoop
    <3> QED BY <2>5, <3>1, <3>2 DEF mcf_server_start
  <2> QED BY <1>5, <2>2, <2>3, <2>4, <2>5 DEF Operator
<1>6. CASE UNCHANGED vars
  <2>1. UNCHANGED <<child_state, vclhead, active, ask, vp, pc, killed, late>>
      BY <1>6 DEF vars, mgtVars, loopVars, childVars
  <2> QED BY <2>1, AskStutter DEF InLoop
<1> QED BY <1>1, <1>2, <1>4, <1>5, <1>6 DEF Next

LEMMA Single == \A x : Head(<<x>>) = x /\ Tail(<<x>>) = <<>> /\ Append(<<>>, x) = <<x>>
OBVIOUS

LEMMA FirstOfFacts ==
    ASSUME TypeInv
    PROVE  /\ FirstOf(0) = {}
           /\ FirstOf(Len(vclhead)) = Range(vclhead)
           /\ \A k \in 1..Len(vclhead) : FirstOf(k) = FirstOf(k - 1) \cup {vclhead[k]}
<1>1. Len(vclhead) \in Nat /\ DOMAIN vclhead = 1..Len(vclhead)
    BY DEF TypeInv
<1>2. FirstOf(0) = {}
    BY DEF FirstOf
<1>3. FirstOf(Len(vclhead)) = Range(vclhead)
    BY <1>1 DEF FirstOf, Range
<1>4. ASSUME NEW k \in 1..Len(vclhead)
      PROVE  FirstOf(k) = FirstOf(k - 1) \cup {vclhead[k]}
  <2>1. \A i : i \in 1..k <=> i \in 1..(k - 1) \/ i = k
      BY <1>1
  <2> QED BY <2>1 DEF FirstOf
<1> QED BY <1>2, <1>3, <1>4

\* The child carries the command out: After.
LEMMA ServedIsAfter ==
    ASSUME TypeInv, ListInv, AskInv, ~InLoop, Before, Accepts(ask),
           UNCHANGED <<child_state, vclhead, active, ask, vp>>,
           cvcl' = IF ask.why = "load" THEN cvcl \cup {ask.vcl} ELSE
                   IF ask.why = "discard" THEN cvcl \ {ask.vcl} ELSE cvcl,
           cactive' = IF ask.why = "use" \/ (ask.why = "load" /\ cactive = None)
                      THEN ask.vcl ELSE cactive
    PROVE  After'
<1>0. UNCHANGED Pushing /\ \A k : FirstOf(k)' = FirstOf(k)
    BY DEF Pushing, FirstOf
<1>1. active # None /\ active \in Vcls
    BY ManagerAssumption DEF TypeInv
<1>2. CASE Pushing
  <2>1. /\ vp \in 1..(Len(vclhead) + 1) /\ Len(vclhead) \in Nat
        /\ \/ vp <= Len(vclhead) /\ ask = Cmd("load", vclhead[vp])
           \/ vp > Len(vclhead) /\ ask = Cmd("start", None)
           \/ vp <= Len(vclhead) /\ ask = Cmd("use", vclhead[vp]) /\ ask.vcl = active
      BY <1>2 DEF AskInv, PushAt, TypeInv
  <2>2. /\ cvcl = FirstOf(IF ask.why = "use" THEN vp ELSE vp - 1)
        /\ active \in FirstOf(vp - 1) => cactive = active
      BY <1>2 DEF Before
  <2>3. /\ cvcl' = FirstOf(IF ask.why = "start" THEN vp - 1 ELSE vp)
        /\ active \in FirstOf(IF ask.why = "use" THEN vp ELSE vp - 1) => cactive' = active
    <3>1. CASE vp <= Len(vclhead) /\ ask = Cmd("load", vclhead[vp])
      <4>1. ask.why = "load" /\ ask.vcl = vclhead[vp] /\ vp \in 1..Len(vclhead)
          BY <2>1, <3>1 DEF Cmd
      <4>2. FirstOf(vp) = FirstOf(vp - 1) \cup {vclhead[vp]}
          BY <4>1, FirstOfFacts
      <4> QED BY <1>1, <2>2, <4>1, <4>2
    <3>2. CASE vp > Len(vclhead) /\ ask = Cmd("start", None)
      <4>1. ask.why = "start"
          BY <3>2 DEF Cmd
      <4> QED BY <2>2, <4>1
    <3>3. CASE vp <= Len(vclhead) /\ ask = Cmd("use", vclhead[vp]) /\ ask.vcl = active
      <4>1. ask.why = "use"
          BY <3>3 DEF Cmd
      <4> QED BY <2>2, <3>3, <4>1
    <3> QED BY <2>1, <3>1, <3>2, <3>3
  <2> QED BY <1>0, <1>2, <2>3 DEF After
<1>3. CASE ~Pushing
  <2>1. cvcl = Range(vclhead) /\ cactive = active
      BY <1>3 DEF Before
  <2> QED BY <1>0, <1>1, <1>3, <2>1 DEF After
<1> QED BY <1>2, <1>3

\* The manager takes the positive answer: After becomes Before.
LEMMA AnsweredIsBefore ==
    ASSUME TypeInv, EventInv, ListInv, AskInv, ~InLoop, After,
           PushNext \/ PushDone \/ CmdDone, UNCHANGED <<cvcl, cactive>>
    PROVE  Before'
<1>1. CASE PushNext
  <2>0. Pushing /\ Pushing' /\ UNCHANGED <<vclhead, active>>
      BY <1>1 DEF PushNext, Pushing, mgtVars
  <2>1. \A k : FirstOf(k)' = FirstOf(k)
      BY <2>0 DEF FirstOf
  <2>2. /\ vp \in 1..(Len(vclhead) + 1) /\ Len(vclhead) \in Nat
        /\ ask.why \in {"load", "use"} => vp \in 1..Len(vclhead) /\ ask.vcl = vclhead[vp]
      BY <2>0 DEF AskInv, PushAt, Cmd, TypeInv
  <2>3. /\ cvcl = FirstOf(IF ask.why = "start" THEN vp - 1 ELSE vp)
        /\ active \in FirstOf(IF ask.why = "use" THEN vp ELSE vp - 1) => cactive = active
      BY <2>0 DEF After
  <2>4. CASE ask.why = "load" /\ ask.vcl = active /\ ask' = Cmd("use", active) /\ UNCHANGED vp
    <3>1. ask'.why = "use"
        BY <2>4 DEF Cmd
    <3> QED BY <2>0, <2>1, <2>3, <2>4, <3>1 DEF Before
  <2>5. CASE /\ ask.why = "use" \/ (ask.why = "load" /\ ask.vcl # active)
             /\ vp' = vp + 1 /\ ask' = PushAt(vp + 1)
    <3>1. ask'.why # "use" /\ vp' - 1 = vp
        BY <2>2, <2>5 DEF PushAt, Cmd
    <3>2. FirstOf(vp) = FirstOf(vp - 1) \cup {vclhead[vp]}
        BY <2>2, <2>5, FirstOfFacts
    <3>3. cvcl = FirstOf(vp) /\ (active \in FirstOf(vp) => cactive = active)
        BY <2>2, <2>3, <2>5, <3>2
    <3> QED BY <2>0, <2>1, <3>1, <3>3 DEF Before
  <2> QED BY <1>1, <2>4, <2>5 DEF PushNext
<1>2. CASE PushDone
  <2>0. Pushing /\ ~Pushing' /\ UNCHANGED <<vclhead, active>> /\ ask.why = "start"
      BY <1>2 DEF PushDone, Pushing
  <2>1. vp - 1 = Len(vclhead)
      BY <2>0 DEF AskInv, PushAt, Cmd, TypeInv
  <2>2. cvcl = FirstOf(vp - 1) /\ (active \in FirstOf(vp - 1) => cactive = active)
      BY <2>0 DEF After
  <2>3. FirstOf(vp - 1) = Range(vclhead)
      BY <2>1, FirstOfFacts
  <2> QED BY <2>0, <2>2, <2>3 DEF Before, ListInv
<1>3. CASE CmdDone
  <2>0. ~Pushing /\ ~Pushing' /\ Applied(ask) /\ ask \in Cmds
      BY <1>3 DEF CmdDone, Pushing, TypeInv
  <2>1. /\ ask.why = "load" => ask.vcl \notin Range(vclhead)
        /\ ask.why \in {"use", "discard"} => ask.vcl \in Range(vclhead) \ {active}
      BY <2>0 DEF AskInv
  <2>2. /\ Range(vclhead') = IF ask.why = "load" THEN Range(vclhead) \cup {ask.vcl} ELSE
              IF ask.why = "discard" THEN Range(vclhead) \ {ask.vcl} ELSE Range(vclhead)
        /\ active' = IF ask.why = "use" THEN ask.vcl ELSE active
      BY <2>0, <2>1, AppliedFacts
  <2>3. /\ cvcl = IF ask.why = "load" THEN Range(vclhead) \cup {ask.vcl} ELSE
                  IF ask.why = "discard" THEN Range(vclhead) \ {ask.vcl} ELSE Range(vclhead)
        /\ cactive = IF ask.why = "use" THEN ask.vcl ELSE active
      BY <2>0 DEF After
  <2> QED BY <2>0, <2>2, <2>3 DEF Before
<1> QED BY <1>1, <1>2, <1>3

\* Between commands nothing is under way and the child has the list.
LEMMA IdleStutter ==
    ASSUME SyncInv, InLoop, EventInv,
           UNCHANGED <<child_state, vclhead, active, in, out, cvcl, cactive>>,
           pc' # "read", Trusted' => Trusted
    PROVE  SyncInv'
<1>1. SUFFICES ASSUME Trusted' PROVE in' = <<>> /\ out' = <<>> /\ Before'
    BY DEF SyncInv
<1>2. in = <<>> /\ out = <<>> /\ Before
    BY <1>1 DEF SyncInv, InLoop
<1>3. ~Pushing /\ ~Pushing'
    BY DEF EventInv, Pushing
<1> QED BY <1>2, <1>3 DEF Before

LEMMA SyncStep ==
    ASSUME TypeInv, EventInv, ListInv, AskInv, SyncInv, [Next]_vars
    PROVE  SyncInv'
<1>1. CASE ChildStep \/ ChildFault
  <2>1. CASE cls_vlu2
    <3> SUFFICES ASSUME Trusted' PROVE SyncInv'
        BY DEF SyncInv
    <3>1. /\ in # <<>> /\ UNCHANGED <<mgtVars, loopVars, proc, killed, late>>
          /\ in' = Tail(in)
        BY <2>1 DEF cls_vlu2
    <3>2. UNCHANGED <<child_state, vclhead, active, ask, vp, pc>>
        BY <3>1 DEF mgtVars, loopVars
    <3>3. Trusted
        BY <3>1, <3>2 DEF Trusted, Up
    <3>4. pc = "read" /\ in = <<ask>> /\ out = <<>> /\ Before
        BY <3>1, <3>3 DEF SyncInv
    <3>5. Head(in) = ask /\ in' = <<>>
        BY <3>1, <3>4
    <3>6. PICK ok \in BOOLEAN :
            /\ ok => Accepts(ask)
            /\ out' = Append(out, ok)
            /\ cvcl' = IF ok /\ ask.why = "load" THEN cvcl \cup {ask.vcl} ELSE
                       IF ok /\ ask.why = "discard" THEN cvcl \ {ask.vcl} ELSE cvcl
            /\ cactive' = IF ok /\ (ask.why = "use" \/ (ask.why = "load" /\ cactive = None))
                          THEN ask.vcl ELSE cactive
        BY <2>1, <3>5 DEF cls_vlu2, Accepts
    <3>7. CASE ok = TRUE
      <4>1. After'
          BY <3>2, <3>4, <3>6, <3>7, ServedIsAfter DEF InLoop
      <4>2. out' = <<TRUE>>
          BY <3>4, <3>6, <3>7, Single, Zenon
      <4> QED BY <3>2, <3>4, <3>5, <4>1, <4>2 DEF SyncInv
    <3>8. CASE ok = FALSE
      <4>1. UNCHANGED <<cvcl, cactive>>
          BY <3>6, <3>8
      <4>2. Before'
          BY <3>2, <3>4, <4>1 DEF Before, Pushing, FirstOf
      <4>3. out' = <<FALSE>>
          BY <3>4, <3>6, <3>8, Single, Zenon
      <4> QED BY <3>2, <3>4, <3>5, <4>2, <4>3 DEF SyncInv
    <3> QED BY <3>7, <3>8
  <2>2. CASE Exit \/ vev_sighandler
    <3>1. ~Trusted'
        BY <2>2 DEF Exit, vev_sighandler, Trusted, Up
    <3> QED BY <3>1 DEF SyncInv
  <2>3. CASE ChildHangs
    <3>1. /\ UNCHANGED <<child_state, vclhead, active, ask, vp, pc, killed, late, in, out, cvcl,
                         cactive>>
          /\ proc = "alive"
        BY <2>3 DEF ChildHangs, mgtVars, loopVars
    <3>2. UNCHANGED <<Before, After>> /\ (Trusted' => Trusted)
        BY <3>1 DEF Before, After, Pushing, FirstOf, Trusted, Up
    <3> QED BY <3>1, <3>2 DEF SyncInv
  <2> QED BY <1>1, <2>1, <2>2, <2>3
      DEF ChildStep, ChildFault, CLI_Run_eof, ChildKilled, pan_ic
<1>2. CASE AskStep
  <2>1. CASE askchild_write
    <3> SUFFICES ASSUME Trusted' PROVE SyncInv'
        BY DEF SyncInv
    <3>1. /\ UNCHANGED <<child_state, vclhead, active, ask, vp, proc, killed, late, out, cvcl,
                         cactive>>
          /\ pc = "write" /\ pc' = "read" /\ in' = Append(in, ask)
        BY <2>1 DEF askchild_write, mgtVars
    <3>2. Trusted
        BY <3>1 DEF Trusted, Up
    <3>3. in = <<>> /\ out = <<>> /\ Before
        BY <3>1, <3>2 DEF SyncInv
    <3>4. Before'
        BY <3>1, <3>3 DEF Before, Pushing, FirstOf
    <3>5. in' = <<ask>>
        BY <3>1, <3>3
    <3> QED BY <3>1, <3>3, <3>4, <3>5 DEF SyncInv
  <2>2. CASE askchild_epipe
    <3>1. ~Trusted'
        BY <2>2 DEF askchild_epipe, Trusted, Up
    <3> QED BY <3>1 DEF SyncInv
  <2>3. CASE askchild_answer
    <3> SUFFICES ASSUME Trusted' PROVE SyncInv'
        BY DEF SyncInv
    <3>1. /\ pc = "read" /\ out # <<>> /\ out' = Tail(out)
          /\ UNCHANGED <<happened, proc, killed, in, cvcl, cactive, late>>
        BY <2>3 DEF askchild_answer
    <3>2. ~PushFails
        BY DEF PushFails, StopChild, Trusted
    <3>3. pc' # "read" /\ Trusted
      <4>1. CASE PushNext \/ PushDone \/ CmdDone
          BY <3>1, <4>1 DEF PushNext, PushDone, CmdDone, Pushing, mgtVars, Trusted, Up
      <4>2. CASE CmdFails
          BY <3>1, <4>2 DEF CmdFails, mgtVars, Trusted, Up
      <4> QED BY <2>3, <3>2, <4>1, <4>2 DEF askchild_answer
    <3>4. \/ in = <<>> /\ out = <<FALSE>> /\ Before
          \/ in = <<>> /\ out = <<TRUE>> /\ After
        BY <3>1, <3>3 DEF SyncInv
    <3>5. in' = <<>> /\ out' = <<>>
        BY <3>1, <3>4, Single, Zenon
    <3>6. CASE out = <<FALSE>> /\ Before
      <4>1. ~Head(out)
          BY <3>6, Single, Zenon
      <4>2. CmdFails
          BY <2>3, <3>2, <4>1 DEF askchild_answer
      <4>3. ~Pushing /\ UNCHANGED <<child_state, vclhead, active, cvcl, cactive>>
          BY <3>1, <4>2 DEF CmdFails, mgtVars
      <4>4. Before'
          BY <3>6, <4>3 DEF Before, Pushing
      <4> QED BY <3>3, <3>5, <4>4 DEF SyncInv
    <3>7. CASE out = <<TRUE>> /\ After
      <4>1. Head(out)
          BY <3>7, Single, Zenon
      <4>2. PushNext \/ PushDone \/ CmdDone
          BY <2>3, <4>1 DEF askchild_answer
      <4>3. Before'
          BY <3>1, <3>7, <4>2, AnsweredIsBefore DEF InLoop
      <4> QED BY <3>3, <3>5, <4>3 DEF SyncInv
    <3> QED BY <3>4, <3>6, <3>7
  <2>4. CASE askchild_comms
    <3>1. CASE PushFails
        BY <3>1 DEF PushFails, StopChild, SyncInv, Trusted
    <3>2. CASE CmdFails
      <4>1. ~Pushing /\ UNCHANGED <<child_state, proc>> /\ ~InLoop
          BY <2>4, <3>2 DEF askchild_comms, CmdFails, mgtVars, InLoop
      <4>2. child_state = "RUNNING"
          BY <4>1 DEF EventInv, Pushing
      <4>3. late' = Up \/ killed' = (killed \/ (child_state = "RUNNING" /\ Up))
          BY <2>4 DEF askchild_comms, MGT_Child_Cli_Fail
      <4>4. Up' = Up
          BY <4>1 DEF Up
      <4>5. ~Trusted'
          BY <4>2, <4>3, <4>4 DEF Trusted
      <4> QED BY <4>5 DEF SyncInv
    <3> QED BY <2>4, <3>1, <3>2 DEF askchild_comms
  <2> QED BY <1>2, <2>1, <2>2, <2>3, <2>4 DEF AskStep
<1>3. ASSUME NEW b, Spawn(b), UNCHANGED vclhead PROVE SyncInv'
  <2>1. /\ Pushing' /\ pc' # "read" /\ in' = <<>> /\ out' = <<>> /\ cvcl' = {} /\ vp' = 1
        /\ ask'.why # "use"
      BY <1>3 DEF Spawn, Pushing, PushAt, Cmd
  <2>2. FirstOf(0)' = {} /\ vp' - 1 = 0
      BY <2>1 DEF FirstOf
  <2>3. Before'
      BY <2>1, <2>2 DEF Before
  <2> QED BY <2>1, <2>3 DEF SyncInv
<1>4. CASE LoopStep
  <2>1. CASE vev_psig \/ vev_poll \/ child_listener \/ mgt_sigchld_other \/ child_poker
    <3>1. /\ InLoop /\ pc' # "read"
          /\ UNCHANGED <<child_state, vclhead, active, in, out, cvcl, cactive>>
          /\ UNCHANGED <<proc, killed, late>>
        BY <2>1 DEF vev_psig, vev_poll, child_listener, mgt_sigchld_other, child_poker, InLoop,
            mgtVars, childVars
    <3> QED BY <3>1, IdleStutter DEF Trusted, Up
  <2>2. CASE mgt_sigchld_stopped
    BY <2>2 DEF mgt_sigchld_stopped, SyncInv, Trusted
  <2>3. CASE mgt_sigchld_restart
    BY <1>3, <2>3 DEF mgt_sigchld_restart
  <2> QED BY <1>4, <2>1, <2>2, <2>3 DEF LoopStep, mgt_sigchld
<1>5. CASE Operator
  <2>1. ASSUME NEW v \in Vcls, mcf_config_load(v) \/ mcf_config_use(v) \/ mcf_config_discard(v)
        PROVE  SyncInv'
    <3>1. UNCHANGED cmdUnchanged /\ pc = "poll" /\ pc' # "read"
        BY <2>1 DEF mcf_config_load, mcf_config_use, mcf_config_discard, AskOrApply
    <3>2. UNCHANGED <<child_state, in, out, cvcl, cactive, proc, killed, late>>
        BY <3>1 DEF cmdUnchanged, childVars
    <3>3. CASE ~child_pid
      <4>1. ~Trusted'
          BY <3>2, <3>3 DEF child_pid, Trusted, Up
      <4> QED BY <4>1 DEF SyncInv
    <3>4. CASE child_pid
      <4>1. UNCHANGED <<vclhead, active>>
          BY <2>1, <3>4 DEF mcf_config_load, mcf_config_use, mcf_config_discard, AskOrApply
      <4> QED BY <3>1, <3>2, <4>1, IdleStutter DEF Trusted, Up, InLoop
    <3> QED BY <3>3, <3>4
  <2>2. CASE mcf_askchild
    <3>1. /\ pc = "poll" /\ pc' # "read"
          /\ UNCHANGED <<child_state, vclhead, active, in, out, cvcl, cactive, proc, killed, late>>
        BY <2>2 DEF mcf_askchild, cmdUnchanged, childVars
    <3> QED BY <3>1, IdleStutter DEF Trusted, Up, InLoop
  <2>3. CASE mcf_server_stop
    BY <2>3 DEF mcf_server_stop, StopChild, SyncInv, Trusted
  <2>4. CASE mcf_server_start
    <3>1. CASE start_child
        BY <1>3, <3>1 DEF start_child
    <3>2. CASE pc' = "top" /\ UNCHANGED <<mgtVars, ask, vp, happened, childVars>>
        BY <2>4, <3>2 DEF mcf_server_start, mgtVars, childVars, SyncInv, Trusted
    <3> QED BY <2>4, <3>1, <3>2 DEF mcf_server_start
  <2> QED BY <1>5, <2>1, <2>2, <2>3, <2>4 DEF Operator
<1>6. CASE UNCHANGED vars
  <2>1. UNCHANGED <<child_state, vclhead, active, ask, vp, pc, killed, late, in, out, cvcl,
                    cactive, proc>>
      BY <1>6 DEF vars, mgtVars, loopVars, childVars
  <2>2. UNCHANGED <<Before, After, Trusted>>
      BY <2>1 DEF Before, After, Pushing, FirstOf, Trusted, Up
  <2> QED BY <2>1, <2>2 DEF SyncInv
<1> QED BY <1>1, <1>2, <1>4, <1>5, <1>6 DEF Next

-----------------------------------------------------------------------------
(* The theorems.                                                           *)

\* MGT_Run leaves a child to which nothing has been pushed yet.
LEMMA InitIInv == Init => IInv
<1> SUFFICES ASSUME Init PROVE IInv
    OBVIOUS
<1> USE ManagerAssumption
<1>1. /\ Pushing /\ pc = "write" /\ vclhead = <<Boot>> /\ active = Boot /\ vp = 1
      /\ ask = Cmd("load", Boot) /\ ask = PushAt(vp)
    BY DEF Init, Pushing, PushAt
<1>2. /\ Len(vclhead) = 1 /\ vclhead[1] = Boot /\ DOMAIN vclhead = 1..1 /\ vclhead \in Seq(Vcls)
    BY <1>1
<1>3. ask \in Cmds
    BY <1>1 DEF Cmd, Cmds, Whys
<1>4. TypeInv
  <2>1. <<>> \in Seq(Cmds) /\ <<>> \in Seq(BOOLEAN) /\ {} \in SUBSET Vcls
      OBVIOUS
  <2>2. /\ child_state = "STARTING" /\ poker = ping /\ listen = TRUE /\ cli = TRUE
        /\ output = TRUE /\ panic = FALSE /\ happened = FALSE /\ proc = "alive"
        /\ killed = FALSE /\ in = <<>> /\ out = <<>> /\ cvcl = {} /\ cactive = None
        /\ late = FALSE
      BY DEF Init
  <2> QED BY <1>1, <1>2, <1>3, <2>1, <2>2 DEF TypeInv
<1>5. EventInv
    BY DEF Init, EventInv, InLoop, child_pid, Up
<1>6. ListInv
    BY <1>1, <1>2 DEF ListInv, Distinct, Range
<1>7. AskInv
    BY <1>1, <1>2 DEF Init, AskInv
<1>8. FirstOf(0) = {} /\ ask.why # "use"
    BY <1>1 DEF FirstOf, Cmd
<1>9. SyncInv
    BY <1>1, <1>8 DEF Init, SyncInv, Before
<1> QED BY <1>4, <1>5, <1>6, <1>7, <1>9 DEF IInv

LEMMA NextIInv == IInv /\ [Next]_vars => IInv'
BY EventStep, TypeStep, ListInvStep, AskInvStep, SyncStep DEF IInv

\* The invariant of the manager's loop and of mgt_push_vcls_and_start holds at every point.
THEOREM ManagerIInv == Spec => []IInv
BY InitIInv, NextIInv, PTL DEF Spec

\* Between callbacks the events and descriptors of mgt_child.c are those of the state of the
\* child, and none of its assertions on them fails.
THEOREM EventsAlwaysMatch == Spec => []EventsMatchState
<1>1. IInv => EventsMatchState
    BY DEF IInv, TypeInv, EventInv, EventsMatchState, InLoop, child_pid
<1> QED BY <1>1, ManagerIInv, PTL

\* A running child that owes no answer has exactly the manager's VCL programs, and uses the
\* one that is active: across restarts, failed loads, timeouts and a dying child.
THEOREM ManagerInSync == Spec => []InSync
<1>1. IInv => InSync
  <2> SUFFICES ASSUME IInv, InLoop, child_state = "RUNNING", proc = "alive", ~killed, ~late
               PROVE  cvcl = Range(vclhead) /\ cactive = active /\ in = <<>> /\ out = <<>>
      BY DEF InSync
  <2>1. Trusted /\ ~Pushing
      BY DEF Trusted, Up, Pushing
  <2>2. in = <<>> /\ out = <<>> /\ Before
      BY <2>1 DEF IInv, SyncInv, InLoop
  <2> QED BY <2>1, <2>2 DEF Before
<1> QED BY <1>1, ManagerIInv, PTL
=============================================================================
