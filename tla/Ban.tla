-------------------------------- MODULE Ban --------------------------------
(***************************************************************************)
(* Bans (cache_ban.c): the list of bans, newest first, the objcores that   *)
(* hang on the newest ban they have been tested against, the test a lookup *)
(* makes before it delivers an object, and the ban lurker, which tests     *)
(* objects in the background and retires bans nobody needs any more.       *)
(*                                                                         *)
(* One action is one critical section under ban_mtx, or one look at the    *)
(* flags of one ban where the code walks the list without that lock.       *)
(* Every objcore is on an objhead of its own, so mtx[oc] is its oh->mtx.   *)
(* A ban matches the objects of one kind; one that looks at req.* can only *)
(* be tested with a request at hand.                                       *)
(***************************************************************************)
EXTENDS Naturals, Sequences, FiniteSets, SequencesExt

CONSTANTS
    Bans,       \* memory for bans
    OCs,        \* memory for objcores
    Kinds,      \* what a ban can tell apart about objects
    Clients,    \* worker threads in HSH_Lookup
    CLIs,       \* threads that add and list bans: the CLI, and VCL's ban()
    Lurker,     \* the ban lurker thread
    None,       \* NULL
    Params      \* values params may have: ban_dups, and ban_lurker_sleep > 0

ASSUME BanConstants ==
    /\ None \notin Bans \cup OCs \cup Kinds \cup Clients \cup {Lurker}
    /\ Lurker \notin Clients
    /\ IsFiniteSet(OCs) /\ IsFiniteSet(CLIs)
    /\ Params \subseteq [ban_dups : BOOLEAN, lurker : BOOLEAN]

Checkers == Clients \cup {Lurker}
Specs    == [req : BOOLEAN, kind : Kinds]
NoSpec   == [req |-> FALSE, kind |-> None]
Colours  == SUBSET {1, 2}               \* the two bits of BAN_F_LURK

VARIABLES
    \* struct ban
    ban_head,  \* the list of bans; ban_start is its first element
    spec,      \* ban -> its tests
    gone,      \* the bans with BAN_F_GONE
    colour,    \* ban -> flags & BAN_F_LURK
    refcount,  \* ban -> b->refcount
    objcore,   \* ban -> the list b->objcore
    \* struct objcore
    state,     \* objcore -> "none", "busy", "live", "dead" (ttl <= 0), "dying"
    kind,      \* objcore -> what its object looks like to a ban
    ocban,     \* objcore -> oc->ban
    occolour,  \* objcore -> flags & OC_F_LURK
    mtx,       \* objcore -> who holds oh->mtx across several steps
    \* threads in ban_check_object
    pc,        \* checker -> where it is
    oc,        \* checker -> the objcore it looks at
    b0,        \* checker -> ban_start when the test began
    b,         \* checker -> the ban it looks at
    skipped,   \* checker -> a req.* ban was skipped
    \* the ban lurker
    pass,      \* its colour in this pass
    bl,        \* the ban whose objects it tests, or that it tags
    bl0,       \* b0 in ban_lurker_work, the newest ban it can do
    \* threads in BAN_Insert or ccf_ban_list
    tail,      \* the tail ban they hold a reference on
    new,       \* the ban being inserted
    params,    \* the parameters of bans
    \* history
    owed,      \* objcores that a ban matched since they were created
    must,      \* clients whose objcore was owed when the test began
    deferred   \* objcores the lurker met while they were busy

banVars  == <<ban_head, spec, gone, colour, refcount, objcore>>
ocVars   == <<state, kind, ocban, occolour, mtx>>
chkVars  == <<pc, oc, b0, b, skipped>>
lurkVars == <<pass, bl, bl0>>
cliVars  == <<tail, new>>
history  == <<owed, must, deferred>>
vars == <<banVars, ocVars, chkVars, lurkVars, cliVars, history, params>>

\* BAN_Init: the list holds ban_magic, which tests nothing and is GONE.
Init ==
    /\ \E magic \in Bans : ban_head = <<magic>> /\ gone = {magic}
    /\ spec = [x \in Bans |-> NoSpec]
    /\ colour = [x \in Bans |-> {}]
    /\ refcount = [x \in Bans |-> 0]
    /\ objcore = [x \in Bans |-> <<>>]
    /\ state = [o \in OCs |-> "none"]
    /\ kind = [o \in OCs |-> None]
    /\ ocban = [o \in OCs |-> None]
    /\ occolour = [o \in OCs |-> {}]
    /\ mtx = [o \in OCs |-> None]
    /\ pc = [t \in Checkers |-> IF t = Lurker THEN "last" ELSE "idle"]
    /\ oc = [t \in Checkers |-> None]
    /\ b0 = [t \in Checkers |-> None]
    /\ b = [t \in Checkers |-> None]
    /\ skipped = [t \in Checkers |-> FALSE]
    /\ pass = {1} /\ bl = None /\ bl0 = None
    /\ tail = [i \in CLIs |-> None]
    /\ new = [i \in CLIs |-> None]
    /\ params \in Params
    /\ owed = {} /\ must = {} /\ deferred = {}

\* Where x is on a list; the list after VTAILQ_REMOVE of x.
Index(q, x) == CHOOSE i \in DOMAIN q : q[i] = x
Without(q, x) == RemoveAt(q, Index(q, x))

\* The newest ban; the neighbours of a ban on the list.
ban_start == Head(ban_head)
Pos(x) == Index(ban_head, x)
Older(x) == ban_head[Pos(x) + 1]
Newer(x) == ban_head[Pos(x) - 1]

-----------------------------------------------------------------------------
(***************************************************************************)
(* Adding and listing bans                                                 *)
(***************************************************************************)

\* Mutant of BAN_Insert: the tail is not referenced for the hunt.
BAN_Insert_noref(i) ==
    /\ tail[i] = None
    /\ \E x \in Bans \ ToSet(ban_head), sp \in Specs :
          /\ ban_head' = Cons(x, ban_head)
          /\ spec' = [spec EXCEPT ![x] = sp]
          /\ owed' = owed \cup {o \in OCs : /\ ocban[o] # None
                                            /\ state[o] # "dying"
                                            /\ kind[o] = sp.kind}
          /\ new' = IF params.ban_dups THEN [new EXCEPT ![i] = x] ELSE new
    /\ tail' = IF params.ban_dups THEN [tail EXCEPT ![i] = Last(ban_head)] ELSE tail
    /\ UNCHANGED <<gone, colour, refcount, objcore, ocVars, chkVars, lurkVars,
                   must, deferred>>

\* BAN_Insert: the new ban goes first, and the tail is held if duplicates are
\* to be hunted ...
BAN_Insert(i) ==
    /\ tail[i] = None
    /\ \E x \in Bans \ ToSet(ban_head), sp \in Specs :
          /\ ban_head' = Cons(x, ban_head)
          /\ spec' = [spec EXCEPT ![x] = sp]
          /\ owed' = owed \cup {o \in OCs : /\ ocban[o] # None
                                            /\ state[o] # "dying"
                                            /\ kind[o] = sp.kind}
          /\ new' = IF params.ban_dups THEN [new EXCEPT ![i] = x] ELSE new
    /\ IF params.ban_dups
       THEN /\ tail' = [tail EXCEPT ![i] = Last(ban_head)]
            /\ refcount' = [refcount EXCEPT ![Last(ban_head)] = @ + 1]
       ELSE UNCHANGED <<tail, refcount>>
    /\ UNCHANGED <<gone, colour, objcore, ocVars, chkVars, lurkVars, must,
                   deferred>>

\* ... then, under the lock again, older bans with the same tests are GONE.
BAN_Insert_dups(i) ==
    /\ new[i] # None
    /\ gone' = gone \cup {x \in ToSet(ban_head) :
                             /\ Pos(new[i]) < Pos(x) /\ Pos(x) <= Pos(tail[i])
                             /\ spec[x] = spec[new[i]]}
    /\ refcount' = [refcount EXCEPT ![tail[i]] = @ - 1]
    /\ tail' = [tail EXCEPT ![i] = None]
    /\ new' = [new EXCEPT ![i] = None]
    /\ UNCHANGED <<ban_head, spec, colour, objcore, ocVars, chkVars, lurkVars,
                   history>>

\* ban.list holds the tail while it walks the list.
BAN_TailRef(i) ==
    /\ tail[i] = None
    /\ tail' = [tail EXCEPT ![i] = Last(ban_head)]
    /\ refcount' = [refcount EXCEPT ![Last(ban_head)] = @ + 1]
    /\ UNCHANGED <<ban_head, spec, gone, colour, objcore, ocVars, chkVars,
                   lurkVars, new, history>>

BAN_TailDeref(i) ==
    /\ tail[i] # None /\ new[i] = None
    /\ refcount' = [refcount EXCEPT ![tail[i]] = @ - 1]
    /\ tail' = [tail EXCEPT ![i] = None]
    /\ UNCHANGED <<ban_head, spec, gone, colour, objcore, ocVars, chkVars,
                   lurkVars, new, history>>

-----------------------------------------------------------------------------
(***************************************************************************)
(* The life of an objcore, as far as bans see it                           *)
(***************************************************************************)

\* STV_MkObject: the new object hangs on the newest ban, while it is busy.
BAN_NewObjCore(o) ==
    /\ state[o] = "none"
    /\ state' = [state EXCEPT ![o] = "busy"]
    /\ \E k \in Kinds : kind' = [kind EXCEPT ![o] = k]
    /\ ocban' = [ocban EXCEPT ![o] = ban_start]
    /\ refcount' = [refcount EXCEPT ![ban_start] = @ + 1]
    /\ objcore' = [objcore EXCEPT ![ban_start] = Append(@, o)]
    /\ UNCHANGED <<ban_head, spec, gone, colour, occolour, mtx, chkVars,
                   lurkVars, cliVars, history>>

\* HSH_Unbusy, with a ttl or (HSH_Drop) without.
HSH_Unbusy(o) ==
    /\ state[o] = "busy" /\ mtx[o] = None
    /\ \E st \in {"live", "dead"} : state' = [state EXCEPT ![o] = st]
    /\ UNCHANGED <<banVars, kind, ocban, occolour, mtx, chkVars, lurkVars,
                   cliVars, history>>

\* HSH_Purge and expiry end the life of an object.
EXP_Clr(o) ==
    /\ state[o] = "live"
    /\ state' = [state EXCEPT ![o] = "dead"]
    /\ UNCHANGED <<banVars, kind, ocban, occolour, mtx, chkVars, lurkVars,
                   cliVars, history>>

\* The last HSH_Deref takes the objcore off its objhead ...
HSH_Deref(o) ==
    /\ state[o] \in {"live", "dead"} /\ mtx[o] = None
    /\ \A c \in Clients : oc[c] # o
    /\ state' = [state EXCEPT ![o] = "dying"]
    /\ UNCHANGED <<banVars, kind, ocban, occolour, mtx, chkVars, lurkVars,
                   cliVars, history>>

\* ... and then, with oh->mtx released, off its ban.
BAN_DestroyObj(o) ==
    /\ state[o] = "dying"
    /\ IF ocban[o] = None
       THEN UNCHANGED <<refcount, objcore>>
       ELSE /\ refcount' = [refcount EXCEPT ![ocban[o]] = @ - 1]
            /\ objcore' = [objcore EXCEPT ![ocban[o]] = Without(@, o)]
    /\ state' = [state EXCEPT ![o] = "none"]
    /\ kind' = [kind EXCEPT ![o] = None]
    /\ ocban' = [ocban EXCEPT ![o] = None]
    /\ occolour' = [occolour EXCEPT ![o] = {}]
    /\ owed' = owed \ {o}
    /\ deferred' = deferred \ {o}
    /\ UNCHANGED <<ban_head, spec, gone, colour, mtx, chkVars, lurkVars,
                   cliVars, must>>

-----------------------------------------------------------------------------
(***************************************************************************)
(* ban_check_object, under oh->mtx.  The walk from b0 to the object's own  *)
(* ban looks at the flags of one ban at a time, without ban_mtx.           *)
(***************************************************************************)

\* GONE, or "Lurker already tested this".
Tested(x, o) == x \in gone \/ (colour[x] # {} /\ colour[x] = occolour[o])

\* HSH_Lookup finds a live object: it is current if nothing was banned since.
BAN_CheckObject(c, o) ==
    /\ pc[c] = "idle" /\ state[o] = "live" /\ mtx[o] = None
    /\ oc' = [oc EXCEPT ![c] = o]
    /\ must' = IF o \in owed THEN must \cup {c} ELSE must
    /\ IF ban_start = ocban[o]
       THEN pc' = [pc EXCEPT ![c] = "served"] /\ UNCHANGED <<mtx, b0, b>>
       ELSE /\ pc' = [pc EXCEPT ![c] = "scan"]
            /\ mtx' = [mtx EXCEPT ![o] = c]
            /\ b0' = [b0 EXCEPT ![c] = ban_start]
            /\ b' = [b EXCEPT ![c] = ban_start]
    /\ UNCHANGED <<banVars, state, kind, ocban, occolour, skipped, lurkVars,
                   cliVars, owed, deferred>>

ban_evaluate(t) ==
    LET x == b[t] IN
    /\ pc[t] = "scan" /\ x # ocban[oc[t]]
    /\ IF Tested(x, oc[t])
       THEN b' = [b EXCEPT ![t] = Older(x)] /\ UNCHANGED <<pc, skipped>>
       ELSE IF t = Lurker /\ spec[x].req
       THEN /\ b' = [b EXCEPT ![t] = Older(x)]
            /\ skipped' = [skipped EXCEPT ![t] = TRUE]
            /\ pc' = pc
       ELSE IF spec[x].kind = kind[oc[t]]
       THEN pc' = [pc EXCEPT ![t] = "matched"] /\ UNCHANGED <<b, skipped>>
       ELSE b' = [b EXCEPT ![t] = Older(x)] /\ UNCHANGED <<pc, skipped>>
    /\ UNCHANGED <<banVars, ocVars, oc, b0, lurkVars, cliVars, history>>

\* The thread t is done with its objcore; a client goes on to the step stp.
Finish(t, stp) ==
    /\ pc' = [pc EXCEPT ![t] = IF t = Lurker THEN "walk" ELSE stp]
    /\ oc' = IF stp = "served" /\ t # Lurker THEN oc
             ELSE [oc EXCEPT ![t] = None]
    /\ b0' = [b0 EXCEPT ![t] = None]
    /\ b' = [b EXCEPT ![t] = None]
    /\ skipped' = [skipped EXCEPT ![t] = FALSE]
    /\ mtx' = [mtx EXCEPT ![oc[t]] = None]

\* Mutant of ban_check_object_pass: the reference on the old ban is kept.
ban_check_object_pass_keep(t) ==
    LET o == oc[t] IN
    /\ pc[t] = "scan" /\ b[t] = ocban[o] /\ ~skipped[t]
    /\ refcount' = [refcount EXCEPT ![b0[t]] = @ + 1]
    /\ objcore' = [objcore EXCEPT ![ocban[o]] = Without(@, o),
                                  ![b0[t]] = Append(@, o)]
    /\ colour' = [colour EXCEPT ![ocban[o]] = {}]
    /\ ocban' = [ocban EXCEPT ![o] = b0[t]]
    /\ Finish(t, "served")
    /\ UNCHANGED <<ban_head, spec, gone, state, kind, occolour, lurkVars,
                   cliVars, history>>

\* Mutant of ban_check_object_pass: ban_start is read again.
ban_check_object_pass_newest(t) ==
    LET o == oc[t] IN
    /\ pc[t] = "scan" /\ b[t] = ocban[o] /\ ~skipped[t]
    /\ refcount' = [refcount EXCEPT ![ocban[o]] = @ - 1, ![ban_start] = @ + 1]
    /\ objcore' = [objcore EXCEPT ![ocban[o]] = Without(@, o),
                                  ![ban_start] = Append(@, o)]
    /\ colour' = [colour EXCEPT ![ocban[o]] = {}]
    /\ ocban' = [ocban EXCEPT ![o] = ban_start]
    /\ Finish(t, "served")
    /\ UNCHANGED <<ban_head, spec, gone, state, kind, occolour, lurkVars,
                   cliVars, history>>

\* No ban matched: the object moves to b0.
ban_check_object_pass(t) ==
    LET o == oc[t] IN
    /\ pc[t] = "scan" /\ b[t] = ocban[o] /\ ~skipped[t]
    /\ refcount' = [refcount EXCEPT ![ocban[o]] = @ - 1, ![b0[t]] = @ + 1]
    /\ objcore' = [objcore EXCEPT ![ocban[o]] = Without(@, o),
                                  ![b0[t]] = Append(@, o)]
    /\ colour' = [colour EXCEPT ![ocban[o]] = {}]
    /\ ocban' = [ocban EXCEPT ![o] = b0[t]]
    /\ Finish(t, "served")
    /\ UNCHANGED <<ban_head, spec, gone, state, kind, occolour, lurkVars,
                   cliVars, history>>

\* A ban matched: the object is off the ban list and its ttl is cleared.
ban_check_object_banned(t) ==
    LET o == oc[t] IN
    /\ pc[t] = "matched"
    /\ refcount' = [refcount EXCEPT ![ocban[o]] = @ - 1]
    /\ objcore' = [objcore EXCEPT ![ocban[o]] = Without(@, o)]
    /\ ocban' = [ocban EXCEPT ![o] = None]
    /\ state' = [state EXCEPT ![o] = "dead"]
    /\ owed' = owed \ {o}
    /\ must' = must \ {t}
    /\ Finish(t, "idle")
    /\ UNCHANGED <<ban_head, spec, gone, colour, kind, occolour, lurkVars,
                   cliVars, deferred>>

\* "Not banned, not moved": a req.* ban was skipped (lurker only).
ban_check_object_skipped ==
    LET o == oc[Lurker] IN
    /\ pc[Lurker] = "scan" /\ b[Lurker] = ocban[o] /\ skipped[Lurker]
    /\ occolour' = [occolour EXCEPT ![o] = @ \cup pass]
    /\ objcore' = [objcore EXCEPT ![bl] = Append(Without(@, o), o)]
    /\ Finish(Lurker, "walk")
    /\ UNCHANGED <<ban_head, spec, gone, colour, refcount, state, kind, ocban,
                   lurkVars, cliVars, history>>

\* The object is delivered and its reference given up.
Delivered(c) ==
    /\ pc[c] = "served"
    /\ pc' = [pc EXCEPT ![c] = "idle"]
    /\ oc' = [oc EXCEPT ![c] = None]
    /\ must' = must \ {c}
    /\ UNCHANGED <<banVars, ocVars, b0, b, skipped, lurkVars, cliVars, owed,
                   deferred>>

-----------------------------------------------------------------------------
(***************************************************************************)
(* ban_lurker                                                              *)
(***************************************************************************)
Lurk(stp) == [pc EXCEPT ![Lurker] = stp]

Retirable == Len(ban_head) > 1 /\ refcount[Last(ban_head)] = 0

\* ban_CheckLast and BAN_Free: retire the last ban if nothing refers to it.
ban_CheckLast ==
    LET x == Last(ban_head) IN
    /\ pc[Lurker] = "last" /\ Retirable
    /\ ban_head' = Front(ban_head)
    /\ gone' = gone \ {x}
    /\ spec' = [spec EXCEPT ![x] = NoSpec]
    /\ colour' = [colour EXCEPT ![x] = {}]
    /\ UNCHANGED <<refcount, objcore, ocVars, chkVars, lurkVars, cliVars,
                   history>>

\* "Find out if we have any bans we can do something about", from the first.
ban_lurker_work ==
    /\ pc[Lurker] = "last" /\ params.lurker /\ ~Retirable
    /\ pc' = Lurk("tag")
    /\ bl' = ban_start
    /\ UNCHANGED <<banVars, ocVars, oc, b0, b, skipped, pass, bl0, cliVars,
                   history>>

\* The next ban to tag; past the last one, the walk back over the list begins
\* if there is anything to do.
TagNext(first) ==
    IF bl # Last(ban_head)
    THEN pc' = Lurk("tag") /\ bl' = Older(bl) /\ bl0' = first
    ELSE IF first = None
         THEN pc' = Lurk("last") /\ bl' = None /\ bl0' = None
         ELSE pc' = Lurk("walk") /\ bl' = bl /\ bl0' = first

Actionable(x) == x \notin gone /\ ~spec[x].req /\ x # Last(ban_head)

lurker_skip ==
    /\ pc[Lurker] = "tag" /\ ~Actionable(bl)
    /\ TagNext(bl0)
    /\ UNCHANGED <<banVars, ocVars, oc, b0, b, skipped, pass, cliVars, history>>

lurker_tag ==
    /\ pc[Lurker] = "tag" /\ Actionable(bl)
    /\ pc' = Lurk("tagging")
    /\ UNCHANGED <<banVars, ocVars, oc, b0, b, skipped, lurkVars, cliVars,
                   history>>

\* The flags are read and written back without ban_mtx: a GONE set meanwhile
\* may be lost.
lurker_tagged ==
    /\ pc[Lurker] = "tagging"
    /\ colour' = [colour EXCEPT ![bl] = pass]
    /\ gone' \in {gone, gone \ {bl}}
    /\ TagNext(IF bl0 = None THEN bl ELSE bl0)
    /\ UNCHANGED <<ban_head, spec, refcount, objcore, ocVars, oc, b0, b,
                   skipped, pass, cliVars, history>>

\* The next colour.
NextPass == IF pass = {1} THEN {2} ELSE IF pass = {2} THEN {1, 2} ELSE {1}

\* Nothing (more) to do on the list of bl: it is GONE unless it needs requests.
lurker_ban_done ==
    /\ pc[Lurker] = "walk"
    /\ objcore[bl] # <<>> => occolour[Head(objcore[bl])] = pass
    /\ gone' = IF spec[bl].req THEN gone ELSE gone \cup {bl}
    /\ IF bl = bl0
       THEN pc' = Lurk("last") /\ bl' = None /\ bl0' = None /\ pass' = NextPass
       ELSE bl' = Newer(bl) /\ UNCHANGED <<pc, bl0, pass>>
    /\ UNCHANGED <<ban_head, spec, colour, refcount, objcore, ocVars, oc, b0, b,
                   skipped, cliVars, history>>

\* The lurker may touch the first objcore of bl: Lck_Trylock(oh->mtx) succeeds
\* and the objcore is still on its objhead (if not, it naps and tries again).
Touchable(o, sts) ==
    /\ pc[Lurker] = "walk"
    /\ objcore[bl] # <<>> /\ o = Head(objcore[bl])
    /\ occolour[o] # pass
    /\ mtx[o] = None /\ state[o] \in sts

\* "If the object is busy, we can't touch it.  Defer it to a later run."
lurker_defer(o) ==
    /\ Touchable(o, {"busy"})
    /\ occolour' = [occolour EXCEPT ![o] = @ \cup pass]
    /\ objcore' = [objcore EXCEPT ![bl] = Append(Tail(@), o)]
    /\ deferred' = deferred \cup {o}
    /\ UNCHANGED <<ban_head, spec, gone, colour, refcount, state, kind, ocban,
                   mtx, chkVars, lurkVars, cliVars, owed, must>>

\* Test the object, unless it is on the newest ban already.
lurker_test(o) ==
    /\ Touchable(o, {"live", "dead"})
    /\ occolour' = [occolour EXCEPT ![o] = {}]
    /\ IF ban_start = ocban[o]
       THEN UNCHANGED <<mtx, pc, oc, b0, b>>
       ELSE /\ mtx' = [mtx EXCEPT ![o] = Lurker]
            /\ pc' = Lurk("scan")
            /\ oc' = [oc EXCEPT ![Lurker] = o]
            /\ b0' = [b0 EXCEPT ![Lurker] = ban_start]
            /\ b' = [b EXCEPT ![Lurker] = ban_start]
    /\ UNCHANGED <<banVars, state, kind, ocban, skipped, lurkVars, cliVars,
                   history>>

-----------------------------------------------------------------------------
Check(t) == ban_evaluate(t) \/ ban_check_object_pass(t)
                \/ ban_check_object_banned(t)

LurkerStep ==
    \/ ban_CheckLast \/ ban_lurker_work
    \/ lurker_skip \/ lurker_tag \/ lurker_tagged \/ lurker_ban_done
    \/ \E o \in OCs : lurker_defer(o) \/ lurker_test(o)
    \/ Check(Lurker) \/ ban_check_object_skipped

Next ==
    /\ \/ \E i \in CLIs : \/ BAN_Insert(i) \/ BAN_Insert_dups(i)
                          \/ BAN_TailRef(i) \/ BAN_TailDeref(i)
       \/ \E o \in OCs : \/ BAN_NewObjCore(o) \/ HSH_Unbusy(o) \/ EXP_Clr(o)
                         \/ HSH_Deref(o) \/ BAN_DestroyObj(o)
       \/ \E c \in Clients : \/ \E o \in OCs : BAN_CheckObject(c, o)
                             \/ Check(c) \/ Delivered(c)
       \/ LurkerStep
    /\ UNCHANGED params

Spec == Init /\ [][Next]_vars

-----------------------------------------------------------------------------
\* The types of the state.
TypeOK ==
    /\ ban_head \in Seq(Bans)
    /\ spec \in [Bans -> Specs \cup {NoSpec}]
    /\ gone \subseteq Bans
    /\ colour \in [Bans -> Colours]
    /\ refcount \in [Bans -> Nat]
    /\ objcore \in [Bans -> Seq(OCs)]
    /\ state \in [OCs -> {"none", "busy", "live", "dead", "dying"}]
    /\ kind \in [OCs -> Kinds \cup {None}]
    /\ ocban \in [OCs -> Bans \cup {None}]
    /\ occolour \in [OCs -> Colours]
    /\ mtx \in [OCs -> Checkers \cup {None}]
    /\ pc \in [Checkers -> {"idle", "scan", "matched", "served", "last", "tag",
                            "tagging", "walk"}]
    /\ oc \in [Checkers -> OCs \cup {None}]
    /\ b0 \in [Checkers -> Bans \cup {None}]
    /\ b \in [Checkers -> Bans \cup {None}]
    /\ skipped \in [Checkers -> BOOLEAN]
    /\ pass \in Colours \ {{}}
    /\ bl \in Bans \cup {None} /\ bl0 \in Bans \cup {None}
    /\ tail \in [CLIs -> Bans \cup {None}]
    /\ new \in [CLIs -> Bans \cup {None}]
    /\ owed \subseteq OCs /\ must \subseteq Clients /\ deferred \subseteq OCs

\* b->refcount is exactly the number of objcores on b->objcore and of tail
\* references, an objcore is on the list of oc->ban and on no other, once, and
\* a ban that was freed has neither (the asserts of BAN_Free).
BanRefsExact ==
    /\ \A x \in Bans :
          /\ refcount[x] = Len(objcore[x])
                             + Cardinality({i \in CLIs : tail[i] = x})
          /\ ToSet(objcore[x]) = {o \in OCs : ocban[o] = x}
          /\ Cardinality(ToSet(objcore[x])) = Len(objcore[x])
          /\ refcount[x] > 0 => x \in ToSet(ban_head)

\* "This loop is safe without locks": every ban a thread looks at, without
\* holding ban_mtx, is on the list, the test has not gone past the object's
\* own ban, and b0, where the object will move, is not older than it.
ScanSafe ==
    /\ \A t \in Checkers : pc[t] \in {"scan", "matched"} =>
          /\ {b[t], b0[t], ocban[oc[t]]} \subseteq ToSet(ban_head)
          /\ Pos(b0[t]) <= Pos(b[t]) /\ Pos(b[t]) <= Pos(ocban[oc[t]])
          /\ mtx[oc[t]] = t
    /\ {bl, bl0} \subseteq ToSet(ban_head) \cup {None}
    /\ \A i \in CLIs : {tail[i], new[i]} \subseteq ToSet(ban_head) \cup {None}

\* A GONE ban has nothing left to do: an object on an older ban that it matches
\* is one the lurker has deferred, or a newer ban with the same tests is still
\* in force.
GoneIsDone ==
    \A o \in OCs : \A x \in gone :
        /\ ocban[o] # None /\ state[o] # "dying" /\ o \notin deferred
        /\ Pos(x) < Pos(ocban[o]) /\ spec[x].kind = kind[o]
        => \E y \in ToSet(ban_head) \ gone :
              Pos(y) < Pos(x) /\ spec[y] = spec[x]

\* "Bans are checked when we hit an object in the cache, but before we deliver
\* it": no object is delivered that a ban matches which was in force when its
\* test began.
BannedNotServed == \A c \in Clients : pc[c] = "served" => c \notin must

\* That holds as long as neither the lurker nor the duplicate hunt is on: then bans are
\* tested by lookups only, whatever is inserted and retired while they walk the list.
LookupsHonourBans == ~params.lurker /\ ~params.ban_dups => BannedNotServed

=============================================================================
