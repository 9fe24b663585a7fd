---------------------------- MODULE HashCritbit ----------------------------
(***************************************************************************)
(* The critbit hash (hash_critbit.c), the default slinger.  Lookups walk   *)
(* the tree without a lock, one pointer at a time, and only then lock the  *)
(* objhead they found; the tree is changed under hcb_mtx, by one visible   *)
(* pointer write each time.  Nodes and objheads that are taken out cool    *)
(* off before they are freed, because a lookup may still stand on them.    *)
(*                                                                         *)
(* A digest is Width bits.  A pointer field of the tree is a slot: the     *)
(* root, or one of the two leaf[] of a node.                               *)
(***************************************************************************)
EXTENDS Naturals, FiniteSets

CONSTANTS
    Threads,   \* worker threads and the expiry thread
    Width,     \* bits of a digest
    Digests,   \* the digests in use
    Heads,     \* memory for objheads
    Ys,        \* memory for struct hcb_y
    Root,      \* &hcb_root.origo
    None,      \* NULL
    MaxRef     \* bound: references on one objhead

Bits == 0..(Width - 1)

ASSUME CritbitConstants ==
    /\ Width \in Nat \ {0}
    /\ Digests \subseteq [Bits -> {0, 1}]
    /\ None \notin Digests \cup Heads \cup Ys \cup Threads
    /\ Heads \cap Ys = {} /\ Root \notin Ys \X {0, 1}
    /\ MaxRef \in Nat \ {0}

Slots == {Root} \cup (Ys \X {0, 1})
Ptrs  == Heads \cup Ys \cup {None}

VARIABLES
    ptr,       \* slot -> what it points to
    critbit,   \* node -> y->critbit (which y->ptr and y->bitmask encode)
    digest,    \* objhead -> oh->digest, None for memory not in use
    refcnt,    \* objhead -> oh->refcnt
    mtx,       \* objhead -> who holds oh->mtx while it waits for hcb_mtx
    yused,     \* the nodes in use
    cool_y, cool_h,  \* taken out of the tree
    dead_y, dead_h,  \* to be freed when hcb_cleaner wakes up
    early,     \* threads still in the pass they were in when it went to sleep
    pc,        \* thread -> where it is in hcb_lookup or hcb_deref
    want,      \* thread -> noh->digest
    at         \* thread -> pp, later oh

treeVars == <<ptr, critbit, yused>>
headVars == <<digest, refcnt, mtx>>
coolVars == <<cool_y, cool_h, dead_y, dead_h>>
threadVars == <<pc, want, at>>
vars == <<treeVars, headVars, coolVars, early, threadVars>>

Init ==
    /\ ptr = [p \in Slots |-> None]
    /\ critbit = [y \in Ys |-> 0]
    /\ digest = [h \in Heads |-> None]
    /\ refcnt = [h \in Heads |-> 0]
    /\ mtx = [h \in Heads |-> None]
    /\ yused = {}
    /\ cool_y = {} /\ cool_h = {} /\ dead_y = {} /\ dead_h = {}
    /\ early = {}
    /\ pc = [t \in Threads |-> "idle"]
    /\ want = [t \in Threads |-> None]
    /\ at = [t \in Threads |-> None]

-----------------------------------------------------------------------------
(***************************************************************************)
(* The tree                                                                *)
(***************************************************************************)

\* The slot below the node y for the digest d.
Below(y, d) == <<y, d[critbit[y]]>>

\* The slots from the root down for the digest d: the n-th, or the last one.
Path(d) ==
    LET p[n \in 0..Width] ==
            IF n = 0 THEN Root
            ELSE IF ptr[p[n - 1]] \in Ys THEN Below(ptr[p[n - 1]], d)
            ELSE p[n - 1]
    IN  p

Bottom(d) == Path(d)[Width]

\* hcb_crit_bit: the first bit in which two digests differ.
hcb_crit_bit(d, e) ==
    CHOOSE i \in Bits : d[i] # e[i] /\ \A j \in Bits : j < i => d[j] = e[j]

\* Mutant of InsertAt: the new node always goes to the bottom.
InsertAt_bottom(d, cb) == Bottom(d)

\* Where hcb_insert puts the new node: above the first one with a higher
\* critbit.
InsertAt(d, cb) ==
    LET p == Path(d)
        stop == {n \in 0..Width : \/ ptr[p[n]] \notin Ys
                                  \/ critbit[ptr[p[n]]] > cb}
    IN  p[CHOOSE n \in stop : \A k \in stop : n <= k]

-----------------------------------------------------------------------------
(***************************************************************************)
(* hcb_lookup                                                              *)
(***************************************************************************)

\* First without the lock: hcb_insert reads the root.
hcb_lookup(t, d) ==
    /\ pc[t] = "idle"
    /\ \A h \in Heads : digest[h] = d => refcnt[h] < MaxRef
    /\ want' = [want EXCEPT ![t] = d]
    /\ at' = [at EXCEPT ![t] = ptr[Root]]
    /\ pc' = [pc EXCEPT ![t] = IF ptr[Root] = None THEN "lock" ELSE "walk"]
    /\ UNCHANGED <<treeVars, headVars, coolVars, early>>

\* One step down.
hcb_insert_walk(t) ==
    /\ pc[t] = "walk" /\ at[t] \in Ys
    /\ at' = [at EXCEPT ![t] = ptr[Below(at[t], want[t])]]
    /\ UNCHANGED <<treeVars, headVars, coolVars, early, pc, want>>

\* "We found a node, does it match ?"  If not, "Try again, with lock".
hcb_insert_match(t) ==
    /\ pc[t] = "walk" /\ at[t] \notin Ys
    /\ IF at[t] # None /\ digest[at[t]] = want[t]
       THEN pc' = [pc EXCEPT ![t] = "found"] /\ UNCHANGED <<at, early>>
       ELSE /\ pc' = [pc EXCEPT ![t] = "lock"]
            /\ at' = [at EXCEPT ![t] = None]
            /\ early' = early \ {t}
    /\ UNCHANGED <<treeVars, headVars, coolVars, want>>

\* With hcb_mtx: the objhead is there after all ...
hcb_insert_found(t) ==
    LET oh2 == ptr[Bottom(want[t])] IN
    /\ pc[t] = "lock"
    /\ oh2 # None
    /\ digest[oh2] = want[t]
    /\ at' = [at EXCEPT ![t] = oh2]
    /\ pc' = [pc EXCEPT ![t] = "found"]
    /\ UNCHANGED <<treeVars, headVars, coolVars, early, want>>

\* ... or noh goes into the tree, with the reference it was made with: alone,
\* or under a new node next to what was there.
hcb_insert(t) ==
    LET d == want[t]
        oh2 == ptr[Bottom(d)]
    IN  /\ pc[t] = "lock"
        /\ oh2 # None => digest[oh2] # d
        /\ \E noh \in {h \in Heads : digest[h] = None} :
              /\ digest' = [digest EXCEPT ![noh] = d]
              /\ refcnt' = [refcnt EXCEPT ![noh] = 1]
              /\ \/ /\ oh2 = None
                    /\ ptr' = [ptr EXCEPT ![Root] = noh]
                    /\ UNCHANGED <<critbit, yused>>
                 \/ /\ oh2 # None
                    /\ \E y2 \in Ys \ yused :
                          LET cb == hcb_crit_bit(d, digest[oh2])
                              p == InsertAt(d, cb)
                          IN  /\ ptr' = [ptr EXCEPT ![<<y2, d[cb]>>] = noh,
                                                    ![<<y2, 1 - d[cb]>>] = ptr[p],
                                                    ![p] = y2]
                              /\ critbit' = [critbit EXCEPT ![y2] = cb]
                              /\ yused' = yused \cup {y2}
        /\ pc' = [pc EXCEPT ![t] = "idle"]
        /\ want' = [want EXCEPT ![t] = None]
        /\ UNCHANGED <<mtx, coolVars, early, at>>

\* Mutant of hcb_lookup_ref: the count is not looked at.
hcb_lookup_ref_always(t) ==
    LET oh == at[t] IN
    /\ pc[t] = "found" /\ mtx[oh] = None
    /\ refcnt' = [refcnt EXCEPT ![oh] = @ + 1]
    /\ pc' = [pc EXCEPT ![t] = "idle"]
    /\ want' = [want EXCEPT ![t] = None]
    /\ at' = [at EXCEPT ![t] = None]
    /\ early' = early \ {t}
    /\ UNCHANGED <<treeVars, digest, mtx, coolVars>>

\* Under oh->mtx: "A refcount of zero indicates that the tree changed under us".
hcb_lookup_ref(t) ==
    LET oh == at[t] IN
    /\ pc[t] = "found" /\ mtx[oh] = None
    /\ IF refcnt[oh] > 0
       THEN /\ refcnt' = [refcnt EXCEPT ![oh] = @ + 1]
            /\ pc' = [pc EXCEPT ![t] = "idle"]
            /\ want' = [want EXCEPT ![t] = None]
       ELSE /\ pc' = [pc EXCEPT ![t] = "lock"]
            /\ UNCHANGED <<refcnt, want>>
    /\ at' = [at EXCEPT ![t] = None]
    /\ early' = early \ {t}
    /\ UNCHANGED <<treeVars, digest, mtx, coolVars>>

-----------------------------------------------------------------------------
(***************************************************************************)
(* hcb_deref and hcb_cleaner                                               *)
(***************************************************************************)

\* Under oh->mtx, which is kept if the count is zero now.
hcb_deref(t, oh) ==
    /\ pc[t] = "idle"
    /\ refcnt[oh] > 0 /\ mtx[oh] = None
    /\ refcnt' = [refcnt EXCEPT ![oh] = @ - 1]
    /\ IF refcnt[oh] = 1
       THEN /\ mtx' = [mtx EXCEPT ![oh] = t]
            /\ pc' = [pc EXCEPT ![t] = "delete"]
            /\ at' = [at EXCEPT ![t] = oh]
       ELSE UNCHANGED <<mtx, pc, at>>
    /\ UNCHANGED <<treeVars, digest, coolVars, early, want>>

\* Under hcb_mtx as well: the other leaf takes the place of the node above oh.
hcb_delete(t) ==
    LET oh == at[t]
        d == digest[oh]
        p == Path(d)
    IN  /\ pc[t] = "delete"
        /\ \/ /\ ptr[Root] = oh
              /\ ptr' = [ptr EXCEPT ![Root] = None]
              /\ cool_y' = cool_y
           \/ \E n \in 0..(Width - 1) :
                 LET y == ptr[p[n]] IN
                 /\ y \in Ys
                 /\ ptr[Below(y, d)] = oh
                 /\ ptr' = [ptr EXCEPT ![p[n]] = ptr[<<y, 1 - d[critbit[y]]>>]]
                 /\ cool_y' = cool_y \cup {y}
        /\ cool_h' = cool_h \cup {oh}
        /\ mtx' = [mtx EXCEPT ![oh] = None]
        /\ pc' = [pc EXCEPT ![t] = "idle"]
        /\ at' = [at EXCEPT ![t] = None]
        /\ UNCHANGED <<critbit, yused, digest, refcnt, dead_y, dead_h, early,
                       want>>

\* Mutant of hcb_cleaner: what is taken out is freed without waiting.
hcb_cleaner_hot ==
    /\ dead_y \cup dead_h # {}
    /\ yused' = yused \ dead_y
    /\ ptr' = [p \in Slots |-> IF p # Root /\ p[1] \in dead_y THEN None
                               ELSE ptr[p]]
    /\ critbit' = [y \in Ys |-> IF y \in dead_y THEN 0 ELSE critbit[y]]
    /\ digest' = [h \in Heads |-> IF h \in dead_h THEN None ELSE digest[h]]
    /\ dead_y' = {} /\ dead_h' = {}
    /\ UNCHANGED <<refcnt, mtx, cool_y, cool_h, early, threadVars>>

\* hcb_cleaner wakes up and frees what is dead.  critbit_cooloff is longer than
\* one pass of hcb_lookup takes, so nobody is where he was when it fell asleep.
hcb_cleaner ==
    /\ dead_y \cup dead_h # {}
    /\ early = {}
    /\ yused' = yused \ dead_y
    /\ ptr' = [p \in Slots |-> IF p # Root /\ p[1] \in dead_y THEN None
                               ELSE ptr[p]]
    /\ critbit' = [y \in Ys |-> IF y \in dead_y THEN 0 ELSE critbit[y]]
    /\ digest' = [h \in Heads |-> IF h \in dead_h THEN None ELSE digest[h]]
    /\ dead_y' = {} /\ dead_h' = {}
    /\ UNCHANGED <<refcnt, mtx, cool_y, cool_h, early, threadVars>>

\* Under hcb_mtx what is cool becomes dead; then it sleeps.
hcb_cleaner_sleep ==
    /\ dead_y \cup dead_h = {}
    /\ cool_y \cup cool_h # {}
    /\ dead_y' = cool_y /\ dead_h' = cool_h
    /\ cool_y' = {} /\ cool_h' = {}
    /\ early' = {t \in Threads : pc[t] \in {"walk", "found"}}
    /\ UNCHANGED <<treeVars, headVars, threadVars>>

-----------------------------------------------------------------------------
Next ==
    \/ \E t \in Threads :
          \/ \E d \in Digests : hcb_lookup(t, d)
          \/ hcb_insert_walk(t) \/ hcb_insert_match(t) \/ hcb_insert_found(t)
          \/ hcb_insert(t) \/ hcb_lookup_ref(t)
          \/ \E oh \in Heads : hcb_deref(t, oh)
          \/ hcb_delete(t)
    \/ hcb_cleaner \/ hcb_cleaner_sleep

Spec == Init /\ [][Next]_vars

-----------------------------------------------------------------------------
\* The types of the state.
TypeOK ==
    /\ ptr \in [Slots -> Ptrs]
    /\ critbit \in [Ys -> Bits]
    /\ digest \in [Heads -> Digests \cup {None}]
    /\ refcnt \in [Heads -> Nat]
    /\ mtx \in [Heads -> Threads \cup {None}]
    /\ cool_y \cup dead_y \subseteq yused /\ yused \subseteq Ys
    /\ cool_h \cup dead_h \subseteq Heads
    /\ early \subseteq Threads
    /\ pc \in [Threads -> {"idle", "walk", "lock", "found", "delete"}]
    /\ want \in [Threads -> Digests \cup {None}]
    /\ at \in [Threads -> Ptrs]

\* "We cannot trust things to be the same in two consequtive memory accesses",
\* but they are still there: a lookup without the lock never stands on a node
\* or an objhead that was freed (CHECK_OBJ_NOTNULL(y), CHECK_OBJ_NOTNULL(oh2)),
\* and finds NULL nowhere but at the root.
NoDangling ==
    \A t \in Threads : pc[t] \in {"walk", "found"} =>
        \/ at[t] \in yused
        \/ at[t] \in Heads /\ digest[at[t]] # None

\* Whatever the order of insertions and deletions, the tree finds every objhead
\* that is in it: the walk for its digest ends at it, over nodes with ascending
\* critbits, none of which cools off; and an objhead with a reference is in it.
Findable ==
    \A h \in Heads : digest[h] # None =>
        LET p == Path(digest[h])
            nodes == {n \in 0..Width : ptr[p[n]] \in Ys}
        IN  IF h \in cool_h \cup dead_h
            THEN refcnt[h] = 0 /\ ptr[Bottom(digest[h])] # h
            ELSE /\ ptr[Bottom(digest[h])] = h
                 /\ \A n \in nodes : /\ ptr[p[n]] \in yused \ (cool_y \cup dead_y)
                                     /\ \A k \in nodes : k < n =>
                                          critbit[ptr[p[k]]] < critbit[ptr[p[n]]]

\* The objhead of a digest is the one with a reference.
Table ==
    [d \in Digests |->
        IF \E h \in Heads : digest[h] = d /\ refcnt[h] > 0
        THEN CHOOSE h \in Heads : digest[h] = d /\ refcnt[h] > 0
        ELSE None]

Slinger == INSTANCE HashSlinger WITH table <- Table, ohref <- refcnt

\* The lock-free tree keeps the promises of a hash slinger: every lookup takes
\* effect at one moment, on the one objhead of its digest.
ImplementsSlinger == Slinger!Spec

=============================================================================
