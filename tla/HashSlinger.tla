---------------------------- MODULE HashSlinger ----------------------------
(***************************************************************************)
(* What a hash slinger (hash_slinger.h) promises to cache_hash.c: lookup   *)
(* returns the objhead of a digest, referenced, and makes one if there is  *)
(* none; deref gives a reference back, and the last one ends the objhead.  *)
(* A reference belongs to whoever got it, so any thread may release it.    *)
(***************************************************************************)
EXTENDS Naturals

CONSTANTS
    Threads,   \* worker threads and the expiry thread
    Digests,   \* what is looked up
    Heads,     \* memory for objheads
    None       \* NULL, none of the above

VARIABLES
    table,     \* digest -> its objhead, or None
    ohref,     \* objhead -> oh->refcnt
    want       \* thread -> the digest it is looking up

vars == <<table, ohref, want>>

Init ==
    /\ table = [d \in Digests |-> None]
    /\ ohref = [h \in Heads |-> 0]
    /\ want = [t \in Threads |-> None]

\* HSH_Lookup calls hash->lookup.
Call(t, d) ==
    /\ want[t] = None
    /\ want' = [want EXCEPT ![t] = d]
    /\ UNCHANGED <<table, ohref>>

\* hash->lookup returns an objhead that exists ...
Find(t) ==
    LET h == table[want[t]] IN
    /\ want[t] # None
    /\ h # None
    /\ ohref' = [ohref EXCEPT ![h] = @ + 1]
    /\ want' = [want EXCEPT ![t] = None]
    /\ table' = table

\* ... or the one it was given, now the objhead of the digest.
Insert(t) ==
    /\ want[t] # None
    /\ table[want[t]] = None
    /\ \E h \in Heads :
          /\ ohref[h] = 0
          /\ ohref' = [ohref EXCEPT ![h] = 1]
          /\ table' = [table EXCEPT ![want[t]] = h]
    /\ want' = [want EXCEPT ![t] = None]

\* hash->deref
Deref(h) ==
    /\ ohref[h] > 0
    /\ ohref' = [ohref EXCEPT ![h] = @ - 1]
    /\ table' = [d \in Digests |-> IF table[d] = h /\ ohref[h] = 1
                                   THEN None ELSE table[d]]
    /\ want' = want

Next ==
    \/ \E t \in Threads : \/ \E d \in Digests : Call(t, d)
                          \/ Find(t) \/ Insert(t)
    \/ \E h \in Heads : Deref(h)

Spec == Init /\ [][Next]_vars

-----------------------------------------------------------------------------
\* The types of the state.
TypeOK ==
    /\ table \in [Digests -> Heads \cup {None}]
    /\ ohref \in [Heads -> Nat]
    /\ want \in [Threads -> Digests \cup {None}]

\* What cache_hash.c relies on: an objhead has a digest exactly as long as
\* somebody holds a reference on it, and never two digests.
OneObjhead ==
    /\ \A h \in Heads : ohref[h] > 0 <=> \E d \in Digests : table[d] = h
    /\ \A d, e \in Digests : table[d] = table[e] /\ table[d] # None => d = e

=============================================================================
