# Verification of varnishd

TLA+ modules for the two processes of Varnish 3 and for the programs that read
their log, translated from `src/bin/varnishd` and `src/lib/libvarnishapi`. TLC
checks them on small instances; TLAPS proves the safety of the object cache, of its
hash, of bans, of VCLs and backends, of the sessions' passage between threads, of
persistent storage and of the manager for every instance.

| module | what it is |
|---|---|
| `ObjCache` | objheads, objcores, waiting lists and their counts, driven by the session state engine, the expiry thread, LRU nuking and purges |
| `MCObjCache` | instance for TLC: symmetry over sessions, objcores and variants |
| `ObjCacheProofs` | inductive invariants of `ObjCache`: its reference counts; then its lists, busy objects, wake-ups and assertions |
| `HashSlinger` | what a hash slinger promises `cache_hash.c` |
| `HashCritbit`, `MCHashCritbit` | the lock-free critbit tree, shown to implement `HashSlinger` |
| `HashCritbitProofs` | inductive invariant of `HashCritbit`, the theorems that follow, the refinement, and what the promise is worth |
| `Ban`, `MCBan` | the ban list, the test of a lookup, the duplicate hunt and the ban lurker |
| `BanProofs` | inductive invariants of `Ban` and the theorems that follow |
| `WorkerPool` | idle threads, queues, the herder and the herd timer |
| `SessionLife`, `MCSessionLife` | extends `WorkerPool`: session memory, acceptor, waiters, and how a session passes between them |
| `SessionProofs` | inductive invariant of `WorkerPool` and `SessionLife`, and the theorems that follow |
| `VclRefs` | loaded VCL programs and the references to them |
| `Backend`, `MCBackend` | extends `VclRefs`: backends that VCLs share, connections, health, probe threads, the CLI thread |
| `BackendProofs` | inductive invariant of `VclRefs` and `Backend`, and the theorems that follow |
| `Manager`, `MCManager` | the manager's event loop, the child it starts and stops, the CLI between them |
| `ManagerProofs` | inductive invariant of `Manager` and the theorems that follow |
| `Silo`, `MCSilo` | segments of persistent storage and the two copies of their list, with crashes |
| `SiloProofs` | inductive invariant of `Silo` and the theorems that follow |
| `ShmLog`, `MCShmLog` | the ring of log records, its writers and a reader in another process |
| `ListLemmas` | facts about the lists of `queue.h` as sequences, which the proofs cite |

## The system

varnishd is two processes. The manager (`mgt_*.c`) compiles VCL, starts the
child and restarts it when it dies. The child accepts connections, runs each
request through a state engine on a worker thread, and keeps responses in a
cache shared by all threads.

| component | state | operations | hard because |
|---|---|---|---|
| object hash, `cache_hash.c` | per digest an objhead: list of objcores, count, waiting list; per objcore a count, BUSY/PASS flags | `HSH_Lookup`, `HSH_Unbusy`, `HSH_Drop`, `HSH_Deref`, `HSH_Purge`, `hsh_rush` | counts are changed under `oh->mtx` but owners act between the locks; sessions are parked and woken a few at a time |
| session engine, `cache_center.c` | `sp->step`, `sp->obj`, `sp->objcore`, `sp->hash_objhead`, `wrk->nbusyobj`, restarts | one `cnt_*` function per step | VCL may leave most steps by pass, error or restart; each exit gives up something else |
| expiry and LRU, `cache_expire.c` | LRU lists, a heap ordered by expiry | `EXP_Insert`, `exp_timer`, `EXP_NukeOne`, `EXP_Rearm`, `EXP_Touch` | reads counts and BUSY without the objhead's lock |
| bans, `cache_ban.c` | list of bans, newest first; each with flags, a count and a list of objcores | `BAN_Insert`, `BAN_CheckObject`, `BAN_NewObjCore`, `BAN_DestroyObj`, the lurker | walks the list without `ban_mtx`; the opposite lock order in the lurker |
| ESI, `cache_esi_deliver.c` | nested request on the same session | `ved_include` | the outer object is held while the inner request runs |
| hash slinger, `hash_critbit.c` (default), classic, simple list | tree from digest to objhead, cool-off lists | `lookup`, `deref` | lookups without a lock |
| worker pool, `cache_pool.c` | idle threads, queues | `WRK_Queue`, herder | refusal when the queue is full, signals outside the lock |
| acceptor and waiters | idle sessions | accept, poll, time out | hand-over between threads |
| backends and probes | connections, counts, health window | connect, recycle, poll | counts shared by VCLs |
| VCL programs, `cache_vcl.c` | busy count, discard flag | `VCL_Get`, `VCL_Rel`, `VCL_Poll` | freed by the CLI thread |
| storage, `stevedore.c`, `storage_*.c` | extents, silos | allocate, trim, free, recover | crash recovery of the persistent silo |
| shared memory log, `cache_shmlog.c`, `vsm.c`; reader `vsl.c` | ring of records | reserve, fill, wrap; follow | readers in other processes, without a lock |
| manager, `mgt_child.c`, `mgt_cli.c`, `mgt_vcc.c` | state of the child, list of VCLs | start, stop, reap, ping; `vcl.*` | the child hangs, dies or answers late at any time |

A lookup calls `BAN_CheckObject` on each candidate; the session engine calls
the hash for every lookup, release and drop and keeps a reference to the VCL it runs; a
fetch takes a connection of a backend that the VCL's directors refer to; storage allocations call
`EXP_NukeOne`, which calls `HSH_Deref`; `HSH_Deref` and `HSH_Unbusy` call
`hsh_rush`, which puts sessions back on a worker pool; the lurker takes
references on objcores under both locks. The manager sends `vcl.*` commands to
the child's CLI thread, which loads VCLs, adds and drops backends and starts and
joins probe threads. Every thread of the child writes to the log.

`PROJECT.json` lists every component with what is left out of it, and under
`hazards` what is hard to test, at the line where it bites.

## `ObjCache`

One action is one critical section under `oh->mtx`, or under the LRU and expiry
locks; whatever the code does between two locks is another action, so any other
thread may come in between. A session stands for `struct sess` and the worker
that drives it. Variables have the names of the fields they stand for.

* **Lists and counts.** `objcs`, `ohref`, `waiters` are the three fields of an
  objhead; `alive`, `refcnt`, `head`, `busy`, `hfp`, `hasobj`, `phase`, `vary`,
  `lru` those of an objcore and its object. `phase` abstracts the clock: an
  object is fresh, in grace or dead (`ttl <= 0`, banned, or past grace).
* **Session.** `step` is `sp->step`, with more values where one `cnt_*`
  function takes several locks: `HITREF` is between the unlock and
  `hash->deref` in `HSH_Lookup`, `HITPASS` before the `HSH_Deref` of a
  hit-for-pass object, `BODY` inside `FetchBody`, `UNBUSY` between
  `EXP_Insert` and `HSH_Unbusy`, `DROP` and `DROPPED` inside `HSH_Drop`,
  `STREAMED` after a streamed body.
* **`dying`, `taken`, `purging`** are the objcores a thread has in hand with no
  lock: taken to zero and not yet freed, taken off the LRU and not yet
  released, referenced by `HSH_Purge` and not yet released.
* **`HSH_Lookup`** is `hash_lookup`, then one of `LookupHit` (with
  `LookupHitTail` after the unlock), `LookupWait` and `LookupMiss`. The scan of
  the list is given by the sets `Scanned`, `Usable`, `BusyMatch` and `Found`.
  Of several objects in grace the code takes the least expired one; any is
  possible here.
* **`hsh_rush`** moves the first `RushExponent` sessions back to `LOOKUP`, or,
  with the fault `drop`, ends at one that `WRK_QueueSession` deletes. In the
  code the deleted session's reference on the objhead is not released, and so
  it is here.
* **VCL** is a choice over the constant `Vcl`, failures over `Faults`.
  Assigning `obj.ttl` is possible in `vcl_hit` and purging in `vcl_hit` and
  `vcl_miss`, where the compiler allows them.

External to this module: the hash slinger, by the contract stated in
`HashSlinger`, and the worker pool (a session put back on it runs, or is
refused; `WorkerPool` has the pool itself).

Left out: connection handling before a request is complete; `EXP_Touch` and
`EXP_Rearm`, which change an order the model leaves open; statistics; nesting
of ESI deeper than one include; and `restart` from `vcl_miss` and `vcl_pass`,
which ends in `INCOMPL()` (`cache_center.c:1240`) or is not implemented.

## `HashSlinger` and `HashCritbit`

`HashSlinger` is what `cache_hash.c` sees of a slinger: a table from digests to
objheads and the objheads' counts. A lookup takes effect at one moment between
call and return; it references the objhead of the digest or makes one. A
reference may be released by any thread, as those of objcores are.

`HashCritbit` has the tree pointer by pointer. `ptr` maps a slot (the root, or a
leaf of a node) to what it points to. A lookup first walks without a lock, one
read per action (`hcb_insert_walk`, `hcb_insert_match`); if it does not find its
digest, or finds an objhead whose count is zero, it goes on with `hcb_mtx`
(`hcb_insert_found`, `hcb_insert`). Insertion and deletion read the tree under
`hcb_mtx` and make one visible write each, so each is one action; the write
barrier before it is what makes that so. `hcb_deref` keeps `oh->mtx` when the
count gets to zero until `hcb_delete` is done, so these are two actions.
`hcb_cleaner` frees what was already cool when it last slept. It sleeps longer
than one pass of the loop in `hcb_lookup` takes: `early` holds the threads still
in the pass they were in when it went to sleep, and it wakes up when there are
none. The memory of `noh` and of the new node is allocated before the lookup in the
code (`HSH_Prealloc`) and at the insertion here; until then no other thread can
see it.

The refinement maps the table to the objheads with a positive count: an objhead
at zero that is still in the tree is already gone for its users.

## `Ban`

The list `ban_head`, and per ban what it tests, its GONE flag, the lurker's
colour (the set of bits of `BAN_F_LURK`), its count and its list of objcores.
`Checkers` are the threads that can be in `ban_check_object`: lookups and the
lurker. The walk from `b0` to the object's own ban is one action per ban,
because it holds `oh->mtx` but not `ban_mtx`. The lurker's loop over the bans is
one action per ban for the same reason; where it changes `b->flags` without the
lock (`cache_ban.c:802-803`) reading and writing are two actions, and a GONE set
in between may be lost.

An objcore is on an objhead of its own, so `mtx[oc]` is the objhead's lock; the
lurker only ever tries that lock, so `Touchable` is simply false while somebody
has it. The rest of an objcore's life is reduced to what bans can see of it:
busy, live, dead, and off the objhead but not yet off its ban. A ban matches one
kind of object, and one that looks at `req.*` cannot be tested by the lurker.
`params` is the setting of `ban_dups` and of the lurker, chosen at the start.
`owed`, `must` and `deferred` are history: no action reads them.

Left out: parsing and encoding of ban expressions; `BAN_Reload`, `BAN_RefBan`
and `BAN_Compile`, which belong to the start of a persistent silo.

## `WorkerPool` and `SessionLife`

`idle`, `queue` and `nthr` are the fields of a `struct wq`. A critical section
under `qp->mtx` is one action. `WRK_Queue` goes on after the unlock: `call` says
that it still has to store `w->sp`, to signal the worker, or to signal the
herder. A signal changes something only if the other side waits at that moment.
The herder reads `nthr`, `lqueue` and `last_lqueue` without the lock, and so it
does here. The herd timer takes a thread off the idle list, unlocks and signals
it (`kissed`); with `Prompt` that thread has left before the herd timer takes its
next decision, as `wthread_purge_delay` makes likely.

`SessionLife` follows a session: from free memory (two lists, one of which the
acceptor uses without a lock) to the acceptor, a pool, a worker, the waiting list
of a busy object, the pipe to the waiter, the waiter's list, and back. What the
worker does with it in between is `ObjCache`. The four waiters differ in how the
kernel is told to stop watching a socket: `armed` is what it watches, `pending`
what `kqueue` has queued up in `ki[]` and not yet submitted. `old` stands for
the time a session has been idle.

Left out: pools added at run time (`wrk_addpools`), spurious wake-ups of condition
variables, background threads, socket options, pacing after a failed `accept`,
and statistics.

## `VclRefs` and `Backend`

`busy` is `conf->busy`. A worker keeps `wrk->vcl` between requests and moves it
to `sp->vcl` when it starts one; a session parked behind a busy object takes its
reference along (`parked`). The test of `VCL_Refresh` is made without the lock, so
giving up the old reference and taking the new one are two actions. `vcl.load`,
`vcl.use`, `vcl.discard` and `VCL_Poll`, which the CLI thread runs before each
command, change the list; a load may fail because a VMOD does, after it has
added its backends.

`Backend` has `struct backend` as `be`: reference count, `n_conn`, idle
connections, health. `director` has the backends that the directors of a program refer
to. The CLI thread is `cli`, with one action per critical
section of `VBE_AddBackend`, `VBP_Insert`, `VBP_Remove` and `VBE_DropRefVcl`;
`VBE_AddBackend` increments the count without `b->mtx`, so reading and writing it
are two actions. A worker in `vbe_GetVbe` looks for an idle connection, takes a
reference, checks it or connects. A probe thread (`vt`) builds its request,
probes, and updates window and health; it stops when it is told to.

Left out: the trouble list of saint mode; which backend a round-robin, random,
client, hash or dns director prefers (any of `Hosts` is possible); the text of
probes.

## `Manager`

`child_state`, `ev_poker`, `ev_listen` and the descriptors are variables. The
manager has one thread: `pc` says where it is in the loop of `vev.c` (looking at
signals, between that look and `poll`, in `poll`), or in a callback that has
written a command to the child and waits for the answer. The child is seen
through its two pipes, its output and its exit; it can hang, die, or answer
after the manager has stopped waiting, at every step of a callback. `vclhead` is
the manager's list of VCL programs, `cvcl` and `cactive` are the child's. A child that
is started is given the programs one after the other, and `vp` is how far that is.

Left out: `SIGINT`, `panic.show` and `panic.clear`, parameters, authentication,
and the compiler, which `vcl.load` runs as another child: its `SIGCHLD` is there,
what it compiles is not.

## `Silo`

Space is counted in cells. A segment is closed with the cells it has used; `cell`
remembers who was given each cell last. Saving the list of segments writes copy 1
and then copy 2, each by clearing it, appending and signing, and the child may die
between any two of these writes (`save`). What it leaves is what the next child
opens: `smp_open_segs` reads the first copy that is valid, drops segments until
there is a reserve, and loads the rest one after the other while requests are
served. Objects are `disk` until their segment is loaded, `vampire` until a lookup
needs them, and `live` then, or `bad` when their body is not to be had; `lost` are
those whose `smp_object` was filled in after the segment was closed, where the index
was before it was moved.

`thr` is the silo's own thread. It works without `sc->mtx` except for saves: it loads a
segment object by object, makes each one visible and only then counts it, by a
read and a store of `nobj` that other threads may come between; when all are loaded
it looks at the first segment again and again, and saves the list when that is
empty, also when the list has not changed. A segment that was not closed, or whose head
is no longer its own (`SEGHEAD`), keeps its hold. A pointer to a `struct smp_seg` that was
freed is followed as the code follows it (`Pointee`): its memory may be that of a segment
made since, or of none.

`abut`, `torn` and `skew` are history. A segment was opened exactly
where the oldest one began; a child began with copies that differ (`yes`, until both
are written again), and one after it too, so that the list it read may be
out of date (`stale`). `skew` is forgotten when the child ends: it has counted an object
in two threads at once, has used a segment that was freed, or has freed a segment with an
object that was not counted yet. The properties say what holds before that.

Left out: the two ban tables and `BAN_Reload`, whose copies are written in
the same way; `smp_mgt_init` beyond what it leaves on disk; the use of other
storage for bodies when a silo is full.

## `ShmLog`

Word 0 of the ring is the serial number `seq`; the others are `ring`. A thread
takes `vsl_mtx` to reserve space, wrapping if there is not enough, and fills it
after the unlock; the header word goes in last. A worker's records are first
collected in its own buffer (`wlb`) and flushed together. The reader opens the
log by walking it to its end, and then follows it as `vsl_nextlog` does; each of
its loads and each of the writers' stores is an action. Stores are in program
order, which is what the barriers of `vmb.h` are for; on machines where they
are empty this is assumed of the hardware. When the child dies, its threads stop
wherever they are, and the next child starts the log from the front.

`lapped`, `late` and `raced` are history. The log overwrites what has not been
read yet (`lapped`) and a thread that takes longer than a lap writes into
another's record (`late`); nothing in the code prevents either, and the properties
are about executions before that. `raced` marks the moments at which a record
can be missed, described below.

Left out: the directory of the shared memory file (`vsm.c`) and the counters in
it, selection of records, log files, and reopening after the manager is replaced.

## Runs

| run | instance | what it shows |
|---|---|---|
| `cache_requests` | 2 sessions, 2 objcores, 1 head, 1 variant; pass, pipe, error, restart, hit-for-pass; failing backend | counts of objcores and objheads are exact, lists are exact, the assertions hold |
| `cache_vcl` | same size; restart, stream, purge, `obj.ttl`, forced miss, ignored busy; failing and sick backend, nuking | busy objects stay at the tail and with their owner, a count at zero is final |
| `cache_wakeup` | 3 sessions, 1 objcore; hit-for-pass; failing backend | whoever is parked has somebody left to wake it, and is woken |
| `cache_faults` | 2 sessions, 2 objcores, 2 variants; ESI; no storage, bad Vary, refused sessions | no use after free with every fault that leaks, misses coalesced |
| `ban` | 3 bans, 1 objcore, 2 kinds; lurker and duplicate hunt both on or both off | counts exact; nobody looks at a ban that is off the list; with both off a banned object is not delivered |
| `critbit` | 2 threads, 3 digests of 2 bits, 4 objheads, 3 nodes | lookups without a lock stay on allocated memory; the tree finds what is in it; `HashCritbit` implements `HashSlinger` |
| `sessions` | 2 workers, 2 sessions, 1 pool, each of the 4 waiters | a session is in one place and its memory is not lost; idle list, queue and free lists are sound; no event for a session the waiter has let go; a queued session has a thread that comes by |
| `backends` | 2 workers, 2 VCLs that share a backend, one declares a probe and may fail to load | references to VCLs and backends exact; what a session holds is loaded; an unprobed backend is healthy; a probe thread works for the loaded VCLs that declare the probe (and those that failed to load) and does not outlive its backend |
| `manager` | 2 VCL programs, restart and ping on | manager and child agree on VCLs; events and descriptors fit the state of the child; a dead child is reaped, a hung one killed |
| `silo` | 5 cells, segments of 2, 4 segments, 3 starts, 2 objects | after a crash at any write the list found is intact; segments do not overlap; a live object has the segments it needs while the counts are right |
| `shmlog` | 2 writers, 6 words, records of 2 and 3 words, a reader | records are whole and in order, none is skipped, a reader that sleeps is where the next record will be |
| `v_ban_deferred` | 2 bans, 1 objcore, lurker on | finding: an object that was busy when the lurker came by is delivered although banned |

**Bounds.** All requests are for one objhead: objheads share nothing but the
hash slinger. Two objcores let an old object and a new busy one, or two busy
ones, be on the list; two sessions with the expiry thread give every pair of
actors on one objcore. `cache_wakeup` needs a third session so that two can be
parked at once behind a third. `MaxRestarts = 2` in
`cache_requests` lets a request be looked up again after a restart and a second
restart be refused; it is 1 elsewhere. `RushExponent = 1` is below the smallest value the parameter accepts (2,
`mgt_pool.c`): with two waiters it is what leaves one of them parked after a
wake-up, as 2 does with three. `MaxOhref` only caps how many references refused
sessions may leak. Three bans are the magic one and two more, one of which may
duplicate the other; a ban that is retired is reused, so the list turns over
without a bound, and the lurker's colour comes round. Lurker and duplicate hunt
are on or off together; one without the other is described below.

In `critbit` three digests give a tree of two nodes with the lower or the higher
bit first, and memory is scarce enough to be reused while others still walk; one
thread walks while the other inserts, deletes and the cleaner frees. `MaxRef = 1`
keeps a lookup from starting on an objhead that is referenced, but not from
meeting one made since.

In `sessions` one thread is the minimum and two are the maximum, so the herder
makes and the herd timer ends threads all the time; `queue_max` is 0, so one
session can be queued and the next is refused; the pipe to the waiter takes one
session, so it is full when two are handed over. `MaxSess = 2` is reached.

In `backends` two VCLs suffice to add a backend that exists, to discard one user
of two and the last one. One connection is allowed, so the limit is met and the
idle connection counts. `AdminStates` has `probe` only: `sick` and `healthy` only
select an alternative of `vbe_GetVbe_new` that is taken anyway. Only one VCL
probes, so `VBP_Insert` never joins an existing target here. Exploration stops
when `VBE_AddBackend` has lost an update.

In `manager` the boot program cannot be the only one to load, use and discard,
so there is a second; commands are given while at most `MaxPipe` messages are in
the pipes, which leaves room for an answer that came too late.

In `silo` the five cells hold two segments and a reserve, so that the space is
used up and used again from its beginning; four segments and three starts allow a
crash, a second crash during recovery, and a start after it. `Explored` keeps the run
to about three million states: saves are not followed in the last start, which
no start comes after, nor once the counts are wrong (`skew`), which `BodyKept` excepts and
which ends with the child; in the last start nothing is followed after that. So every
crash during a save that a later start recovers from is there, and the races of the
loading thread with closing, saving and freeing are met in the second start.

In `shmlog` a ring of six words takes two or three records, so that a wrap comes
soon, with and without words left over; `SeqMax = 2` makes the serial number come
round; three laps, the one of `VSL_Init` included, allow two wraps or restarts
while a reader stands anywhere. Exploration stops when a reader or a writer has
been overtaken.

The type invariants of `Ban`, `HashCritbit`, `SessionLife` and `ShmLog` are stated
and were checked on the way; the runs do not repeat them.

**Deadlock** is checked except where the system may really stop: a leaked busy
objcore (`cache_faults`), a child that is stopped or that nobody restarts
(`manager`), a silo no child can open (`silo`), and the bounds on segments and
records (`silo`, `shmlog`).

**Fairness.** `ObjCache!FairSpec`: weak fairness for the steps of each session,
which stands for the operating system running its worker and for backends and
clients being subject to time-outs; for the expiry thread; and for the passing of
time. Starting a request, purging, nuking and an ESI include are never forced.
There is no strong fairness. A session on a waiting list is not assumed to be
woken: that is what is checked.

`Manager!Spec`: weak fairness for the manager's thread (loop and time-outs), for
a child that is not hung to serve its CLI and to notice its end of file, for a
signal to take effect; strong fairness for the ping timer and for the handling of
a pending `SIGCHLD`. `vev_schedule_one` looks at the timers first in every pass, so
the ping is not passed over. It serves a due timer before a pending signal, and
`vev_sched_timeout` re-arms the timer from a time taken before the callback: as long
as the child lives and its pings take longer than `ping_interval`, signals may wait.
For a dead child, which is what the property is about, the ping fails at once
with `EPIPE`, the timer is then not due and the signal is served. The operator and the
faults are never forced.

### What fails, and is not one of the listed findings

These were met with the same modules and constants other than those of the runs,
with a property the module states and no run lists, or, where it says so, by
reading. They are reported here as differences between code and comment, or as
limits of what the runs claim.

**Object cache and bans**

* `Faults = {"nostorage"}`: `WaitersRestart` fails. "Out of objects" leaves the
  busy objcore on the list with nobody to finish it (`cache_center.c:452`,
  `807-812`), and sessions stay parked behind it for ever; the comment at
  `cache_center.c:1116-1117` expects the contrary.
* Lurker on, 3 bans: `GoneIsDone` fails. The lurker's colour comes round
  (`cache_ban.c:823`, `935`); an object with a stale colour is skipped and the ban
  marked GONE, so it is never tested against it (comment at `cache_ban.c:684`,
  `purging.rst:159`).
* `Faults = {"badvary"}`: `NoSpareBusyobj` fails. The error object takes over
  the busy objcore after `HSH_Prealloc` gave the worker a spare busyobj, and
  `vcl_error` that restarts reaches `AZ(sp->wrk->nbusyobj)` in `HSH_Unbusy`.
* `Faults = {"drop"}`: `OhrefExact` fails, a refused session leaks its objhead
  reference; `WaitersRestart` fails, the rest of the list may stay parked.
* `Vcl = {"esi"}`, `Faults = {"nostorage"}`: `NoLeftoverObjcore` fails, the
  next include finds `sp->objcore` set.
* A busy objcore does not always have a count of one, as a comment in
  `HSH_Purge` says (`cache_hash.c:546-550`): between `EXP_Insert` and
  `HSH_Unbusy` it has two. `BusyOwned` states what holds: one pointer of one session
  has it, besides the LRU list. Around an ESI include that may be the pointer to the
  outer object, which was delivered while it was still busy.
* `params.ban_dups` without the lurker: `BannedNotServed` fails. A walk that
  began before the duplicate was inserted finds the older ban GONE.
* `max_restarts = 0` fails every request, since `cnt_recv` compares with `>=`.
* By reading: an ESI include that meets a busy object polls, `hcb_lookup` loops and
  the lurker retires bans without a bound on how long any of them takes; a banned
  object whose `obj.ttl` is set again has no ban (`oc->ban` is NULL) and lives on.

**Sessions**

* `Prompt = FALSE`: `QueuedHasServer` fails. A thread that was told to go still
  counts in `nthr`; if it is slow to leave, the herder makes no other and a
  queued session waits for the next round.
* `queue_max` is compared with `>`, so one session more is queued; `max_sess` is
  tested without a lock; `nthr` may pass `thread_pool_max` by the threads created
  and not yet counted. In the ports waiter the list is not exactly in the order
  of age that its comment claims.

**VCLs and backends**

* `VBE_AddBackend` increments the count without `b->mtx`
  (`cache_backend_cfg.c:200`): an update of a worker's is lost, and a worker may drop
  the last reference, which the comment at `:99-101` excludes.
* `Backend!AssertsHold` fails: `VBP_Remove` empties the list of VCLs and only
  then sets `vt->stop`; a probe that builds its request in between finds none
  (`XXXAN(vcl)`), and the child panics.
* `ProbesMapped` fails in 5 steps: a failed `init_vcl` leaves the backends and probes it
  had added referenced for ever (`cache_vcl.c:173-176`), and the probe thread goes on, on
  behalf of a program that `dlclose` has unmapped. `ProbedIsAlive` says what holds
  besides: every VCL on a probe's list declares that probe and is mapped unless its load
  failed, every loaded VCL that declares the probe is on the list, and the list is
  empty only while the thread is being stopped.
* `max_connections` is tested without the lock and counts idle connections. Idle
  workers keep `wrk->vcl`, which delays the end of a discarded VCL.
* By reading: `vbp_wrk_poll_backend` recognises a changed VCL by its address,
  which may have been reused; the round-robin director's `next_host` is shared
  without a lock and the dns director writes it under a read lock.

**Manager**

* `HungIsReplaced` fails: `mgt_sigchld` deletes the ping timer on any `SIGCHLD`,
  such as that of the compiler; a child that hangs afterwards is not noticed
  (`params.rst`, `ping_interval`).
* A command passed on to the child that times out in `mcf_askchild` does not end
  the child; its late answer is taken for that of the next command. `InSync` is
  stated for a child that owes no such answer.
* A hung child that is being stopped is waited for without end. A child that
  dies while it is started is not restarted, whatever `auto_restart` says
  (`params.rst`).
* By reading: when `poll` is interrupted (`EINTR`), `read_tmo` goes on to a `read`
  that blocks, without any time-out (`cli_common.c:131-136`); `VCLI_ReadResult`
  asserts on an answer cut short.

**Persistent storage**

* `SegmentsDisjoint` fails in 16 steps: `smp_new_seg` compares with `>`
  (`storage_persistent_silo.c:211`), so a segment that begins exactly where the
  oldest does is not noticed.
* `OneValidCopy` fails in 13 steps: a crash during the save of one copy and
  another during the next save leave no valid copy (comment at
  `storage_persistent_silo.c:52-59`).
* `ReserveFound` fails in 9 steps: of a list with a single segment near the end
  nothing is dropped, and `smp_open_segs` asserts (`storage_persistent.c:219`).
* `smp_reset_sign` makes the first copy valid and empty, so a crash just then
  loses all segments though the second copy is intact.
* `LiveHasSegments` fails in 12 steps: `smp_allocobj` gives up `sc->mtx` between the
  allocation and the count (`storage_persistent.c:502-515`). Another thread may close the
  segment in between, and its save frees it, as it has no objects. `smp_allocobj` then
  increments `nobj` in freed memory and stores the freed `sg` in the objcore: a live
  object without its segment. The next `smp_oc_getobj` asserts, unless the memory is that of
  a newer segment, whose count is then wrong.
* With the invariant extended to vampires it also fails by the loading
  thread alone, in 14 steps: `smp_load_seg` makes an object visible, another thread's
  save finds the segment empty and frees it, and `nobj++` comes after that
  (`storage_persistent_silo.c:161-164`). Since that increment takes no lock, it and the
  `nobj--` of `smp_oc_freeobj` can also undo each other, which leaves a count too
  low or too high.
* If the segment was closed in between and not freed, `smp_allocobj` fills in the
  `smp_object` at the place the index had before `smp_close_seg` moved it, which may be
  in the next segment: the object (`lost`) is not found by the next start.
* By reading: `smp_close_seg` uses the segment's end after `smp_save_segs` may have
  freed it; objects
  still being fetched at a crash are accepted by the next child; an object loaded
  before the segment of its body is given up; wrapping with an empty list
  dereferences NULL.

**Log**

* `NoneSkipped` without `raced` fails in about 20 steps. The reader stands at a
  record that is reserved and not filled; another thread wraps; the reader sees the
  end marker and a new serial number, and goes to the front, missing that record
  and the ones after it. The same happens when it loads the end marker, then the
  serial number, with writes between (`vsl.c:174-185`). The walk of `VSL_Open` does
  not know the wrap marker (`vsl.c:394-396`).
* By reading: a child that dies between `vsm_mark` and `vsm_release` leaves
  `alloc_seq` at 0, and `vsm_release` does nothing for 0, so that readers cannot
  open the file any more, in spite of the comment at `vsm.c:34-41`.

## Theorems

`ObjCacheProofs` proves, for any finite sets of sessions and objcores, any set
of heads and variants, any `Vcl`, any `Faults` and any values of the parameters:

* `TypeCorrect`: `Spec => []TypeOK`;
* `NoUseAfterFree`: `Spec => []RefcntCovers`, with every fault;
* `NoLeak`: `Spec => []RefcntExact`, if `"nostorage" \notin Faults`;
* `ZeroStaysZero`: `Spec => ZeroIsFinal`;
* `IInvAlways`: the inductive invariant they rest on.

None of these is inductive as it stands. That a reference counted pointer does
not go below its holders needs to know which pointers a session holds at which
step, that a list names each objcore once, that an objcore whose count is zero
is in the hands of exactly one thread, and that waiting sessions are on the
list they hold a reference for. The invariant

    IInv == TypeOK /\ RefInv /\ ListInv /\ DyingInv /\ WaitInv /\ SessInv /\ SoleInv

says so: `RefInv` covers counts of objcores and heads, `ListInv` that `objcs`
lists exactly the referenced objcores of a head, each once, `DyingInv` that an
objcore being freed has a count of zero and is freed by one thread only,
`WaitInv` that sessions on a waiting list are parked, each once, with a reference
on that head, `SessInv` what `objcore`, `obj`, `parent` and `hoh` may be at each
step, and `SoleInv` that an object still being fetched has no reference but its
fetcher's. Each action has a lemma; the three
facts `Init => IInv`, `IInv /\ [Next]_vars => IInv'` and `IInv => ...` give the
theorems. The assumptions are those of `ObjCache`: the constants that stand for
NULL and for threads differ from the others, sessions and objcores are finite,
parameters are numbers in range. Lemmas on sets and sequences (adding a holder,
removing an element of a list) come first.

A second invariant, `Extra`, is inductive together with
`IInv` (`ExtraAlways`), and from the two it proves, for the same constants:

* `ListsAlwaysExact`: `ListsExact`, with every fault;
* `BusyStayAtTail`: `BusyAtTail`, with every fault;
* `FetchesCoalesce`: `Coalesced`, with every fault;
* `AssertionsHold`: `AssertsHold`, with every fault;
* `NoObjheadLeak`: `OhrefExact`, if `"drop" \notin Faults`;
* `LookupsStartClean`: `NoLeftoverObjcore`, and `BusyHasOneOwner`: `BusyOwned`, if
  `"nostorage" \notin Faults`;
* `UnbusyHasRoom`: `NoSpareBusyobj`, if `Faults` has neither `"badvary"` nor
  `"nostorage"`;
* `NoLostWakeup`: `WaiterHasWaker`, if it has neither `"drop"` nor `"nostorage"`.

The excluded faults are the ones for which the property fails, as described above.
`Extra` says which objcores have an object (`HasInv`), what a hit may be (`HitInv`),
that a parked session is on its objhead's list (`ParkInv`), that one pointer of one
session holds a busy objcore (`OwnInv`), and where a worker may have a spare busyobj
(`SpareInv`). A busy objcore's owner is what makes the rest go through: it keeps
`HSH_Unbusy` from moving an objcore that another session still fetches, and it
is the one who wakes those who wait.

`BanProofs` proves, for any set of bans, objcores, kinds, lookups and CLI threads and
any parameters (`BanConstants`: threads and NULL differ from the rest; objcores and
CLI threads are finite):

* `BanRefsAlwaysExact`: `BanRefsExact`;
* `WalksAlwaysSafe`: `ScanSafe`;
* `LookupsAlwaysHonour`: `LookupsHonourBans`;
* `BanIInv`: the inductive invariant of the first two.

A walk without `ban_mtx` is safe because the objcore it tests stays on its ban, which
therefore has a reference, and because only the last ban is ever retired: `ScanInv` has
the lock, the state of the objcore and the order of `b0`, `b` and `oc->ban` on the
list, `LurkInv` the same for the lurker, which may not retire what it stands on,
`TailInv` for the CLI threads. For the third theorem `HonourInv` says, with lurker and
duplicate hunt off: only `ban_magic` is GONE; an objcore that is owed a ban has a
matching one before its own on the list (`OwedInv`); a walk has passed no ban that
matches (`WalkInv`); and if the objcore was owed one when the walk began, it is still
ahead (`MustInv`).

`BackendProofs` proves, for any finite sets of workers and VCLs, any backends, and any
relation of VCLs to backends, probes and hosts (`RefAssumption`, `BackendAssumption`:
a VCL names each of its backends once, and probes and uses only those):

* `VclRefsAlwaysExact`: `VclRefsExact`;
* `BackendRefsAlwaysExact`: `BackendRefsExact`;
* `UnprobedAlwaysHealthy`: `UnprobedHealthy`;
* `HeldAlwaysUsable`: `HeldIsUsable`, and `ProbedAlwaysAlive`: `ProbedIsAlive`;
* `BackendIInv`: the inductive invariant.

Unlike the run, the proof follows a backend further after an update of its count was
lost; the properties except it (`lost`), since its count says nothing any more. The
invariant needs where the CLI thread is in a load or a discard (`CliInv`), which
backends a program's directors have at that point (`DirInv`), and that the list of a
probe is that of the programs that declare it, without the one being dropped
(`ProbeInv`): an empty list is seen only between `VBP_Remove`'s two steps.
`ProbedIsAlive` follows from the two: a program on the list has the backend in a director,
and what is in a director is a loaded program's or one's whose load failed.

`SessionProofs` proves, for any number of pools, any finite sets of workers and sessions,
any of the four waiters and any setting of the parameters with at least one thread per
pool (`PoolAssumption`, `SessionAssumption`: the pools are numbered from 0, as `wq[]`
is):

* `SessionInOnePlace`: `OnePlace`;
* `FreeListOwned`: `OwnFreeList`;
* `PoolsSound`: `PoolSound`;
* `OnlyListedWatched`: `WatchedIsListed`;
* `QueuedIsServed`: `QueuedHasServer`, assuming `Prompt`, without which TLC finds a
  counterexample;
* `SessionTypes`: `TypeOK`, and `SessionInvariant`: the inductive invariant.

`OnePlace` counts, and counts are hard to argue about when a session moves. The
invariant says the same with a function: some `at` gives every session one spot
(`SpotInv`: free memory, a queue, a call of `WRK_Queue`, a worker, the pipe, ...), no
list has it twice (`ListInv`, `QueueInv`) and no two threads have it (`InjInv`); an action
then changes `at` for one session (`SpotMoved`), and only the last theorem adds up the
disjoint sets. For the pools, `CallInv` says that a worker taken off the idle list
belongs to the one call that took it, `IdleInv` that with `Prompt` who is idle is on
the list, about to get a session, or told to go, and `HerdInv` that the pools the
herder has passed have their minimum and that only a pool with more than that gives a
thread up. So a pool with a queue has a thread that is not the one told to go.

`ManagerProofs` proves, for any set of programs and any bound on the pipes,
`EventsAlwaysMatch` (`EventsMatchState`) and `ManagerInSync` (`InSync`) from
`ManagerIInv`. In a callback the manager and the child disagree by the command in hand:
`Before` and `After` say what the child has until and once it has carried it out, and
`SyncInv` that one of the two holds while the child lives and owes no late answer.
While a new child is given its programs, `vp` says how far along the list that is.

`HashCritbitProofs` proves, for any number of threads, nodes and objheads and for
digests of any width (`CritbitConstants`: NULL, nodes, objheads and the root pointer are
different things, and digests are strings of `Width` bits):

* `NeverDangling`: `NoDangling`;
* `AlwaysFindable`: `Findable`;
* `CritbitIsSlinger`: `ImplementsSlinger`, the refinement of the contract;
* `ContractHolds`: whatever slinger keeps the contract, an objhead has exactly one
  digest while it is referenced (`OneObjhead`), so two lookups of a digest meet at
  the same objhead; and `CritbitOneObjhead`: so it is in the tree;
* `CritbitIInv`: the inductive invariant.

`Findable` speaks of paths, and a pointer that changes near the root changes many of
them. The invariant speaks of single pointers: some `pre` gives each node the bits that
the digests below it share up to its critbit; a pointer leads to a node or an objhead
with the bits it stands for and with a higher critbit (`Sorted`), and an objhead whose
digest has the bits of a pointer is what it leads to or below that (`Complete`). With
`Shape` (no loose ends, and no two pointers to one thing) an insertion
or a deletion changes three pointers, and every other one keeps its own clause. The
walk is then followed once, from the invariant: that its critbits ascend, that it ends
within `Width` steps and where it ends is shown by taking the least step at which it
would not, since induction with an operator is not to be had. `Outside` says that what
was taken out still leads to memory that is not freed, and what cools off leads to
nothing dead; `Walkers` that a thread not in `early` stands on nothing dead: so
`hcb_cleaner`, which waits for `early` to be empty, frees nothing under a lookup.
`Counts` says that an objhead with a reference is in the tree. For the refinement, the
objhead of a digest is the one with a reference: a lookup takes effect when it takes
its reference under `oh->mtx`, or when it puts its own objhead in; since the walk with
the lock would have found one with the digest, there is none then; and the last deref
takes effect at the count, before the objhead leaves the tree.

`SiloProofs` proves, for a silo of any size, any length of segments, any reserve no
smaller than a segment, any number of starts and crashes and any finite set of objects
(`SiloAssumption`):

* `SegmentsApart`: `DisjointBefore`;
* `ListsIntact`: `TablesIntact`;
* `LiveKept`: `BodyKept`, so `LiveHasSegments` until `skew`;
* `SiloIInv`: the inductive invariant.

That a new segment overwrites nothing is not a matter of the list in memory alone: a
crash may bring back either copy on disk, of which the next child keeps an end. So the
invariant speaks of three lists. Each is in the order of creation (`OrderInv`) and is a
ring: no two segments overlap, and from one to the next the offsets ascend but for one
turn at the end of the silo (`RingInv`). What the next child would keep of a copy
(`KeptList`, the loops of `smp_open_segs` by offsets alone) lies in the part of the
space in use, from the oldest segment to the free offset (`UseInv`), which is where the
next segment does not go; therefore every segment of it still has its cells, and no
segment created later lies on it (`GoodInv`). `CurInv` has the state of a save, and
`SigInv` that one copy is signed at every moment. These hold whatever becomes of the
counts, as do, for the objects, `PlaceInv` (where they can be), `CurNewInv`
(a current segment nothing was allocated from has no object), `BodyInv` (a body
is no older than its headers) and `ThreadInv` (where the silo's thread can be). The rest
(`Exact`) is stated until `skew`: the count of a segment is that of its objects, less the
one the thread has made visible and not counted (`CountInv`); what the thread has read
is what is there when it stores, and the segment it loads is not freed with an object
uncounted (`LoadInv`); an object in use has its segment on the list (`HomeInv`), and so
has its body (`ServedInv`). Segments go from the
oldest on and only while they are empty, so those of a live object stay. The lists are indexed
by position and never summed up, so that no induction over them is needed; where a loop
of `smp_open_segs` stops is a least number.

Every invariant above was checked by TLC on the instances of the runs before it was
proved.

Only model-checked: the log (`InOrder`, `NoneSkipped`, `CaughtUp`), whose positions are
sums over the records of a worker's buffer, which would need induction over them; and
liveness, which is outside the prover's reach.

## Not modelled

* Byte transport (fetch, gzip, pipe, response), VCL compiler, command line tools
  and the test driver: sequential conversions whose outcome the models see as
  success or failure.
* `malloc`, `umem` and synthetic storage, which wrap the C library; vendored
  jemalloc and zlib, which are more than a quarter of the repository's lines of C.
* The classic and simple list hashes, the directory of the shared memory file,
  tables of the directors, the order of the expiry heap, the extents of
  `storage_file.c`: see the plan.

## Plan

1. The directory of the shared memory file: `vsm.c` with `alloc_seq`, a child that
   dies, and readers that iterate.
2. `ObjCache` and `Ban` composed where they share an objcore: `oc->ban` is NULL
   after a ban while `obj.ttl` may be set again.
3. The classic and simple list hashes as implementations of `HashSlinger`.
4. `Expire`: heap and LRU order with `EXP_Touch` and `EXP_Rearm` racing the
   timer; the binary heap and the extents of `storage_file.c` as pure algorithms
   against reference definitions.
5. The ban tables of a silo and `BAN_Reload`; round-robin, random and dns
   directors.
6. Theorems: `InOrder` and `CaughtUp` of `ShmLog`, once the records of a buffer carry
   their positions.
