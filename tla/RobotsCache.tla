---------------------------- MODULE RobotsCache ----------------------------
(***************************************************************************)
(* RobotsCache (robots.py) and the workers that call its allowed(), once   *)
(* per page; crawl_delay() is that call and a read of what it leaves.  The *)
(* cache and the locks are two dicts of one event loop: a worker is        *)
(* suspended only while it waits for an origin's lock and while it fetches *)
(* robots.txt under it, and what it does from one suspension to the next   *)
(* is one step.                                                            *)
(*                                                                         *)
(* A lock is known by a number that nobody else of its origin refers to.   *)
(* The waiters of a lock are served in any order.  Time is in ticks.       *)
(***************************************************************************)
EXTENDS Integers, FiniteSets

CONSTANTS
    Clients,        \* the crawler's workers
    Origins,        \* the origins crawled
    NoOrigin,
    MaxEntries,     \* _MAX_ENTRIES
    Ttl,            \* ttl
    FetchTicks,     \* the longest fetch of a robots.txt
    Faults,         \* subset of {"cancel"}
    Horizon         \* bound on the clock

ASSUME RobotsAssumption ==
    /\ IsFiniteSet(Clients) /\ IsFiniteSet(Origins)
    /\ NoOrigin \notin Origins
    /\ MaxEntries \in Nat \ {0}
    /\ Ttl \in Nat /\ FetchTicks \in Nat /\ FetchTicks < Ttl
    /\ Horizon \in Nat

VARIABLES
    now,        \* time.monotonic()
    cached,     \* the keys of _cache
    expires,    \* expires[o]: when o's entry expires, 0 if not cached
    lock,       \* lock[o]: _locks[o], 0 when there is none
    client,     \* client[c]: the call c is in
    dropped     \* history: origins whose lock was dropped under a worker

vars == <<now, cached, expires, lock, client, dropped>>

LockId == 1..(Cardinality(Clients) + 1)

Call == [pc : {"idle", "wait", "fetch"}, origin : Origins \cup {NoOrigin},
         lock : LockId \cup {0}, start : Nat]
Idle == [pc |-> "idle", origin |-> NoOrigin, lock |-> 0, start |-> 0]

TypeOK ==
    /\ now \in Nat
    /\ cached \subseteq Origins
    /\ expires \in [Origins -> Nat]
    /\ lock \in [Origins -> LockId \cup {0}]
    /\ client \in [Clients -> Call]
    /\ dropped \subseteq Origins

Init ==
    /\ now = 0
    /\ cached = {}
    /\ expires = [o \in Origins |-> 0]
    /\ lock = [o \in Origins |-> 0]
    /\ client = [c \in Clients |-> Idle]
    /\ dropped = {}

-----------------------------------------------------------------------------
(* Looking up *)

On(o) == {c \in Clients : client[c].pc # "idle" /\ client[c].origin = o}
Fetching(o) == {c \in On(o) : client[c].pc = "fetch"}

\* A hit is answered at once, and changes nothing.
Fresh(o) == o \in cached /\ now < expires[o]

\* A number for a lock of o that nobody refers to.
NewLock(o) == CHOOSE n \in LockId : n # lock[o] /\ \A c \in On(o) : client[c].lock # n

\* Mutant of OriginLock: a new lock each time.
OriginLockAlwaysNew(o) == NewLock(o)

\* _origin_lock()
OriginLock(o) == IF lock[o] # 0 THEN lock[o] ELSE NewLock(o)

\* A dropped lock matters as long as a worker is on the origin.
Forget(os) == dropped' = {o \in os : \E c \in Clients : client'[c].origin = o}

Free(o, n) == \A c \in On(o) : client[c].lock # n

\* A miss: a lock that is free is taken without a suspension.
Miss(c, o) ==
    LET n == OriginLock(o) IN
    /\ client[c].pc = "idle"
    /\ ~Fresh(o)
    /\ lock' = [lock EXCEPT ![o] = n]
    /\ client' = [client EXCEPT ![c] =
                    [pc |-> IF Free(o, n) THEN "fetch" ELSE "wait",
                     origin |-> o, lock |-> n, start |-> now]]
    /\ UNCHANGED <<now, cached, expires, dropped>>

\* The lock is released to a waiter, which looks the origin up again.
Acquire(c) ==
    LET o == client[c].origin IN
    /\ client[c].pc = "wait"
    /\ \A b \in Fetching(o) : client[b].lock # client[c].lock
    /\ client' = [client EXCEPT ![c] =
                    IF Fresh(o) THEN Idle
                    ELSE [pc |-> "fetch", origin |-> o, lock |-> @.lock, start |-> now]]
    /\ Forget(dropped)
    /\ UNCHANGED <<now, cached, expires, lock>>

-----------------------------------------------------------------------------
(* Storing *)

\* What _store() may leave in the cache: over the cap the expired entries go,
\* and if that is not enough one that expires soonest.
Survivors(keys, expiry, start) ==
    LET live == {o \in keys : expiry[o] > start}
        soonest == {o \in live : \A p \in live : expiry[o] <= expiry[p]}
    IN  IF Cardinality(keys) <= MaxEntries THEN {keys}
        ELSE IF Cardinality(live) <= MaxEntries THEN {live}
        ELSE {live \ {o} : o \in soonest}

\* Mutant of DropLocks: the locks of dropped entries stay.
DropLocksNever(keys) == UNCHANGED lock

DropLocks(keys) == lock' = [o \in Origins |-> IF o \in keys THEN 0 ELSE lock[o]]

\* The fetch ends, with a robots.txt or without, an entry is stored; its age
\* counts from before the fetch.
Store(c) ==
    LET o == client[c].origin
        keys == cached \cup {o}
        expiry == [expires EXCEPT ![o] = client[c].start + Ttl]
    IN
    /\ client[c].pc = "fetch"
    /\ cached' \in Survivors(keys, expiry, client[c].start)
    /\ expires' = [p \in Origins |-> IF p \in cached' THEN expiry[p] ELSE 0]
    /\ DropLocks(keys \ cached')
    /\ client' = [client EXCEPT ![c] = Idle]
    /\ Forget(dropped \cup (keys \ cached'))
    /\ UNCHANGED now

\* worker_timeout, or the end of the crawl: the lock is released, nothing stored.
Cancel(c) ==
    /\ "cancel" \in Faults
    /\ client[c].pc # "idle"
    /\ client' = [client EXCEPT ![c] = Idle]
    /\ Forget(dropped)
    /\ UNCHANGED <<now, cached, expires, lock>>

Tick ==
    /\ now < Horizon
    /\ \A c \in Clients : client[c].pc = "fetch" => now < client[c].start + FetchTicks
    /\ now' = now + 1
    /\ UNCHANGED <<cached, expires, lock, client, dropped>>

Next ==
    \/ Tick
    \/ \E c \in Clients :
          \/ \E o \in Origins : Miss(c, o)
          \/ Acquire(c) \/ Store(c) \/ Cancel(c)

Spec == Init /\ [][Next]_vars

-----------------------------------------------------------------------------
(* Properties *)

\* Single-flight: no origin's robots.txt is fetched by two workers at once,
\* unless an eviction or expiry has dropped the lock the first one holds.
SingleFlight == \A o \in Origins \ dropped : Cardinality(Fetching(o)) <= 1

\* The cap holds whatever expires while the fetches that store are under way.
CacheBounded == Cardinality(cached) <= MaxEntries

\* A lock that no worker is on belongs to an entry.
Leaked(o) == lock[o] # 0 /\ o \notin cached /\ On(o) = {}

\* Both maps are bounded, the locks as well as the entries, although workers make
\* locks and other origins' entries drop them: only a worker that is cancelled
\* leaves one behind.
MapsBounded ==
    /\ []CacheBounded
    /\ [][\A o \in Origins : Leaked(o)' /\ ~Leaked(o) => \E c \in On(o) : Cancel(c)]_vars

=============================================================================
