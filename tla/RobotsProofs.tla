---------------------------- MODULE RobotsProofs ----------------------------
(***************************************************************************)
(* Theorems about RobotsCache, for any finite sets of workers and origins, *)
(* any cap, time to live and clock.                                        *)
(***************************************************************************)
EXTENDS RobotsCache, FiniteSetTheorems, TLAPS

-----------------------------------------------------------------------------
(* The cap *)

BoundInv == cached \subseteq Origins /\ CacheBounded

\* What _store() leaves of the keys is within the cap, if they were one too many.
LEMMA SurvivorsBounded ==
    ASSUME NEW keys \in SUBSET Origins, NEW expiry, NEW start,
           Cardinality(keys) <= MaxEntries + 1,
           NEW left \in Survivors(keys, expiry, start)
    PROVE  left \subseteq keys /\ Cardinality(left) <= MaxEntries
<1> DEFINE live == {o \in keys : expiry[o] > start}
<1>1. CASE Cardinality(keys) <= MaxEntries
  BY <1>1 DEF Survivors
<1>2. CASE ~(Cardinality(keys) <= MaxEntries) /\ Cardinality(live) <= MaxEntries
  BY <1>2 DEF Survivors
<1>3. CASE ~(Cardinality(keys) <= MaxEntries) /\ ~(Cardinality(live) <= MaxEntries)
  <2> DEFINE soonest == {o \in live : \A p \in live : expiry[o] <= expiry[p]}
  <2>0. Survivors(keys, expiry, start) = {live \ {o} : o \in soonest}
    BY <1>3 DEF Survivors
  <2>1. PICK o \in live : left = live \ {o}
    BY <2>0
  <2>2. IsFiniteSet(keys)
    BY FS_Subset, RobotsAssumption
  <2>3. /\ IsFiniteSet(live)
        /\ Cardinality(live) \in Nat /\ Cardinality(live) <= Cardinality(keys)
        /\ Cardinality(keys) \in Nat
    BY <2>2, FS_Subset, FS_CardinalityType
  <2>4. Cardinality(left) = Cardinality(live) - 1
    BY <2>1, <2>3, FS_RemoveElement
  <2>5. QED
    BY <2>1, <2>3, <2>4, RobotsAssumption
<1>4. QED
  <2>1. IsFiniteSet(keys)
    BY FS_Subset, RobotsAssumption
  <2>2. Cardinality(keys) \in Nat
    BY <2>1, FS_CardinalityType
  <2>3. QED
    BY <1>1, <1>2, <1>3, <2>2, RobotsAssumption

\* Storing an entry keeps the cache within its cap.
LEMMA StoreBounded ==
    ASSUME BoundInv, NEW c \in Clients, Store(c), client[c].origin \in Origins
    PROVE  BoundInv'
<1> DEFINE o == client[c].origin
           keys == cached \cup {o}
<1>1. keys \in SUBSET Origins
  BY DEF BoundInv
<1>2. Cardinality(keys) <= MaxEntries + 1
  <2>1. IsFiniteSet(cached)
    BY FS_Subset, RobotsAssumption DEF BoundInv
  <2>2. Cardinality(cached) \in Nat
    BY <2>1, FS_CardinalityType
  <2>3. Cardinality(keys) = IF o \in cached THEN Cardinality(cached) ELSE Cardinality(cached) + 1
    BY <2>1, FS_AddElement
  <2>4. Cardinality(cached) <= MaxEntries
    BY DEF BoundInv, CacheBounded
  <2> HIDE DEF keys
  <2>5. QED
    BY <2>2, <2>3, <2>4, RobotsAssumption
<1>3. PICK expiry, start : cached' \in Survivors(keys, expiry, start)
  BY DEF Store
<1> HIDE DEF keys
<1>4. cached' \subseteq keys /\ Cardinality(cached') <= MaxEntries
  BY <1>1, <1>2, <1>3, SurvivorsBounded
<1>5. QED
  BY <1>1, <1>4 DEF BoundInv, CacheBounded

-----------------------------------------------------------------------------
(* One fetch at a time *)

IsCall(c) == c = [pc |-> c.pc, origin |-> c.origin, lock |-> c.lock, start |-> c.start]

\* While nobody has dropped the lock of an origin, those who are on the origin
\* refer to that lock, and one of them at most holds it.
LockInv(o) ==
    /\ \A c \in On(o) : client[c].lock = lock[o] /\ lock[o] # 0
    /\ \A c, d \in Fetching(o) : c = d

FlightInv ==
    /\ client = [c \in Clients |-> client[c]]
    /\ lock = [o \in Origins |-> lock[o]]
    /\ \A c \in Clients : /\ IsCall(client[c])
                          /\ client[c].pc # "idle" => client[c].origin \in Origins
                          /\ client[c].pc = "idle" => client[c].origin = NoOrigin
    /\ \A o \in Origins \ dropped : LockInv(o)

\* A lock made while nobody is on the origin is not 0.
LEMMA NewLockIsOne ==
    ASSUME NEW o, On(o) = {}, lock[o] = 0
    PROVE  NewLock(o) # 0
<1>1. Cardinality(Clients) \in Nat
  BY FS_CardinalityType, RobotsAssumption
<1>2. 1 \in LockId /\ \A n \in LockId : n # 0
  BY <1>1 DEF LockId
<1>3. \E n \in LockId : n # lock[o] /\ \A c \in On(o) : client[c].lock # n
  BY <1>2
<1>4. QED
  BY <1>2, <1>3 DEF NewLock

\* The next state of a worker changes nobody else's.
LEMMA OthersStay ==
    ASSUME FlightInv, NEW c \in Clients, NEW j, client' = [client EXCEPT ![c] = j]
    PROVE  /\ client' = [d \in Clients |-> client'[d]]
           /\ \A d \in Clients : client'[d] = IF d = c THEN j ELSE client[d]
BY DEF FlightInv

\* A miss keeps the invariant.
LEMMA MissKeeps ==
    ASSUME FlightInv, NEW c \in Clients, NEW o \in Origins, Miss(c, o)
    PROVE  FlightInv'
<1> DEFINE n == OriginLock(o)
           j == [pc |-> IF Free(o, n) THEN "fetch" ELSE "wait",
                 origin |-> o, lock |-> n, start |-> now]
<1>1. /\ client[c].pc = "idle" /\ client' = [client EXCEPT ![c] = j]
      /\ lock' = [lock EXCEPT ![o] = n] /\ UNCHANGED dropped
  BY DEF Miss
<1>2. /\ IsCall(j) /\ j.pc # "idle" /\ j.origin = o /\ j.lock = n
      /\ j.pc = "fetch" => Free(o, n)
  BY DEF IsCall
<1>3. o \notin dropped => n # 0 /\ (lock[o] # 0 => n = lock[o]) /\ (lock[o] = 0 => On(o) = {})
  <2>1. CASE lock[o] # 0
    BY <2>1 DEF OriginLock
  <2>2. CASE lock[o] = 0
    <3>1. o \notin dropped => On(o) = {}
      BY <2>2 DEF FlightInv, LockInv
    <3>2. QED
      BY <2>2, <3>1, NewLockIsOne DEF OriginLock
  <2>3. QED
    BY <2>1, <2>2
<1> HIDE DEF n, j
<1>4. /\ client' = [d \in Clients |-> client'[d]]
      /\ \A d \in Clients : client'[d] = IF d = c THEN j ELSE client[d]
  BY <1>1, OthersStay
<1>5. lock' = [p \in Origins |-> lock'[p]] /\ \A p \in Origins : lock'[p] = IF p = o THEN n ELSE lock[p]
  BY <1>1 DEF FlightInv
<1>6. \A d \in Clients : /\ IsCall(client'[d])
                         /\ client'[d].pc # "idle" => client'[d].origin \in Origins
                         /\ client'[d].pc = "idle" => client'[d].origin = NoOrigin
  BY <1>2, <1>4 DEF FlightInv
<1>7. ASSUME NEW p \in Origins \ dropped, p # o
      PROVE  LockInv(p)'
  <2>1. On(p)' = On(p)
    BY <1>1, <1>2, <1>4, <1>7 DEF On
  <2>2. \A d \in On(p) : d # c
    BY <1>1 DEF On
  <2>3. QED
    BY <1>4, <1>5, <1>7, <2>1, <2>2, SMTT(30) DEF FlightInv, LockInv, Fetching, On
<1>8. ASSUME o \notin dropped
      PROVE  LockInv(o)'
  <2>1. On(o)' = On(o) \cup {c} /\ c \notin On(o)
    BY <1>1, <1>2, <1>4 DEF On
  <2>2. \A d \in On(o) : client[d].lock = n
    BY <1>3, <1>8 DEF FlightInv, LockInv
  <2>3. \A d \in On(o)' : client'[d].lock = n
    BY <1>2, <1>4, <2>1, <2>2 DEF On
  <2>4. j.pc = "fetch" => On(o) = {}
    BY <1>2, <2>2 DEF Free
  <2>5. \A d, e \in Fetching(o)' : d = e
    <3>1. CASE j.pc = "fetch"
      BY <2>1, <2>4, <3>1 DEF Fetching
    <3>2. CASE j.pc # "fetch"
      <4>1. Fetching(o)' \subseteq Fetching(o)
        BY <1>4, <2>1, <3>2 DEF Fetching, On
      <4>2. QED
        BY <1>8, <4>1 DEF FlightInv, LockInv
    <3>3. QED
      BY <3>1, <3>2
  <2>6. QED
    BY <1>3, <1>5, <1>8, <2>3, <2>5 DEF LockInv
<1>9. QED
  BY <1>1, <1>4, <1>5, <1>6, <1>7, <1>8 DEF FlightInv

\* So does taking a lock that is released.
LEMMA AcquireKeeps ==
    ASSUME FlightInv, NEW c \in Clients, Acquire(c)
    PROVE  FlightInv'
<1> DEFINE o == client[c].origin
           j == IF Fresh(o) THEN Idle ELSE [pc |-> "fetch", origin |-> o, lock |-> client[c].lock, start |-> now]
<1>1. /\ client[c].pc = "wait" /\ client' = [client EXCEPT ![c] = j]
      /\ \A b \in Fetching(o) : client[b].lock # client[c].lock
      /\ UNCHANGED lock
  BY DEF Acquire
<1>2. /\ IsCall(j)
      /\ \/ j.pc = "idle" /\ j.origin = NoOrigin
         \/ j.pc = "fetch" /\ j.origin = o /\ j.lock = client[c].lock
  <2>1. CASE Fresh(o)
    BY <2>1 DEF Idle, IsCall
  <2>2. CASE ~Fresh(o)
    BY <2>2 DEF IsCall
  <2>3. QED
    BY <2>1, <2>2
<1>3. /\ client' = [d \in Clients |-> client'[d]]
      /\ \A d \in Clients : client'[d] = IF d = c THEN j ELSE client[d]
  BY <1>1, OthersStay
<1>4. dropped' = {p \in dropped : \E d \in Clients : client'[d].origin = p}
  BY DEF Acquire, Forget
<1>5. o \in Origins
  BY <1>1 DEF FlightInv
<1> HIDE DEF o, j
<1>6. \A d \in Clients : /\ IsCall(client'[d])
                         /\ client'[d].pc # "idle" => client'[d].origin \in Origins
                         /\ client'[d].pc = "idle" => client'[d].origin = NoOrigin
  BY <1>2, <1>3, <1>5 DEF FlightInv
<1>7. \A p \in Origins : On(p)' \subseteq On(p)
  BY <1>1, <1>2, <1>3 DEF On, o
<1>8. ASSUME NEW p \in Origins \ dropped
      PROVE  LockInv(p)'
  <2>1. LockInv(p)
    BY <1>8 DEF FlightInv
  <2>2. \A d \in On(p)' : client'[d].lock = client[d].lock
    BY <1>2, <1>3 DEF On
  <2>3. \A d \in On(p)' : client'[d].lock = lock'[p] /\ lock'[p] # 0
    BY <1>1, <1>7, <2>1, <2>2 DEF LockInv
  <2>4. \A d, e \in Fetching(p)' : d = e
    <3>1. CASE c \in Fetching(p)'
      <4>1. p = o /\ c \in On(p)
        BY <1>2, <1>7, <3>1 DEF Fetching, On, o
      <4>2. Fetching(p) = {}
        BY <1>1, <2>1, <4>1 DEF LockInv, Fetching
      <4>3. \A d \in Fetching(p)' : d = c \/ d \in Fetching(p)
        BY <1>3, <1>7 DEF Fetching, On
      <4>4. QED
        BY <4>2, <4>3
    <3>2. CASE c \notin Fetching(p)'
      <4>1. Fetching(p)' \subseteq Fetching(p)
        BY <1>3, <1>7, <3>2 DEF Fetching, On
      <4>2. QED
        BY <2>1, <4>1 DEF LockInv
    <3>3. QED
      BY <3>1, <3>2
  <2>5. QED
    BY <2>3, <2>4 DEF LockInv
<1>9. ASSUME NEW p \in dropped, p \notin dropped'
      PROVE  LockInv(p)'
  BY <1>4, <1>9 DEF LockInv, On, Fetching
<1>10. QED
  BY <1>1, <1>3, <1>6, <1>8, <1>9 DEF FlightInv

\* So does ending a call, whichever locks are dropped with it.
LEMMA EndKeeps ==
    ASSUME FlightInv, NEW c \in Clients, client' = [client EXCEPT ![c] = Idle],
           NEW gone,
           lock' = [o \in Origins |-> IF o \in gone THEN 0 ELSE lock[o]],
           dropped' = {o \in dropped \cup gone : \E d \in Clients : client'[d].origin = o}
    PROVE  FlightInv'
<1>1. /\ client' = [d \in Clients |-> client'[d]]
      /\ \A d \in Clients : client'[d] = IF d = c THEN Idle ELSE client[d]
  BY OthersStay
<1>2. \A d \in Clients : /\ IsCall(client'[d])
                         /\ client'[d].pc # "idle" => client'[d].origin \in Origins
                         /\ client'[d].pc = "idle" => client'[d].origin = NoOrigin
  BY <1>1 DEF FlightInv, Idle, IsCall
<1>3. ASSUME NEW p \in Origins \ (dropped \cup gone)
      PROVE  LockInv(p)'
  <2>1. /\ On(p)' \subseteq On(p) /\ Fetching(p)' \subseteq Fetching(p)
        /\ \A d \in On(p)' : client'[d] = client[d]
    BY <1>1 DEF On, Fetching, Idle
  <2>2. LockInv(p) /\ lock'[p] = lock[p]
    BY <1>3 DEF FlightInv
  <2>3. QED
    BY <2>1, <2>2 DEF LockInv
<1>4. ASSUME NEW p \in (dropped \cup gone) \ dropped'
      PROVE  LockInv(p)'
  BY <1>4 DEF LockInv, On, Fetching
<1>5. QED
  BY <1>1, <1>2, <1>3, <1>4 DEF FlightInv

-----------------------------------------------------------------------------
(* Theorems *)

Inv == BoundInv /\ FlightInv

\* Nothing is cached and nobody calls at first.
LEMMA RobotsInit == Init => Inv
<1>1. SUFFICES ASSUME Init PROVE Inv
  OBVIOUS
<1>2. BoundInv
  BY <1>1, FS_EmptySet, RobotsAssumption DEF Init, BoundInv, CacheBounded
<1>3. FlightInv
  BY <1>1 DEF Init, FlightInv, LockInv, On, Fetching, Idle, IsCall
<1>4. QED
  BY <1>2, <1>3 DEF Inv

\* Every step keeps both invariants.
LEMMA RobotsStep == Inv /\ [Next]_vars => Inv'
<1>1. SUFFICES ASSUME Inv, [Next]_vars PROVE Inv'
  OBVIOUS
<1>2. CASE UNCHANGED <<cached, lock, client, dropped>>
  BY <1>1, <1>2 DEF Inv, BoundInv, CacheBounded, FlightInv, LockInv, On, Fetching, IsCall
<1>3. ASSUME NEW c \in Clients, NEW o \in Origins, Miss(c, o)
      PROVE  Inv'
  <2>1. UNCHANGED cached
    BY <1>3 DEF Miss
  <2>2. QED
    BY <1>1, <1>3, <2>1, MissKeeps DEF Inv, BoundInv, CacheBounded
<1>4. ASSUME NEW c \in Clients, Acquire(c)
      PROVE  Inv'
  <2>1. UNCHANGED cached
    BY <1>4 DEF Acquire
  <2>2. QED
    BY <1>1, <1>4, <2>1, AcquireKeeps DEF Inv, BoundInv, CacheBounded
<1>5. ASSUME NEW c \in Clients, Store(c)
      PROVE  Inv'
  <2>1. client[c].origin \in Origins
    BY <1>1, <1>5 DEF Store, Inv, FlightInv
  <2>2. BoundInv'
    BY <1>1, <1>5, <2>1, StoreBounded DEF Inv
  <2>3. PICK gone :
          /\ client' = [client EXCEPT ![c] = Idle]
          /\ lock' = [o \in Origins |-> IF o \in gone THEN 0 ELSE lock[o]]
          /\ dropped' = {o \in dropped \cup gone : \E d \in Clients : client'[d].origin = o}
    BY <1>5 DEF Store, DropLocks, Forget
  <2>4. FlightInv'
    BY <1>1, <2>3, EndKeeps DEF Inv
  <2>5. QED
    BY <2>2, <2>4 DEF Inv
<1>6. ASSUME NEW c \in Clients, Cancel(c)
      PROVE  Inv'
  <2>1. UNCHANGED <<cached, lock>> /\ client' = [client EXCEPT ![c] = Idle]
    BY <1>6 DEF Cancel
  <2> DEFINE gone == {}
  <2>2. lock' = [o \in Origins |-> IF o \in gone THEN 0 ELSE lock[o]]
    BY <1>1, <2>1 DEF Inv, FlightInv
  <2>3. dropped' = {o \in dropped \cup gone : \E d \in Clients : client'[d].origin = o}
    BY <1>6 DEF Cancel, Forget
  <2> HIDE DEF gone
  <2>4. FlightInv'
    BY <1>1, <2>1, <2>2, <2>3, EndKeeps DEF Inv
  <2>5. QED
    BY <1>1, <2>1, <2>4 DEF Inv, BoundInv, CacheBounded
<1>7. QED
  BY <1>1, <1>2, <1>3, <1>4, <1>5, <1>6 DEF Next, Tick, vars

\* The cache of robots.txt holds max_entries entries at most (robots.py, _store),
\* however many fetches that began before an eviction end after it.
THEOREM CacheIsBounded == Spec => []CacheBounded
<1>1. Inv => CacheBounded
  BY DEF Inv, BoundInv
<1>2. QED
  BY <1>1, RobotsInit, RobotsStep, PTL DEF Spec

\* One worker at a time fetches the robots.txt of an origin (robots.py, allowed),
\* unless an eviction has dropped the lock under a worker that is on the origin.
THEOREM FetchIsSingle == Spec => []SingleFlight
<1>1. ASSUME Inv, NEW o \in Origins \ dropped
      PROVE  Cardinality(Fetching(o)) <= 1
  <2>1. \A c, d \in Fetching(o) : c = d
    BY <1>1 DEF Inv, FlightInv, LockInv
  <2>2. CASE Fetching(o) = {}
    BY <2>2, FS_EmptySet
  <2>3. CASE Fetching(o) # {}
    <3>1. PICK c : Fetching(o) = {c}
      BY <2>1, <2>3
    <3>2. Cardinality({c}) = 1
      BY FS_Singleton
    <3>3. QED
      BY <3>1, <3>2
  <2>4. QED
    BY <2>2, <2>3
<1>2. Inv => SingleFlight
  BY <1>1 DEF SingleFlight
<1>3. QED
  BY <1>2, RobotsInit, RobotsStep, PTL DEF Spec

-----------------------------------------------------------------------------
(* The locks *)

\* Those who are on an origin are the same after a step that is another origin's.
LEMMA OnStays ==
    ASSUME FlightInv, NEW c \in Clients, NEW j, client' = [client EXCEPT ![c] = j],
           NEW o, client[c].pc = "idle" \/ client[c].origin # o,
           j.pc = "idle" \/ j.origin # o
    PROVE  On(o)' = On(o)
<1>1. \A d \in Clients : client'[d] = IF d = c THEN j ELSE client[d]
  BY OthersStay
<1>2. QED
  BY <1>1 DEF On

\* A step that leaves behind a lock that nobody is on and no entry has is the
\* cancellation of one who was on it.
LEMMA LeavesNoLock ==
    ASSUME Inv, Next, NEW o \in Origins, Leaked(o)', ~Leaked(o)
    PROVE  \E c \in On(o) : Cancel(c)
<1>1. FlightInv /\ cached \subseteq Origins
  BY DEF Inv, BoundInv
<1>2. ~Tick
  BY DEF Tick, Leaked, On
<1>3. ASSUME NEW c \in Clients, NEW p \in Origins, Miss(c, p)
      PROVE  FALSE
  <2> DEFINE j == [pc |-> IF Free(p, OriginLock(p)) THEN "fetch" ELSE "wait",
                   origin |-> p, lock |-> OriginLock(p), start |-> now]
  <2>1. /\ client[c].pc = "idle" /\ client' = [client EXCEPT ![c] = j] /\ cached' = cached
        /\ lock' = [lock EXCEPT ![p] = OriginLock(p)]
    BY <1>3 DEF Miss
  <2>2. j.pc # "idle" /\ j.origin = p
    OBVIOUS
  <2> HIDE DEF j
  <2>3. \A d \in Clients : client'[d] = IF d = c THEN j ELSE client[d]
    BY <1>1, <2>1, OthersStay
  <2>4. o # p
    <3>1. c \in On(p)'
      BY <2>2, <2>3 DEF On
    <3>2. QED
      BY <3>1 DEF Leaked
  <2>5. On(o)' = On(o)
    BY <1>1, <2>1, <2>2, <2>4, OnStays
  <2>6. lock'[o] = lock[o]
    BY <1>1, <2>1, <2>4 DEF FlightInv
  <2>7. QED
    BY <2>1, <2>5, <2>6 DEF Leaked
<1>4. ASSUME NEW c \in Clients, Acquire(c)
      PROVE  FALSE
  <2> DEFINE p == client[c].origin
             j == IF Fresh(p) THEN Idle ELSE [pc |-> "fetch", origin |-> p, lock |-> client[c].lock, start |-> now]
  <2>1. client' = [client EXCEPT ![c] = j] /\ UNCHANGED <<lock, cached>>
    BY <1>4 DEF Acquire
  <2>2. ~Fresh(p) => j.pc = "fetch" /\ j.origin = p
    OBVIOUS
  <2>3. j.pc = "idle" \/ j.origin = p
    BY DEF Idle
  <2> HIDE DEF j
  <2>4. \A d \in Clients : client'[d] = IF d = c THEN j ELSE client[d]
    BY <1>1, <2>1, OthersStay
  <2>5. CASE o = p
    <3>1. o \notin cached
      BY <2>1 DEF Leaked
    <3>2. j.pc = "fetch" /\ j.origin = o
      BY <2>2, <2>5, <3>1 DEF Fresh
    <3>3. c \in On(o)'
      BY <2>4, <3>2 DEF On
    <3>4. QED
      BY <3>3 DEF Leaked
  <2>6. CASE o # p
    <3>1. On(o)' = On(o)
      BY <1>1, <2>1, <2>3, <2>6, OnStays
    <3>2. QED
      BY <2>1, <3>1 DEF Leaked
  <2>7. QED
    BY <2>5, <2>6
<1>5. ASSUME NEW c \in Clients, Store(c)
      PROVE  FALSE
  <2> DEFINE p == client[c].origin
             keys == cached \cup {p}
  <2>1. /\ client' = [client EXCEPT ![c] = Idle]
        /\ lock' = [q \in Origins |-> IF q \in keys \ cached' THEN 0 ELSE lock[q]]
    BY <1>5 DEF Store, DropLocks
  <2>2. o \notin keys \ cached' /\ lock'[o] = lock[o] /\ o \notin cached'
    BY <2>1 DEF Leaked
  <2>3. o \notin keys
    BY <2>2
  <2>4. On(o)' = On(o)
    <3>1. client[c].origin # o /\ Idle.pc = "idle"
      BY <2>3 DEF Idle
    <3>2. QED
      BY <1>1, <2>1, <3>1, OnStays
  <2>5. QED
    BY <2>2, <2>3, <2>4 DEF Leaked
<1>6. ASSUME NEW c \in Clients, Cancel(c), c \notin On(o)
      PROVE  FALSE
  <2>1. client' = [client EXCEPT ![c] = Idle] /\ UNCHANGED <<lock, cached>>
    BY <1>6 DEF Cancel
  <2>2. client[c].pc = "idle" \/ client[c].origin # o
    BY <1>6 DEF On
  <2>3. On(o)' = On(o)
    <3>1. Idle.pc = "idle"
      BY DEF Idle
    <3>2. QED
      BY <1>1, <2>1, <2>2, <3>1, OnStays
  <2>4. QED
    BY <2>1, <2>3 DEF Leaked
<1>7. QED
  BY <1>2, <1>3, <1>4, <1>5, <1>6 DEF Next

\* Both maps of the cache (robots.py, _cache and _locks) are bounded: the entries
\* by max_entries, and a lock that is left without an entry is one whose last
\* worker was cancelled, never one that an eviction or another origin left.
THEOREM MapsAreBounded == Spec => MapsBounded
<1>1. Inv /\ [Next]_vars =>
         [\A o \in Origins : Leaked(o)' /\ ~Leaked(o) => \E c \in On(o) : Cancel(c)]_vars
  BY LeavesNoLock
<1>2. Inv => CacheBounded
  BY DEF Inv, BoundInv
<1>3. QED
  BY <1>1, <1>2, RobotsInit, RobotsStep, PTL DEF Spec, MapsBounded

=============================================================================
