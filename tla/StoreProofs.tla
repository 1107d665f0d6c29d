---------------------------- MODULE StoreProofs ----------------------------
(***************************************************************************)
(* Theorems about Connections and SelectorStore, for any number of tasks   *)
(* and parsers.                                                            *)
(***************************************************************************)
EXTENDS SelectorStore, FiniteSetTheorems, WellFoundedInduction, TLAPS

Undisturbed == closes = 0 /\ failures = 0

\* Before anybody has closed and no creation has failed, a connection that is
\* registered or handed out has the schema and stays.
Sound ==
    /\ closer.stage = "idle"
    /\ registered # 0 => registered \in ready
    /\ \A t \in Tasks : /\ conn[t].stage # "error"
                        /\ conn[t].stage = "has" => conn[t].id \in ready

IsConn(c) == c = [stage |-> c.stage, lock |-> c.lock, id |-> c.id]

StoreInv ==
    /\ closes \in Nat /\ failures \in Nat
    /\ conn = [t \in Tasks |-> conn[t]]
    /\ \A t \in Tasks : IsConn(conn[t])
    /\ Undisturbed => Sound

-----------------------------------------------------------------------------
(* Steps of the registry *)

\* A task that asks is handed a connection that has the schema, or none.
LEMMA AskedIsSound ==
    ASSUME StoreInv
    PROVE  /\ IsConn(Asked) /\ Asked.stage # "error"
           /\ Undisturbed /\ Asked.stage = "has" => Asked.id \in ready
<1>1. CASE registered # 0
  BY <1>1 DEF StoreInv, Asked, Has, IsConn, Sound
<1>2. CASE registered = 0
  BY <1>2 DEF Asked, IsConn
<1>3. QED
  BY <1>1, <1>2

\* Setting the connection of one task to one that is sound keeps the invariant.
LEMMA HandKeeps ==
    ASSUME StoreInv, NEW t \in Tasks, NEW c,
           conn' = [conn EXCEPT ![t] = c],
           IsConn(c), c.stage # "error",
           Undisturbed /\ c.stage = "has" => c.id \in ready',
           ready \subseteq ready',
           registered' = registered \/ registered' \in ready',
           UNCHANGED <<closer, closes, failures>>
    PROVE  StoreInv'
<1>1. \A u \in Tasks : conn'[u] = IF u = t THEN c ELSE conn[u]
  BY DEF StoreInv
<1>2. conn' = [u \in Tasks |-> conn'[u]]
  BY <1>1 DEF StoreInv
<1>3. \A u \in Tasks : IsConn(conn'[u])
  BY <1>1 DEF StoreInv
<1>4. ASSUME Undisturbed'
      PROVE  Sound'
  <2>1. Undisturbed /\ Sound
    BY <1>4 DEF StoreInv, Undisturbed
  <2>2. QED
    BY <1>1, <2>1 DEF Sound
<1>5. QED
  BY <1>2, <1>3, <1>4 DEF StoreInv, IsConn

\* Making, handing out and closing connections keeps the invariant.
LEMMA RegistryKeeps ==
    ASSUME StoreInv, (\E t \in Tasks : Connecting(t)) \/ Closing
    PROVE  StoreInv'
<1>1. ASSUME NEW t \in Tasks, TakeLoopLock(t)
      PROVE  StoreInv'
  <2>1. CASE registered # 0
    <3>1. conn' = [conn EXCEPT ![t] = Has(registered)]
      BY <1>1, <2>1 DEF TakeLoopLock
    <3>2. /\ IsConn(Has(registered)) /\ Has(registered).stage # "error"
          /\ Undisturbed => Has(registered).id \in ready
      BY <2>1 DEF Has, IsConn, StoreInv, Sound
    <3>3. QED
      BY <1>1, <3>1, <3>2, HandKeeps DEF TakeLoopLock
  <2>2. CASE registered = 0
    <3> DEFINE c == [stage |-> "connect", lock |-> conn[t].lock, id |-> NewId]
    <3>1. conn' = [conn EXCEPT ![t] = c]
      BY <1>1, <2>2 DEF TakeLoopLock
    <3>2. IsConn(c) /\ c.stage = "connect"
      BY DEF IsConn
    <3> HIDE DEF c
    <3>3. QED
      BY <1>1, <3>1, <3>2, HandKeeps DEF TakeLoopLock
  <2>3. QED
    BY <2>1, <2>2
<1>2. ASSUME NEW t \in Tasks, Connected(t)
      PROVE  StoreInv'
  <2> DEFINE c == [conn[t] EXCEPT !.stage = "schema"]
  <2>1. conn' = [conn EXCEPT ![t] = c]
    BY <1>2 DEF Connected
  <2>2. IsConn(c) /\ c.stage = "schema"
    BY DEF IsConn, StoreInv
  <2> HIDE DEF c
  <2>3. QED
    BY <1>2, <2>1, <2>2, HandKeeps DEF Connected
<1>3. ASSUME NEW t \in Tasks, Initialised(t)
      PROVE  StoreInv'
  <2> DEFINE c == Has(conn[t].id)
  <2>1. conn' = [conn EXCEPT ![t] = c]
    BY <1>3 DEF Initialised
  <2>2. IsConn(c) /\ c.stage # "error" /\ c.id \in ready'
    BY <1>3 DEF IsConn, Has, Initialised
  <2> HIDE DEF c
  <2>3. QED
    BY <1>3, <2>1, <2>2, HandKeeps DEF Initialised
<1>4. ASSUME NEW t \in Tasks, CreationFails(t)
      PROVE  StoreInv'
  <2>1. failures' \in Nat /\ ~Undisturbed'
    BY <1>4 DEF CreationFails, StoreInv, Undisturbed
  <2>2. conn' = [u \in Tasks |-> conn'[u]] /\ \A u \in Tasks : IsConn(conn'[u])
    BY <1>4 DEF CreationFails, StoreInv, IsConn
  <2>3. QED
    BY <1>4, <2>1, <2>2 DEF CreationFails, StoreInv, IsConn
<1>5. CASE CloseBegins
  <2>1. closes' \in Nat /\ ~Undisturbed'
    BY <1>5 DEF CloseBegins, StoreInv, Undisturbed
  <2>2. QED
    BY <1>5, <2>1 DEF CloseBegins, StoreInv, IsConn
<1>6. CASE Closed \/ DropLock
  <2>1. ~Undisturbed /\ UNCHANGED <<conn, closes, failures, cancels>>
    BY <1>6 DEF Closed, DropLock, StoreInv, Sound
  <2>2. QED
    BY <2>1 DEF StoreInv, Undisturbed, IsConn
<1>7. QED
  BY <1>1, <1>2, <1>3, <1>4, <1>5, <1>6 DEF Connecting, Closing

-----------------------------------------------------------------------------
(* Steps of the tasks *)

\* A task's step leaves the registry alone, asks for a connection or lets go of
\* the one it had.
LEMMA TaskKeeps ==
    ASSUME StoreInv, NEW t \in Tasks,
           \/ ExtractBegins(t) \/ TrainBegins(t) \/ Extract(t) \/ Write(t) \/ Fails(t)
           \/ TakeParserLock(t) \/ Cancelled(t)
    PROVE  StoreInv'
<1>1. CASE UNCHANGED cvars
  BY <1>1 DEF cvars, StoreInv, Undisturbed, Sound, IsConn
<1>2. CASE ExtractBegins(t) \/ TakeParserLock(t)
  <2>1. /\ conn' = [conn EXCEPT ![t] = Asked]
        /\ UNCHANGED <<registered, ready, closer, closes, failures, cancels>>
    BY <1>2 DEF ExtractBegins, TakeParserLock
  <2>2. QED
    BY <2>1, AskedIsSound, HandKeeps
<1>3. CASE Extract(t) \/ Write(t) \/ Fails(t) \/ Cancelled(t)
  <2>1. /\ conn' = [conn EXCEPT ![t] = NoConn]
        /\ UNCHANGED <<registered, ready, closer, closes, failures>>
    BY <1>3 DEF Extract, Write, Fails, Cancelled, Abandoned
  <2>2. IsConn(NoConn) /\ NoConn.stage = "none"
    BY DEF NoConn, IsConn
  <2>3. QED
    BY <2>1, <2>2, HandKeeps
<1>4. QED
  BY <1>1, <1>2, <1>3 DEF TrainBegins

-----------------------------------------------------------------------------
(* Theorem *)

\* There is no connection at first.
LEMMA StoreInit == Init => StoreInv
BY DEF Init, ConnInit, NoConn, StoreInv, Undisturbed, Sound, IsConn

\* Every step keeps the invariant.
LEMMA StoreStep == StoreInv /\ [Next]_vars => StoreInv'
<1>1. SUFFICES ASSUME StoreInv, [Next]_vars PROVE StoreInv'
  OBVIOUS
<1>2. CASE UNCHANGED cvars
  BY <1>1, <1>2 DEF cvars, StoreInv, Undisturbed, Sound, IsConn
<1>3. CASE (\E t \in Tasks : Connecting(t)) \/ Closing
  BY <1>1, <1>3, RegistryKeeps
<1>4. ASSUME NEW t \in Tasks,
             \/ ExtractBegins(t) \/ TrainBegins(t) \/ Extract(t) \/ Write(t) \/ Fails(t)
             \/ TakeParserLock(t) \/ Cancelled(t)
      PROVE  StoreInv'
  BY <1>1, <1>4, TaskKeeps
<1>5. QED
  BY <1>1, <1>2, <1>3, <1>4 DEF Next, Proceed, Decay, Redesign, vars

\* An extraction or a lesson fails on its connection (db.py, _get_connection)
\* only after a close_all() or a creation that failed: tasks that ask at once, of
\* whatever parsers, do not hand each other one without the schema, whichever of
\* them is cancelled while it makes it.
THEOREM ErrorExcused == Spec => []ErrorIsExcused
<1>1. StoreInv => ErrorIsExcused
  BY DEF StoreInv, Undisturbed, Sound, ErrorIsExcused, Failing, Conns, Works
<1>2. QED
  BY <1>1, StoreInit, StoreStep, PTL DEF Spec

-----------------------------------------------------------------------------
(* What is open *)

\* The tasks that open a connection, each under a lock.
Openers == {t \in Tasks : Conns(t, {"connect", "schema"})}
Held == {conn[t].id : t \in Openers}
BeingClosed == IF closer.stage = "closing" THEN {closer.id} ELSE {}
Registered == IF registered # 0 THEN {registered} ELSE {}

\* Open, and nobody will close them.
LeftBehind == open \ (Held \cup Registered \cup BeingClosed)

\* Two openers have different locks, which were made already, and different
\* connections, which are neither registered nor being closed.
OpenersApart ==
    /\ \A t, u \in Openers : t # u => conn[t].lock # conn[u].lock /\ conn[t].id # conn[u].id
    /\ \A t \in Openers : conn[t].id \notin Registered \cup BeingClosed \cup {0}
    /\ \A t \in Tasks : Conns(t, {"lock", "connect", "schema"}) => conn[t].lock <= generation
    /\ \A t \in Tasks : Conns(t, {"schema"}) => conn[t].id \in open

\* A lock is dropped at the end of each close.
LocksDropped == closes = generation + (IF closer.stage = "idle" THEN 0 ELSE 1)

\* The creations that failed and those that were cancelled.
Lost == failures + cancels

\* What is left behind while nothing is registered, and what may be left behind
\* until then: an opener leaves behind the connection it replaces.
FewLeft ==
    /\ registered = 0 => 2 * Cardinality(LeftBehind) <= closes * (closes - 1) + 2 * Lost
    /\ 2 * (Cardinality(LeftBehind) + Cardinality(Openers) + Cardinality(Registered))
          <= closes * (closes - 1) + 2 * (Lost + generation + 1)

FewInv == ConnTypeOK /\ OpenersApart /\ LocksDropped /\ FewLeft

\* Every set of naturals but the empty one has its least.
LEMMA LeastIsThere ==
    ASSUME NEW S \in SUBSET Nat, S # {}
    PROVE  \E m \in S : \A n \in S : m <= n
<1>1. PICK x \in S : \A y \in S : ~(<<y, x>> \in OpToRel(<, Nat))
  BY NatLessThanWellFounded, WFMin
<1>2. ASSUME NEW y \in S, y < x PROVE FALSE
  <2>1. <<y, x>> \in OpToRel(<, Nat)
    BY <1>2 DEF OpToRel
  <2>2. QED
    BY <1>1, <2>1
<1>3. \A y \in S : x <= y
  BY <1>2
<1>4. QED
  BY <1>3

\* Sets of connections are finite.
LEMMA IdsAreFinite ==
    /\ Cardinality(Tasks) \in Nat /\ MaxCloses \in Nat /\ MaxLosses \in Nat
    /\ MaxCloses * MaxCloses \in Nat
    /\ ConnIds \in SUBSET Nat /\ 0 \notin ConnIds
    /\ IsFiniteSet(ConnIds)
    /\ Cardinality(ConnIds) = Cardinality(Tasks) + MaxCloses * MaxCloses + MaxLosses + 2
<1> DEFINE n == Cardinality(Tasks) + MaxCloses * MaxCloses + MaxLosses + 2
<1>1. Cardinality(Tasks) \in Nat /\ MaxCloses \in Nat /\ MaxLosses \in Nat
  BY ConnectionsAssumption, FS_CardinalityType
<1>2. MaxCloses * MaxCloses \in Nat
  BY <1>1
<1>3. n \in Nat
  BY <1>1, <1>2
<1>4. ConnIds = 1..n
  BY DEF ConnIds
<1> HIDE DEF n
<1>5. IsFiniteSet(1..n) /\ Cardinality(1..n) = n
  BY <1>3, FS_Interval
<1>6. ConnIds \in SUBSET Nat /\ 0 \notin ConnIds
  BY <1>3, <1>4
<1>7. QED
  BY <1>1, <1>2, <1>4, <1>5, <1>6 DEF n

\* There are no more openers than locks, those that were dropped included.
LEMMA LocksFew ==
    ASSUME NEW O, NEW j, NEW n \in Nat,
           \A t \in O : j[t].lock \in Nat /\ j[t].lock <= n,
           \A t, u \in O : t # u => j[t].lock # j[u].lock
    PROVE  IsFiniteSet(O) /\ Cardinality(O) \in Nat /\ Cardinality(O) <= n + 1
<1> DEFINE g == [t \in O |-> j[t].lock]
<1>1. g \in [O -> 0..n] /\ \A t, u \in O : g[t] = g[u] => t = u
  OBVIOUS
<1>2. g \in Injection(O, 0..n)
  BY <1>1 DEF Injection, IsInjective
<1>3. 0 \in Int /\ n \in Int /\ ~(0 > n) /\ n - 0 + 1 = n + 1
  OBVIOUS
<1>4. IsFiniteSet(0..n) /\ Cardinality(0..n) = n + 1
  BY <1>3, FS_Interval
<1> HIDE DEF g
<1>5. IsFiniteSet(O) /\ Cardinality(O) <= Cardinality(0..n)
  BY <1>2, <1>4, FS_Injection
<1>6. QED
  BY <1>4, <1>5, FS_CardinalityType

\* So the openers are few.
LEMMA OpenersFew ==
    ASSUME ConnTypeOK, OpenersApart
    PROVE  IsFiniteSet(Openers) /\ Cardinality(Openers) \in Nat
           /\ Cardinality(Openers) <= generation + 1
<1>1. generation \in Nat
  BY IdsAreFinite DEF ConnTypeOK
<1>2. ASSUME NEW t \in Openers
      PROVE  conn[t].lock \in Nat /\ conn[t].lock <= generation
  <2>1. t \in Tasks /\ Conns(t, {"lock", "connect", "schema"})
    BY DEF Openers, Conns
  <2>2. conn[t].lock \in Nat
    BY <2>1, IdsAreFinite DEF ConnTypeOK, Conn
  <2>3. QED
    BY <2>1, <2>2 DEF OpenersApart
<1>3. \A t, u \in Openers : t # u => conn[t].lock # conn[u].lock
  BY DEF OpenersApart
<1>4. QED
  BY <1>1, <1>2, <1>3, LocksFew

\* So is what is left behind, and what is registered is one at most.
LEMMA LeftIsFinite ==
    ASSUME ConnTypeOK
    PROVE  /\ IsFiniteSet(open) /\ IsFiniteSet(LeftBehind) /\ Cardinality(LeftBehind) \in Nat
           /\ IsFiniteSet(Registered) /\ IsFiniteSet(BeingClosed)
           /\ Cardinality(Registered) = IF registered # 0 THEN 1 ELSE 0
           /\ Cardinality(BeingClosed) = IF closer.stage = "closing" THEN 1 ELSE 0
<1>1. IsFiniteSet(open)
  BY IdsAreFinite, FS_Subset DEF ConnTypeOK
<1>2. IsFiniteSet(LeftBehind) /\ Cardinality(LeftBehind) \in Nat
  BY <1>1, FS_Difference, FS_CardinalityType DEF LeftBehind
<1>3. \A x : IsFiniteSet({x}) /\ Cardinality({x}) = 1
  BY FS_Singleton
<1>4. IsFiniteSet({}) /\ Cardinality({}) = 0
  BY FS_EmptySet
<1>5. QED
  BY <1>1, <1>2, <1>3, <1>4 DEF Registered, BeingClosed

\* A task that opens nothing, before or after, changes nothing of it.
LEMMA QuietFew ==
    ASSUME FewInv, NEW t \in Tasks, t \notin Openers, NEW c \in Conn,
           c.stage \notin {"connect", "schema"},
           c.stage = "lock" => c.lock <= generation,
           conn' = [conn EXCEPT ![t] = c],
           UNCHANGED <<registered, generation, open, ready, closer, closes, failures, cancels>>
    PROVE  FewInv'
<1>1. conn \in [Tasks -> Conn]
  BY DEF FewInv, ConnTypeOK
<1>2. \A u \in Tasks : conn'[u] = IF u = t THEN c ELSE conn[u]
  BY <1>1
<1>3. conn' \in [Tasks -> Conn]
  BY <1>1
<1>4. Openers' = Openers
  BY <1>2 DEF Openers, Conns
<1>5. \A u \in Openers : conn'[u] = conn[u] /\ u \in Tasks
  BY <1>2 DEF Openers
<1>6. Held' = Held
  BY <1>4, <1>5 DEF Held
<1>7. Registered' = Registered /\ BeingClosed' = BeingClosed
  BY DEF Registered, BeingClosed
<1>8. LeftBehind' = LeftBehind
  BY <1>6, <1>7 DEF LeftBehind
<1>9. ConnTypeOK'
  BY <1>3 DEF FewInv, ConnTypeOK
<1>10. OpenersApart'
  BY <1>2, <1>4, <1>5, <1>7 DEF FewInv, OpenersApart, Conns
<1>11. LocksDropped' /\ FewLeft'
  BY <1>4, <1>7, <1>8 DEF FewInv, LocksDropped, FewLeft, Lost
<1>12. QED
  BY <1>9, <1>10, <1>11 DEF FewInv

\* While nothing is registered there is a number for a new connection.
LEMMA NewIdIsNew ==
    ASSUME FewInv, registered = 0
    PROVE  NewId \in ConnIds /\ NewId \notin InUse
<1> DEFINE g == [t \in Tasks |-> conn[t].id]
           H == {g[t] : t \in Tasks}
           K == LeftBehind \cup H
           L == K \cup {closer.id}
           S == ConnIds \ InUse
<1>1. IsFiniteSet(LeftBehind) /\ Cardinality(LeftBehind) \in Nat
  BY LeftIsFinite DEF FewInv
<1>2. g = [t \in Tasks |-> g[t]]
  OBVIOUS
<1>3. IsFiniteSet(H) /\ Cardinality(H) <= Cardinality(Tasks)
  <2>1. g \in [Tasks -> H] /\ \A x \in H : \E t \in Tasks : g[t] = x
    OBVIOUS
  <2> HIDE DEF H, g
  <2>2. g \in Surjection(Tasks, H)
    BY <2>1 DEF Surjection
  <2>3. QED
    BY <2>2, ConnectionsAssumption, FS_Surjection
<1>4. \A t \in Tasks : conn[t].id \in H
  OBVIOUS
<1> HIDE DEF H, g
<1>5. Cardinality(H) \in Nat
  BY <1>3, FS_CardinalityType
<1>6. IsFiniteSet(K) /\ Cardinality(K) \in Nat
      /\ Cardinality(K) <= Cardinality(LeftBehind) + Cardinality(H)
  <2>1. IsFiniteSet(LeftBehind \cap H) /\ Cardinality(LeftBehind \cap H) \in Nat
    BY <1>1, FS_Intersection, FS_CardinalityType
  <2>2. /\ IsFiniteSet(LeftBehind \cup H)
        /\ Cardinality(LeftBehind \cup H)
             = Cardinality(LeftBehind) + Cardinality(H) - Cardinality(LeftBehind \cap H)
    BY <1>1, <1>3, FS_Union
  <2>3. QED
    BY <1>1, <1>5, <2>1, <2>2, FS_CardinalityType
<1> HIDE DEF K
<1>7. IsFiniteSet(L) /\ Cardinality(L) \in Nat /\ Cardinality(L) <= Cardinality(K) + 1
  <2>1. /\ IsFiniteSet(L)
        /\ Cardinality(L) = IF closer.id \in K THEN Cardinality(K) ELSE Cardinality(K) + 1
    BY <1>6, FS_AddElement
  <2>2. QED
    BY <1>6, <2>1
<1> HIDE DEF L
<1>8. InUse \subseteq L \cup {0}
  <2>1. open \subseteq LeftBehind \cup Held \cup BeingClosed
    BY DEF LeftBehind, Registered
  <2>2. Held \subseteq H
    BY <1>4 DEF Held, Openers
  <2>3. BeingClosed \subseteq {closer.id}
    BY DEF BeingClosed
  <2>4. QED
    BY <1>4, <2>1, <2>2, <2>3 DEF InUse, L, K
<1>9. Cardinality(LeftBehind) <= MaxCloses * MaxCloses + MaxLosses
  <2>1. /\ closes \in Nat /\ Lost \in Nat /\ closes <= MaxCloses /\ Lost <= MaxLosses
        /\ MaxCloses \in Nat /\ MaxLosses \in Nat
    BY IdsAreFinite DEF FewInv, ConnTypeOK, Lost
  <2>2. 2 * Cardinality(LeftBehind) <= closes * (closes - 1) + 2 * Lost
    BY DEF FewInv, FewLeft
  <2>3. closes * (closes - 1) <= closes * closes
    BY <2>1
  <2>4. closes * closes <= closes * MaxCloses
    BY <2>1
  <2>5. closes * MaxCloses <= MaxCloses * MaxCloses
    BY <2>1
  <2> DEFINE p == closes * (closes - 1)
             q == closes * closes
             r == closes * MaxCloses
             m == MaxCloses * MaxCloses
  <2>6. p \in Int /\ q \in Nat /\ r \in Nat /\ m \in Nat
    BY <2>1
  <2>7. p <= m
    <3>1. p <= q /\ q <= r /\ r <= m
      BY <2>3, <2>4, <2>5
    <3> HIDE DEF p, q, r, m
    <3>2. QED
      BY <2>6, <3>1
  <2>8. 2 * Cardinality(LeftBehind) <= p + 2 * Lost
    BY <2>2
  <2> HIDE DEF p, q, r, m
  <2>9. Cardinality(LeftBehind) <= m + MaxLosses
    BY <1>1, <2>1, <2>6, <2>7, <2>8
  <2>10. QED
    BY <2>9 DEF m
<1>10. Cardinality(L) < Cardinality(ConnIds)
  <2> DEFINE m == MaxCloses * MaxCloses
  <2>1. m \in Nat /\ Cardinality(Tasks) \in Nat /\ MaxLosses \in Nat
        /\ Cardinality(ConnIds) = Cardinality(Tasks) + m + MaxLosses + 2
        /\ Cardinality(LeftBehind) <= m + MaxLosses
    BY <1>9, IdsAreFinite
  <2> HIDE DEF m
  <2>2. QED
    BY <1>1, <1>3, <1>5, <1>6, <1>7, <2>1
<1>11. S # {}
  <2>1. SUFFICES ASSUME S = {} PROVE FALSE
    OBVIOUS
  <2>2. ConnIds \in SUBSET L
    BY <1>8, <2>1, IdsAreFinite
  <2>3. Cardinality(ConnIds) <= Cardinality(L)
    BY <1>7, <2>2, FS_Subset
  <2>4. Cardinality(ConnIds) \in Nat
    BY IdsAreFinite, FS_CardinalityType
  <2>5. QED
    BY <1>7, <1>10, <2>3, <2>4
<1>12. S \in SUBSET Nat
  BY IdsAreFinite
<1>13. \E x \in S : \A y \in S : x <= y
  BY <1>11, <1>12, LeastIsThere
<1>14. NewId \in S
  BY <1>13 DEF NewId
<1>15. QED
  BY <1>14

\* The first task that has a lock, and finds nothing registered, opens one.
LEMMA OpeningFew ==
    ASSUME FewInv, NEW t \in Tasks, TakeLoopLock(t), registered = 0
    PROVE  FewInv'
<1> DEFINE c == [stage |-> "connect", lock |-> conn[t].lock, id |-> NewId]
<1>1. conn \in [Tasks -> Conn] /\ generation \in Nat
  BY IdsAreFinite DEF FewInv, ConnTypeOK
<1>2. NewId \in ConnIds /\ NewId \notin InUse
  BY NewIdIsNew
<1>3. c \in Conn
  BY <1>1, <1>2 DEF Conn
<1>4. conn' = [conn EXCEPT ![t] = c]
  BY DEF TakeLoopLock
<1>5. c.stage = "connect" /\ c.lock = conn[t].lock /\ c.id = NewId
  OBVIOUS
<1> HIDE DEF c
<1>6. \A u \in Tasks : conn'[u] = IF u = t THEN c ELSE conn[u]
  BY <1>1, <1>4
<1>7. conn' \in [Tasks -> Conn]
  BY <1>1, <1>3, <1>4
<1>8. Openers' = Openers \cup {t} /\ t \notin Openers
  BY <1>5, <1>6 DEF Openers, Conns, TakeLoopLock
<1>9. Held' = Held \cup {NewId}
  BY <1>5, <1>6, <1>8 DEF Held, Openers
<1>10. Registered' = Registered /\ BeingClosed' = BeingClosed /\ Registered = {}
  BY DEF Registered, BeingClosed, TakeLoopLock
<1>11. NewId \notin open /\ NewId # registered /\ NewId \notin BeingClosed /\ NewId # 0
  BY <1>2, IdsAreFinite DEF InUse, BeingClosed
<1>12. LeftBehind' = LeftBehind
  BY <1>9, <1>10, <1>11 DEF LeftBehind, TakeLoopLock
<1>13. ConnTypeOK'
  BY <1>7 DEF FewInv, ConnTypeOK, TakeLoopLock
<1>14. OpenersApart'
  <2>1. \A u \in Openers : conn'[u] = conn[u] /\ u \in Tasks
    BY <1>6, <1>8 DEF Openers
  <2>2. \A u \in Openers : conn[u].lock # conn[t].lock /\ conn[u].id # NewId
    BY <1>2 DEF Openers, TakeLoopLock, Free, Conns, InUse
  <2>3. conn[t].lock <= generation
    BY DEF FewInv, OpenersApart, TakeLoopLock, Conns
  <2>4. \A u, v \in Openers' : u # v => conn'[u].lock # conn'[v].lock /\ conn'[u].id # conn'[v].id
    BY <1>5, <1>6, <1>8, <2>1, <2>2 DEF FewInv, OpenersApart
  <2>5. \A u \in Openers' : conn'[u].id \notin Registered' \cup BeingClosed' \cup {0}
    BY <1>5, <1>6, <1>8, <1>10, <1>11, <2>1 DEF FewInv, OpenersApart
  <2>6. \A u \in Tasks : Conns(u, {"lock", "connect", "schema"})' => conn'[u].lock <= generation'
    BY <1>5, <1>6, <2>3 DEF FewInv, OpenersApart, Conns, TakeLoopLock
  <2>7. \A u \in Tasks : Conns(u, {"schema"})' => conn'[u].id \in open'
    BY <1>5, <1>6 DEF FewInv, OpenersApart, Conns, TakeLoopLock
  <2>8. QED
    BY <2>4, <2>5, <2>6, <2>7 DEF OpenersApart
<1>15. LocksDropped'
  BY DEF FewInv, LocksDropped, TakeLoopLock
<1>16. FewLeft'
  <2> DEFINE a == Cardinality(LeftBehind)
             n == Cardinality(Openers')
             p == closes * (closes - 1)
  <2>1. a \in Nat /\ Cardinality(Registered) = 0
    BY LeftIsFinite DEF FewInv
  <2>2. n \in Nat /\ n <= generation + 1
    <3>1. \A u \in Openers' : conn'[u].lock \in Nat /\ conn'[u].lock <= generation
      <4>1. SUFFICES ASSUME NEW u \in Openers'
                     PROVE  conn'[u].lock \in Nat /\ conn'[u].lock <= generation
        OBVIOUS
      <4>2. u \in Tasks /\ Conns(u, {"lock", "connect", "schema"})'
        BY <4>1 DEF Openers, Conns
      <4>3. conn'[u].lock \in Nat
        BY <1>7, <4>2, IdsAreFinite DEF Conn
      <4>4. QED
        BY <1>14, <4>2, <4>3 DEF OpenersApart, TakeLoopLock
    <3>2. \A u, v \in Openers' : u # v => conn'[u].lock # conn'[v].lock
      BY <1>14 DEF OpenersApart
    <3> DEFINE O == Openers'
               j == conn'
    <3> HIDE DEF O, j
    <3>3. \A u \in O : j[u].lock \in Nat /\ j[u].lock <= generation
      BY <3>1 DEF O, j
    <3>4. \A u, v \in O : u # v => j[u].lock # j[v].lock
      BY <3>2 DEF O, j
    <3>5. Cardinality(O) \in Nat /\ Cardinality(O) <= generation + 1
      BY <1>1, <3>3, <3>4, LocksFew
    <3>6. QED
      BY <3>5 DEF O
  <2>3. 2 * a <= p + 2 * Lost
    BY DEF FewInv, FewLeft
  <2>4. p \in Int /\ Lost \in Nat
    BY IdsAreFinite DEF FewInv, ConnTypeOK, Lost
  <2>5. Cardinality(LeftBehind') = a /\ Cardinality(Registered') = 0
    BY <1>10, <1>12, <2>1
  <2>6. UNCHANGED <<registered, closes, failures, cancels, generation>>
    BY DEF TakeLoopLock
  <2> HIDE DEF a, n, p
  <2>7. 2 * (a + n + 0) <= p + 2 * (Lost + generation + 1)
    BY <1>1, <2>1, <2>2, <2>3, <2>4
  <2>8. QED
    BY <2>3, <2>5, <2>6, <2>7 DEF FewLeft, n, p, Lost
<1>17. QED
  BY <1>13, <1>14, <1>15, <1>16 DEF FewInv

\* A connection that is open now was its opener's before.
LEMMA ConnectedFew ==
    ASSUME FewInv, NEW t \in Tasks, Connected(t)
    PROVE  FewInv'
<1> DEFINE c == [conn[t] EXCEPT !.stage = "schema"]
<1>1. conn \in [Tasks -> Conn]
  BY DEF FewInv, ConnTypeOK
<1>2. conn' = [conn EXCEPT ![t] = c]
  BY DEF Connected
<1>3. c \in Conn /\ c.stage = "schema" /\ c.lock = conn[t].lock /\ c.id = conn[t].id
  BY <1>1 DEF Conn
<1> HIDE DEF c
<1>4. \A u \in Tasks : conn'[u] = IF u = t THEN c ELSE conn[u]
  BY <1>1, <1>2
<1>5. conn' \in [Tasks -> Conn]
  BY <1>1, <1>2, <1>3
<1>6. Openers' = Openers /\ t \in Openers
  BY <1>3, <1>4 DEF Openers, Conns, Connected
<1>7. \A u \in Tasks : conn'[u].id = conn[u].id /\ conn'[u].lock = conn[u].lock
  BY <1>3, <1>4
<1>8. \A u \in Openers : u \in Tasks
  BY DEF Openers
<1>9. Held' = Held /\ conn[t].id \in Held
  BY <1>6, <1>7, <1>8 DEF Held
<1>10. Registered' = Registered /\ BeingClosed' = BeingClosed
  BY DEF Registered, BeingClosed, Connected
<1>11. LeftBehind' = LeftBehind
  BY <1>9, <1>10 DEF LeftBehind, Connected
<1>12. conn[t].id \in ConnIds
  <2>1. conn[t].id \in ConnIds \cup {0}
    BY <1>1 DEF Conn
  <2>2. conn[t].id # 0
    BY <1>6 DEF FewInv, OpenersApart
  <2>3. QED
    BY <2>1, <2>2
<1>13. ConnTypeOK'
  BY <1>5, <1>12 DEF FewInv, ConnTypeOK, Connected
<1>14. OpenersApart'
  <2>1. \A u, v \in Openers' : u # v => conn'[u].lock # conn'[v].lock /\ conn'[u].id # conn'[v].id
    BY <1>6, <1>7, <1>8 DEF FewInv, OpenersApart
  <2>2. \A u \in Openers' : conn'[u].id \notin Registered' \cup BeingClosed' \cup {0}
    BY <1>6, <1>7, <1>8, <1>10 DEF FewInv, OpenersApart
  <2>3. \A u \in Tasks : Conns(u, {"lock", "connect", "schema"})' => conn'[u].lock <= generation'
    BY <1>3, <1>4 DEF FewInv, OpenersApart, Conns, Connected
  <2>4. \A u \in Tasks : Conns(u, {"schema"})' => conn'[u].id \in open'
    BY <1>3, <1>4 DEF FewInv, OpenersApart, Conns, Connected
  <2>5. QED
    BY <2>1, <2>2, <2>3, <2>4 DEF OpenersApart
<1>15. LocksDropped' /\ FewLeft'
  BY <1>6, <1>10, <1>11 DEF FewInv, LocksDropped, FewLeft, Connected, Lost
<1>16. QED
  BY <1>13, <1>14, <1>15 DEF FewInv

\* An opener has done, and registers its connection, fails or is cancelled: the
\* others are apart as they were.
LEMMA OpenerDone ==
    ASSUME FewInv, NEW t \in Openers, NEW c \in Conn, c.stage \in {"has", "error", "none"},
           conn' = [conn EXCEPT ![t] = c],
           open \subseteq open', UNCHANGED <<generation, closer>>
    PROVE  /\ conn' \in [Tasks -> Conn]
           /\ Openers' = Openers \ {t}
           /\ IsFiniteSet(Openers') /\ Cardinality(Openers') \in Nat
           /\ Cardinality(Openers') = Cardinality(Openers) - 1
           /\ Held' = Held \ {conn[t].id}
           /\ \A u \in Openers' : conn'[u] = conn[u]
           /\ (\A u \in Openers' : conn'[u].id \notin Registered') => OpenersApart'
<1>1. conn \in [Tasks -> Conn] /\ t \in Tasks
  BY DEF FewInv, ConnTypeOK, Openers
<1>2. \A u \in Tasks : conn'[u] = IF u = t THEN c ELSE conn[u]
  BY <1>1
<1>3. conn' \in [Tasks -> Conn]
  BY <1>1
<1>4. Openers' = Openers \ {t}
  BY <1>2 DEF Openers, Conns
<1>5. IsFiniteSet(Openers) /\ Cardinality(Openers) \in Nat
  BY OpenersFew DEF FewInv
<1>6. IsFiniteSet(Openers \ {t}) /\ Cardinality(Openers \ {t}) = Cardinality(Openers) - 1
  BY <1>5, FS_RemoveElement
<1>7. IsFiniteSet(Openers') /\ Cardinality(Openers') \in Nat
      /\ Cardinality(Openers') = Cardinality(Openers) - 1
  <2>1. Cardinality(Openers \ {t}) \in Nat
    BY <1>6, FS_CardinalityType
  <2>2. QED
    BY <1>4, <1>6, <2>1
<1>8. \A u \in Openers' : conn'[u] = conn[u] /\ u \in Openers /\ u \in Tasks /\ u # t
  BY <1>2, <1>4 DEF Openers
<1>9. \A u, v \in Openers : u # v => conn[u].id # conn[v].id
  BY DEF FewInv, OpenersApart
<1>10. Held' = Held \ {conn[t].id}
  <2>1. Held' = {conn'[u].id : u \in Openers'}
    BY DEF Held
  <2>2. \A x : x \in Held' <=> \E u \in Openers' : conn[u].id = x
    BY <1>8, <2>1
  <2>3. \A x : x \in Held <=> \E u \in Openers : conn[u].id = x
    BY DEF Held
  <2>4. \A x : x \in Held' => x \in Held \ {conn[t].id}
    BY <1>8, <1>9, <2>2, <2>3
  <2>5. \A x : x \in Held \ {conn[t].id} => x \in Held'
    BY <1>4, <2>2, <2>3
  <2>6. QED
    BY <2>4, <2>5
<1>11. BeingClosed' = BeingClosed
  BY DEF BeingClosed
<1>12. ASSUME \A u \in Openers' : conn'[u].id \notin Registered'
       PROVE  OpenersApart'
  <2>1. \A u, v \in Openers' : u # v => conn'[u].lock # conn'[v].lock /\ conn'[u].id # conn'[v].id
    BY <1>8 DEF FewInv, OpenersApart
  <2>2. \A u \in Openers' : conn'[u].id \notin Registered' \cup BeingClosed' \cup {0}
    BY <1>8, <1>11, <1>12 DEF FewInv, OpenersApart
  <2>3. \A u \in Tasks : Conns(u, {"lock", "connect", "schema"})' => conn'[u].lock <= generation'
    BY <1>2 DEF FewInv, OpenersApart, Conns
  <2>4. \A u \in Tasks : Conns(u, {"schema"})' => conn'[u].id \in open'
    BY <1>2 DEF FewInv, OpenersApart, Conns
  <2>5. QED
    BY <2>1, <2>2, <2>3, <2>4 DEF OpenersApart
<1>13. QED
  BY <1>3, <1>4, <1>7, <1>8, <1>10, <1>12

\* The one that was registered meanwhile is left behind.
LEMMA InitialisedFew ==
    ASSUME FewInv, NEW t \in Tasks, Initialised(t)
    PROVE  FewInv'
<1> DEFINE c == Has(conn[t].id)
<1>1. conn \in [Tasks -> Conn] /\ t \in Openers /\ Conns(t, {"schema"})
  BY DEF FewInv, ConnTypeOK, Openers, Conns, Initialised
<1>2. conn' = [conn EXCEPT ![t] = c]
  BY DEF Initialised
<1>3. c \in Conn /\ c.stage = "has"
  BY <1>1, IdsAreFinite DEF Conn, Has
<1> HIDE DEF c
<1>4. UNCHANGED <<generation, open, closer, closes, failures, cancels>> /\ registered' = conn[t].id
  BY DEF Initialised
<1>5. /\ conn' \in [Tasks -> Conn]
      /\ Openers' = Openers \ {t}
      /\ Cardinality(Openers') = Cardinality(Openers) - 1
      /\ Held' = Held \ {conn[t].id}
      /\ \A u \in Openers' : conn'[u] = conn[u]
      /\ (\A u \in Openers' : conn'[u].id \notin Registered') => OpenersApart'
  BY <1>1, <1>2, <1>3, <1>4, OpenerDone
<1>6. conn[t].id # 0 /\ conn[t].id \in ConnIds /\ conn[t].id \in open
  <2>1. conn[t].id \in ConnIds \cup {0}
    BY <1>1 DEF Conn, Openers
  <2>2. conn[t].id # 0 /\ conn[t].id \in open
    BY <1>1 DEF FewInv, OpenersApart
  <2>3. QED
    BY <2>1, <2>2
<1>7. Registered' = {conn[t].id} /\ BeingClosed' = BeingClosed
  BY <1>4, <1>6 DEF Registered, BeingClosed
<1>8. OpenersApart'
  <2>1. ASSUME NEW u \in Openers'
        PROVE  conn'[u].id \notin Registered'
    <3>1. u \in Openers /\ u # t
      BY <1>5
    <3>2. conn[u].id # conn[t].id
      BY <1>1, <3>1 DEF FewInv, OpenersApart
    <3>3. QED
      BY <1>5, <1>7, <3>2
  <2>2. QED
    BY <1>5, <2>1
<1>9. LeftBehind' \subseteq LeftBehind \cup Registered
  BY <1>4, <1>5, <1>7 DEF LeftBehind
<1>10. ConnTypeOK'
  BY <1>5, <1>6, <1>4 DEF FewInv, ConnTypeOK, Initialised
<1>11. LocksDropped'
  BY <1>4 DEF FewInv, LocksDropped
<1>12. FewLeft'
  <2> DEFINE a == Cardinality(LeftBehind)
             b == Cardinality(LeftBehind')
             n == Cardinality(Openers)
             r == Cardinality(Registered)
             p == closes * (closes - 1)
             d == 2 * (Lost + generation + 1)
  <2>1. IsFiniteSet(LeftBehind) /\ a \in Nat /\ IsFiniteSet(Registered) /\ r \in Nat
    BY LeftIsFinite, FS_CardinalityType DEF FewInv
  <2>2. IsFiniteSet(LeftBehind \cup Registered) /\ Cardinality(LeftBehind \cup Registered) \in Nat
        /\ Cardinality(LeftBehind \cup Registered) <= a + r
    <3>1. IsFiniteSet(LeftBehind \cap Registered) /\ Cardinality(LeftBehind \cap Registered) \in Nat
      BY <2>1, FS_Intersection, FS_CardinalityType
    <3>2. /\ IsFiniteSet(LeftBehind \cup Registered)
          /\ Cardinality(LeftBehind \cup Registered)
               = Cardinality(LeftBehind) + Cardinality(Registered)
                 - Cardinality(LeftBehind \cap Registered)
      BY <2>1, FS_Union
    <3>3. QED
      BY <2>1, <3>1, <3>2, FS_CardinalityType
  <2>3. b \in Nat /\ b <= Cardinality(LeftBehind \cup Registered)
    <3>1. LeftBehind' \in SUBSET (LeftBehind \cup Registered)
      BY <1>9
    <3>2. QED
      BY <2>2, <3>1, FS_Subset, FS_CardinalityType
  <2>4. n \in Nat
    BY OpenersFew DEF FewInv
  <2>5. Cardinality(Registered') = 1 /\ Cardinality(Openers') = n - 1
    <3>1. Cardinality({conn[t].id}) = 1
      BY FS_Singleton
    <3>2. QED
      BY <1>5, <1>7, <3>1
  <2>6. p \in Int /\ d \in Int
    BY IdsAreFinite DEF FewInv, ConnTypeOK, Lost
  <2>7. 2 * (a + n + r) <= p + d
    BY DEF FewInv, FewLeft
  <2> HIDE DEF a, b, n, r, p, d
  <2>8. 2 * (b + (n - 1) + 1) <= p + d
    BY <2>1, <2>2, <2>3, <2>4, <2>6, <2>7
  <2>9. registered' # 0
    BY <1>4, <1>6
  <2>10. 2 * (Cardinality(LeftBehind') + Cardinality(Openers') + Cardinality(Registered'))
            <= closes' * (closes' - 1) + 2 * (Lost' + generation' + 1)
    BY <1>4, <2>5, <2>8 DEF b, p, d, Lost
  <2>11. QED
    BY <2>9, <2>10 DEF FewLeft
<1>13. QED
  BY <1>8, <1>10, <1>11, <1>12 DEF FewInv

\* What an opener that fails or is cancelled leaves behind is one connection.
LEMMA OpenerLost ==
    ASSUME FewInv, NEW t \in Openers, NEW c \in Conn, c.stage \in {"error", "none"},
           conn' = [conn EXCEPT ![t] = c],
           open' = open \/ open' = open \cup {conn[t].id},
           failures' \in Nat, cancels' \in Nat, Lost' = Lost + 1, Lost < MaxLosses,
           UNCHANGED <<registered, generation, ready, closer, closes>>
    PROVE  FewInv'
<1>1. conn \in [Tasks -> Conn]
  BY DEF FewInv, ConnTypeOK
<1>2. conn[t].id \in ConnIds
  <2>1. conn[t].id \in ConnIds \cup {0}
    BY <1>1 DEF Conn, Openers
  <2>2. conn[t].id # 0
    BY DEF FewInv, OpenersApart
  <2>3. QED
    BY <2>1, <2>2
<1>3. /\ conn' \in [Tasks -> Conn]
      /\ Openers' = Openers \ {t}
      /\ Cardinality(Openers') = Cardinality(Openers) - 1
      /\ Held' = Held \ {conn[t].id}
      /\ \A u \in Openers' : conn'[u] = conn[u]
      /\ (\A u \in Openers' : conn'[u].id \notin Registered') => OpenersApart'
  BY OpenerDone
<1>4. Registered' = Registered /\ BeingClosed' = BeingClosed
  BY DEF Registered, BeingClosed
<1>5. OpenersApart'
  BY <1>3, <1>4 DEF FewInv, OpenersApart
<1>6. LeftBehind' \subseteq LeftBehind \cup {conn[t].id}
  BY <1>3, <1>4 DEF LeftBehind
<1>7. Lost \in Nat /\ MaxLosses \in Nat
  BY IdsAreFinite DEF FewInv, ConnTypeOK, Lost
<1>8. ConnTypeOK'
  <2>1. open' \subseteq ConnIds /\ ready' \subseteq open'
    BY <1>2 DEF FewInv, ConnTypeOK
  <2>2. failures' + cancels' <= MaxLosses
    <3>1. Lost' = failures' + cancels'
      BY DEF Lost
    <3>2. Lost + 1 <= MaxLosses
      BY <1>7
    <3>3. QED
      BY <3>1, <3>2
  <2>3. QED
    BY <1>3, <2>1, <2>2 DEF FewInv, ConnTypeOK
<1>9. LocksDropped'
  BY DEF FewInv, LocksDropped
<1>10. FewLeft'
  <2> DEFINE a == Cardinality(LeftBehind)
             b == Cardinality(LeftBehind')
             n == Cardinality(Openers)
             r == Cardinality(Registered)
             p == closes * (closes - 1)
  <2>1. IsFiniteSet(LeftBehind) /\ a \in Nat /\ r \in Nat
    BY LeftIsFinite, FS_CardinalityType DEF FewInv
  <2>2. b \in Nat /\ b <= a + 1
    <3> DEFINE U == LeftBehind \cup {conn[t].id}
    <3>1. IsFiniteSet(U) /\ (Cardinality(U) = a \/ Cardinality(U) = a + 1)
      BY <2>1, FS_AddElement
    <3>2. LeftBehind' \in SUBSET U
      BY <1>6
    <3> HIDE DEF U, a
    <3>3. b \in Nat /\ b <= Cardinality(U)
      BY <3>1, <3>2, FS_Subset, FS_CardinalityType
    <3>4. QED
      BY <2>1, <3>1, <3>3
  <2>3. n \in Nat
    BY OpenersFew DEF FewInv
  <2>4. p \in Int /\ generation \in Nat
    BY IdsAreFinite DEF FewInv, ConnTypeOK
  <2>5. 2 * (a + n + r) <= p + 2 * (Lost + generation + 1)
    BY DEF FewInv, FewLeft
  <2>6. registered = 0 => 2 * a <= p + 2 * Lost
    BY DEF FewInv, FewLeft
  <2>7. Cardinality(Openers') = n - 1 /\ Cardinality(Registered') = r
    BY <1>3, <1>4
  <2> HIDE DEF a, b, n, r, p
  <2>8. 2 * (b + (n - 1) + r) <= p + 2 * ((Lost + 1) + generation + 1)
    BY <1>7, <2>1, <2>2, <2>3, <2>4, <2>5
  <2>9. registered = 0 => 2 * b <= p + 2 * (Lost + 1)
    BY <1>7, <2>1, <2>2, <2>4, <2>6
  <2>10. registered' = 0 => 2 * Cardinality(LeftBehind') <= closes' * (closes' - 1) + 2 * Lost'
    BY <2>9 DEF b, p
  <2>11. 2 * (Cardinality(LeftBehind') + Cardinality(Openers') + Cardinality(Registered'))
            <= closes' * (closes' - 1) + 2 * (Lost' + generation' + 1)
    BY <2>7, <2>8 DEF b, p
  <2>12. QED
    BY <2>10, <2>11 DEF FewLeft
<1>11. QED
  BY <1>5, <1>8, <1>9, <1>10 DEF FewInv

\* A creation that fails loses its opener.
LEMMA CreationFailsFew ==
    ASSUME FewInv, NEW t \in Tasks, CreationFails(t)
    PROVE  FewInv'
<1> DEFINE c == [stage |-> "error", lock |-> 0, id |-> 0]
<1>1. t \in Openers
  BY DEF Openers, Conns, CreationFails
<1>2. c \in Conn /\ c.stage = "error" /\ conn' = [conn EXCEPT ![t] = c]
  BY IdsAreFinite DEF Conn, CreationFails
<1> HIDE DEF c
<1>3. /\ failures' \in Nat /\ cancels' \in Nat /\ Lost' = Lost + 1 /\ Lost < MaxLosses
      /\ UNCHANGED <<registered, generation, open, ready, closer, closes>>
  BY DEF FewInv, ConnTypeOK, CreationFails, Lost
<1>4. QED
  BY <1>1, <1>2, <1>3, OpenerLost

\* A task that is cancelled loses its connection if it is an opener.
LEMMA AbandonedFew ==
    ASSUME FewInv, NEW t \in Tasks, Abandoned(t)
    PROVE  FewInv'
<1>1. /\ NoConn \in Conn /\ NoConn.stage = "none" /\ conn' = [conn EXCEPT ![t] = NoConn]
      /\ UNCHANGED <<registered, generation, ready, closer, closes, failures>>
  BY IdsAreFinite DEF NoConn, Conn, Abandoned
<1>2. CASE t \in Openers
  <2>1. open' = open \cup {conn[t].id} /\ cancels' = cancels + 1 /\ failures + cancels < MaxLosses
    BY <1>2 DEF Abandoned, Openers, Conns
  <2>2. failures' \in Nat /\ cancels' \in Nat /\ Lost' = Lost + 1 /\ Lost < MaxLosses
    BY <1>1, <2>1 DEF FewInv, ConnTypeOK, Lost
  <2>3. QED
    BY <1>1, <1>2, <2>1, <2>2, OpenerLost
<1>3. CASE t \notin Openers
  <2>1. UNCHANGED <<open, cancels>>
    BY <1>3 DEF Abandoned, Openers, Conns
  <2>2. QED
    BY <1>1, <1>3, <2>1, QuietFew
<1>4. QED
  BY <1>2, <1>3

\* A close adds to what may be left behind one connection for each lock dropped
\* before it: what it takes out of the registry it closes.
LEMMA CloseBeginsFew ==
    ASSUME FewInv, CloseBegins
    PROVE  FewInv'
<1>1. /\ closer.stage = "idle" /\ closes < MaxCloses /\ closes' = closes + 1 /\ registered' = 0
      /\ closer' = [stage |-> IF registered # 0 THEN "closing" ELSE "drop", id |-> registered]
      /\ UNCHANGED <<generation, open, ready, conn, failures, cancels>>
  BY DEF CloseBegins
<1>2. /\ closes \in Nat /\ MaxCloses \in Nat /\ generation \in Nat /\ Lost \in Nat
      /\ generation = closes /\ registered \in ConnIds \cup {0}
  BY <1>1, IdsAreFinite DEF FewInv, ConnTypeOK, LocksDropped, Lost
<1>3. Openers' = Openers
  BY <1>1 DEF Openers, Conns
<1>4. Held' = Held
  BY <1>1, <1>3 DEF Held
<1>5. Registered' = {} /\ BeingClosed = {} /\ BeingClosed' = Registered
  BY <1>1 DEF Registered, BeingClosed
<1>6. LeftBehind' = LeftBehind
  BY <1>1, <1>4, <1>5 DEF LeftBehind
<1>7. ConnTypeOK'
  <2>1. closer' \in Closer
    BY <1>1, <1>2 DEF Closer
  <2>2. closes' \in 0..MaxCloses
    BY <1>1, <1>2
  <2>3. QED
    BY <1>1, <2>1, <2>2 DEF FewInv, ConnTypeOK
<1>8. OpenersApart'
  <2>1. \A u \in Openers' : conn'[u].id \notin Registered' \cup BeingClosed' \cup {0}
    BY <1>1, <1>3, <1>5 DEF FewInv, OpenersApart
  <2>2. \A u, v \in Openers' : u # v => conn'[u].lock # conn'[v].lock /\ conn'[u].id # conn'[v].id
    BY <1>1, <1>3 DEF FewInv, OpenersApart
  <2>3. QED
    BY <1>1, <2>1, <2>2 DEF FewInv, OpenersApart, Conns
<1>9. LocksDropped'
  BY <1>1, <1>2 DEF LocksDropped
<1>10. FewLeft'
  <2> DEFINE a == Cardinality(LeftBehind)
             n == Cardinality(Openers)
             r == Cardinality(Registered)
             p == closes * (closes - 1)
  <2>1. a \in Nat /\ n \in Nat /\ r \in Nat /\ p \in Int /\ (registered # 0 => r = 1)
    BY <1>2, LeftIsFinite, OpenersFew, FS_CardinalityType DEF FewInv
  <2>2. (closes + 1) * ((closes + 1) - 1) = p + 2 * closes
    BY <1>2
  <2>3. registered = 0 => 2 * a <= p + 2 * Lost
    BY DEF FewInv, FewLeft
  <2>4. 2 * (a + n + r) <= p + 2 * (Lost + closes + 1)
    BY <1>2 DEF FewInv, FewLeft
  <2>5. Cardinality(Registered') = 0
    BY <1>5, FS_EmptySet
  <2> HIDE DEF a, n, r, p
  <2>6. 2 * a <= p + 2 * closes + 2 * Lost
    BY <1>2, <2>1, <2>3, <2>4
  <2>7. 2 * (a + n + 0) <= p + 2 * closes + 2 * (Lost + closes + 1)
    BY <1>2, <2>1, <2>4
  <2>8. 2 * Cardinality(LeftBehind') <= closes' * (closes' - 1) + 2 * Lost'
    BY <1>1, <1>6, <2>2, <2>6 DEF a, Lost
  <2>9. 2 * (Cardinality(LeftBehind') + Cardinality(Openers') + Cardinality(Registered'))
           <= closes' * (closes' - 1) + 2 * (Lost' + generation' + 1)
    BY <1>1, <1>2, <1>3, <1>6, <2>2, <2>5, <2>7 DEF a, n, Lost
  <2>10. QED
    BY <2>8, <2>9 DEF FewLeft
<1>11. QED
  BY <1>7, <1>8, <1>9, <1>10 DEF FewInv

\* The connection that is closed was nobody's to open.
LEMMA ClosedFew ==
    ASSUME FewInv, Closed
    PROVE  FewInv'
<1>1. /\ closer.stage = "closing" /\ open' = open \ {closer.id} /\ ready' = ready \ {closer.id}
      /\ closer' = [closer EXCEPT !.stage = "drop"]
      /\ UNCHANGED <<registered, generation, conn, closes, failures, cancels>>
  BY DEF Closed
<1>2. closer' \in Closer /\ closer'.stage = "drop"
  BY <1>1 DEF FewInv, ConnTypeOK, Closer
<1>3. Openers' = Openers
  BY <1>1 DEF Openers, Conns
<1>4. Held' = Held
  BY <1>1, <1>3 DEF Held
<1>5. Registered' = Registered /\ BeingClosed = {closer.id} /\ BeingClosed' = {}
  BY <1>1, <1>2 DEF Registered, BeingClosed
<1>6. LeftBehind' = LeftBehind
  BY <1>1, <1>4, <1>5 DEF LeftBehind
<1>7. ConnTypeOK'
  BY <1>1, <1>2 DEF FewInv, ConnTypeOK
<1>8. OpenersApart'
  <2>1. ASSUME NEW u \in Tasks, Conns(u, {"schema"})'
        PROVE  conn'[u].id \in open'
    <3>1. Conns(u, {"schema"}) /\ u \in Openers
      BY <1>1, <2>1 DEF Openers, Conns
    <3>2. conn[u].id \in open /\ conn[u].id # closer.id
      BY <1>5, <3>1 DEF FewInv, OpenersApart
    <3>3. QED
      BY <1>1, <3>2
  <2>2. \A u \in Openers' : conn'[u].id \notin Registered' \cup BeingClosed' \cup {0}
    BY <1>1, <1>3, <1>5 DEF FewInv, OpenersApart
  <2>3. \A u, v \in Openers' : u # v => conn'[u].lock # conn'[v].lock /\ conn'[u].id # conn'[v].id
    BY <1>1, <1>3 DEF FewInv, OpenersApart
  <2>4. \A u \in Tasks : Conns(u, {"lock", "connect", "schema"})' => conn'[u].lock <= generation'
    BY <1>1 DEF FewInv, OpenersApart, Conns
  <2>5. QED
    BY <2>1, <2>2, <2>3, <2>4 DEF OpenersApart
<1>9. LocksDropped'
  BY <1>1, <1>2 DEF FewInv, LocksDropped
<1>10. FewLeft'
  BY <1>1, <1>3, <1>5, <1>6 DEF FewInv, FewLeft, Lost
<1>11. QED
  BY <1>7, <1>8, <1>9, <1>10 DEF FewInv

\* The next lock is one more that an opener may come by.
LEMMA DropLockFew ==
    ASSUME FewInv, DropLock
    PROVE  FewInv'
<1>1. /\ closer.stage = "drop" /\ generation' = generation + 1
      /\ closer' = [stage |-> "idle", id |-> 0]
      /\ UNCHANGED <<registered, open, ready, conn, closes, failures, cancels>>
  BY DEF DropLock
<1>2. /\ closes \in Nat /\ closes <= MaxCloses /\ MaxCloses \in Nat /\ generation \in Nat
      /\ Lost \in Nat /\ closes = generation + 1
  BY <1>1, IdsAreFinite DEF FewInv, ConnTypeOK, LocksDropped, Lost
<1>3. Openers' = Openers
  BY <1>1 DEF Openers, Conns
<1>4. Held' = Held
  BY <1>1, <1>3 DEF Held
<1>5. Registered' = Registered /\ BeingClosed = {} /\ BeingClosed' = {}
  BY <1>1 DEF Registered, BeingClosed
<1>6. LeftBehind' = LeftBehind
  BY <1>1, <1>4, <1>5 DEF LeftBehind
<1>7. ConnTypeOK'
  <2>1. closer' \in Closer
    BY <1>1 DEF Closer
  <2>2. generation' \in 0..MaxCloses
    BY <1>1, <1>2
  <2>3. QED
    BY <1>1, <2>1, <2>2 DEF FewInv, ConnTypeOK
<1>8. OpenersApart'
  <2>1. ASSUME NEW u \in Tasks, Conns(u, {"lock", "connect", "schema"})'
        PROVE  conn'[u].lock <= generation'
    <3>1. conn[u].lock <= generation
      BY <1>1, <2>1 DEF FewInv, OpenersApart, Conns
    <3>2. conn[u].lock \in Nat
      BY IdsAreFinite DEF FewInv, ConnTypeOK, Conn
    <3>3. QED
      BY <1>1, <1>2, <3>1, <3>2
  <2>2. \A u \in Openers' : conn'[u].id \notin Registered' \cup BeingClosed' \cup {0}
    BY <1>1, <1>3, <1>5 DEF FewInv, OpenersApart
  <2>3. \A u, v \in Openers' : u # v => conn'[u].lock # conn'[v].lock /\ conn'[u].id # conn'[v].id
    BY <1>1, <1>3 DEF FewInv, OpenersApart
  <2>4. \A u \in Tasks : Conns(u, {"schema"})' => conn'[u].id \in open'
    BY <1>1 DEF FewInv, OpenersApart, Conns
  <2>5. QED
    BY <2>1, <2>2, <2>3, <2>4 DEF OpenersApart
<1>9. LocksDropped'
  BY <1>1, <1>2 DEF LocksDropped
<1>10. FewLeft'
  <2> DEFINE m == 2 * (Cardinality(LeftBehind) + Cardinality(Openers) + Cardinality(Registered))
             p == closes * (closes - 1)
  <2>1. m \in Int /\ p \in Int
    BY <1>2, LeftIsFinite, OpenersFew, FS_CardinalityType DEF FewInv
  <2>2. m <= p + 2 * (Lost + generation + 1)
    BY DEF FewInv, FewLeft
  <2> HIDE DEF m, p
  <2>3. m <= p + 2 * (Lost + (generation + 1) + 1)
    BY <1>2, <2>1, <2>2
  <2>4. 2 * (Cardinality(LeftBehind') + Cardinality(Openers') + Cardinality(Registered'))
           <= closes' * (closes' - 1) + 2 * (Lost' + generation' + 1)
    BY <1>1, <1>3, <1>5, <1>6, <2>3 DEF m, p, Lost
  <2>5. QED
    BY <1>1, <1>6, <2>4 DEF FewInv, FewLeft, Lost
<1>11. QED
  BY <1>7, <1>8, <1>9, <1>10 DEF FewInv

\* A task that comes by the lock late is handed what is registered.
LEMMA RegisteredFew ==
    ASSUME FewInv, NEW t \in Tasks, TakeLoopLock(t), registered # 0
    PROVE  FewInv'
<1> DEFINE c == Has(registered)
<1>1. conn' = [conn EXCEPT ![t] = c]
  BY DEF TakeLoopLock
<1>2. c \in Conn /\ c.stage = "has"
  BY IdsAreFinite DEF FewInv, ConnTypeOK, Conn, Has
<1>3. t \notin Openers
  BY DEF Openers, Conns, TakeLoopLock
<1> HIDE DEF c
<1>4. QED
  BY <1>1, <1>2, <1>3, QuietFew DEF TakeLoopLock

\* A task that asks is handed a connection or waits for the latest lock.
LEMMA AskedFew ==
    ASSUME FewInv
    PROVE  /\ Asked \in Conn /\ Asked.stage \in {"has", "lock"}
           /\ Asked.stage = "lock" => Asked.lock <= generation
<1>1. registered \in ConnIds \cup {0} /\ generation \in 0..MaxCloses /\ 0 \in 0..MaxCloses
      /\ generation \in Nat
  BY IdsAreFinite DEF FewInv, ConnTypeOK
<1>2. CASE registered # 0
  BY <1>1, <1>2 DEF Asked, Has, Conn
<1>3. CASE registered = 0
  BY <1>1, <1>3 DEF Asked, Conn
<1>4. QED
  BY <1>2, <1>3

-----------------------------------------------------------------------------
(* What is healed *)

\* The tasks that have healed and not written it yet.
Pending == {t \in Tasks : At(t, {"lock", "write"}) /\ job[t].how = "heal"}

\* What a task may be at: one that has not asked for the connection has none, and
\* one that has something to write knows what; healing derives one selector.
JobsOK ==
    /\ confidence \in [Sels -> Levels \cup {None}]
    /\ redesigned \in BOOLEAN
    /\ job \in [Tasks -> Job \cup {Idle}]
    /\ heals \in (0..(Cardinality(Tasks) + 1)) \cup {None}
    /\ \A t \in Tasks : At(t, {"idle", "lock"}) => Conns(t, {"none"})
    /\ \A t \in Tasks : At(t, {"lock", "write"}) =>
          /\ job[t].sel \in Sels /\ job[t].how # "none"
          /\ job[t].how = "heal" => job[t].sel = Repaired

\* Those that have healed and those that will are no more than the tasks: nobody
\* starts to heal what is stored.
HealsFew ==
    heals # None => /\ Repaired \notin Stored => heals = 0
                    /\ heals + Cardinality(Pending) <= Cardinality(Tasks)

TasksInv == FewInv /\ JobsOK /\ HealsFew

\* What t is at and has of the connection is set to what fits together.
LEMMA JobKeeps ==
    ASSUME TasksInv, NEW t \in Tasks, NEW j \in Job \cup {Idle}, NEW c \in Conn,
           job' = [job EXCEPT ![t] = j], conn' = [conn EXCEPT ![t] = c],
           j.stage \in {"idle", "lock"} => c.stage = "none",
           j.stage \in {"lock", "write"} => /\ j.sel \in Sels /\ j.how # "none"
                                            /\ j.how = "heal" => j.sel = Repaired,
           confidence' \in [Sels -> Levels \cup {None}],
           redesigned' \in BOOLEAN,
           heals' \in (0..(Cardinality(Tasks) + 1)) \cup {None}
    PROVE  JobsOK'
<1>1. conn \in [Tasks -> Conn] /\ job \in [Tasks -> Job \cup {Idle}]
  BY DEF TasksInv, FewInv, ConnTypeOK, JobsOK
<1>2. \A u \in Tasks : /\ conn'[u] = IF u = t THEN c ELSE conn[u]
                       /\ job'[u] = IF u = t THEN j ELSE job[u]
  BY <1>1
<1>3. job' \in [Tasks -> Job \cup {Idle}]
  BY <1>1
<1>4. \A u \in Tasks : At(u, {"idle", "lock"})' => Conns(u, {"none"})'
  BY <1>2 DEF TasksInv, JobsOK, At, Conns
<1>5. \A u \in Tasks : At(u, {"lock", "write"})' =>
         /\ job'[u].sel \in Sels /\ job'[u].how # "none"
         /\ job'[u].how = "heal" => job'[u].sel = Repaired
  BY <1>2 DEF TasksInv, JobsOK, At
<1>6. QED
  BY <1>3, <1>4, <1>5 DEF JobsOK

\* There are finitely many who have healed.
LEMMA PendingIsFinite ==
    /\ IsFiniteSet(Pending) /\ Cardinality(Pending) \in Nat
    /\ Cardinality(Pending) <= Cardinality(Tasks)
<1>1. Pending \in SUBSET Tasks
  BY DEF Pending
<1>2. QED
  BY <1>1, ConnectionsAssumption, FS_Subset, FS_CardinalityType

\* As long as nobody starts to heal, nothing changes about it.
LEMMA HealsKeep ==
    ASSUME HealsFew, JobsOK, Pending' \subseteq Pending, Stored \subseteq Stored', heals' = heals
    PROVE  HealsFew'
<1>1. IsFiniteSet(Pending) /\ Cardinality(Pending) \in Nat
  BY PendingIsFinite
<1> DEFINE P == Pending'
<1>2. P \in SUBSET Pending
  OBVIOUS
<1> HIDE DEF P
<1>3. Cardinality(P) \in Nat /\ Cardinality(P) <= Cardinality(Pending)
  BY <1>1, <1>2, FS_Subset, FS_CardinalityType
<1>4. heals # None => heals \in Nat
  BY IdsAreFinite DEF JobsOK
<1>5. Cardinality(Tasks) \in Nat
  BY IdsAreFinite
<1>6. heals # None => heals + Cardinality(P) <= Cardinality(Tasks)
  BY <1>1, <1>3, <1>4, <1>5 DEF HealsFew
<1>7. QED
  BY <1>6 DEF HealsFew, P

\* A step of the registry leaves the tasks alone, all but one of whose connection
\* there is to wait for.
LEMMA ConnectingKeeps ==
    ASSUME TasksInv, NEW t \in Tasks, Connecting(t), UNCHANGED svars
    PROVE  TasksInv'
<1>1. FewInv'
  BY OpeningFew, RegisteredFew, ConnectedFew, InitialisedFew, CreationFailsFew
     DEF TasksInv, Connecting
<1>2. \A u \in Tasks : u # t => conn'[u] = conn[u]
  BY DEF TasksInv, FewInv, ConnTypeOK, Connecting, TakeLoopLock, Connected, Initialised, CreationFails
<1>3. ~Conns(t, {"none"})
  BY DEF Connecting, TakeLoopLock, Connected, Initialised, CreationFails, Conns
<1>4. JobsOK'
  <2>1. \A u \in Tasks : At(u, {"idle", "lock"})' => Conns(u, {"none"})'
    BY <1>2, <1>3 DEF TasksInv, JobsOK, At, Conns, svars
  <2>2. QED
    BY <2>1 DEF TasksInv, JobsOK, At, svars
<1>5. HealsFew'
  BY DEF TasksInv, HealsFew, Pending, At, Stored, svars
<1>6. QED
  BY <1>1, <1>4, <1>5 DEF TasksInv

\* A task that opens nothing asks for the connection, or lets go of the one it has.
LEMMA TaskFew ==
    ASSUME TasksInv, NEW t \in Tasks, t \notin Openers, NEW c \in {Asked, NoConn, conn[t]},
           conn' = [conn EXCEPT ![t] = c],
           UNCHANGED <<registered, generation, open, ready, closer, closes, failures, cancels>>
    PROVE  FewInv' /\ c \in Conn
<1>1. FewInv /\ conn \in [Tasks -> Conn]
  BY DEF TasksInv, FewInv, ConnTypeOK
<1>2. NoConn \in Conn /\ NoConn.stage = "none"
  BY IdsAreFinite DEF NoConn, Conn
<1>3. conn[t] \in Conn /\ conn[t].stage \notin {"connect", "schema"}
      /\ (conn[t].stage = "lock" => conn[t].lock <= generation)
  BY <1>1 DEF FewInv, OpenersApart, Openers, Conns
<1>4. /\ c \in Conn /\ c.stage \notin {"connect", "schema"}
      /\ c.stage = "lock" => c.lock <= generation
  BY <1>1, <1>2, <1>3, AskedFew
<1>5. QED
  BY <1>1, <1>4, QuietFew

\* An extraction or a lesson begins.
LEMMA BeginKeeps ==
    ASSUME TasksInv, NEW t \in Tasks, ExtractBegins(t) \/ TrainBegins(t)
    PROVE  TasksInv'
<1>1. /\ At(t, {"idle"}) /\ Conns(t, {"none"}) /\ t \notin Openers
      /\ conn = [conn EXCEPT ![t] = conn[t]] /\ confidence \in [Sels -> Levels \cup {None}]
      /\ redesigned \in BOOLEAN /\ heals \in (0..(Cardinality(Tasks) + 1)) \cup {None}
      /\ job \in [Tasks -> Job \cup {Idle}]
  BY DEF TasksInv, FewInv, ConnTypeOK, JobsOK, ExtractBegins, TrainBegins, At, Conns, Openers
<1>2. CASE ExtractBegins(t)
  <2> DEFINE j == [stage |-> "load", sel |-> None, how |-> "none"]
  <2>1. job' = [job EXCEPT ![t] = j] /\ conn' = [conn EXCEPT ![t] = Asked]
        /\ UNCHANGED <<registered, generation, open, ready, closer, closes, failures, cancels,
                       confidence, redesigned, heals>>
    BY <1>2 DEF ExtractBegins
  <2>2. FewInv' /\ Asked \in Conn
    BY <1>1, <2>1, TaskFew
  <2>3. j \in Job \cup {Idle} /\ j.stage = "load"
    BY DEF Job
  <2> HIDE DEF j
  <2>4. JobsOK'
    BY <1>1, <2>1, <2>2, <2>3, JobKeeps
  <2>5. Pending' \subseteq Pending /\ Stored' = Stored
    BY <1>1, <2>1, <2>3 DEF Pending, At, Stored
  <2>6. HealsFew'
    BY <2>1, <2>5, HealsKeep DEF TasksInv
  <2>7. QED
    BY <2>2, <2>4, <2>6 DEF TasksInv
<1>3. CASE TrainBegins(t)
  <2> DEFINE j == [stage |-> "lock", sel |-> Repaired, how |-> "train"]
  <2>1. job' = [job EXCEPT ![t] = j] /\ conn' = [conn EXCEPT ![t] = conn[t]]
        /\ UNCHANGED <<registered, generation, open, ready, closer, closes, failures, cancels,
                       confidence, redesigned, heals>>
    BY <1>1, <1>3 DEF TrainBegins, cvars
  <2>2. FewInv' /\ conn[t] \in Conn
    BY <1>1, <2>1, TaskFew
  <2>3. j \in Job \cup {Idle} /\ j.stage = "lock" /\ j.sel \in Sels /\ j.how = "train"
    BY DEF Job, Sels
  <2> HIDE DEF j
  <2>4. conn[t].stage = "none"
    BY <1>1 DEF Conns
  <2>5. JobsOK'
    BY <1>1, <2>1, <2>2, <2>3, <2>4, JobKeeps
  <2>6. Pending' \subseteq Pending /\ Stored' = Stored
    BY <1>1, <2>1, <2>3 DEF Pending, At, Stored
  <2>7. HealsFew'
    BY <2>1, <2>6, HealsKeep DEF TasksInv
  <2>8. QED
    BY <2>2, <2>5, <2>7 DEF TasksInv
<1>4. QED
  BY <1>2, <1>3

\* A task comes by the lock of its parser, and asks for the connection.
LEMMA ParserLockKeeps ==
    ASSUME TasksInv, NEW t \in Tasks, TakeParserLock(t)
    PROVE  TasksInv'
<1>1. /\ At(t, {"lock"}) /\ Conns(t, {"none"}) /\ t \notin Openers
      /\ confidence \in [Sels -> Levels \cup {None}] /\ job[t] \in Job
      /\ redesigned \in BOOLEAN /\ heals \in (0..(Cardinality(Tasks) + 1)) \cup {None}
      /\ job \in [Tasks -> Job \cup {Idle}]
  BY DEF TasksInv, JobsOK, TakeParserLock, At, Conns, Openers, Idle
<1> DEFINE j == [job[t] EXCEPT !.stage = "write"]
<1>2. job' = [job EXCEPT ![t] = j] /\ conn' = [conn EXCEPT ![t] = Asked]
      /\ UNCHANGED <<registered, generation, open, ready, closer, closes, failures, cancels,
                     confidence, redesigned, heals>>
  BY DEF TakeParserLock
<1>3. FewInv' /\ Asked \in Conn
  BY <1>1, <1>2, TaskFew
<1>4. j \in Job /\ j.stage = "write" /\ j.how = job[t].how /\ j.sel = job[t].sel
  BY <1>1 DEF Job
<1> HIDE DEF j
<1>5. /\ j.sel \in Sels /\ j.how # "none"
      /\ j.how = "heal" => j.sel = Repaired
  BY <1>1, <1>4 DEF TasksInv, JobsOK, At
<1>6. JobsOK'
  BY <1>1, <1>2, <1>3, <1>4, <1>5, JobKeeps
<1>7. Pending' \subseteq Pending /\ Stored' = Stored
  BY <1>1, <1>2, <1>4 DEF Pending, At, Stored
<1>8. HealsFew'
  BY <1>2, <1>7, HealsKeep DEF TasksInv
<1>9. QED
  BY <1>3, <1>6, <1>8 DEF TasksInv

\* A task that fails or is cancelled lets go of what it has.
LEMMA FailsKeeps ==
    ASSUME TasksInv, NEW t \in Tasks, Fails(t) \/ Cancelled(t)
    PROVE  TasksInv'
<1>1. /\ confidence \in [Sels -> Levels \cup {None}]
      /\ redesigned \in BOOLEAN /\ heals \in (0..(Cardinality(Tasks) + 1)) \cup {None}
      /\ job \in [Tasks -> Job \cup {Idle}]
  BY DEF TasksInv, JobsOK
<1>2. job' = [job EXCEPT ![t] = Idle] /\ conn' = [conn EXCEPT ![t] = NoConn]
      /\ UNCHANGED <<confidence, redesigned, heals>>
  BY DEF Fails, Cancelled, Abandoned
<1>3. FewInv' /\ NoConn \in Conn
  <2>1. CASE Fails(t)
    <3>1. t \notin Openers
      BY <2>1 DEF Fails, Failing, Conns, Openers
    <3>2. UNCHANGED <<registered, generation, open, ready, closer, closes, failures, cancels>>
      BY <2>1 DEF Fails
    <3>3. QED
      BY <1>2, <3>1, <3>2, TaskFew
  <2>2. CASE Cancelled(t)
    <3>1. FewInv'
      BY <2>2, AbandonedFew DEF Cancelled, TasksInv
    <3>2. QED
      BY <3>1, IdsAreFinite DEF NoConn, Conn
  <2>3. QED
    BY <2>1, <2>2
<1>4. Idle \in Job \cup {Idle} /\ Idle.stage = "idle" /\ NoConn.stage = "none"
  BY DEF Idle, NoConn
<1>5. JobsOK'
  BY <1>1, <1>2, <1>3, <1>4, JobKeeps
<1>6. Pending' \subseteq Pending /\ Stored' = Stored
  BY <1>1, <1>2, <1>4 DEF Pending, At, Stored
<1>7. HealsFew'
  BY <1>2, <1>6, HealsKeep DEF TasksInv
<1>8. QED
  BY <1>3, <1>5, <1>7 DEF TasksInv

\* Whatever is written of a selector is a confidence.
LEMMA ChangedIsLevel ==
    ASSUME NEW how \in {"success", "failure", "heal", "train"}, NEW c \in Levels \cup {None},
           NEW d \in Changed(how, c)
    PROVE  d \in Levels /\ d # None
<1>1. None \notin 0..2 /\ Levels = 0..2
  BY StoreAssumption DEF Levels
<1>2. c = None \/ c = 0 \/ c = 1 \/ c = 2
  BY <1>1
<1>3. Raised(c) \subseteq Levels
  BY <1>1, <1>2 DEF Raised
<1>4. Lowered(c) \subseteq Levels
  BY <1>1, <1>2 DEF Lowered
<1>5. Changed(how, c) \subseteq Levels
  BY <1>1, <1>3, <1>4 DEF Changed
<1>6. QED
  BY <1>1, <1>5

\* An extraction that has to heal met a store without the selector, or one too
\* large for it.
LEMMA ExtractKeeps ==
    ASSUME TasksInv, NEW t \in Tasks, Extract(t)
    PROVE  TasksInv'
<1>1. PICK l \in SUBSET Sels, how \in {"success", "failure", "heal"} :
          /\ Loads(l)
          /\ (how = "success") = (Matching \in l \cup {Primary})
          /\ job' = [job EXCEPT ![t] = [stage |-> "lock", how |-> how,
                                        sel |-> IF how = "failure" THEN Primary ELSE Matching]]
          /\ heals' = IF Matching \in Stored \ l /\ Cardinality(l) = Limit THEN None ELSE heals
  BY DEF Extract
<1>2. /\ t \notin Openers /\ conn' = [conn EXCEPT ![t] = NoConn]
      /\ UNCHANGED <<registered, generation, open, ready, closer, closes, failures, cancels,
                     confidence, redesigned>>
      /\ At(t, {"load"})
  BY DEF Extract, Openers, Conns
<1>3. /\ confidence \in [Sels -> Levels \cup {None}]
      /\ redesigned \in BOOLEAN /\ heals \in (0..(Cardinality(Tasks) + 1)) \cup {None}
      /\ job \in [Tasks -> Job \cup {Idle}]
  BY DEF TasksInv, JobsOK
<1> DEFINE j == [stage |-> "lock", how |-> how, sel |-> IF how = "failure" THEN Primary ELSE Matching]
<1>4. Matching \in Sels /\ (Matching # Primary => Matching = Repaired)
  BY DEF Matching, Sels
<1>5. j \in Job /\ j.stage = "lock" /\ j.how = how /\ j.sel \in Sels /\ j.how # "none"
  BY <1>4 DEF Job, Sels
<1>6. how = "heal" => Matching = Repaired /\ Repaired \notin l /\ j.sel = Repaired
  BY <1>1, <1>4
<1>7. job' = [job EXCEPT ![t] = j]
  BY <1>1
<1> HIDE DEF j
<1>8. FewInv' /\ NoConn \in Conn
  BY <1>2, TaskFew
<1>9. heals' = heals \/ heals' = None
  BY <1>1
<1>10. NoConn.stage = "none"
  BY DEF NoConn
<1>11. JobsOK'
  BY <1>2, <1>3, <1>5, <1>6, <1>7, <1>8, <1>9, <1>10, JobKeeps
<1>12. Stored' = Stored
  BY <1>2 DEF Stored
<1>13. HealsFew'
  <2>1. CASE heals' = None
    BY <2>1 DEF HealsFew
  <2>2. CASE heals' = heals /\ how # "heal"
    <3>1. Pending' \subseteq Pending
      BY <1>3, <1>5, <1>7, <2>2 DEF Pending, At
    <3>2. QED
      BY <1>12, <2>2, <3>1, HealsKeep DEF TasksInv
  <2>3. CASE heals' # None /\ heals' = heals /\ how = "heal"
    <3>1. Repaired \notin Stored
      <4>1. SUFFICES ASSUME Repaired \in Stored PROVE FALSE
        OBVIOUS
      <4>2. Cardinality(l) # Limit
        BY <1>1, <1>6, <2>3, <4>1
      <4>3. IsFiniteSet(Stored) /\ Cardinality(Stored) \in Nat
        <5>1. IsFiniteSet({Primary}) /\ IsFiniteSet({Primary} \cup {Repaired})
          BY FS_Singleton, FS_AddElement
        <5>2. Stored \in SUBSET ({Primary} \cup {Repaired})
          BY DEF Stored, Sels
        <5>3. QED
          BY <5>1, <5>2, FS_Subset, FS_CardinalityType
      <4>4. l \in SUBSET Stored /\ Cardinality(l) = Cardinality(Stored)
        BY <1>1, <4>2 DEF Loads
      <4>5. l = Stored
        BY <4>3, <4>4, FS_Subset
      <4>6. QED
        BY <1>6, <2>3, <4>1, <4>5
    <3>2. heals = 0
      BY <2>3, <3>1 DEF TasksInv, HealsFew
    <3> DEFINE P == Pending'
    <3>3. P \in SUBSET Tasks
      BY DEF Pending
    <3> HIDE DEF P
    <3>4. Cardinality(P) \in Nat /\ Cardinality(P) <= Cardinality(Tasks)
      BY <3>3, ConnectionsAssumption, FS_Subset, FS_CardinalityType
    <3>5. heals' = 0 /\ heals' + Cardinality(P) <= Cardinality(Tasks)
      BY <2>3, <3>2, <3>4, IdsAreFinite
    <3>6. QED
      BY <3>5 DEF HealsFew, P
  <2>4. QED
    BY <1>9, <2>1, <2>2, <2>3
<1>14. QED
  BY <1>8, <1>11, <1>13 DEF TasksInv

\* A task that has healed and writes it is one less that will.
LEMMA WriteKeeps ==
    ASSUME TasksInv, NEW t \in Tasks, Write(t)
    PROVE  TasksInv'
<1>1. PICK c \in Changed(job[t].how, confidence[job[t].sel]) :
          confidence' = [confidence EXCEPT ![job[t].sel] = c]
  BY DEF Write
<1>2. /\ t \notin Openers /\ conn' = [conn EXCEPT ![t] = NoConn] /\ At(t, {"write"})
      /\ UNCHANGED <<registered, generation, open, ready, closer, closes, failures, cancels, redesigned>>
      /\ job' = [job EXCEPT ![t] = Idle]
      /\ heals' = IF heals # None /\ job[t].how = "heal" /\ heals <= Cardinality(Tasks)
                  THEN heals + 1 ELSE heals
  BY DEF Write, Openers, Conns
<1>3. /\ confidence \in [Sels -> Levels \cup {None}]
      /\ redesigned \in BOOLEAN /\ heals \in (0..(Cardinality(Tasks) + 1)) \cup {None}
      /\ job \in [Tasks -> Job \cup {Idle}] /\ Cardinality(Tasks) \in Nat
  BY IdsAreFinite DEF TasksInv, JobsOK
<1>4. /\ job[t].sel \in Sels /\ job[t].how \in {"success", "failure", "heal", "train"}
      /\ job[t].how = "heal" => job[t].sel = Repaired
  BY <1>2, <1>3 DEF TasksInv, JobsOK, At, Job, Idle
<1>5. c \in Levels /\ c # None
  BY <1>3, <1>4, ChangedIsLevel
<1>6. confidence' \in [Sels -> Levels \cup {None}] /\ Stored' = Stored \cup {job[t].sel}
  BY <1>1, <1>3, <1>4, <1>5 DEF Stored
<1>7. heals' \in (0..(Cardinality(Tasks) + 1)) \cup {None}
  BY <1>2, <1>3
<1>8. Idle \in Job \cup {Idle} /\ Idle.stage = "idle" /\ NoConn.stage = "none"
  BY DEF Idle, NoConn
<1>9. FewInv' /\ NoConn \in Conn
  BY <1>2, TaskFew
<1>10. JobsOK'
  BY <1>2, <1>3, <1>6, <1>7, <1>8, <1>9, JobKeeps
<1>11. Pending' = Pending \ {t}
  BY <1>2, <1>3, <1>8 DEF Pending, At
<1>12. HealsFew'
  <2>1. CASE heals' = heals
    BY <1>6, <1>11, <2>1, HealsKeep DEF TasksInv
  <2>2. CASE heals # None /\ job[t].how = "heal" /\ heals' = heals + 1
    <3>1. t \in Pending /\ Repaired \in Stored'
      BY <1>2, <1>4, <1>6, <2>2 DEF Pending, At
    <3> DEFINE P == Pending
               n == Cardinality(P)
               m == Cardinality(P \ {t})
    <3>2. IsFiniteSet(P) /\ n \in Nat
      BY PendingIsFinite
    <3>3. t \in P
      BY <3>1
    <3> HIDE DEF P
    <3>4. IsFiniteSet(P \ {t}) /\ m = n - 1
      BY <3>2, <3>3, FS_RemoveElement
    <3>5. heals \in Nat /\ heals + n <= Cardinality(Tasks)
      BY <1>3, <2>2 DEF TasksInv, HealsFew, P
    <3> HIDE DEF n, m
    <3>6. (heals + 1) + m <= Cardinality(Tasks)
      BY <1>3, <3>2, <3>4, <3>5
    <3>7. QED
      BY <1>11, <2>2, <3>1, <3>6 DEF HealsFew, P, m
  <2>3. QED
    BY <1>2, <2>1, <2>2
<1>13. QED
  BY <1>9, <1>10, <1>12 DEF TasksInv

\* Decay keeps every row, and a redesign changes none.
LEMMA AgeingKeeps ==
    ASSUME TasksInv, Decay \/ Redesign
    PROVE  TasksInv'
<1>1. UNCHANGED <<cvars, job, heals>>
  BY DEF Decay, Redesign
<1>2. None \notin Levels
  BY StoreAssumption DEF Levels
<1>3. confidence \in [Sels -> Levels \cup {None}] /\ redesigned \in BOOLEAN
  BY DEF TasksInv, JobsOK
<1>4. /\ confidence' \in [Sels -> Levels \cup {None}] /\ redesigned' \in BOOLEAN
      /\ Stored' = Stored
  BY <1>2, <1>3 DEF Decay, Redesign, Stored
<1>5. FewInv'
  BY <1>1 DEF cvars, TasksInv, FewInv, ConnTypeOK, OpenersApart, LocksDropped, FewLeft, Lost, LeftBehind,
              Held, Openers, Registered, BeingClosed, Conns
<1>6. JobsOK'
  BY <1>1, <1>4 DEF cvars, TasksInv, JobsOK, At, Conns
<1>7. HealsFew'
  BY <1>1, <1>4 DEF TasksInv, HealsFew, Pending, At
<1>8. QED
  BY <1>5, <1>6, <1>7 DEF TasksInv

\* Nothing is open at first, nothing stored.
LEMMA TasksInit == Init => TasksInv
<1>1. SUFFICES ASSUME Init PROVE TasksInv
  OBVIOUS
<1>2. /\ MaxCloses \in Nat /\ MaxLosses \in Nat /\ Cardinality(Tasks) \in Nat
  BY IdsAreFinite
<1>3. /\ registered = 0 /\ generation = 0 /\ open = {} /\ ready = {} /\ closes = 0
      /\ failures = 0 /\ cancels = 0 /\ conn = [t \in Tasks |-> NoConn] /\ closer = [stage |-> "idle", id |-> 0]
      /\ confidence = [s \in Sels |-> None] /\ redesigned = FALSE
      /\ job = [t \in Tasks |-> Idle] /\ heals = 0
  BY <1>1 DEF Init, ConnInit
<1>4. ConnTypeOK
  <2>1. NoConn \in Conn
    BY <1>2 DEF NoConn, Conn
  <2>2. [stage |-> "idle", id |-> 0] \in Closer
    BY DEF Closer
  <2>3. QED
    BY <1>2, <1>3, <2>1, <2>2 DEF ConnTypeOK
<1>5. Openers = {} /\ Registered = {} /\ LeftBehind = {}
  BY <1>3 DEF Openers, Conns, NoConn, Registered, LeftBehind
<1>6. OpenersApart
  BY <1>3, <1>5 DEF OpenersApart, Conns, NoConn
<1>7. LocksDropped
  BY <1>3 DEF LocksDropped
<1>8. FewLeft
  BY <1>3, <1>5, FS_EmptySet DEF FewLeft, Lost
<1>9. JobsOK
  <2>1. \A t \in Tasks : At(t, {"idle", "lock"}) => Conns(t, {"none"})
    BY <1>3 DEF Conns, NoConn
  <2>2. \A t \in Tasks : ~At(t, {"lock", "write"})
    BY <1>3 DEF At, Idle
  <2>3. heals \in (0..(Cardinality(Tasks) + 1)) \cup {None}
    BY <1>2, <1>3
  <2>4. job \in [Tasks -> Job \cup {Idle}]
    BY <1>3
  <2>5. confidence \in [Sels -> Levels \cup {None}]
    BY <1>3
  <2>6. QED
    BY <1>3, <2>1, <2>2, <2>3, <2>4, <2>5 DEF JobsOK
<1>10. Pending = {}
  BY <1>3 DEF Pending, At, Idle
<1>11. HealsFew
  BY <1>2, <1>3, <1>10, FS_EmptySet DEF HealsFew
<1>12. QED
  BY <1>4, <1>6, <1>7, <1>8, <1>9, <1>11 DEF TasksInv, FewInv

\* Every step keeps the invariant.
LEMMA TasksStep == TasksInv /\ [Next]_vars => TasksInv'
<1>1. SUFFICES ASSUME TasksInv, [Next]_vars PROVE TasksInv'
  OBVIOUS
<1>2. CASE UNCHANGED vars
  BY <1>1, <1>2 DEF vars, cvars, svars, TasksInv, FewInv, ConnTypeOK, OpenersApart, LocksDropped,
                    FewLeft, Lost, LeftBehind, Held, Openers, Registered, BeingClosed, Conns, JobsOK, At,
                    HealsFew, Pending, Stored
<1>3. ASSUME NEW t \in Tasks,
             \/ ExtractBegins(t) \/ TrainBegins(t) \/ Proceed(t) \/ TakeParserLock(t)
             \/ Cancelled(t)
      PROVE  TasksInv'
  BY <1>1, <1>3, BeginKeeps, ConnectingKeeps, ExtractKeeps, WriteKeeps, FailsKeeps, ParserLockKeeps
     DEF Proceed
<1>4. ASSUME Closing, UNCHANGED svars
      PROVE  TasksInv'
  <2>1. FewInv'
    BY <1>1, <1>4, CloseBeginsFew, ClosedFew, DropLockFew DEF TasksInv, Closing
  <2>2. conn' = conn
    BY <1>4 DEF Closing, CloseBegins, Closed, DropLock
  <2>3. JobsOK' /\ HealsFew'
    BY <1>1, <1>4, <2>2 DEF svars, TasksInv, JobsOK, HealsFew, Pending, Stored, At, Conns
  <2>4. QED
    BY <2>1, <2>3 DEF TasksInv
<1>5. CASE Decay \/ Redesign
  BY <1>1, <1>5, AgeingKeeps
<1>6. QED
  BY <1>1, <1>2, <1>3, <1>4, <1>5 DEF Next

\* What is open is left behind, or somebody's.
LEMMA OpenIsFew ==
    ASSUME FewInv
    PROVE  OpenIsBounded
<1> DEFINE a == Cardinality(LeftBehind)
           h == Cardinality(Held)
           n == Cardinality(Openers)
           r == Cardinality(Registered)
           b == Cardinality(BeingClosed)
           q == Cardinality(open)
           p == closes * (closes - 1)
<1>1. /\ closes \in Nat /\ Lost \in Nat /\ generation \in Nat
      /\ generation = IF closer.stage = "idle" THEN closes ELSE closes - 1
  BY IdsAreFinite DEF FewInv, ConnTypeOK, LocksDropped, Lost
<1>2. /\ IsFiniteSet(open) /\ IsFiniteSet(LeftBehind) /\ IsFiniteSet(Registered)
      /\ IsFiniteSet(BeingClosed) /\ IsFiniteSet(Openers)
      /\ a \in Nat /\ n \in Nat /\ r \in Nat /\ b \in Nat
      /\ b = IF closer.stage = "closing" THEN 1 ELSE 0
  BY LeftIsFinite, OpenersFew, FS_CardinalityType DEF FewInv
<1>3. IsFiniteSet(Held) /\ h \in Nat /\ h <= n
  <2> DEFINE g == [t \in Openers |-> conn[t].id]
  <2>1. g \in [Openers -> Held] /\ \A x \in Held : \E t \in Openers : g[t] = x
    BY DEF Held
  <2>2. g \in Surjection(Openers, Held)
    BY <2>1 DEF Surjection
  <2> HIDE DEF g
  <2>3. QED
    BY <1>2, <2>2, FS_Surjection, FS_CardinalityType
<1>4. \A S, T : IsFiniteSet(S) /\ IsFiniteSet(T) =>
         /\ IsFiniteSet(S \cup T) /\ Cardinality(S \cup T) \in Nat
         /\ Cardinality(S \cup T) <= Cardinality(S) + Cardinality(T)
  <2>1. SUFFICES ASSUME NEW S, NEW T, IsFiniteSet(S), IsFiniteSet(T)
                 PROVE  /\ IsFiniteSet(S \cup T) /\ Cardinality(S \cup T) \in Nat
                        /\ Cardinality(S \cup T) <= Cardinality(S) + Cardinality(T)
    OBVIOUS
  <2>2. IsFiniteSet(S \cap T)
    BY <2>1, FS_Intersection
  <2>3. Cardinality(S \cap T) \in Nat /\ Cardinality(S) \in Nat /\ Cardinality(T) \in Nat
    BY <2>1, <2>2, FS_CardinalityType
  <2>4. /\ IsFiniteSet(S \cup T)
        /\ Cardinality(S \cup T) = Cardinality(S) + Cardinality(T) - Cardinality(S \cap T)
    BY <2>1, FS_Union
  <2>5. Cardinality(S \cup T) \in Nat
    BY <2>4, FS_CardinalityType
  <2>6. QED
    BY <2>3, <2>4, <2>5
<1> DEFINE K == LeftBehind \cup Held
           L == K \cup Registered
           M == L \cup BeingClosed
<1>5. IsFiniteSet(K) /\ Cardinality(K) \in Nat /\ Cardinality(K) <= a + h
  BY <1>2, <1>3, <1>4
<1>6. IsFiniteSet(L) /\ Cardinality(L) \in Nat /\ Cardinality(L) <= Cardinality(K) + r
  <2> HIDE DEF K
  <2>1. QED
    BY <1>2, <1>4, <1>5
<1>7. IsFiniteSet(M) /\ Cardinality(M) \in Nat /\ Cardinality(M) <= Cardinality(L) + b
  <2> HIDE DEF L
  <2>1. QED
    BY <1>2, <1>4, <1>6
<1>8. open \in SUBSET M
  BY DEF LeftBehind
<1>9. q \in Nat /\ q <= Cardinality(M)
  <2> HIDE DEF M
  <2>1. QED
    BY <1>7, <1>8, FS_Subset, FS_CardinalityType
<1>10. 2 * (a + n + r) <= p + 2 * (Lost + generation + 1)
  BY DEF FewInv, FewLeft
<1>11. p \in Int /\ closes * (closes + 1) = p + 2 * closes
  BY <1>1
<1>12. generation + b <= closes
  BY <1>1, <1>2
<1> HIDE DEF a, h, n, r, b, q, p, K, L, M
<1>13. 2 * q <= p + 2 * (Lost + generation + 1) + 2 * b
  BY <1>1, <1>2, <1>3, <1>5, <1>6, <1>7, <1>9, <1>10, <1>11
<1>14. 2 * q <= p + 2 * closes + 2 * Lost + 2
  BY <1>1, <1>2, <1>9, <1>11, <1>12, <1>13
<1> DEFINE s == closes * (closes + 1)
<1>15. s \in Int /\ 2 * q <= s + 2 * Lost + 2
  BY <1>1, <1>11, <1>14
<1> HIDE DEF s
<1>16. q <= 1 + (s \div 2) + Lost
  BY <1>1, <1>9, <1>15
<1>17. q <= 1 + (s \div 2) + failures + cancels
  <2>1. failures \in Nat /\ cancels \in Nat /\ s \div 2 \in Int
    BY <1>15 DEF FewInv, ConnTypeOK
  <2>2. QED
    BY <1>16, <2>1 DEF Lost
<1>18. QED
  BY <1>17 DEF OpenIsBounded, q, s

\* The connections that are open (db.py, _get_connection, close_all) are bounded
\* however the tasks that ask, the creations that fail or are cancelled and the
\* closes interleave: a creation that does not end leaves one behind, and a lock
\* that is dropped lets one opener more leave a connection behind for each close
\* that comes after it, and no task more.
THEOREM ConnectionsFew == Spec => []ConnectionsAreFew
<1>1. TasksInv => ConnectionsAreFew
  <2>1. SUFFICES ASSUME TasksInv PROVE ConnectionsAreFew
    OBVIOUS
  <2>2. FewInv /\ JobsOK
    BY <2>1 DEF TasksInv
  <2>3. OpenIsBounded
    BY <2>2, OpenIsFew
  <2>4. TypeOK
    BY <2>2 DEF FewInv, JobsOK, TypeOK
  <2>5. QED
    BY <2>3, <2>4 DEF ConnectionsAreFew
<1>2. QED
  BY <1>1, TasksInit, TasksStep, PTL DEF Spec

\* After a redesign (parser/adaptive.py, extract, _heal) the selector is healed at
\* most once by each task, whatever they interleave with: what is stored is found,
\* unless the limit leaves it out.
THEOREM HealingLearnt == Spec => []HealingIsLearnt
<1>1. TasksInv => HealingIsLearnt
  <2>1. SUFFICES ASSUME TasksInv, heals # None PROVE heals <= Cardinality(Tasks)
    BY DEF HealingIsLearnt
  <2>2. heals \in Nat /\ Cardinality(Tasks) \in Nat
    BY <2>1, IdsAreFinite DEF TasksInv, JobsOK
  <2>3. heals + Cardinality(Pending) <= Cardinality(Tasks) /\ Cardinality(Pending) \in Nat
    BY <2>1, PendingIsFinite DEF TasksInv, HealsFew
  <2>4. QED
    BY <2>2, <2>3
<1>2. QED
  BY <1>1, TasksInit, TasksStep, PTL DEF Spec

=============================================================================
