----------------------------- MODULE Connections -----------------------------
(***************************************************************************)
(* The connection registry (db.py) for one database and one event loop:    *)
(* selector_db() and crawl_db() hand out the one connection that is        *)
(* registered, which a task makes under a lock when there is none;         *)
(* close_all() closes it and drops the lock.  Tasks use the connection     *)
(* they were handed, which may be closed meanwhile, and are cancelled at   *)
(* any of their awaits; close_all() is not.                                *)
(***************************************************************************)
EXTENDS Integers, FiniteSets

CONSTANTS
    Tasks,
    MaxCloses,      \* bound on the calls of close_all()
    MaxLosses       \* bound on the creations that fail or are cancelled

ASSUME ConnectionsAssumption ==
    /\ IsFiniteSet(Tasks)
    /\ {MaxCloses, MaxLosses} \subseteq Nat

VARIABLES
    registered,     \* _connections: the connection, or 0
    generation,     \* of the lock in _conn_locks: how many were dropped before
    open, ready,    \* the connections that are open, those that have the schema
    conn,           \* conn[t]: where t is with its connection
    closer,         \* what close_all() is at: the connection it closes
    closes, failures, cancels

cvars == <<registered, generation, open, ready, conn, closer, closes, failures, cancels>>

\* Numbers enough for those that tasks have, those that closes, failures and
\* cancellations leave behind, the one that is registered and the one being closed.
ConnIds == 1..(Cardinality(Tasks) + MaxCloses * MaxCloses + MaxLosses + 2)

\* lock is the generation of the lock t waits for ("lock") or holds.
NoConn == [stage |-> "none", lock |-> 0, id |-> 0]
Conn == [stage : {"none", "lock", "connect", "schema", "has", "error"},
         lock : 0..MaxCloses, id : ConnIds \cup {0}]

Closer == [stage : {"idle", "closing", "drop"}, id : ConnIds \cup {0}]

ConnTypeOK ==
    /\ registered \in ConnIds \cup {0}
    /\ generation \in 0..MaxCloses
    /\ open \subseteq ConnIds /\ ready \subseteq open
    /\ conn \in [Tasks -> Conn]
    /\ closer \in Closer
    /\ closes \in 0..MaxCloses /\ failures \in Nat /\ cancels \in Nat
    /\ failures + cancels <= MaxLosses

ConnInit ==
    /\ registered = 0
    /\ generation = 0
    /\ open = {} /\ ready = {}
    /\ conn = [t \in Tasks |-> NoConn]
    /\ closer = [stage |-> "idle", id |-> 0]
    /\ closes = 0 /\ failures = 0 /\ cancels = 0

Conns(t, stages) == conn[t].stage \in stages
InUse == {conn[t].id : t \in Tasks} \cup {registered, closer.id} \cup open
NewId == CHOOSE c \in ConnIds \ InUse : \A d \in ConnIds \ InUse : c <= d

Has(c) == [stage |-> "has", lock |-> 0, id |-> c]

\* What conn[t] is when t asks for the connection: it has the registered one, or
\* waits for the lock.
Asked == IF registered # 0 THEN Has(registered)
                           ELSE [stage |-> "lock", lock |-> generation, id |-> 0]

\* Does the connection of t work?
Works(t) == conn[t].id \in ready

-----------------------------------------------------------------------------
(* _get_connection() *)

Free(l) == \A t \in Tasks : Conns(t, {"connect", "schema"}) => conn[t].lock # l

\* Mutant of TakeLoopLock: no second look under the lock.
TakeLoopLockBlindly(t) ==
    /\ Conns(t, {"lock"}) /\ Free(conn[t].lock)
    /\ conn' = [conn EXCEPT ![t].stage = "connect", ![t].id = NewId]
    /\ UNCHANGED <<registered, generation, open, ready, closer, closes, failures, cancels>>

TakeLoopLock(t) ==
    /\ Conns(t, {"lock"}) /\ Free(conn[t].lock)
    /\ conn' = [conn EXCEPT ![t] = IF registered # 0 THEN Has(registered)
                                   ELSE [stage |-> "connect", lock |-> @.lock, id |-> NewId]]
    /\ UNCHANGED <<registered, generation, open, ready, closer, closes, failures, cancels>>

\* Mutant of Connected: the connection is registered before it has the schema.
ConnectedEarly(t) ==
    /\ Conns(t, {"connect"})
    /\ open' = open \cup {conn[t].id}
    /\ registered' = conn[t].id
    /\ conn' = [conn EXCEPT ![t].stage = "schema"]
    /\ UNCHANGED <<generation, ready, closer, closes, failures, cancels>>

Connected(t) ==
    /\ Conns(t, {"connect"})
    /\ open' = open \cup {conn[t].id}
    /\ conn' = [conn EXCEPT ![t].stage = "schema"]
    /\ UNCHANGED <<registered, generation, ready, closer, closes, failures, cancels>>

\* The schema is there, the migrations are done: the connection is registered,
\* over one that another task has registered under a later lock.
Initialised(t) ==
    /\ Conns(t, {"schema"})
    /\ ready' = ready \cup {conn[t].id}
    /\ registered' = conn[t].id
    /\ conn' = [conn EXCEPT ![t] = Has(@.id)]
    /\ UNCHANGED <<generation, open, closer, closes, failures, cancels>>

\* Nothing is opened, or the script fails, or finds the database locked for all
\* its attempts: what was opened stays open.
CreationFails(t) ==
    /\ Conns(t, {"connect", "schema"})
    /\ failures + cancels < MaxLosses
    /\ failures' = failures + 1
    /\ conn' = [conn EXCEPT ![t] = [stage |-> "error", lock |-> 0, id |-> 0]]
    /\ UNCHANGED <<registered, generation, open, ready, closer, closes, cancels>>

\* t is cancelled: the connection it is making stays open and is never registered,
\* also that of a connect, whose thread goes on.
Abandoned(t) ==
    /\ IF Conns(t, {"connect", "schema"})
       THEN /\ failures + cancels < MaxLosses
            /\ cancels' = cancels + 1
            /\ open' = open \cup {conn[t].id}
       ELSE UNCHANGED <<open, cancels>>
    /\ conn' = [conn EXCEPT ![t] = NoConn]
    /\ UNCHANGED <<registered, generation, ready, closer, closes, failures>>

-----------------------------------------------------------------------------
(* close_all() *)

CloseBegins ==
    /\ closer.stage = "idle" /\ closes < MaxCloses
    /\ closes' = closes + 1
    /\ registered' = 0
    /\ closer' = [stage |-> IF registered # 0 THEN "closing" ELSE "drop", id |-> registered]
    /\ UNCHANGED <<generation, open, ready, conn, failures, cancels>>

Closed ==
    /\ closer.stage = "closing"
    /\ open' = open \ {closer.id} /\ ready' = ready \ {closer.id}
    /\ closer' = [closer EXCEPT !.stage = "drop"]
    /\ UNCHANGED <<registered, generation, conn, closes, failures, cancels>>

\* The lock is dropped, whoever holds it: the next to ask makes another.
DropLock ==
    /\ closer.stage = "drop"
    /\ generation' = generation + 1
    /\ closer' = [stage |-> "idle", id |-> 0]
    /\ UNCHANGED <<registered, open, ready, conn, closes, failures, cancels>>

Connecting(t) == TakeLoopLock(t) \/ Connected(t) \/ Initialised(t) \/ CreationFails(t)
Closing == CloseBegins \/ Closed \/ DropLock

-----------------------------------------------------------------------------
(* Properties *)

\* However many tasks ask at once, one connection is open, plus one for each
\* creation that failed or was cancelled and, for each close_all(), one and one
\* more for each lock that was dropped before it: the tasks that still wait for a
\* dropped lock take it when nothing is registered, and each opens a connection
\* of its own, as does the one with the latest lock.
OpenIsBounded ==
    Cardinality(open) <= 1 + (closes * (closes + 1)) \div 2 + failures + cancels

=============================================================================
