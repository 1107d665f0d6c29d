----------------------------- MODULE BrowserPool -----------------------------
(***************************************************************************)
(* The contexts of a BrowserFetcher (fetchers/browser.py): one browser,    *)
(* launched by the first fetch, a semaphore over the contexts in use, an   *)
(* anonymous pool of idle contexts and one pool for each sticky session,   *)
(* the least recently used of which is drained and dropped to make room.   *)
(* A worker is the crawler's (_browser_fetch_for) or a tool call of the    *)
(* MCP server; every await is a step of its own, so that the others run    *)
(* between any two of them.                                                *)
(*                                                                         *)
(* What the page does is an outcome: it returns, fails, or is stuck in a   *)
(* challenge. A context is the proxy it was made with, the fetches whose   *)
(* state it carries, and whether its last user failed to clear it; that it *)
(* is too old or has served max_requests_per_context is a choice.          *)
(***************************************************************************)
EXTENDS Integers, SequencesExt

CONSTANTS
    Workers,
    Requests,       \* what a worker may fetch: records of [domain, proxy, sticky]
    Direct,         \* the proxy of a request without one
    MaxContexts,    \* max_contexts
    MaxPools,       \* _max_session_pools
    Faults          \* subset of {"launch", "create", "script", "clear", "page",
                    \* "challenge", "cancel"}

ASSUME PoolAssumption ==
    /\ IsFiniteSet(Workers)
    /\ MaxContexts \in Nat \ {0} /\ MaxPools \in Nat \ {0}
    /\ \A r \in Requests :
          /\ r = [domain |-> r.domain, proxy |-> r.proxy, sticky |-> r.sticky]
          /\ r.sticky \in BOOLEAN

VARIABLES
    up,         \* is there a browser?
    permits,    \* _context_semaphore
    keyed,      \* _session_pools, the least recently used first
    pools,      \* the idle contexts of every pool, the oldest first
    job,        \* job[w]: the fetch of w
    lost,       \* history: is a context open that nobody refers to?
    excuse      \* history: has happened what may lose one?

vars == <<up, permits, keyed, pools, job, lost, excuse>>

make_session_key(r) == <<r.domain, r.proxy>>

\* Pools are numbered; a worker may hold on to one that has been dropped.
Anon == 0
PoolIds == 0..(MaxPools + Cardinality(Workers) + 1)

Context == [proxy : {r.proxy : r \in Requests}, state : SUBSET Requests, kept : BOOLEAN]
NewContext(r) == [proxy |-> r.proxy, state |-> {}, kept |-> FALSE]

Stage == {"lock", "launch", "evict", "permit", "retire", "create", "clear", "use", "close"}

\* req is the request, fresh whether force_fresh is set, again whether a
\* challenge that times out is tried once more; pool is the pool it uses, the
\* one it drains in the stage "evict"; ctx is the context it has.
Job == [stage : Stage, req : Requests, fresh : BOOLEAN, again : BOOLEAN,
        pool : PoolIds, ctx : Context]
Idle == [stage |-> "idle", pool |-> Anon]

TypeOK ==
    /\ up \in BOOLEAN
    /\ permits \in 0..MaxContexts
    /\ keyed \in Seq({make_session_key(r) : r \in Requests} \X PoolIds)
    /\ pools \in [PoolIds -> Seq(Context)]
    /\ job \in [Workers -> Job \cup {Idle}]
    /\ lost \in BOOLEAN /\ excuse \in BOOLEAN

Init ==
    /\ up = FALSE
    /\ permits = MaxContexts
    /\ keyed = <<>>
    /\ pools = [p \in PoolIds |-> <<>>]
    /\ job = [w \in Workers |-> Idle]
    /\ lost = FALSE
    /\ excuse = FALSE

At(w, stages) == job[w].stage \in stages

-----------------------------------------------------------------------------
(* Pools that nobody refers to are gone, and what is idle in them with them *)

Referred(k, j) ==
    {Anon} \cup {e[2] : e \in ToSet(k)} \cup {j[w].pool : w \in Workers}

\* The state becomes k, p, j; `spilled' says that an open context is let go of.
Become(k, p, j, spilled) ==
    LET kept == Referred(k, j)
    IN /\ keyed' = k
       /\ pools' = [i \in PoolIds |-> IF i \in kept THEN p[i] ELSE <<>>]
       /\ job' = j
       /\ lost' = (lost \/ spilled \/ \E i \in PoolIds \ kept : p[i] # <<>>)

\* Worker w is at stage s with the rest as it was.
Goes(w, s) == [job EXCEPT ![w].stage = s]

-----------------------------------------------------------------------------
(* _acquire_pool() *)

\* A new pool.
Number == CHOOSE p \in PoolIds : p \notin Referred(keyed, job)

\* Does a worker other than w use pool p?
InUse(w, p) == \E v \in Workers \ {w} : job[v].pool = p

\* The key gets a new pool; one that another worker made meanwhile is dropped.
StoreKey(k, x, p) ==
    IF \E e \in ToSet(k) : e[1] = x
    THEN [i \in DOMAIN k |-> IF k[i][1] = x THEN <<x, p>> ELSE k[i]]
    ELSE Append(k, <<x, p>>)

\* Mutant of NewPool: the cap is not looked at again after a drain.
NewPoolOnce(w, j) ==
    LET full == Len(keyed) >= MaxPools /\ job[w].stage # "evict"
        victim == Head(keyed)[2]
        k == IF full THEN Tail(keyed) ELSE keyed
    IN IF full /\ pools[victim] # <<>>
       THEN /\ Become(k, [pools EXCEPT ![victim] = Tail(@)],
                      [j EXCEPT ![w].stage = "evict", ![w].pool = victim], FALSE)
            /\ UNCHANGED excuse
       ELSE /\ Become(StoreKey(k, make_session_key(j[w].req), Number), pools,
                      [j EXCEPT ![w].stage = "permit", ![w].pool = Number], FALSE)
            /\ UNCHANGED excuse

\* Mutant of NewPool: the oldest pool is popped and not drained.
NewPoolUndrained(w, j) ==
    LET full == Len(keyed) >= MaxPools
        k == IF full THEN Tail(keyed) ELSE keyed
        x == make_session_key(j[w].req)
    IN /\ Become(StoreKey(k, x, Number), pools,
                 [j EXCEPT ![w].stage = "permit", ![w].pool = Number], FALSE)
       /\ excuse' = (\/ excuse
                     \/ full /\ InUse(w, Head(keyed)[2])
                     \/ \E e \in ToSet(k) : e[1] = x)

\* While the cap is reached the oldest pool is popped and drained: with
\* contexts in it w is suspended, without any it goes on at once.  Then the
\* key of w gets a pool, whether or not another worker has made one meanwhile.
NewPool(w, j) ==
    LET full == Len(keyed) >= MaxPools
        victim == Head(keyed)[2]
        k == IF full THEN Tail(keyed) ELSE keyed
        x == make_session_key(j[w].req)
    IN IF full /\ pools[victim] # <<>>
       THEN /\ Become(k, [pools EXCEPT ![victim] = Tail(@)],
                      [j EXCEPT ![w].stage = "evict", ![w].pool = victim], FALSE)
            /\ excuse' = (excuse \/ InUse(w, victim))
       ELSE /\ Become(StoreKey(k, x, Number), pools,
                      [j EXCEPT ![w].stage = "permit", ![w].pool = Number], FALSE)
            /\ excuse' = (\/ excuse
                          \/ full /\ InUse(w, victim)
                          \/ \E e \in ToSet(k) : e[1] = x)

\* With a browser up, w gets its pool: the anonymous one, that of its key,
\* which becomes the most recently used, or a new one.
AcquirePool(w, j) ==
    LET r == j[w].req
        x == make_session_key(r)
    IN \/ /\ ~r.sticky
          /\ Become(keyed, pools, [j EXCEPT ![w].stage = "permit", ![w].pool = Anon], FALSE)
          /\ UNCHANGED excuse
       \/ \E i \in DOMAIN keyed :
             /\ r.sticky /\ keyed[i][1] = x
             /\ Become(Append(RemoveAt(keyed, i), keyed[i]), pools,
                       [j EXCEPT ![w].stage = "permit", ![w].pool = keyed[i][2]], FALSE)
             /\ UNCHANGED excuse
       \/ /\ r.sticky /\ \A e \in ToSet(keyed) : e[1] # x
          /\ NewPool(w, j)

\* _drain_pool(): the next context, or on to the cap again.
Drain(w) ==
    LET p == job[w].pool
    IN /\ At(w, {"evict"})
       /\ \/ /\ pools[p] # <<>>
             /\ Become(keyed, [pools EXCEPT ![p] = Tail(@)], job, FALSE)
             /\ UNCHANGED excuse
          \/ /\ pools[p] = <<>>
             /\ NewPool(w, job)
       /\ UNCHANGED <<up, permits>>

-----------------------------------------------------------------------------
(* _ensure_browser() *)

\* A context is asked for.  fetch() asks a second time, for a fresh one.
Ask(w, j) ==
    \/ /\ up
       /\ AcquirePool(w, j)
    \/ /\ ~up
       /\ Become(keyed, pools, [j EXCEPT ![w].stage = "lock"], FALSE)
       /\ UNCHANGED excuse

\* A page is asked for; again says whether a challenge may be tried once more.
Begin(w, r, again) ==
    /\ job[w] = Idle
    /\ Ask(w, [job EXCEPT ![w] =
                  [stage |-> "lock", req |-> r, fresh |-> FALSE, again |-> again,
                   pool |-> Anon, ctx |-> NewContext(r)]])
    /\ UNCHANGED <<up, permits>>

fetch(w, r) == Begin(w, r, TRUE)

\* screenshot() knows no sessions and does not try again.
screenshot(w, r) ==
    /\ ~r.sticky
    /\ Begin(w, r, FALSE)

Locked == \E v \in Workers : At(v, {"launch"})

\* Mutant of TakeLock: the browser is not looked for again under the lock.
TakeLockBlindly(w) ==
    /\ At(w, {"lock"}) /\ ~Locked
    /\ job' = Goes(w, "launch")
    /\ UNCHANGED <<up, permits, keyed, pools, lost, excuse>>

TakeLock(w) ==
    /\ At(w, {"lock"}) /\ ~Locked
    /\ \/ /\ up
          /\ AcquirePool(w, job)
       \/ /\ ~up
          /\ Become(keyed, pools, Goes(w, "launch"), FALSE)
          /\ UNCHANGED excuse
    /\ UNCHANGED <<up, permits>>

\* The browser is up, with a new semaphore and a new anonymous pool.
Launched(w) ==
    /\ At(w, {"launch"})
    /\ up' = TRUE
    /\ permits' = MaxContexts
    /\ AcquirePool(w, job)

LaunchFails(w) ==
    /\ "launch" \in Faults
    /\ At(w, {"launch"})
    /\ Become(keyed, pools, [job EXCEPT ![w] = Idle], FALSE)
    /\ UNCHANGED <<up, permits, excuse>>

-----------------------------------------------------------------------------
(* _get_context(), with a permit *)

Reuses(w) == ~job[w].fresh /\ (job[w].req.sticky \/ job[w].req.proxy = Direct)

\* Mutant of Ready: a reused context is not cleared.
ReadyUncleared(r) == "use"

\* A sticky session keeps its state, any other context is cleared first.
Ready(r) == IF r.sticky THEN "use" ELSE "clear"

\* An idle context of the pool is taken, or retired for its age or its uses,
\* or there is none to take.
Acquire(w) ==
    LET p == job[w].pool
        c == Head(pools[p])
        idle == Reuses(w) /\ pools[p] # <<>>
    IN /\ At(w, {"permit"}) /\ permits > 0
       /\ permits' = permits - 1
       /\ \/ /\ idle
             /\ Become(keyed, [pools EXCEPT ![p] = Tail(@)],
                       [job EXCEPT ![w].stage = Ready(job[w].req), ![w].ctx = c], FALSE)
          \/ /\ idle
             /\ Become(keyed, [pools EXCEPT ![p] = Tail(@)], Goes(w, "retire"), FALSE)
          \/ /\ ~idle
             /\ Become(keyed, pools, Goes(w, "create"), FALSE)
       /\ UNCHANGED <<up, excuse>>

Retired(w) ==
    /\ At(w, {"retire"})
    /\ Become(keyed, pools, Goes(w, "create"), FALSE)
    /\ UNCHANGED <<up, permits, excuse>>

\* new_context() and the init scripts.
Created(w) ==
    LET r == job[w].req
    IN /\ At(w, {"create"})
       /\ Become(keyed, pools,
                 [job EXCEPT ![w].stage = Ready(r),
                             ![w].ctx = NewContext(r)], FALSE)
       /\ UNCHANGED <<up, permits, excuse>>

\* Mutant of GiveUp: the permit is not given back.
GiveUpKeeping(w, spilled) ==
    /\ Become(keyed, pools, [job EXCEPT ![w] = Idle], spilled)
    /\ UNCHANGED permits

\* The fetch ends without a context, an open one lost if `spilled'.
GiveUp(w, spilled) ==
    /\ Become(keyed, pools, [job EXCEPT ![w] = Idle], spilled)
    /\ permits' = permits + 1

\* close() or new_context() raises, or an init script does, when the context
\* exists.
CreateFails(w) ==
    /\ \/ "create" \in Faults /\ At(w, {"retire", "create"}) /\ GiveUp(w, FALSE) /\ UNCHANGED excuse
       \/ "script" \in Faults /\ At(w, {"create"}) /\ GiveUp(w, TRUE) /\ excuse' = TRUE
    /\ UNCHANGED up

Cleared(w) ==
    /\ At(w, {"clear"})
    /\ Become(keyed, pools, [job EXCEPT ![w].stage = "use", ![w].ctx.state = {}], FALSE)
    /\ UNCHANGED <<up, permits, excuse>>

\* clear_cookies() raises, which gather() keeps to itself: the page is opened in
\* the context as it was.
ClearFails(w) ==
    /\ "clear" \in Faults
    /\ At(w, {"clear"})
    /\ Become(keyed, pools, [job EXCEPT ![w].stage = "use", ![w].ctx.kept = TRUE], FALSE)
    /\ UNCHANGED <<up, permits, excuse>>

-----------------------------------------------------------------------------
(* The page, and the context's way back *)

Used(w) == [job[w].ctx EXCEPT !.state = @ \cup {job[w].req}, !.kept = FALSE]

\* Does the context of w go back into its pool?  (The condition of the
\* checkout, written once more.)
Pooled(w) == ~job[w].fresh /\ (job[w].req.sticky \/ job[w].req.proxy = Direct)

\* The fetch returns, or is cancelled: that is no Exception and does not
\* poison the context.  A full pool closes it.
Return(w) ==
    LET p == job[w].pool
    IN /\ At(w, {"use"})
       /\ \/ /\ Pooled(w)
             /\ Become(keyed, [pools EXCEPT ![p] = IF Len(@) < MaxContexts
                                                   THEN Append(@, Used(w)) ELSE @],
                       [job EXCEPT ![w] = Idle], FALSE)
             /\ permits' = permits + 1
          \/ /\ ~Pooled(w)
             /\ Become(keyed, pools, [job EXCEPT ![w].stage = "close", ![w].again = FALSE], FALSE)
             /\ UNCHANGED permits
       /\ UNCHANGED <<up, excuse>>

\* An exception closes the context: navigation or a required action fails.
PageFails(w) ==
    /\ "page" \in Faults
    /\ At(w, {"use"})
    /\ Become(keyed, pools, [job EXCEPT ![w].stage = "close", ![w].again = FALSE], FALSE)
    /\ UNCHANGED <<up, permits, excuse>>

\* So does a challenge that is not solved in time, or makes no progress; it is
\* tried once more afterwards.
ChallengeTimesOut(w) ==
    /\ "challenge" \in Faults
    /\ At(w, {"use"})
    /\ Become(keyed, pools, Goes(w, "close"), FALSE)
    /\ UNCHANGED <<up, permits, excuse>>

\* The context is closed, and the permit given back.
Closed(w) ==
    /\ At(w, {"close"})
    /\ permits' = permits + 1
    /\ \/ /\ ~job[w].again
          /\ Become(keyed, pools, [job EXCEPT ![w] = Idle], FALSE)
          /\ UNCHANGED excuse
       \/ /\ job[w].again
          /\ Ask(w, [job EXCEPT ![w].fresh = TRUE, ![w].again = FALSE, ![w].pool = Anon])
    /\ UNCHANGED up

\* The worker's timeout at one of the other awaits: the contexts of a pool
\* that is being drained, and one that is being made or cleared, stay open.
Cancel(w) ==
    /\ "cancel" \in Faults
    /\ \/ /\ At(w, {"lock", "launch", "evict", "permit"})
          /\ Become(keyed, pools, [job EXCEPT ![w] = Idle], FALSE)
          /\ UNCHANGED permits
       \/ /\ At(w, {"retire", "create", "clear", "close"})
          /\ GiveUp(w, At(w, {"create", "clear"}))
    /\ excuse' = (excuse \/ At(w, {"evict", "create", "clear"}))
    /\ UNCHANGED up

\* close(): the crawler calls it when its workers have ended, the server when
\* it stops.  The browser takes with it whatever is open.
Close ==
    /\ up
    /\ \A w \in Workers : job[w] = Idle
    /\ up' = FALSE
    /\ keyed' = <<>>
    /\ pools' = [p \in PoolIds |-> <<>>]
    /\ lost' = FALSE
    /\ excuse' = FALSE
    /\ UNCHANGED <<permits, job>>

Proceed(w) ==
    \/ Drain(w) \/ Launched(w) \/ LaunchFails(w)
    \/ Retired(w) \/ Created(w) \/ CreateFails(w) \/ Cleared(w) \/ ClearFails(w)
    \/ Return(w) \/ PageFails(w) \/ ChallengeTimesOut(w) \/ Closed(w)

Next ==
    \/ Close
    \/ \E w \in Workers :
          \/ \E r \in Requests : fetch(w, r) \/ screenshot(w, r)
          \/ Proceed(w) \/ TakeLock(w) \/ Acquire(w) \/ Cancel(w)

Spec == Init /\ [][Next]_vars

\* A browser call, a page and a challenge have timeouts; asyncio's lock and
\* semaphore serve their waiters in order.
Fairness ==
    \A w \in Workers :
        /\ WF_vars(Proceed(w))
        /\ SF_vars(TakeLock(w)) /\ SF_vars(Acquire(w))

FairSpec == Spec /\ Fairness

-----------------------------------------------------------------------------
(* Properties *)

Holding(w) == At(w, {"retire", "create", "clear", "use", "close"})
Users(p) == {w \in Workers : Holding(w) /\ job[w].pool = p /\ Pooled(w)}

\* The cap on session pools holds at every moment, although workers are
\* suspended between making room and taking it: the loop looks again after
\* each drain, and nothing is awaited between its last look and the insertion.
\* And the idle contexts of a pool and those its users have taken are no more
\* than max_contexts together, so that put_nowait() never finds a pool full.
PoolsBounded ==
    /\ TypeOK
    /\ Len(keyed) <= MaxPools
    /\ \A p \in PoolIds : Len(pools[p]) + Cardinality(Users(p)) <= MaxContexts

\* No more contexts are in use than there are permits, and no permit is lost:
\* not by an exception, a cancellation or a second worker that waits to launch
\* the browser and would replace the semaphore.
PermitsAreExact == permits + Cardinality({w \in Workers : Holding(w)}) = MaxContexts

\* A page is opened in a context made for its own proxy.  In a session it finds the
\* cookies of its session only; outside it finds none, unless clearing the context
\* failed, and then only those of other pages outside, never those of a session.
IdentityIsKept ==
    \A w \in Workers : At(w, {"use"}) =>
        LET r == job[w].req
            c == job[w].ctx
        IN /\ c.proxy = r.proxy
           /\ r.sticky => c.state \subseteq {r}
           /\ ~r.sticky => /\ c.kept \/ c.state = {}
                           /\ \A a \in c.state : ~a.sticky /\ a.proxy = r.proxy

\* An open context drops out of sight only when its pool is dropped under a
\* user or made twice, an init script raises, or a worker is cancelled while
\* it drains, creates or clears: not by retirement, eviction of an unused
\* pool, a page that fails or a challenge that is tried again.
LostIsExcused == lost => excuse

\* A worker that waits for a permit gets one, whatever becomes of the others.
PermitIsGranted == \A w \in Workers : At(w, {"permit"}) ~> ~At(w, {"permit"})

=============================================================================
