----------------------------- MODULE PoolProofs -----------------------------
(***************************************************************************)
(* Theorems about BrowserPool, for any finite set of workers.              *)
(***************************************************************************)
EXTENDS BrowserPool, FiniteSetTheorems, SequenceTheorems, TLAPS

\* The stages with a permit.
Held == {"retire", "create", "clear", "use", "close"}

Holders == {w \in Workers : Holding(w)}

\* j says of every worker at which stage it is.
Staged(j) == j = [v \in Workers |-> j[v]] /\ \A v \in Workers : "stage" \in DOMAIN j[v]

\* Inductive: the workers between the launch and the permit are there only
\* while there is a browser, the one that launches it while there is none, so
\* that the semaphore is never replaced under a holder.
PermitInv ==
    /\ permits \in Nat
    /\ Staged(job)
    /\ PermitsAreExact
    /\ \A w \in Workers : job[w].stage \in {"evict", "permit"} \cup Held => up
    /\ \A w \in Workers : job[w].stage = "launch" => ~up
    /\ \A v, w \in Workers : job[v].stage = "launch" /\ job[w].stage = "launch" => v = w

-----------------------------------------------------------------------------
(* Worker w goes to stage s *)

Moves(j, w, s) ==
    /\ Staged(job')
    /\ \A v \in Workers : job'[v].stage = IF v = w THEN s ELSE j[v].stage

\* Setting the stage of a worker in its record moves it.
LEMMA StageMoves ==
    ASSUME NEW j, Staged(j), NEW w \in Workers, NEW s,
           job' = [j EXCEPT ![w].stage = s]
    PROVE  Moves(j, w, s)
BY DEF Moves, Staged

\* Setting its pool too.
LEMMA StagePoolMoves ==
    ASSUME NEW j, Staged(j), NEW w \in Workers, NEW s, NEW p,
           job' = [j EXCEPT ![w].stage = s, ![w].pool = p]
    PROVE  Moves(j, w, s)
BY DEF Moves, Staged

\* Setting its context too.
LEMMA StageContextMoves ==
    ASSUME NEW j, Staged(j), NEW w \in Workers, NEW s, NEW c,
           job' = [j EXCEPT ![w].stage = s, ![w].ctx = c]
    PROVE  Moves(j, w, s)
BY DEF Moves, Staged

\* A worker becomes idle.
LEMMA IdleMoves ==
    ASSUME Staged(job), NEW w \in Workers, job' = [job EXCEPT ![w] = Idle]
    PROVE  Moves(job, w, "idle")
BY DEF Moves, Staged, Idle

-----------------------------------------------------------------------------
(* The count of permits *)

\* A worker that goes from one stage without a permit to another, or from one
\* with a permit to another, keeps the count.
LEMMA CountStays ==
    ASSUME PermitInv, NEW w \in Workers, NEW s, Moves(job, w, s),
           (s \in Held) = (job[w].stage \in Held), UNCHANGED permits
    PROVE  PermitsAreExact'
<1>1. \A v \in Workers : Holding(v)' <=> Holding(v)
  BY DEF Moves, Holding, At, Held
<1>2. QED
  BY <1>1 DEF PermitInv, PermitsAreExact

\* One that takes a permit takes one from the semaphore.
LEMMA CountTaken ==
    ASSUME PermitInv, NEW w \in Workers, NEW s, Moves(job, w, s),
           s \in Held, job[w].stage \notin Held, permits' = permits - 1
    PROVE  PermitsAreExact'
<1>1. Holders' = Holders \cup {w} /\ w \notin Holders
  BY DEF Moves, Holding, At, Held, Holders
<1>2. IsFiniteSet(Holders)
  BY PoolAssumption, FS_Subset DEF Holders
<1>3. Cardinality(Holders') = Cardinality(Holders) + 1 /\ Cardinality(Holders) \in Nat
  BY <1>1, <1>2, FS_AddElement, FS_CardinalityType
<1>4. QED
  BY <1>3 DEF PermitInv, PermitsAreExact, Holders

\* One that gives its permit back gives one back.
LEMMA CountGiven ==
    ASSUME PermitInv, NEW w \in Workers, NEW s, Moves(job, w, s),
           s \notin Held, job[w].stage \in Held, permits' = permits + 1
    PROVE  PermitsAreExact'
<1>1. Holders' = Holders \ {w} /\ w \in Holders
  BY DEF Moves, Holding, At, Held, Holders
<1>2. IsFiniteSet(Holders)
  BY PoolAssumption, FS_Subset DEF Holders
<1>3. Cardinality(Holders') = Cardinality(Holders) - 1 /\ Cardinality(Holders) \in Nat
  BY <1>1, <1>2, FS_RemoveElement, FS_CardinalityType
<1>4. QED
  BY <1>3 DEF PermitInv, PermitsAreExact, Holders

-----------------------------------------------------------------------------
(* Steps that move one worker *)

\* A worker moves among the stages without a permit: to the launch only while
\* there is no browser and no one else launches it, beyond it only while there
\* is one.
LEMMA OutsideKeeps ==
    ASSUME PermitInv, NEW w \in Workers, NEW s, Moves(job, w, s),
           job[w].stage \notin Held, s \notin Held,
           s \in {"evict", "permit"} => up,
           s = "launch" => ~up /\ ~Locked,
           UNCHANGED <<permits, up>>
    PROVE  PermitInv'
<1>1. PermitsAreExact'
  BY CountStays
<1>2. QED
  BY <1>1 DEF PermitInv, Moves, Held, Locked, At

\* A worker with a permit moves among the stages with one.
LEMMA InsideKeeps ==
    ASSUME PermitInv, NEW w \in Workers, NEW s, Moves(job, w, s),
           job[w].stage \in Held, s \in Held,
           UNCHANGED <<permits, up>>
    PROVE  PermitInv'
<1>1. PermitsAreExact'
  BY CountStays
<1>2. QED
  BY <1>1 DEF PermitInv, Moves, Held

\* A worker that waits for a permit takes one.
LEMMA TakenKeeps ==
    ASSUME PermitInv, NEW w \in Workers, NEW s, Moves(job, w, s),
           job[w].stage = "permit", s \in Held,
           permits > 0, permits' = permits - 1, UNCHANGED up
    PROVE  PermitInv'
<1>1. PermitsAreExact'
  BY CountTaken DEF Held
<1>2. QED
  BY <1>1 DEF PermitInv, Moves, Held

\* A worker gives its permit back.
LEMMA GivenKeeps ==
    ASSUME PermitInv, NEW w \in Workers, NEW s, Moves(job, w, s),
           job[w].stage \in Held, s \in {"idle", "lock", "evict", "permit"},
           permits' = permits + 1, UNCHANGED up
    PROVE  PermitInv'
<1>1. PermitsAreExact'
  BY CountGiven DEF Held
<1>2. QED
  BY <1>1 DEF PermitInv, Moves, Held

-----------------------------------------------------------------------------
(* Where the operators send a worker *)

\* Getting a pool leads to a drain or to the semaphore.
LEMMA AcquirePoolMoves ==
    ASSUME NEW j, Staged(j), NEW w \in Workers, AcquirePool(w, j)
    PROVE  \E s \in {"evict", "permit"} : Moves(j, w, s)
<1>1. \E s \in {"evict", "permit"} : \E p : job' = [j EXCEPT ![w].stage = s, ![w].pool = p]
  BY DEF AcquirePool, NewPool, Become
<1>2. QED
  BY <1>1, StagePoolMoves

\* Asking for a context leads there too, or to the lock when there is no browser.
LEMMA AskMoves ==
    ASSUME NEW j, Staged(j), NEW w \in Workers, Ask(w, j)
    PROVE  \E s \in {"lock", "evict", "permit"} :
              Moves(j, w, s) /\ (s # "lock" => up)
<1>1. CASE up /\ AcquirePool(w, j)
  BY <1>1, AcquirePoolMoves
<1>2. CASE job' = [j EXCEPT ![w].stage = "lock"]
  BY <1>2, StageMoves
<1>3. QED
  BY <1>1, <1>2 DEF Ask, Become

\* A record that differs from job in w only moves w from where job has it.
LEMMA MovesFrom ==
    ASSUME NEW w \in Workers, NEW j, NEW s, Moves(j, w, s),
           \A v \in Workers \ {w} : j[v] = job[v]
    PROVE  Moves(job, w, s)
BY DEF Moves

-----------------------------------------------------------------------------
(* The actions *)

\* Asking for a page keeps the invariant.
LEMMA BeginKeeps ==
    ASSUME PermitInv, NEW w \in Workers, NEW r, fetch(w, r) \/ screenshot(w, r)
    PROVE  PermitInv'
<1>1. PICK again : Begin(w, r, again)
  BY DEF fetch, screenshot
<1> DEFINE j == [job EXCEPT ![w] =
                    [stage |-> "lock", req |-> r, fresh |-> FALSE, again |-> again,
                     pool |-> Anon, ctx |-> NewContext(r)]]
<1>2. Staged(j) /\ \A v \in Workers \ {w} : j[v] = job[v]
  BY DEF PermitInv, Staged
<1>3. Ask(w, j) /\ job[w].stage = "idle" /\ UNCHANGED <<up, permits>>
  BY <1>1 DEF Begin, Idle
<1> HIDE DEF j
<1>4. PICK s \in {"lock", "evict", "permit"} : Moves(j, w, s) /\ (s # "lock" => up)
  BY <1>2, <1>3, AskMoves
<1>5. Moves(job, w, s)
  BY <1>2, <1>4, MovesFrom
<1>6. QED
  BY <1>3, <1>4, <1>5, OutsideKeeps DEF Held

\* Draining the oldest pool does.
LEMMA DrainKeeps ==
    ASSUME PermitInv, NEW w \in Workers, Drain(w)
    PROVE  PermitInv'
<1>1. up /\ job[w].stage = "evict" /\ UNCHANGED <<up, permits>>
  BY DEF Drain, At, PermitInv
<1>2. CASE job' = job
  BY <1>1, <1>2 DEF PermitInv, PermitsAreExact, Holding, At
<1>3. CASE NewPool(w, job)
  <2>1. \E s \in {"evict", "permit"} : \E p : job' = [job EXCEPT ![w].stage = s, ![w].pool = p]
    BY <1>3 DEF NewPool, Become
  <2>2. PICK s \in {"evict", "permit"} : Moves(job, w, s)
    BY <2>1, StagePoolMoves DEF PermitInv
  <2>3. QED
    BY <1>1, <2>2, OutsideKeeps DEF Held
<1>4. QED
  BY <1>2, <1>3 DEF Drain, Become

\* Taking the lock of the launch does.
LEMMA TakeLockKeeps ==
    ASSUME PermitInv, NEW w \in Workers, TakeLock(w)
    PROVE  PermitInv'
<1>1. job[w].stage = "lock" /\ ~Locked /\ UNCHANGED <<up, permits>>
  BY DEF TakeLock, At
<1>2. CASE up /\ AcquirePool(w, job)
  <2>1. PICK s \in {"evict", "permit"} : Moves(job, w, s)
    BY <1>2, AcquirePoolMoves DEF PermitInv
  <2>2. QED
    BY <1>1, <1>2, <2>1, OutsideKeeps DEF Held
<1>3. CASE ~up /\ job' = Goes(w, "launch")
  <2>1. Moves(job, w, "launch")
    BY <1>3, StageMoves DEF Goes, PermitInv
  <2>2. QED
    BY <1>1, <1>3, <2>1, OutsideKeeps DEF Held
<1>4. QED
  BY <1>2, <1>3 DEF TakeLock, Become

\* The launch does: nobody holds a permit of the semaphore that is replaced.
LEMMA LaunchedKeeps ==
    ASSUME PermitInv, NEW w \in Workers, Launched(w)
    PROVE  PermitInv'
<1>1. job[w].stage = "launch" /\ ~up /\ up' /\ permits' = MaxContexts
  BY DEF Launched, At, PermitInv
<1>2. PICK s \in {"evict", "permit"} : Moves(job, w, s)
  BY AcquirePoolMoves DEF Launched, PermitInv
<1>3. \A v \in Workers : job[v].stage \notin Held
  BY <1>1 DEF PermitInv
<1>4. \A v \in Workers : ~Holding(v)'
  BY <1>2, <1>3 DEF Moves, Holding, At, Held
<1>5. PermitsAreExact'
  <2>1. {v \in Workers : Holding(v)'} = {}
    BY <1>4
  <2>2. Cardinality({v \in Workers : Holding(v)})' = 0
    BY <2>1, FS_EmptySet
  <2>3. MaxContexts \in Nat
    BY PoolAssumption
  <2>4. QED
    BY <1>1, <2>2, <2>3 DEF PermitsAreExact
<1>6. \A v \in Workers : job'[v].stage # "launch"
  BY <1>1, <1>2 DEF Moves, PermitInv
<1>7. QED
  BY <1>1, <1>2, <1>5, <1>6, PoolAssumption DEF PermitInv, Moves

\* Steps that leave a worker without a permit where it has none, idle, do.
LEMMA LaunchFailsKeeps ==
    ASSUME PermitInv, NEW w \in Workers, LaunchFails(w)
    PROVE  PermitInv'
<1>1. Moves(job, w, "idle")
  BY IdleMoves DEF LaunchFails, Become, PermitInv
<1>2. QED
  BY <1>1, OutsideKeeps DEF LaunchFails, At, Held

\* Taking a permit does.
LEMMA AcquireKeeps ==
    ASSUME PermitInv, NEW w \in Workers, Acquire(w)
    PROVE  PermitInv'
<1>1. job[w].stage = "permit" /\ permits > 0 /\ permits' = permits - 1 /\ UNCHANGED up
  BY DEF Acquire, At
<1>2. \E s \in Held : Moves(job, w, s)
  <2>1. ASSUME NEW c, job' = [job EXCEPT ![w].stage = Ready(job[w].req), ![w].ctx = c]
        PROVE  \E s \in Held : Moves(job, w, s)
    <3>1. Ready(job[w].req) \in Held
      BY DEF Ready, Held
    <3>2. QED
      BY <2>1, <3>1, StageContextMoves DEF PermitInv
  <2>2. ASSUME NEW s \in Held, job' = Goes(w, s)
        PROVE  Moves(job, w, s)
    BY <2>2, StageMoves DEF Goes, PermitInv
  <2>3. QED
    BY <2>1, <2>2 DEF Acquire, Become, Held
<1>3. QED
  BY <1>1, <1>2, TakenKeeps

\* Making and clearing a context does, and using it up to its close.
LEMMA UseKeeps ==
    ASSUME PermitInv, NEW w \in Workers,
           Retired(w) \/ Created(w) \/ Cleared(w) \/ ClearFails(w) \/ PageFails(w) \/ ChallengeTimesOut(w)
    PROVE  PermitInv'
<1>1. job[w].stage \in Held /\ UNCHANGED <<permits, up>>
  BY DEF Retired, Created, Cleared, ClearFails, PageFails, ChallengeTimesOut, At, Held
<1>2. \E s \in Held : Moves(job, w, s)
  <2>1. CASE Retired(w) \/ ChallengeTimesOut(w)
    BY <2>1, StageMoves DEF Retired, ChallengeTimesOut, Become, Goes, PermitInv, Held
  <2>2. CASE Created(w)
    <3>1. Ready(job[w].req) \in Held
      BY DEF Ready, Held
    <3>2. QED
      BY <2>2, <3>1, StageContextMoves DEF Created, Become, PermitInv
  <2>3. CASE Cleared(w) \/ ClearFails(w)
    <3>1. \/ job' = [job EXCEPT ![w].stage = "use", ![w].ctx.state = {}]
          \/ job' = [job EXCEPT ![w].stage = "use", ![w].ctx.kept = TRUE]
      BY <2>3 DEF Cleared, ClearFails, Become
    <3>2. Moves(job, w, "use")
      BY <3>1 DEF Moves, PermitInv, Staged
    <3>3. QED
      BY <3>2 DEF Held
  <2>4. CASE PageFails(w)
    <3>1. job' = [job EXCEPT ![w].stage = "close", ![w].again = FALSE]
      BY <2>4 DEF PageFails, Become
    <3>2. Moves(job, w, "close")
      BY <3>1 DEF Moves, PermitInv, Staged
    <3>3. QED
      BY <3>2 DEF Held
  <2>5. QED
    BY <2>1, <2>2, <2>3, <2>4
<1>3. QED
  BY <1>1, <1>2, InsideKeeps

\* Giving a permit back without a context does.
LEMMA GiveUpKeeps ==
    ASSUME PermitInv, NEW w \in Workers, NEW spilled, GiveUp(w, spilled),
           job[w].stage \in Held, UNCHANGED up
    PROVE  PermitInv'
<1>1. Moves(job, w, "idle") /\ permits' = permits + 1
  BY IdleMoves DEF GiveUp, Become, PermitInv
<1>2. QED
  BY <1>1, GivenKeeps

\* Returning does, whether the context is pooled or has to be closed.
LEMMA ReturnKeeps ==
    ASSUME PermitInv, NEW w \in Workers, Return(w)
    PROVE  PermitInv'
<1>1. job[w].stage \in Held /\ UNCHANGED up
  BY DEF Return, At, Held
<1>2. CASE job' = [job EXCEPT ![w] = Idle] /\ permits' = permits + 1
  BY <1>1, <1>2, IdleMoves, GivenKeeps DEF PermitInv
<1>3. CASE job' = [job EXCEPT ![w].stage = "close", ![w].again = FALSE] /\ UNCHANGED permits
  <2>1. Moves(job, w, "close")
    BY <1>3 DEF Moves, PermitInv, Staged
  <2>2. QED
    BY <1>1, <1>3, <2>1, InsideKeeps DEF Held
<1>4. QED
  BY <1>2, <1>3 DEF Return, Become

\* Closing a context does, also when the page is tried once more.
LEMMA ClosedKeeps ==
    ASSUME PermitInv, NEW w \in Workers, Closed(w)
    PROVE  PermitInv'
<1>1. job[w].stage = "close" /\ permits' = permits + 1 /\ UNCHANGED up
  BY DEF Closed, At
<1>2. CASE job' = [job EXCEPT ![w] = Idle]
  BY <1>1, <1>2, IdleMoves, GivenKeeps DEF PermitInv, Held
<1>3. CASE Ask(w, [job EXCEPT ![w].fresh = TRUE, ![w].again = FALSE, ![w].pool = Anon])
  <2> DEFINE j == [job EXCEPT ![w].fresh = TRUE, ![w].again = FALSE, ![w].pool = Anon]
  <2>1. Staged(j) /\ \A v \in Workers \ {w} : j[v] = job[v]
    BY DEF PermitInv, Staged
  <2>2. Ask(w, j)
    BY <1>3
  <2> HIDE DEF j
  <2>3. PICK s \in {"lock", "evict", "permit"} : Moves(j, w, s)
    BY <2>1, <2>2, AskMoves
  <2>4. Moves(job, w, s)
    BY <2>1, <2>3, MovesFrom
  <2>5. QED
    BY <1>1, <2>4, GivenKeeps DEF Held
<1>4. QED
  BY <1>2, <1>3 DEF Closed, Become

\* Cancelling a worker does, at any await but one of the page.
LEMMA CancelKeeps ==
    ASSUME PermitInv, NEW w \in Workers, Cancel(w)
    PROVE  PermitInv'
<1>1. CASE /\ At(w, {"lock", "launch", "evict", "permit"})
           /\ job' = [job EXCEPT ![w] = Idle] /\ UNCHANGED <<permits, up>>
  <2>1. Moves(job, w, "idle")
    BY <1>1, IdleMoves DEF PermitInv
  <2>2. QED
    BY <1>1, <2>1, OutsideKeeps DEF At, Held
<1>2. CASE At(w, Held) /\ GiveUp(w, At(w, {"create", "clear"})) /\ UNCHANGED up
  BY <1>2, GiveUpKeeps DEF At
<1>3. QED
  <2>1. At(w, {"retire", "create", "clear", "close"}) => At(w, Held)
    BY DEF At, Held
  <2>2. QED
    BY <1>1, <1>2, <2>1 DEF Cancel, Become

\* Closing the browser does: no worker is under way.
LEMMA CloseKeeps ==
    ASSUME PermitInv, Close
    PROVE  PermitInv'
<1>1. \A w \in Workers : job[w].stage = "idle"
  BY DEF Close, Idle
<1>2. UNCHANGED <<permits, job>>
  BY DEF Close
<1>3. PermitsAreExact'
  BY <1>2 DEF PermitInv, PermitsAreExact, Holding, At
<1>4. QED
  BY <1>1, <1>2, <1>3 DEF PermitInv, Held

-----------------------------------------------------------------------------
(* Theorem *)

\* Nobody holds a permit at first.
LEMMA PermitInit == Init => PermitInv
<1>1. SUFFICES ASSUME Init PROVE PermitInv
  OBVIOUS
<1>2. \A w \in Workers : job[w].stage = "idle"
  BY <1>1 DEF Init, Idle
<1>3. {w \in Workers : Holding(w)} = {}
  BY <1>2 DEF Holding, At
<1>4. PermitsAreExact
  <2>1. permits = MaxContexts
    BY <1>1 DEF Init
  <2>2. QED
    BY <1>3, <2>1, FS_EmptySet, PoolAssumption DEF PermitsAreExact
<1>5. Staged(job)
  BY <1>1 DEF Init, Idle, Staged
<1>6. QED
  BY <1>1, <1>2, <1>4, <1>5, PoolAssumption DEF PermitInv, Init, Held

\* Every step keeps the invariant.
LEMMA PermitStep == PermitInv /\ [Next]_vars => PermitInv'
<1>1. SUFFICES ASSUME PermitInv, [Next]_vars PROVE PermitInv'
  OBVIOUS
<1>2. CASE UNCHANGED vars
  BY <1>1, <1>2 DEF vars, PermitInv, PermitsAreExact, Holding, At
<1>3. CASE Close
  BY <1>1, <1>3, CloseKeeps
<1>4. ASSUME NEW w \in Workers, NEW r \in Requests, fetch(w, r) \/ screenshot(w, r)
      PROVE  PermitInv'
  BY <1>1, <1>4, BeginKeeps
<1>5. ASSUME NEW w \in Workers, Proceed(w)
      PROVE  PermitInv'
  <2>1. CASE CreateFails(w)
    <3>1. job[w].stage \in Held /\ UNCHANGED up /\ \E spilled : GiveUp(w, spilled)
      BY <2>1 DEF CreateFails, At, Held
    <3>2. QED
      BY <1>1, <3>1, GiveUpKeeps
  <2>2. CASE Retired(w) \/ Created(w) \/ Cleared(w) \/ ClearFails(w) \/ PageFails(w) \/ ChallengeTimesOut(w)
    BY <1>1, <2>2, UseKeeps
  <2>3. CASE Drain(w) \/ Launched(w) \/ LaunchFails(w)
    BY <1>1, <2>3, DrainKeeps, LaunchedKeeps, LaunchFailsKeeps
  <2>4. CASE Return(w) \/ Closed(w)
    BY <1>1, <2>4, ReturnKeeps, ClosedKeeps
  <2>5. QED
    BY <1>5, <2>1, <2>2, <2>3, <2>4 DEF Proceed
<1>6. ASSUME NEW w \in Workers, TakeLock(w) \/ Acquire(w) \/ Cancel(w)
      PROVE  PermitInv'
  BY <1>1, <1>6, TakeLockKeeps, AcquireKeeps, CancelKeeps
<1>7. QED
  BY <1>1, <1>2, <1>3, <1>4, <1>5, <1>6 DEF Next

\* As many contexts are in use as permits are taken (fetchers/browser.py,
\* _get_context and _ensure_browser): no exception, cancellation or second
\* launch loses a permit or replaces the semaphore under a holder.
THEOREM PermitsExact == Spec => []PermitsAreExact
<1>1. PermitInv => PermitsAreExact
  BY DEF PermitInv
<1>2. QED
  BY <1>1, PermitInit, PermitStep, PTL DEF Spec

-----------------------------------------------------------------------------
(* The table of session pools.  Its keys differ and so do its pools, its   *)
(* size is within the cap, and none of it is lost or doubled when an entry *)
(* is moved, popped or stored.                                             *)

Keys == {make_session_key(r) : r \in Requests}

KeyedOK(k) ==
    /\ k \in Seq(Keys \X PoolIds)
    /\ Len(k) <= MaxPools
    /\ \A a, b \in DOMAIN k : k[a][1] = k[b][1] \/ k[a][2] = k[b][2] => a = b

\* move_to_end(): the i-th entry goes to the end.
Moved(k, i) == Append(RemoveAt(k, i), k[i])

\* What is where then.
LEMMA MovedLast ==
    ASSUME NEW S, NEW k \in Seq(S), NEW i \in DOMAIN k
    PROVE  /\ Moved(k, i) \in Seq(S) /\ Len(Moved(k, i)) = Len(k)
           /\ \A a \in 1..Len(k) :
                 Moved(k, i)[a] =
                    IF a < i THEN k[a] ELSE IF a < Len(k) THEN k[a + 1] ELSE k[i]
<1> DEFINE n == Len(k)
           b == SubSeq(k, 1, i - 1)
           c == SubSeq(k, i + 1, n)
           d == b \o c
<1>1. n \in Nat /\ i \in 1..n /\ DOMAIN k = 1..n
  BY LenProperties
<1>2. /\ b \in Seq(S) /\ Len(b) = i - 1
      /\ \A a \in 1..(i - 1) : b[a] = k[a]
  BY <1>1, SubSeqProperties
<1>3. /\ c \in Seq(S) /\ Len(c) = n - i
      /\ \A a \in 1..(n - i) : c[a] = k[i + a]
  BY <1>1, SubSeqProperties
<1>4. Moved(k, i) = Append(d, k[i]) /\ k[i] \in S
  BY <1>1, ElementOfSeq DEF RemoveAt, Moved
<1> HIDE DEF b, c, n
<1>5. /\ d \in Seq(S) /\ Len(d) = n - 1
      /\ \A a \in 1..(n - 1) :
            d[a] = IF a <= i - 1 THEN b[a] ELSE c[a - (i - 1)]
  <2>1. /\ d \in Seq(S) /\ Len(d) = Len(b) + Len(c)
        /\ \A a \in 1..(Len(b) + Len(c)) :
              d[a] = IF a <= Len(b) THEN b[a] ELSE c[a - Len(b)]
    BY <1>2, <1>3, ConcatProperties
  <2>2. Len(b) + Len(c) = n - 1
    BY <1>1, <1>2, <1>3
  <2> HIDE DEF d
  <2>3. QED
    BY <1>2, <2>1, <2>2
<1> HIDE DEF d
<1>6. ASSUME NEW a \in 1..(n - 1) PROVE d[a] = IF a < i THEN k[a] ELSE k[a + 1]
  <2>1. CASE a < i
    <3>1. a \in 1..(i - 1)
      BY <1>1, <2>1
    <3>2. QED
      BY <1>1, <1>2, <1>5, <2>1, <3>1
  <2>2. CASE a >= i
    <3>1. a - (i - 1) \in 1..(n - i) /\ i + (a - (i - 1)) = a + 1
      BY <1>1, <2>2
    <3>2. c[a - (i - 1)] = k[a + 1]
      BY <1>3, <3>1
    <3>3. QED
      BY <1>1, <1>5, <2>2, <3>2
  <2>3. QED
    BY <1>1, <2>1, <2>2
<1>7. /\ Append(d, k[i]) \in Seq(S) /\ Len(Append(d, k[i])) = n
      /\ \A a \in 1..(n - 1) : Append(d, k[i])[a] = d[a]
      /\ Append(d, k[i])[n] = k[i]
  BY <1>1, <1>4, <1>5, AppendProperties
<1>8. ASSUME NEW a \in 1..n
      PROVE  Moved(k, i)[a] = IF a < i THEN k[a] ELSE IF a < n THEN k[a + 1] ELSE k[i]
  <2>1. CASE a \in 1..(n - 1)
    BY <1>1, <1>4, <1>6, <1>7, <2>1
  <2>2. CASE a = n
    BY <1>1, <1>4, <1>7, <2>2
  <2>3. QED
    BY <1>1, <2>1, <2>2
<1>9. QED
  BY <1>4, <1>7, <1>8 DEF n

\* move_to_end() keeps the table.
LEMMA MovedOK ==
    ASSUME NEW k, KeyedOK(k), NEW i \in DOMAIN k
    PROVE  KeyedOK(Moved(k, i)) /\ ToSet(Moved(k, i)) = ToSet(k)
<1> DEFINE m == Moved(k, i)
           n == Len(k)
           to == [a \in 1..n |-> IF a < i THEN a ELSE IF a < n THEN a + 1 ELSE i]
<1>1. n \in Nat /\ DOMAIN k = 1..n /\ i \in 1..n
  BY LenProperties DEF KeyedOK
<1>2. /\ m \in Seq(Keys \X PoolIds) /\ DOMAIN m = 1..n /\ Len(m) = n
      /\ \A a \in 1..n : m[a] = k[to[a]]
  <2>1. k \in Seq(Keys \X PoolIds)
    BY DEF KeyedOK
  <2>2. m \in Seq(Keys \X PoolIds) /\ Len(m) = n
    BY <2>1, MovedLast
  <2>3. DOMAIN m = 1..n
    BY <2>2, LenProperties
  <2>4. ASSUME NEW a \in 1..n PROVE m[a] = k[to[a]]
    BY <2>1, MovedLast
  <2>5. QED
    BY <2>2, <2>3, <2>4
<1> HIDE DEF m
<1>3. \A a \in 1..n : to[a] \in 1..n
  BY <1>1
<1>4. \A a, b \in 1..n : to[a] = to[b] => a = b
  <2>1. \A a \in 1..n : to[a] = IF a < i THEN a ELSE IF a < n THEN a + 1 ELSE i
    OBVIOUS
  <2> HIDE DEF to, n
  <2>2. QED
    BY <1>1, <2>1
<1>5. ASSUME NEW a \in 1..n PROVE \E b \in 1..n : to[b] = a
  <2>1. CASE a < i
    BY <1>1, <2>1
  <2>2. CASE a = i
    <3>1. n \in 1..n /\ to[n] = i
      BY <1>1
    <3>2. QED
      BY <2>2, <3>1
  <2>3. CASE a > i
    <3>1. a - 1 \in 1..n /\ to[a - 1] = a
      BY <1>1, <2>3
    <3>2. QED
      BY <3>1
  <2>4. QED
    BY <1>1, <2>1, <2>2, <2>3
<1> HIDE DEF to
<1>6. KeyedOK(m)
  BY <1>1, <1>2, <1>3, <1>4 DEF KeyedOK
<1>7. ToSet(m) = ToSet(k)
  <2>1. \A e : e \in ToSet(m) <=> \E a \in 1..n : e = k[to[a]]
    BY <1>2 DEF ToSet
  <2>2. \A e : e \in ToSet(k) <=> \E a \in 1..n : e = k[a]
    BY <1>1 DEF ToSet
  <2>3. QED
    BY <1>3, <1>5, <2>1, <2>2, ZenonT(40)
<1>8. QED
  BY <1>6, <1>7 DEF m

\* popitem(last=False) keeps the table, and takes out its first entry.
LEMMA PoppedOK ==
    ASSUME NEW k, KeyedOK(k), k # <<>>
    PROVE  /\ KeyedOK(Tail(k)) /\ Len(Tail(k)) = Len(k) - 1
           /\ Head(k) \in ToSet(k) /\ Head(k) \in Keys \X PoolIds
           /\ \A e : e \in ToSet(Tail(k)) <=> e \in ToSet(k) /\ e # Head(k)
           /\ \A e \in ToSet(Tail(k)) : e[2] # Head(k)[2]
<1>1. /\ Len(k) \in Nat /\ DOMAIN k = 1..Len(k) /\ Len(k) > 0
      /\ Head(k) = k[1] /\ Tail(k) \in Seq(Keys \X PoolIds)
      /\ Len(Tail(k)) = Len(k) - 1 /\ DOMAIN Tail(k) = 1..(Len(k) - 1)
      /\ \A a \in 1..(Len(k) - 1) : Tail(k)[a] = k[a + 1]
  BY LenProperties, HeadTailProperties, EmptySeq DEF KeyedOK
<1>2. KeyedOK(Tail(k))
  <2>1. ASSUME NEW a \in DOMAIN Tail(k), NEW b \in DOMAIN Tail(k),
               Tail(k)[a][1] = Tail(k)[b][1] \/ Tail(k)[a][2] = Tail(k)[b][2]
        PROVE  a = b
    <3>1. a + 1 \in DOMAIN k /\ b + 1 \in DOMAIN k
      BY <1>1
    <3>2. a + 1 = b + 1
      BY <1>1, <2>1, <3>1 DEF KeyedOK
    <3>3. QED
      BY <1>1, <3>2
  <2>2. QED
    BY <1>1, <2>1, PoolAssumption DEF KeyedOK
<1>3. Head(k) \in ToSet(k) /\ Head(k) \in Keys \X PoolIds
  BY <1>1, ElementOfSeq DEF ToSet, KeyedOK
<1>4. ASSUME NEW e \in ToSet(Tail(k))
      PROVE  e \in ToSet(k) /\ e # Head(k) /\ e[2] # Head(k)[2]
  <2>1. PICK a \in 1..(Len(k) - 1) : e = k[a + 1]
    BY <1>1 DEF ToSet
  <2>2. a + 1 \in DOMAIN k /\ 1 \in DOMAIN k /\ a + 1 # 1
    BY <1>1
  <2>3. QED
    BY <1>1, <2>1, <2>2 DEF KeyedOK, ToSet
<1>5. ASSUME NEW e \in ToSet(k), e # Head(k) PROVE e \in ToSet(Tail(k))
  <2>1. PICK a \in 1..Len(k) : e = k[a]
    BY <1>1 DEF ToSet
  <2>2. a - 1 \in 1..(Len(k) - 1) /\ (a - 1) + 1 = a
    BY <1>1, <1>5, <2>1
  <2>3. QED
    BY <1>1, <2>1, <2>2 DEF ToSet
<1>6. QED
  BY <1>1, <1>2, <1>3, <1>4, <1>5

\* Storing a new pool under a key, with room for it, keeps the table; a pool
\* that was there under the key is out of it.
LEMMA StoredOK ==
    ASSUME NEW k, KeyedOK(k), Len(k) < MaxPools, NEW x \in Keys, NEW p \in PoolIds,
           \A e \in ToSet(k) : e[2] # p
    PROVE  /\ KeyedOK(StoreKey(k, x, p))
           /\ \A e : e \in ToSet(StoreKey(k, x, p)) <=>
                        e = <<x, p>> \/ (e \in ToSet(k) /\ e[1] # x)
<1> DEFINE n == Len(k)
<1>1. /\ n \in Nat /\ DOMAIN k = 1..n /\ <<x, p>> \in Keys \X PoolIds
      /\ \A a \in 1..n : k[a] \in Keys \X PoolIds
      /\ \A a \in 1..n : k[a] \in ToSet(k)
  BY LenProperties, ElementOfSeq DEF KeyedOK, ToSet
<1>2. CASE \E e \in ToSet(k) : e[1] = x
  <2> DEFINE m == [a \in 1..n |-> IF k[a][1] = x THEN <<x, p>> ELSE k[a]]
  <2>1. StoreKey(k, x, p) = m
    BY <1>1, <1>2 DEF StoreKey
  <2>2. m \in Seq(Keys \X PoolIds) /\ Len(m) = n /\ DOMAIN m = 1..n
    <3>1. \A a \in 1..n : m[a] \in Keys \X PoolIds
      BY <1>1
    <3>2. QED
      BY <1>1, <3>1, IsASeq, LenProperties
  <2>3. KeyedOK(m)
    <3>1. ASSUME NEW a \in 1..n, NEW b \in 1..n, m[a][1] = m[b][1] \/ m[a][2] = m[b][2]
          PROVE  a = b
      <4>1. m[a][1] = k[a][1] /\ m[b][1] = k[b][1]
        BY <1>1
      <4>2. k[a][2] # p /\ k[b][2] # p
        BY <1>1
      <4>3. m[a][2] = m[b][2] => k[a][1] = k[b][1] \/ k[a][2] = k[b][2]
        BY <1>1, <4>2
      <4>4. QED
        BY <1>1, <3>1, <4>1, <4>3 DEF KeyedOK
    <3>2. QED
      BY <2>2, <3>1 DEF KeyedOK
  <2>4. ASSUME NEW e PROVE e \in ToSet(m) <=> e = <<x, p>> \/ (e \in ToSet(k) /\ e[1] # x)
    BY <1>1, <1>2, <2>2 DEF ToSet
  <2>5. QED
    BY <2>1, <2>3, <2>4
<1>3. CASE \A e \in ToSet(k) : e[1] # x
  <2> DEFINE m == Append(k, <<x, p>>)
  <2>1. StoreKey(k, x, p) = m
    BY <1>3 DEF StoreKey
  <2>2. /\ m \in Seq(Keys \X PoolIds) /\ Len(m) = n + 1 /\ DOMAIN m = 1..(n + 1)
        /\ \A a \in 1..n : m[a] = k[a]
        /\ m[n + 1] = <<x, p>>
    BY <1>1, AppendProperties, LenProperties DEF KeyedOK
  <2> HIDE DEF m
  <2>3. KeyedOK(m)
    <3>1. ASSUME NEW a \in 1..(n + 1), NEW b \in 1..(n + 1),
                 m[a][1] = m[b][1] \/ m[a][2] = m[b][2]
          PROVE  a = b
      <4>1. CASE a \in 1..n /\ b \in 1..n
        BY <1>1, <2>2, <3>1, <4>1, ZenonT(40) DEF KeyedOK
      <4>2. CASE a = n + 1 /\ b \in 1..n
        BY <1>1, <1>3, <2>2, <3>1, <4>2
      <4>3. CASE b = n + 1 /\ a \in 1..n
        BY <1>1, <1>3, <2>2, <3>1, <4>3
      <4>4. QED
        BY <1>1, <4>1, <4>2, <4>3
    <3>2. QED
      BY <1>1, <2>2, <3>1, PoolAssumption DEF KeyedOK
  <2>4. ASSUME NEW e PROVE e \in ToSet(m) <=> e = <<x, p>> \/ (e \in ToSet(k) /\ e[1] # x)
    <3>1. e \in ToSet(m) <=> \E a \in 1..(n + 1) : e = m[a]
      BY <2>2 DEF ToSet
    <3>2. e \in ToSet(m) <=> e = <<x, p>> \/ \E a \in 1..n : e = k[a]
      <4>1. \A a \in 1..(n + 1) : a \in 1..n \/ a = n + 1
        BY <1>1
      <4>2. n + 1 \in 1..(n + 1) /\ \A a \in 1..n : a \in 1..(n + 1)
        BY <1>1
      <4>3. QED
        BY <2>2, <3>1, <4>1, <4>2
    <3>3. e \in ToSet(k) <=> \E a \in 1..n : e = k[a]
      BY <1>1 DEF ToSet
    <3>4. QED
      BY <1>3, <3>2, <3>3
  <2>5. QED
    BY <2>1, <2>3, <2>4
<1>4. QED
  BY <1>2, <1>3

\* What a function takes a finite set to is finite, and no larger.
LEMMA ImageIsSmall ==
    ASSUME NEW S, IsFiniteSet(S), NEW f, f = [s \in S |-> f[s]]
    PROVE  LET T == {f[s] : s \in S}
           IN IsFiniteSet(T) /\ Cardinality(T) <= Cardinality(S)
<1> DEFINE T == {f[s] : s \in S}
<1>1. f \in [S -> T]
  OBVIOUS
<1>2. \A t \in T : \E s \in S : f[s] = t
  OBVIOUS
<1> HIDE DEF T
<1>3. f \in Surjection(S, T)
  BY <1>1, <1>2 DEF Surjection
<1>4. IsFiniteSet(T) /\ Cardinality(T) <= Cardinality(S)
  BY <1>3, FS_Surjection
<1>5. QED
  BY <1>4 DEF T

\* There is a number for a new pool: no more pools are referred to than there
\* are session pools, workers, and the anonymous pool.
LEMMA NumberIsNew ==
    ASSUME KeyedOK(keyed), job = [w \in Workers |-> job[w]]
    PROVE  Number \in PoolIds /\ Number \notin Referred(keyed, job)
<1> DEFINE A == {e[2] : e \in ToSet(keyed)}
           B == {job[w].pool : w \in Workers}
           n == Cardinality(Workers)
<1>1. n \in Nat /\ MaxPools \in Nat
  BY PoolAssumption, FS_CardinalityType
<1>2. IsFiniteSet(A) /\ Cardinality(A) <= MaxPools
  <2> DEFINE f == [a \in 1..Len(keyed) |-> keyed[a][2]]
             D == {f[a] : a \in 1..Len(keyed)}
  <2>1. Len(keyed) \in Nat /\ DOMAIN keyed = 1..Len(keyed) /\ Len(keyed) <= MaxPools
    BY LenProperties DEF KeyedOK
  <2>2. IsFiniteSet(1..Len(keyed)) /\ Cardinality(1..Len(keyed)) = Len(keyed)
    BY <2>1, FS_Interval, SMTT(30)
  <2>3. f = [a \in 1..Len(keyed) |-> f[a]]
    OBVIOUS
  <2>4. A = D
    BY <2>1 DEF ToSet
  <2> HIDE DEF f, A
  <2>5. IsFiniteSet(D) /\ Cardinality(D) <= Cardinality(1..Len(keyed))
    BY <2>2, <2>3, ImageIsSmall
  <2> HIDE DEF D
  <2>6. Cardinality(D) \in Nat
    BY <2>5, FS_CardinalityType
  <2>7. QED
    BY <1>1, <2>1, <2>2, <2>4, <2>5, <2>6
<1>3. IsFiniteSet(B) /\ Cardinality(B) <= n
  <2> DEFINE f == [w \in Workers |-> job[w].pool]
             D == {f[w] : w \in Workers}
  <2>1. f = [w \in Workers |-> f[w]] /\ B = D
    OBVIOUS
  <2> HIDE DEF f, B
  <2>2. IsFiniteSet(D) /\ Cardinality(D) <= n
    BY <2>1, ImageIsSmall, PoolAssumption
  <2>3. QED
    BY <2>1, <2>2
<1> HIDE DEF A, B
<1>4. IsFiniteSet({Anon} \cup A) /\ Cardinality({Anon} \cup A) <= 1 + MaxPools
  <2>1. Cardinality(A \cup {Anon}) \in {Cardinality(A), Cardinality(A) + 1}
        /\ IsFiniteSet(A \cup {Anon})
    BY <1>2, FS_AddElement
  <2>2. Cardinality(A) \in Nat /\ A \cup {Anon} = {Anon} \cup A
    BY <1>2, FS_CardinalityType
  <2>3. QED
    BY <1>1, <1>2, <2>1, <2>2
<1> DEFINE C == {Anon} \cup A
<1>5. IsFiniteSet(C \cup B) /\ Cardinality(C \cup B) <= 1 + MaxPools + n
  <2>1. IsFiniteSet(C) /\ Cardinality(C) <= 1 + MaxPools /\ Cardinality(C) \in Nat
    BY <1>4, FS_CardinalityType
  <2> HIDE DEF C
  <2>2. IsFiniteSet(C \cap B)
    BY <2>1, FS_Subset
  <2>3. Cardinality(B) \in Nat /\ Cardinality(C \cap B) \in Nat
    BY <1>3, <2>2, FS_CardinalityType
  <2>4. /\ IsFiniteSet(C \cup B)
        /\ Cardinality(C \cup B) = Cardinality(C) + Cardinality(B) - Cardinality(C \cap B)
    BY <1>3, <2>1, FS_Union
  <2>5. QED
    BY <1>1, <1>3, <2>1, <2>3, <2>4
<1>6. Cardinality(PoolIds) = MaxPools + n + 2
  <2> DEFINE m == MaxPools + n + 1
  <2>1. m \in Nat /\ m + 1 = MaxPools + n + 2
    BY <1>1
  <2>2. PoolIds = 0..m
    BY DEF PoolIds
  <2> HIDE DEF m
  <2>3. Cardinality(0..m) = m + 1
    <3>1. m \in Int /\ ~(0 > m) /\ m - 0 + 1 = m + 1
      BY <2>1
    <3>2. Cardinality(0..m) = IF 0 > m THEN 0 ELSE m - 0 + 1
      BY <3>1, FS_Interval
    <3>3. QED
      BY <3>1, <3>2
  <2>4. QED
    BY <2>1, <2>2, <2>3
<1>7. Referred(keyed, job) = C \cup B
  BY DEF Referred, A, B
<1> HIDE DEF C, n
<1>8. \E p \in PoolIds : p \notin Referred(keyed, job)
  <2>1. SUFFICES ASSUME PoolIds \subseteq C \cup B PROVE FALSE
    BY <1>7
  <2>2. Cardinality(PoolIds) <= Cardinality(C \cup B) /\ Cardinality(C \cup B) \in Nat
    BY <1>5, <2>1, FS_Subset, FS_CardinalityType
  <2>3. QED
    BY <1>1, <1>5, <1>6, <2>2
<1>9. QED
  BY <1>8 DEF Number

-----------------------------------------------------------------------------
(* Sessions.  A pool belongs to one session: to that of its key, or to     *)
(* that of a worker that still uses it after its key is gone.  The parts   *)
(* of the invariant speak of a table k, pools p and jobs j, so that what a *)
(* step hands to Become can be looked at before it becomes the state.      *)

Using(j, w) == j[w].stage \in {"permit", "retire", "create", "clear", "use", "close"}

Owner(k, j, x, q) ==
    \/ <<x, q>> \in ToSet(k)
    \/ \E w \in Workers :
          /\ Using(j, w) /\ j[w].req.sticky
          /\ j[w].pool = q /\ make_session_key(j[w].req) = x

\* Context c was made for session x, and has been used by it only.
Owns(x, c) == c.proxy = x[2] /\ \A r \in c.state : r.sticky /\ make_session_key(r) = x

\* Context c has been used by pages outside a session only, through its proxy.
Common(c) == \A a \in c.state : ~a.sticky /\ a.proxy = c.proxy

\* What the context of w is before its page is opened in it.
Fitting(j, w) ==
    /\ j[w].stage = "clear" =>
          ~j[w].req.sticky /\ j[w].ctx.proxy = j[w].req.proxy /\ Common(j[w].ctx)
    /\ j[w].stage = "use" =>
          /\ j[w].ctx.proxy = j[w].req.proxy
          /\ j[w].req.sticky => j[w].ctx.state \subseteq {j[w].req}
          /\ ~j[w].req.sticky => /\ j[w].ctx.kept \/ j[w].ctx.state = {}
                                 /\ Common(j[w].ctx)

\* Workers without a pool, and those outside a session, have the anonymous one;
\* only a session makes room for its pool.
Placed(j, w) ==
    /\ j[w].stage \in {"idle", "lock", "launch"} => j[w].pool = Anon
    /\ Using(j, w) /\ ~j[w].req.sticky => j[w].pool = Anon
    /\ j[w].stage = "evict" => j[w].req.sticky

Typed(k, p, j) ==
    /\ KeyedOK(k)
    /\ p \in [PoolIds -> Seq(Context)]
    /\ j \in [Workers -> Job \cup {Idle}]

Owned(k, j) ==
    /\ \A x, q : Owner(k, j, x, q) => q # Anon
    /\ \A x, y, q : Owner(k, j, x, q) /\ Owner(k, j, y, q) => x = y

Filled(k, p, j) ==
    /\ \A c \in ToSet(p[Anon]) : c.proxy = Direct /\ Common(c)
    /\ \A x, q : Owner(k, j, x, q) => \A c \in ToSet(p[q]) : Owns(x, c)

Sound(k, p, j) ==
    /\ Typed(k, p, j) /\ Owned(k, j) /\ Filled(k, p, j)
    /\ \A w \in Workers : Placed(j, w) /\ Fitting(j, w)

\* Inductive: what is idle in a pool was made for the owner of the pool, and
\* there is nothing in a pool without one.
SessionInv ==
    /\ Sound(keyed, pools, job)
    /\ \A q \in PoolIds \ Referred(keyed, job) : pools[q] = <<>>

\* A number is a pool: the pools of the table and of the workers are.
LEMMA PoolsAreNumbered ==
    ASSUME NEW k, NEW p, NEW j, Typed(k, p, j)
    PROVE  /\ \A x, q : <<x, q>> \in ToSet(k) => x \in Keys /\ q \in PoolIds
           /\ \A w \in Workers : j[w].pool \in PoolIds
           /\ \A x, q : Owner(k, j, x, q) => x \in Keys /\ q \in PoolIds
           /\ Anon \in PoolIds
<1>1. Anon \in PoolIds
  BY PoolAssumption, FS_CardinalityType DEF Anon, PoolIds
<1>2. ASSUME NEW x, NEW q, <<x, q>> \in ToSet(k) PROVE x \in Keys /\ q \in PoolIds
  <2>1. <<x, q>> \in Keys \X PoolIds
    BY <1>2, ElementOfSeq, LenProperties DEF Typed, KeyedOK, ToSet
  <2>2. QED
    BY <2>1
<1>3. ASSUME NEW w \in Workers PROVE j[w].pool \in PoolIds
  BY <1>1 DEF Typed, Job, Idle
<1>4. ASSUME NEW w \in Workers, Using(j, w) PROVE make_session_key(j[w].req) \in Keys
  BY <1>4 DEF Typed, Job, Idle, Using, Keys
<1>5. QED
  BY <1>1, <1>2, <1>3, <1>4 DEF Owner

\* What becomes the state is sound: the pools that are gone are only emptied.
LEMMA BecomeSound ==
    ASSUME NEW k, NEW p, NEW j, NEW spilled, Become(k, p, j, spilled), Sound(k, p, j)
    PROVE  SessionInv'
<1>1. /\ keyed' = k /\ job' = j
      /\ pools' = [i \in PoolIds |-> IF i \in Referred(k, j) THEN p[i] ELSE <<>>]
  BY DEF Become
<1>2. Typed(k, pools', j)
  <2>1. \A i \in PoolIds : p[i] \in Seq(Context) /\ <<>> \in Seq(Context)
    BY EmptySeq DEF Sound, Typed
  <2>2. QED
    BY <1>1, <2>1 DEF Sound, Typed
<1>3. \A i \in PoolIds : ToSet(pools'[i]) \subseteq ToSet(p[i])
  <2>1. ToSet(<<>>) = {}
    BY EmptySeq DEF ToSet
  <2>2. QED
    BY <1>1, <2>1
<1>4. Filled(k, pools', j)
  BY <1>3, PoolsAreNumbered DEF Sound, Filled
<1>5. Sound(k, pools', j)
  BY <1>2, <1>4 DEF Sound
<1>6. Sound(keyed, pools, job)'
  <2>1. Typed(keyed, pools, job)'
    BY <1>1, <1>5 DEF Sound, Typed, KeyedOK
  <2>2. Owned(keyed, job)'
    BY <1>1, <1>5 DEF Sound, Owned, Owner, Using
  <2>3. Filled(keyed, pools, job)'
    BY <1>1, <1>5 DEF Sound, Filled, Owner, Using, Owns, Common
  <2>4. ASSUME NEW w \in Workers PROVE Placed(job, w)' /\ Fitting(job, w)'
    BY <1>1, <1>5 DEF Sound, Placed, Fitting, Using, Common
  <2>5. QED
    BY <2>1, <2>2, <2>3, <2>4 DEF Sound
<1>7. \A q \in PoolIds \ Referred(keyed', job') : pools'[q] = <<>>
  BY <1>1
<1>8. QED
  BY <1>6, <1>7 DEF SessionInv, Referred

-----------------------------------------------------------------------------
(* What a worker may become *)

\* Only the job of w is another.
Others(j, i, w) ==
    /\ i \in [Workers -> Job \cup {Idle}]
    /\ \A v \in Workers \ {w} : i[v] = j[v]

\* One that lets go of its pool owns nothing.
LEMMA LeavingSound ==
    ASSUME NEW k, NEW p, NEW j, NEW i, NEW w \in Workers, Sound(k, p, j),
           Others(j, i, w), i[w].stage \in {"idle", "lock", "launch"}, i[w].pool = Anon
    PROVE  Sound(k, p, i)
<1>1. ~Using(i, w) /\ \A v \in Workers \ {w} : Using(i, v) => Using(j, v)
  BY DEF Using, Others
<1>2. \A x, q : Owner(k, i, x, q) => Owner(k, j, x, q)
  BY <1>1 DEF Owner, Others
<1>3. Owned(k, i) /\ Filled(k, p, i)
  BY <1>2 DEF Sound, Owned, Filled
<1>4. \A v \in Workers : Placed(i, v) /\ Fitting(i, v)
  BY <1>1 DEF Sound, Others, Placed, Fitting, Using
<1>5. QED
  BY <1>3, <1>4 DEF Sound, Typed, Others

\* So does one that is about to drain a pool.
LEMMA DrainingSound ==
    ASSUME NEW k, NEW p, NEW j, NEW i, NEW w \in Workers, Sound(k, p, j),
           Others(j, i, w), i[w].stage = "evict", i[w].req.sticky
    PROVE  Sound(k, p, i)
<1>1. ~Using(i, w) /\ \A v \in Workers \ {w} : Using(i, v) => Using(j, v)
  BY DEF Using, Others
<1>2. \A x, q : Owner(k, i, x, q) => Owner(k, j, x, q)
  BY <1>1 DEF Owner, Others
<1>3. Owned(k, i) /\ Filled(k, p, i)
  BY <1>2 DEF Sound, Owned, Filled
<1>4. \A v \in Workers : Placed(i, v) /\ Fitting(i, v)
  BY <1>1 DEF Sound, Others, Placed, Fitting, Using
<1>5. QED
  BY <1>3, <1>4 DEF Sound, Typed, Others

\* One that goes on with its pool owns what it did.
LEMMA GoingOnSound ==
    ASSUME NEW k, NEW p, NEW j, NEW i, NEW w \in Workers, Sound(k, p, j),
           Others(j, i, w), Using(j, w), Using(i, w),
           i[w].req = j[w].req, i[w].pool = j[w].pool, Fitting(i, w)
    PROVE  Sound(k, p, i)
<1>1. \A v \in Workers : Using(i, v) => Using(j, v) /\ i[v].req = j[v].req /\ i[v].pool = j[v].pool
  BY DEF Using, Others
<1>2. \A x, q : Owner(k, i, x, q) => Owner(k, j, x, q)
  BY <1>1 DEF Owner
<1>3. Owned(k, i) /\ Filled(k, p, i)
  BY <1>2 DEF Sound, Owned, Filled
<1>4. \A v \in Workers : Placed(i, v) /\ Fitting(i, v)
  BY <1>1 DEF Sound, Others, Placed, Fitting, Using
<1>5. QED
  BY <1>3, <1>4 DEF Sound, Typed, Others

\* One that gets a pool of its session, or the anonymous one outside a session,
\* owns nothing that is not owned by its session already.
LEMMA JoiningSound ==
    ASSUME NEW k, NEW p, NEW j, NEW i, NEW w \in Workers, Sound(k, p, j),
           Others(j, i, w), i[w].stage = "permit",
           ~i[w].req.sticky => i[w].pool = Anon,
           i[w].req.sticky => <<make_session_key(i[w].req), i[w].pool>> \in ToSet(k)
    PROVE  Sound(k, p, i)
<1>1. \A v \in Workers \ {w} : Using(i, v) => Using(j, v)
  BY DEF Using, Others
<1>2. ASSUME NEW x, NEW q, Owner(k, i, x, q) PROVE Owner(k, j, x, q)
  <2>1. CASE <<x, q>> \in ToSet(k)
    BY <2>1 DEF Owner
  <2>2. ASSUME NEW v \in Workers, Using(i, v), i[v].req.sticky, i[v].pool = q,
               make_session_key(i[v].req) = x
        PROVE  Owner(k, j, x, q)
    <3>1. CASE v = w
      BY <2>2, <3>1 DEF Owner
    <3>2. CASE v # w
      BY <1>1, <2>2, <3>2 DEF Owner, Others
    <3>3. QED
      BY <3>1, <3>2
  <2>3. QED
    BY <1>2, <2>1, <2>2 DEF Owner
<1>3. Owned(k, i) /\ Filled(k, p, i)
  BY <1>2 DEF Sound, Owned, Filled
<1>4. \A v \in Workers : Placed(i, v) /\ Fitting(i, v)
  BY <1>1 DEF Sound, Others, Placed, Fitting, Using
<1>5. QED
  BY <1>3, <1>4 DEF Sound, Typed, Others

-----------------------------------------------------------------------------
(* What the pools may become *)

\* The pool whose oldest context is taken holds no other than before.
LEMMA TakingSound ==
    ASSUME NEW k, NEW p, NEW j, Sound(k, p, j), NEW q \in PoolIds, p[q] # <<>>
    PROVE  Sound(k, [p EXCEPT ![q] = Tail(@)], j)
<1> DEFINE b == [p EXCEPT ![q] = Tail(@)]
<1>1. /\ Tail(p[q]) \in Seq(Context)
      /\ ToSet(Tail(p[q])) \subseteq ToSet(p[q])
  <2>1. p[q] \in Seq(Context)
    BY DEF Sound, Typed
  <2>2. /\ Tail(p[q]) \in Seq(Context) /\ Len(Tail(p[q])) = Len(p[q]) - 1
        /\ \A a \in 1..Len(Tail(p[q])) : Tail(p[q])[a] = p[q][a + 1]
        /\ Len(p[q]) \in Nat
    BY <2>1, HeadTailProperties, LenProperties
  <2>3. \A a \in 1..(Len(p[q]) - 1) : a + 1 \in 1..Len(p[q])
    BY <2>2
  <2>4. DOMAIN Tail(p[q]) = 1..(Len(p[q]) - 1) /\ DOMAIN p[q] = 1..Len(p[q])
    BY <2>1, <2>2, LenProperties
  <2>5. QED
    BY <2>2, <2>3, <2>4 DEF ToSet
<1>2. Typed(k, b, j)
  BY <1>1 DEF Sound, Typed
<1>3. \A i \in PoolIds : ToSet(b[i]) \subseteq ToSet(p[i])
  BY <1>1 DEF Sound, Typed
<1> HIDE DEF b
<1>4. Filled(k, b, j)
  BY <1>2, <1>3, PoolsAreNumbered DEF Sound, Filled
<1>5. Sound(k, b, j)
  BY <1>2, <1>4 DEF Sound
<1>6. QED
  BY <1>5 DEF b

\* The pool a context is put back into may hold it, if it is its owner's.
LEMMA PuttingSound ==
    ASSUME NEW k, NEW p, NEW j, Sound(k, p, j), NEW q \in PoolIds, NEW c \in Context,
           q = Anon => c.proxy = Direct /\ Common(c),
           \A x : Owner(k, j, x, q) => Owns(x, c)
    PROVE  Sound(k, [p EXCEPT ![q] = IF Len(@) < MaxContexts THEN Append(@, c) ELSE @], j)
<1> DEFINE b == [p EXCEPT ![q] = IF Len(@) < MaxContexts THEN Append(@, c) ELSE @]
<1>1. /\ Append(p[q], c) \in Seq(Context)
      /\ \A e : e \in ToSet(Append(p[q], c)) => e \in ToSet(p[q]) \/ e = c
  <2>1. p[q] \in Seq(Context)
    BY DEF Sound, Typed
  <2>2. /\ Append(p[q], c) \in Seq(Context) /\ Len(Append(p[q], c)) = Len(p[q]) + 1
        /\ \A a \in 1..Len(p[q]) : Append(p[q], c)[a] = p[q][a]
        /\ Append(p[q], c)[Len(p[q]) + 1] = c
        /\ Len(p[q]) \in Nat
    BY <2>1, AppendProperties, LenProperties
  <2>3. \A a \in 1..(Len(p[q]) + 1) : a \in 1..Len(p[q]) \/ a = Len(p[q]) + 1
    BY <2>2
  <2>4. DOMAIN Append(p[q], c) = 1..(Len(p[q]) + 1) /\ DOMAIN p[q] = 1..Len(p[q])
    BY <2>1, <2>2, LenProperties
  <2>5. QED
    BY <2>2, <2>3, <2>4 DEF ToSet
<1>2. Typed(k, b, j)
  BY <1>1 DEF Sound, Typed
<1>3. \A i \in PoolIds : \A e \in ToSet(b[i]) : e \in ToSet(p[i]) \/ (i = q /\ e = c)
  BY <1>1 DEF Sound, Typed
<1> HIDE DEF b
<1>4. Filled(k, b, j)
  BY <1>2, <1>3, PoolsAreNumbered DEF Sound, Filled
<1>5. Sound(k, b, j)
  BY <1>2, <1>4 DEF Sound
<1>6. QED
  BY <1>5 DEF b

-----------------------------------------------------------------------------
(* What the table may become *)

\* A table with no more entries gives no pool another owner.
LEMMA TableSound ==
    ASSUME NEW k, NEW p, NEW j, Sound(k, p, j), NEW m, KeyedOK(m),
           ToSet(m) \subseteq ToSet(k)
    PROVE  Sound(m, p, j)
<1>1. \A x, q : Owner(m, j, x, q) => Owner(k, j, x, q)
  BY DEF Owner
<1>2. QED
  BY <1>1 DEF Sound, Typed, Owned, Filled

\* Nor does one with an entry for a new pool, with nothing in it.
LEMMA TableStoredSound ==
    ASSUME NEW k, NEW p, NEW j, Sound(k, p, j), NEW x \in Keys, NEW q \in PoolIds,
           q # Anon, p[q] = <<>>, Len(k) < MaxPools,
           \A e \in ToSet(k) : e[2] # q,
           \A w \in Workers : j[w].pool # q
    PROVE  /\ Sound(StoreKey(k, x, q), p, j)
           /\ <<x, q>> \in ToSet(StoreKey(k, x, q))
<1> DEFINE m == StoreKey(k, x, q)
<1>1. /\ KeyedOK(m)
      /\ \A e : e \in ToSet(m) <=> e = <<x, q>> \/ (e \in ToSet(k) /\ e[1] # x)
  BY StoredOK DEF Sound, Typed
<1>2. \A y : ~Owner(k, j, y, q)
  BY DEF Owner
<1>3. \A y, r : Owner(m, j, y, r) => Owner(k, j, y, r) \/ (y = x /\ r = q)
  BY <1>1 DEF Owner
<1> HIDE DEF m
<1>4. Owned(m, j)
  BY <1>2, <1>3 DEF Sound, Owned
<1>5. Filled(m, p, j)
  <2>1. ToSet(p[q]) = {}
    BY EmptySeq DEF ToSet
  <2>2. QED
    BY <1>3, <2>1 DEF Sound, Filled
<1>6. Sound(m, p, j)
  BY <1>1, <1>4, <1>5 DEF Sound, Typed
<1>7. QED
  BY <1>1, <1>6 DEF m

-----------------------------------------------------------------------------
(* Getting a pool *)

\* Making a new pool, or the drain it needs first, leaves the sessions sound.
LEMMA NewPoolSound ==
    ASSUME SessionInv, NEW w \in Workers, NEW j, Others(job, j, w), j[w] \in Job,
           j[w].req.sticky, NewPool(w, j)
    PROVE  SessionInv'
<1> DEFINE full == Len(keyed) >= MaxPools
           victim == Head(keyed)[2]
           k == IF full THEN Tail(keyed) ELSE keyed
           x == make_session_key(j[w].req)
<1>1. Sound(keyed, pools, job) /\ KeyedOK(keyed) /\ job = [v \in Workers |-> job[v]]
  BY DEF SessionInv, Sound, Typed
<1>2. full => keyed # <<>>
  BY PoolAssumption, EmptySeq
<1>3. KeyedOK(k) /\ ToSet(k) \subseteq ToSet(keyed) /\ Len(k) < MaxPools
  BY <1>1, <1>2, PoppedOK, PoolAssumption, LenProperties DEF KeyedOK
<1>4. Sound(k, pools, job)
  BY <1>1, <1>3, TableSound
<1>5. ASSUME full, pools[victim] # <<>>,
             Become(k, [pools EXCEPT ![victim] = Tail(@)],
                    [j EXCEPT ![w].stage = "evict", ![w].pool = victim], FALSE)
      PROVE  SessionInv'
  <2> DEFINE i == [j EXCEPT ![w].stage = "evict", ![w].pool = victim]
  <2>1. victim \in PoolIds
    BY <1>1, <1>2, <1>5, PoppedOK
  <2>2. Others(job, i, w) /\ i[w].stage = "evict" /\ i[w].req.sticky
    BY <2>1 DEF Others, Job, Stage
  <2>3. Sound(k, [pools EXCEPT ![victim] = Tail(@)], job)
    BY <1>4, <1>5, <2>1, TakingSound
  <2> HIDE DEF i, k
  <2>4. Sound(k, [pools EXCEPT ![victim] = Tail(@)], i)
    BY <2>2, <2>3, DrainingSound
  <2>5. QED
    BY <1>5, <2>4, BecomeSound DEF i
<1>6. ASSUME Become(StoreKey(k, x, Number), pools,
                    [j EXCEPT ![w].stage = "permit", ![w].pool = Number], FALSE)
      PROVE  SessionInv'
  <2> DEFINE i == [j EXCEPT ![w].stage = "permit", ![w].pool = Number]
  <2>1. Number \in PoolIds /\ Number \notin Referred(keyed, job)
    BY <1>1, NumberIsNew
  <2>2. /\ Number # Anon /\ pools[Number] = <<>>
        /\ \A e \in ToSet(k) : e[2] # Number
        /\ \A v \in Workers : job[v].pool # Number
    BY <1>3, <2>1 DEF SessionInv, Referred
  <2>3. x \in Keys
    BY DEF Job, Keys
  <2>4. /\ Others(job, i, w) /\ i[w].stage = "permit"
        /\ i[w].req = j[w].req /\ i[w].pool = Number
    BY <2>1 DEF Others, Job, Stage
  <2> HIDE DEF i, k
  <2>5. /\ Sound(StoreKey(k, x, Number), pools, job)
        /\ <<x, Number>> \in ToSet(StoreKey(k, x, Number))
    BY <1>3, <1>4, <2>1, <2>2, <2>3, TableStoredSound
  <2>6. Sound(StoreKey(k, x, Number), pools, i)
    BY <2>4, <2>5, JoiningSound
  <2>7. QED
    BY <1>6, <2>6, BecomeSound DEF i
<1>7. QED
  BY <1>5, <1>6 DEF NewPool

\* So does getting any pool.
LEMMA AcquirePoolSound ==
    ASSUME SessionInv, NEW w \in Workers, NEW j, Others(job, j, w), j[w] \in Job,
           AcquirePool(w, j)
    PROVE  SessionInv'
<1>1. Sound(keyed, pools, job) /\ KeyedOK(keyed)
  BY DEF SessionInv, Sound, Typed
<1>2. ASSUME ~j[w].req.sticky,
             Become(keyed, pools, [j EXCEPT ![w].stage = "permit", ![w].pool = Anon], FALSE)
      PROVE  SessionInv'
  <2> DEFINE i == [j EXCEPT ![w].stage = "permit", ![w].pool = Anon]
  <2>1. Anon \in PoolIds
    BY <1>1, PoolsAreNumbered DEF Sound
  <2>2. /\ Others(job, i, w) /\ i[w].stage = "permit"
        /\ i[w].req = j[w].req /\ i[w].pool = Anon
    BY <2>1 DEF Others, Job, Stage
  <2> HIDE DEF i
  <2>3. Sound(keyed, pools, i)
    BY <1>1, <1>2, <2>2, JoiningSound
  <2>4. QED
    BY <1>2, <2>3, BecomeSound DEF i
<1>3. ASSUME NEW a \in DOMAIN keyed, j[w].req.sticky,
             keyed[a][1] = make_session_key(j[w].req),
             Become(Append(RemoveAt(keyed, a), keyed[a]), pools,
                    [j EXCEPT ![w].stage = "permit", ![w].pool = keyed[a][2]], FALSE)
      PROVE  SessionInv'
  <2> DEFINE i == [j EXCEPT ![w].stage = "permit", ![w].pool = keyed[a][2]]
  <2>1. KeyedOK(Moved(keyed, a)) /\ ToSet(Moved(keyed, a)) = ToSet(keyed)
    BY <1>1, MovedOK
  <2>2. keyed[a] \in Keys \X PoolIds /\ keyed[a] \in ToSet(keyed)
    BY <1>1, <1>3, ElementOfSeq, LenProperties DEF KeyedOK, ToSet
  <2>3. /\ Others(job, i, w) /\ i[w].stage = "permit"
        /\ i[w].req = j[w].req /\ i[w].pool = keyed[a][2]
    BY <2>2 DEF Others, Job, Stage
  <2> HIDE DEF i
  <2>4. Sound(Moved(keyed, a), pools, job)
    BY <1>1, <2>1, TableSound
  <2>5. <<make_session_key(i[w].req), i[w].pool>> \in ToSet(Moved(keyed, a))
    BY <1>3, <2>1, <2>2, <2>3
  <2>6. Sound(Moved(keyed, a), pools, i)
    BY <1>3, <2>3, <2>4, <2>5, JoiningSound
  <2>7. QED
    BY <1>3, <2>6, BecomeSound DEF i, Moved
<1>4. QED
  BY <1>2, <1>3, NewPoolSound DEF AcquirePool

-----------------------------------------------------------------------------
(* The actions and the sessions *)

\* A worker that is not idle has a request, and its pool is a number.
LEMMA BusyIsJob ==
    ASSUME SessionInv, NEW w \in Workers, job[w].stage # "idle"
    PROVE  job[w] \in Job /\ job[w].pool \in PoolIds /\ Others(job, job, w)
BY DEF SessionInv, Sound, Typed, Job, Idle, Others

\* A worker that becomes idle leaves the sessions sound, whatever is in pools p.
LEMMA IdleSound ==
    ASSUME NEW p, Sound(keyed, p, job), NEW w \in Workers, NEW spilled,
           Become(keyed, p, [job EXCEPT ![w] = Idle], spilled)
    PROVE  SessionInv'
<1> DEFINE i == [job EXCEPT ![w] = Idle]
<1>1. Others(job, i, w) /\ i[w].stage = "idle" /\ i[w].pool = Anon
  BY DEF Others, Idle, Sound, Typed
<1> HIDE DEF i
<1>2. Sound(keyed, p, i)
  BY <1>1, LeavingSound
<1>3. QED
  BY <1>2, BecomeSound DEF i

\* So does one that goes on with its pool, to retire, make or close a context.
LEMMA StageSound ==
    ASSUME NEW p, Sound(keyed, p, job), NEW w \in Workers, Using(job, w),
           NEW s \in {"retire", "create", "close"}, NEW again \in BOOLEAN,
           NEW i, i = [job EXCEPT ![w].stage = s, ![w].again = again],
           Become(keyed, p, i, FALSE)
    PROVE  SessionInv'
<1>1. job[w] \in Job
  BY DEF Sound, Typed, Using, Job, Idle
<1>2. /\ Others(job, i, w) /\ i[w].stage = s
      /\ i[w].req = job[w].req /\ i[w].pool = job[w].pool
  BY <1>1 DEF Others, Job, Stage, Sound, Typed
<1>3. Using(i, w) /\ Fitting(i, w)
  BY <1>2 DEF Using, Fitting
<1>4. Sound(keyed, p, i)
  BY <1>2, <1>3, GoingOnSound
<1>5. QED
  BY <1>4, BecomeSound

\* Setting the stage alone is setting it and leaving `again' as it is.
LEMMA GoesSound ==
    ASSUME NEW p, Sound(keyed, p, job), NEW w \in Workers, Using(job, w),
           NEW s \in {"retire", "create", "close"},
           Become(keyed, p, Goes(w, s), FALSE)
    PROVE  SessionInv'
<1>1. job[w] \in Job
  BY DEF Sound, Typed, Using, Job, Idle
<1>2. Goes(w, s) = [job EXCEPT ![w].stage = s, ![w].again = job[w].again]
  BY <1>1 DEF Goes, Job, Sound, Typed
<1>3. job[w].again \in BOOLEAN
  BY <1>1 DEF Job
<1>4. QED
  BY <1>2, <1>3, StageSound

\* Asking for a context, with no pool, does.
LEMMA AskSound ==
    ASSUME SessionInv, NEW w \in Workers, NEW j, Others(job, j, w), j[w] \in Job,
           j[w].pool = Anon, Ask(w, j)
    PROVE  SessionInv'
<1>1. CASE AcquirePool(w, j)
  BY <1>1, AcquirePoolSound
<1>2. CASE Become(keyed, pools, [j EXCEPT ![w].stage = "lock"], FALSE)
  <2> DEFINE i == [j EXCEPT ![w].stage = "lock"]
  <2>1. Others(job, i, w) /\ i[w].stage = "lock" /\ i[w].pool = Anon
    BY DEF Others, Job, Stage
  <2> HIDE DEF i
  <2>2. Sound(keyed, pools, i)
    BY <2>1, LeavingSound DEF SessionInv
  <2>3. QED
    BY <1>2, <2>2, BecomeSound DEF i
<1>3. QED
  BY <1>1, <1>2 DEF Ask

\* Asking for a page does.
LEMMA BeginSound ==
    ASSUME SessionInv, NEW w \in Workers, NEW r \in Requests, fetch(w, r) \/ screenshot(w, r)
    PROVE  SessionInv'
<1>1. PICK again \in BOOLEAN : Begin(w, r, again)
  BY DEF fetch, screenshot
<1> DEFINE e == [stage |-> "lock", req |-> r, fresh |-> FALSE, again |-> again,
                 pool |-> Anon, ctx |-> NewContext(r)]
           j == [job EXCEPT ![w] = e]
<1>2. Anon \in PoolIds
  BY PoolsAreNumbered DEF SessionInv, Sound
<1>3. e \in Job
  BY <1>2 DEF Job, Stage, Context, NewContext
<1>4. e.pool = Anon
  OBVIOUS
<1> HIDE DEF e
<1>5. Others(job, j, w) /\ j[w] = e
  BY <1>3 DEF Others, SessionInv, Sound, Typed
<1>6. Ask(w, j)
  BY <1>1 DEF Begin, e
<1> HIDE DEF j
<1>7. QED
  BY <1>3, <1>4, <1>5, <1>6, AskSound

\* Draining does: what is closed was idle.
LEMMA DrainSound ==
    ASSUME SessionInv, NEW w \in Workers, Drain(w)
    PROVE  SessionInv'
<1>1. job[w].stage = "evict" /\ job[w] \in Job /\ job[w].pool \in PoolIds /\ Others(job, job, w)
  BY BusyIsJob DEF Drain, At
<1>2. CASE NewPool(w, job)
  <2>1. job[w].req.sticky
    BY <1>1 DEF SessionInv, Sound, Placed
  <2>2. QED
    BY <1>1, <1>2, <2>1, NewPoolSound
<1>3. CASE /\ pools[job[w].pool] # <<>>
           /\ Become(keyed, [pools EXCEPT ![job[w].pool] = Tail(@)], job, FALSE)
  <2>1. Sound(keyed, [pools EXCEPT ![job[w].pool] = Tail(@)], job)
    BY <1>1, <1>3, TakingSound DEF SessionInv
  <2>2. QED
    BY <1>3, <2>1, BecomeSound
<1>4. QED
  BY <1>2, <1>3 DEF Drain

\* Taking the lock and launching do.
LEMMA TakeLockSound ==
    ASSUME SessionInv, NEW w \in Workers, TakeLock(w)
    PROVE  SessionInv'
<1>1. job[w].stage = "lock" /\ job[w] \in Job /\ Others(job, job, w) /\ job[w].pool = Anon
  BY BusyIsJob DEF TakeLock, At, SessionInv, Sound, Placed
<1>2. CASE AcquirePool(w, job)
  BY <1>1, <1>2, AcquirePoolSound
<1>3. CASE Become(keyed, pools, Goes(w, "launch"), FALSE)
  <2> DEFINE i == Goes(w, "launch")
  <2>1. Others(job, i, w) /\ i[w].stage = "launch" /\ i[w].pool = Anon
    BY <1>1 DEF Others, Job, Stage, Goes
  <2> HIDE DEF i
  <2>2. Sound(keyed, pools, i)
    BY <2>1, LeavingSound DEF SessionInv
  <2>3. QED
    BY <1>3, <2>2, BecomeSound DEF i
<1>4. QED
  BY <1>2, <1>3 DEF TakeLock

\* A context that is reused was made for the proxy of the request, and has
\* served its session only.
LEMMA AcquireSound ==
    ASSUME SessionInv, NEW w \in Workers, Acquire(w)
    PROVE  SessionInv'
<1> DEFINE q == job[w].pool
           r == job[w].req
           c == Head(pools[q])
           b == [pools EXCEPT ![q] = Tail(@)]
<1>1. job[w].stage = "permit" /\ job[w] \in Job /\ q \in PoolIds /\ Using(job, w)
  BY BusyIsJob DEF Acquire, At, Using
<1>2. Sound(keyed, pools, job)
  BY DEF SessionInv
<1>3. ASSUME pools[q] # <<>> PROVE Sound(keyed, b, job)
  BY <1>1, <1>2, <1>3, TakingSound
<1>4. ASSUME pools[q] # <<>>, Become(keyed, b, Goes(w, "retire"), FALSE)
      PROVE  SessionInv'
  BY <1>1, <1>3, <1>4, GoesSound
<1>5. ASSUME Become(keyed, pools, Goes(w, "create"), FALSE)
      PROVE  SessionInv'
  BY <1>1, <1>2, <1>5, GoesSound
<1>6. ASSUME Reuses(w), pools[q] # <<>>,
             Become(keyed, b, [job EXCEPT ![w].stage = Ready(r), ![w].ctx = c], FALSE)
      PROVE  SessionInv'
  <2> DEFINE i == [job EXCEPT ![w].stage = Ready(r), ![w].ctx = c]
  <2>1. c \in Context /\ c \in ToSet(pools[q])
    <3>1. pools[q] \in Seq(Context)
      BY <1>1, <1>2 DEF Sound, Typed
    <3>2. Len(pools[q]) \in Nat /\ Len(pools[q]) > 0 /\ DOMAIN pools[q] = 1..Len(pools[q])
          /\ c = pools[q][1]
      BY <1>6, <3>1, LenProperties, HeadTailProperties, EmptySeq
    <3>3. 1 \in 1..Len(pools[q])
      BY <3>2
    <3>4. QED
      BY <3>1, <3>2, <3>3, ElementOfSeq DEF ToSet
  <2>2. /\ Others(job, i, w) /\ i[w].stage = Ready(r) /\ i[w].ctx = c
        /\ i[w].req = r /\ i[w].pool = q
    BY <1>1, <1>2, <2>1 DEF Others, Job, Stage, Ready, Sound, Typed
  <2>3. r \in Requests
    BY <1>1 DEF Job
  <2>4. CASE r.sticky
    <3>1. Owner(keyed, job, make_session_key(r), q)
      BY <1>1, <2>4 DEF Owner
    <3>2. Owns(make_session_key(r), c)
      BY <1>2, <2>1, <3>1 DEF Sound, Filled
    <3>3. c.proxy = r.proxy
      BY <3>2 DEF Owns, make_session_key
    <3>4. c.state \subseteq {r}
      <4>1. ASSUME NEW a \in c.state PROVE a = r
        <5>1. a \in Requests /\ a.sticky /\ make_session_key(a) = make_session_key(r)
          BY <2>1, <3>2, <4>1 DEF Owns, Context
        <5>2. a.domain = r.domain /\ a.proxy = r.proxy /\ a.sticky = r.sticky
          BY <2>3, <2>4, <5>1, PoolAssumption DEF make_session_key
        <5>3. /\ a = [domain |-> a.domain, proxy |-> a.proxy, sticky |-> a.sticky]
              /\ r = [domain |-> r.domain, proxy |-> r.proxy, sticky |-> r.sticky]
          BY <2>3, <5>1, PoolAssumption
        <5>4. QED
          BY <5>2, <5>3
      <4>2. QED
        BY <4>1
    <3> HIDE DEF i, c
    <3>5. Fitting(i, w) /\ Using(i, w)
      BY <2>2, <2>4, <3>3, <3>4 DEF Fitting, Using, Ready
    <3>6. Sound(keyed, b, i)
      BY <1>1, <1>3, <1>6, <2>2, <3>5, GoingOnSound
    <3>7. QED
      BY <1>6, <3>6, BecomeSound DEF i
  <2>5. CASE ~r.sticky
    <3>1. q = Anon /\ r.proxy = Direct
      BY <1>1, <1>2, <1>6, <2>5 DEF Sound, Placed, Reuses
    <3>2. c.proxy = r.proxy /\ Common(c)
      BY <1>2, <2>1, <3>1 DEF Sound, Filled
    <3> HIDE DEF i, c
    <3>3. Fitting(i, w) /\ Using(i, w)
      BY <2>2, <2>5, <3>2 DEF Fitting, Using, Ready
    <3>4. Sound(keyed, b, i)
      BY <1>1, <1>3, <1>6, <2>2, <3>3, GoingOnSound
    <3>5. QED
      BY <1>6, <3>4, BecomeSound DEF i
  <2>6. QED
    BY <2>4, <2>5
<1>7. QED
  BY <1>4, <1>5, <1>6 DEF Acquire

\* A context that is made is made for the request.
LEMMA CreatedSound ==
    ASSUME SessionInv, NEW w \in Workers, Created(w)
    PROVE  SessionInv'
<1> DEFINE r == job[w].req
           c == NewContext(r)
           i == [job EXCEPT ![w].stage = Ready(r), ![w].ctx = c]
<1>1. job[w].stage = "create" /\ job[w] \in Job /\ Using(job, w)
  BY BusyIsJob DEF Created, At, Using
<1>2. c \in Context /\ c.proxy = r.proxy /\ c.state = {} /\ Common(c)
  BY <1>1 DEF Job, Context, NewContext, Common
<1> HIDE DEF c
<1>3. /\ Others(job, i, w) /\ i[w].stage = Ready(r) /\ i[w].ctx = c
      /\ i[w].req = r /\ i[w].pool = job[w].pool
  BY <1>1, <1>2 DEF Others, Job, Stage, Ready, SessionInv, Sound, Typed
<1>4. Become(keyed, pools, i, FALSE)
  BY DEF Created, c
<1> HIDE DEF i
<1>5. Fitting(i, w) /\ Using(i, w)
  BY <1>2, <1>3 DEF Fitting, Using, Ready
<1>6. Sound(keyed, pools, i)
  BY <1>1, <1>3, <1>5, GoingOnSound DEF SessionInv
<1>7. QED
  BY <1>4, <1>6, BecomeSound

\* One that is cleared has nothing left in it, one that is not only what pages
\* outside a session have left.
LEMMA ClearedSound ==
    ASSUME SessionInv, NEW w \in Workers, Cleared(w) \/ ClearFails(w)
    PROVE  SessionInv'
<1> DEFINE a == [job EXCEPT ![w].stage = "use", ![w].ctx.state = {}]
           b == [job EXCEPT ![w].stage = "use", ![w].ctx.kept = TRUE]
<1>1. /\ job[w].stage = "clear" /\ job[w] \in Job /\ Using(job, w)
      /\ ~job[w].req.sticky /\ job[w].ctx.proxy = job[w].req.proxy /\ Common(job[w].ctx)
  BY BusyIsJob DEF Cleared, ClearFails, At, Using, SessionInv, Sound, Fitting
<1>2. /\ Others(job, a, w) /\ a[w].stage = "use"
      /\ a[w].ctx.proxy = job[w].ctx.proxy /\ a[w].ctx.state = {}
      /\ a[w].req = job[w].req /\ a[w].pool = job[w].pool
  BY <1>1 DEF Others, Job, Stage, Context, SessionInv, Sound, Typed
<1>3. /\ Others(job, b, w) /\ b[w].stage = "use"
      /\ b[w].ctx.proxy = job[w].ctx.proxy /\ b[w].ctx.state = job[w].ctx.state
      /\ b[w].ctx.kept
      /\ b[w].req = job[w].req /\ b[w].pool = job[w].pool
  BY <1>1 DEF Others, Job, Stage, Context, SessionInv, Sound, Typed
<1>4. Become(keyed, pools, a, FALSE) \/ Become(keyed, pools, b, FALSE)
  BY DEF Cleared, ClearFails
<1> HIDE DEF a, b
<1>5. Fitting(a, w) /\ Using(a, w)
  BY <1>1, <1>2 DEF Fitting, Using, Common
<1>6. Fitting(b, w) /\ Using(b, w)
  BY <1>1, <1>3 DEF Fitting, Using, Common
<1>7. Sound(keyed, pools, a)
  BY <1>1, <1>2, <1>5, GoingOnSound DEF SessionInv
<1>8. Sound(keyed, pools, b)
  BY <1>1, <1>3, <1>6, GoingOnSound DEF SessionInv
<1>9. QED
  BY <1>4, <1>7, <1>8, BecomeSound

\* A context that is put back is its session's, or a direct one without.
LEMMA ReturnSound ==
    ASSUME SessionInv, NEW w \in Workers, Return(w)
    PROVE  SessionInv'
<1> DEFINE q == job[w].pool
           r == job[w].req
           x == make_session_key(r)
           c == Used(w)
           b == [pools EXCEPT ![q] = IF Len(@) < MaxContexts THEN Append(@, c) ELSE @]
<1>1. job[w].stage = "use" /\ job[w] \in Job /\ q \in PoolIds /\ Using(job, w)
  BY BusyIsJob DEF Return, At, Using
<1>2. Sound(keyed, pools, job)
  BY DEF SessionInv
<1>3. ASSUME Become(keyed, pools, [job EXCEPT ![w].stage = "close", ![w].again = FALSE], FALSE)
      PROVE  SessionInv'
  BY <1>1, <1>2, <1>3, StageSound
<1>4. ASSUME Pooled(w), Become(keyed, b, [job EXCEPT ![w] = Idle], FALSE)
      PROVE  SessionInv'
  <2>1. /\ c \in Context /\ c.proxy = r.proxy
        /\ r.sticky => c.state \subseteq {r}
        /\ ~r.sticky => Common(c)
    <3>1. /\ job[w].ctx \in Context /\ r \in Requests
          /\ job[w].ctx.proxy = r.proxy
          /\ r.sticky => job[w].ctx.state \subseteq {r}
          /\ ~r.sticky => Common(job[w].ctx)
      BY <1>1, <1>2 DEF Job, Sound, Fitting
    <3>2. c.state = job[w].ctx.state \cup {r} /\ c.proxy = r.proxy /\ c \in Context
      BY <3>1 DEF Used, Context
    <3> HIDE DEF c
    <3>3. QED
      BY <3>1, <3>2 DEF Common
  <2>2. r.sticky => Owner(keyed, job, x, q) /\ q # Anon
    BY <1>1, <1>2 DEF Owner, Sound, Owned
  <2>3. ~r.sticky => q = Anon
    BY <1>1, <1>2 DEF Sound, Placed
  <2>4. q = Anon => c.proxy = Direct /\ Common(c)
    BY <1>4, <2>1, <2>2 DEF Pooled
  <2>5. ASSUME NEW y, Owner(keyed, job, y, q) PROVE Owns(y, c)
    <3>1. q # Anon /\ r.sticky
      BY <1>2, <2>3, <2>5 DEF Sound, Owned
    <3>2. y = x
      BY <1>2, <2>2, <2>5, <3>1 DEF Sound, Owned
    <3>3. x[2] = r.proxy
      BY DEF make_session_key
    <3>4. QED
      BY <2>1, <3>1, <3>2, <3>3 DEF Owns
  <2> HIDE DEF c
  <2>6. Sound(keyed, b, job)
    BY <1>1, <1>2, <2>1, <2>4, <2>5, PuttingSound
  <2> HIDE DEF b
  <2>7. QED
    BY <1>4, <2>6, IdleSound
<1>5. QED
  BY <1>3, <1>4 DEF Return

\* A context that is closed goes with its worker's pool; the page may be tried
\* again.
LEMMA ClosedSound ==
    ASSUME SessionInv, NEW w \in Workers, Closed(w)
    PROVE  SessionInv'
<1>1. CASE Become(keyed, pools, [job EXCEPT ![w] = Idle], FALSE)
  BY <1>1, IdleSound DEF SessionInv
<1>2. CASE Ask(w, [job EXCEPT ![w].fresh = TRUE, ![w].again = FALSE, ![w].pool = Anon])
  <2> DEFINE j == [job EXCEPT ![w].fresh = TRUE, ![w].again = FALSE, ![w].pool = Anon]
  <2>1. job[w] \in Job
    BY BusyIsJob DEF Closed, At
  <2>2. Anon \in PoolIds
    BY PoolsAreNumbered DEF SessionInv, Sound
  <2>3. Others(job, j, w) /\ j[w] \in Job /\ j[w].pool = Anon
    BY <2>1, <2>2 DEF Others, Job, SessionInv, Sound, Typed
  <2>4. Ask(w, j)
    BY <1>2
  <2> HIDE DEF j
  <2>5. QED
    BY <2>3, <2>4, AskSound
<1>3. QED
  BY <1>1, <1>2 DEF Closed

\* Nothing is owned when there is no table and no worker is under way.
LEMMA NothingSound ==
    ASSUME NEW k, NEW p, NEW j, k = <<>>, p = [q \in PoolIds |-> <<>>],
           j \in [Workers -> {Idle}]
    PROVE  Sound(k, p, j)
<1>1. Len(k) = 0 /\ k \in Seq(Keys \X PoolIds) /\ DOMAIN k = {}
  BY EmptySeq
<1>2. KeyedOK(k) /\ ToSet(k) = {}
  BY <1>1, PoolAssumption DEF KeyedOK, ToSet
<1>3. Typed(k, p, j)
  <2>1. <<>> \in Seq(Context)
    BY EmptySeq
  <2>2. QED
    BY <1>2, <2>1 DEF Typed
<1>4. \A w \in Workers : j[w].stage = "idle" /\ j[w].pool = Anon
  BY DEF Idle
<1>5. \A x, q : ~Owner(k, j, x, q)
  BY <1>2, <1>4 DEF Owner, Using
<1>6. Owned(k, j)
  BY <1>5 DEF Owned
<1>7. Filled(k, p, j)
  <2>1. Anon \in PoolIds /\ ToSet(<<>>) = {}
    BY <1>1, <1>3, PoolsAreNumbered DEF ToSet
  <2>2. QED
    BY <1>5, <2>1 DEF Filled
<1>8. \A w \in Workers : Placed(j, w) /\ Fitting(j, w)
  BY <1>4 DEF Placed, Fitting, Using
<1>9. QED
  BY <1>3, <1>6, <1>7, <1>8 DEF Sound

\* The sessions are sound at first.
LEMMA SessionInit == Init => SessionInv
<1>1. SUFFICES ASSUME Init PROVE SessionInv
  OBVIOUS
<1>2. Sound(keyed, pools, job)
  BY <1>1, NothingSound DEF Init
<1>3. QED
  BY <1>1, <1>2 DEF Init, SessionInv

\* Every step leaves them sound.
LEMMA SessionStep == SessionInv /\ [Next]_vars => SessionInv'
<1>1. SUFFICES ASSUME SessionInv, [Next]_vars PROVE SessionInv'
  OBVIOUS
<1>2. ASSUME Sound(keyed', pools', job'), \A q \in PoolIds \ Referred(keyed', job') : pools'[q] = <<>>
      PROVE  SessionInv'
  <2>1. Typed(keyed, pools, job)'
    BY <1>2 DEF Sound, Typed, KeyedOK
  <2>2. Owned(keyed, job)'
    BY <1>2 DEF Sound, Owned, Owner, Using
  <2>3. Filled(keyed, pools, job)'
    BY <1>2 DEF Sound, Filled, Owner, Using, Owns, Common
  <2>4. ASSUME NEW w \in Workers PROVE Placed(job, w)' /\ Fitting(job, w)'
    BY <1>2 DEF Sound, Placed, Fitting, Using
  <2>5. QED
    BY <1>2, <2>1, <2>2, <2>3, <2>4 DEF Sound, SessionInv, Referred
<1>3. CASE UNCHANGED vars
  BY <1>1, <1>2, <1>3 DEF vars, SessionInv
<1>4. CASE Close
  <2>1. keyed' = <<>> /\ pools' = [q \in PoolIds |-> <<>>] /\ job' \in [Workers -> {Idle}]
    BY <1>1, <1>4 DEF Close, SessionInv, Sound, Typed
  <2>2. Sound(keyed', pools', job')
    BY <2>1, NothingSound
  <2>3. QED
    BY <1>2, <2>1, <2>2
<1>5. ASSUME NEW w \in Workers, NEW r \in Requests, fetch(w, r) \/ screenshot(w, r)
      PROVE  SessionInv'
  BY <1>1, <1>5, BeginSound
<1>6. ASSUME NEW w \in Workers, TakeLock(w) \/ Acquire(w)
      PROVE  SessionInv'
  BY <1>1, <1>6, TakeLockSound, AcquireSound
<1>7. ASSUME NEW w \in Workers, Cancel(w)
      PROVE  SessionInv'
  <2>1. \E spilled : Become(keyed, pools, [job EXCEPT ![w] = Idle], spilled)
    BY <1>7 DEF Cancel, GiveUp
  <2>2. QED
    BY <1>1, <2>1, IdleSound DEF SessionInv
<1>8. ASSUME NEW w \in Workers, Proceed(w)
      PROVE  SessionInv'
  <2>1. CASE LaunchFails(w) \/ CreateFails(w)
    <3>1. \E spilled : Become(keyed, pools, [job EXCEPT ![w] = Idle], spilled)
      BY <2>1 DEF LaunchFails, CreateFails, GiveUp
    <3>2. QED
      BY <1>1, <3>1, IdleSound DEF SessionInv
  <2>2. CASE Launched(w)
    <3>1. job[w] \in Job /\ Others(job, job, w)
      BY <1>1, <2>2, BusyIsJob DEF Launched, At
    <3>2. QED
      BY <1>1, <2>2, <3>1, AcquirePoolSound DEF Launched
  <2>3. CASE Retired(w)
    BY <1>1, <2>3, GoesSound DEF Retired, At, Using, SessionInv
  <2>4. CASE PageFails(w)
    BY <1>1, <2>4, StageSound DEF PageFails, At, Using, SessionInv
  <2>5. CASE ChallengeTimesOut(w)
    BY <1>1, <2>5, GoesSound DEF ChallengeTimesOut, At, Using, SessionInv
  <2>6. QED
    BY <1>1, <1>8, <2>1, <2>2, <2>3, <2>4, <2>5, DrainSound, CreatedSound, ClearedSound,
       ReturnSound, ClosedSound DEF Proceed
<1>9. QED
  BY <1>1, <1>3, <1>4, <1>5, <1>6, <1>7, <1>8 DEF Next

\* A page is opened in a context that was made for its own proxy and carries
\* nobody else's cookies (fetchers/browser.py, _get_context and fetch()): no
\* interleaving of checkouts, evictions, retries and cancellations mixes two
\* sessions, or a session and the anonymous pool.
THEOREM SessionsKeepIdentity == Spec => []IdentityIsKept
<1>1. SessionInv => IdentityIsKept
  BY DEF SessionInv, Sound, Fitting, IdentityIsKept, At, Common
<1>2. QED
  BY <1>1, SessionInit, SessionStep, PTL DEF Spec

-----------------------------------------------------------------------------
(* Capacity.  The idle contexts of a pool and those that will be put back  *)
(* into it are no more than it holds.                                      *)

\* The workers that will put their context back into pool q.
Takers(j, q) ==
    {w \in Workers : /\ j[w].stage \in Held /\ j[w].pool = q
                     /\ ~j[w].fresh /\ (j[w].req.sticky \/ j[w].req.proxy = Direct)}

Fits(p, j) == \A q \in PoolIds : Len(p[q]) + Cardinality(Takers(j, q)) <= MaxContexts

\* Inductive, with the invariants of the permits and the sessions.
CapacityInv == Fits(pools, job) /\ up \in BOOLEAN /\ lost \in BOOLEAN /\ excuse \in BOOLEAN

Pools == [PoolIds -> Seq(Context)]

\* The takers of a pool are users of it, and can be counted.
LEMMA TakersCount ==
    ASSUME NEW j, NEW q
    PROVE  IsFiniteSet(Takers(j, q)) /\ Cardinality(Takers(j, q)) \in Nat
<1>1. Takers(j, q) \subseteq Workers
  BY DEF Takers
<1>2. QED
  BY <1>1, PoolAssumption, FS_Subset, FS_CardinalityType

\* Fewer idle contexts and fewer takers fit.
LEMMA FewerFit ==
    ASSUME NEW p \in Pools, NEW b \in Pools, NEW j, NEW i, Fits(p, j),
           \A q \in PoolIds : Len(b[q]) <= Len(p[q]),
           \A q \in PoolIds : Takers(i, q) \subseteq Takers(j, q)
    PROVE  Fits(b, i)
<1>1. ASSUME NEW q \in PoolIds PROVE Len(b[q]) + Cardinality(Takers(i, q)) <= MaxContexts
  <2>1. /\ Cardinality(Takers(i, q)) <= Cardinality(Takers(j, q))
        /\ Cardinality(Takers(i, q)) \in Nat /\ Cardinality(Takers(j, q)) \in Nat
    BY TakersCount, FS_Subset
  <2>2. Len(b[q]) \in Nat /\ Len(p[q]) \in Nat
    BY LenProperties DEF Pools
  <2>3. Len(p[q]) + Cardinality(Takers(j, q)) <= MaxContexts
    BY DEF Fits
  <2>4. QED
    BY <2>1, <2>2, <2>3, PoolAssumption
<1>2. QED
  BY <1>1 DEF Fits

\* What becomes the state fits: pools that are gone are emptied.
LEMMA BecomeFits ==
    ASSUME NEW k, NEW p \in Pools, NEW j, NEW spilled, Become(k, p, j, spilled), Fits(p, j)
    PROVE  Fits(pools', job')
<1>1. job' = j /\ pools' = [i \in PoolIds |-> IF i \in Referred(k, j) THEN p[i] ELSE <<>>]
  BY DEF Become
<1>2. pools' \in Pools
  <2>1. <<>> \in Seq(Context) /\ \A i \in PoolIds : p[i] \in Seq(Context)
    BY EmptySeq DEF Pools
  <2>2. QED
    BY <1>1, <2>1 DEF Pools
<1>3. ASSUME NEW q \in PoolIds PROVE Len(pools'[q]) <= Len(p[q])
  <2>1. Len(p[q]) \in Nat /\ Len(<<>>) = 0
    BY LenProperties, EmptySeq DEF Pools
  <2>2. pools'[q] = p[q] \/ pools'[q] = <<>>
    BY <1>1
  <2>3. QED
    BY <2>1, <2>2
<1>4. QED
  BY <1>1, <1>2, <1>3, FewerFit

\* Worker w is no new taker, and of the others nothing changes.
Quiet(i, w) ==
    /\ \A v \in Workers \ {w} : i[v] = job[v]
    /\ \/ i[w].stage \notin Held
       \/ /\ job[w].stage \in Held /\ i[w].pool = job[w].pool
          /\ i[w].req = job[w].req /\ i[w].fresh = job[w].fresh

\* A pool whose oldest context is taken is smaller by one.
LEMMA TailIsSmaller ==
    ASSUME NEW p \in Pools, NEW v \in PoolIds, p[v] # <<>>
    PROVE  LET b == [p EXCEPT ![v] = Tail(@)]
           IN /\ b \in Pools /\ Len(b[v]) = Len(p[v]) - 1 /\ Len(p[v]) \in Nat
              /\ \A q \in PoolIds : Len(b[q]) <= Len(p[q])
<1> DEFINE b == [p EXCEPT ![v] = Tail(@)]
<1>1. p[v] \in Seq(Context)
  BY DEF Pools
<1>2. Tail(p[v]) \in Seq(Context) /\ Len(Tail(p[v])) = Len(p[v]) - 1 /\ Len(p[v]) \in Nat
  BY <1>1, HeadTailProperties, LenProperties
<1>3. b \in Pools /\ b[v] = Tail(p[v]) /\ \A q \in PoolIds \ {v} : b[q] = p[q]
  BY <1>2 DEF Pools
<1> HIDE DEF b
<1>4. ASSUME NEW q \in PoolIds PROVE Len(b[q]) <= Len(p[q])
  <2>1. CASE q = v
    <3>1. Len(b[q]) = Len(p[q]) - 1 /\ Len(p[q]) \in Nat
      BY <1>2, <1>3, <2>1
    <3>2. QED
      BY <3>1
  <2>2. CASE q # v
    <3>1. b[q] = p[q] /\ Len(p[q]) \in Nat
      BY <1>3, <2>2, LenProperties DEF Pools
    <3>2. QED
      BY <3>1
  <2>3. QED
    BY <2>1, <2>2
<1>5. b \in Pools /\ Len(b[v]) = Len(p[v]) - 1 /\ Len(p[v]) \in Nat
  BY <1>2, <1>3
<1>6. QED
  BY <1>4, <1>5 DEF b

\* A step that takes no context for use leaves what fits.
LEMMA QuietFits ==
    ASSUME pools \in Pools, Fits(pools, job), NEW w \in Workers, NEW i, Quiet(i, w),
           NEW k, NEW spilled, NEW p,
           Become(k, p, i, spilled),
           \/ p = pools
           \/ \E v \in PoolIds : pools[v] # <<>> /\ p = [pools EXCEPT ![v] = Tail(@)]
    PROVE  Fits(pools', job')
<1>1. \A q \in PoolIds : Takers(i, q) \subseteq Takers(job, q)
  BY DEF Takers, Quiet
<1>2. p \in Pools /\ \A q \in PoolIds : Len(p[q]) <= Len(pools[q])
  <2>1. CASE p = pools
    <3>1. \A q \in PoolIds : Len(pools[q]) \in Nat
      BY LenProperties DEF Pools
    <3>2. QED
      BY <2>1, <3>1
  <2>2. QED
    BY <2>1, TailIsSmaller
<1>3. Fits(p, i)
  BY <1>1, <1>2, FewerFit
<1>4. QED
  BY <1>2, <1>3, BecomeFits

\* A worker that gets a pool, or drains one for it, is no taker.
LEMMA ChosenIsQuiet ==
    ASSUME NEW w \in Workers, NEW j, Others(job, j, w), NEW s \in {"permit", "evict"}, NEW q
    PROVE  Quiet([j EXCEPT ![w].stage = s, ![w].pool = q], w)
<1>1. "stage" \in DOMAIN j[w]
  BY DEF Others, Job, Idle
<1>2. QED
  BY <1>1 DEF Quiet, Others, Held

\* Making a new pool takes no context for use.
LEMMA NewPoolFits ==
    ASSUME SessionInv, Fits(pools, job), NEW w \in Workers, NEW j, Others(job, j, w),
           NewPool(w, j)
    PROVE  Fits(pools', job')
<1> DEFINE victim == Head(keyed)[2]
<1>1. pools \in Pools /\ KeyedOK(keyed)
  BY DEF SessionInv, Sound, Typed, Pools
<1>2. ASSUME Len(keyed) >= MaxPools, pools[victim] # <<>>,
             Become(Tail(keyed), [pools EXCEPT ![victim] = Tail(@)],
                    [j EXCEPT ![w].stage = "evict", ![w].pool = victim], FALSE)
      PROVE  Fits(pools', job')
  <2>1. keyed # <<>>
    BY <1>2, PoolAssumption, EmptySeq
  <2>2. victim \in PoolIds
    BY <1>1, <2>1, PoppedOK
  <2> HIDE DEF victim
  <2>3. QED
    BY <1>1, <1>2, <2>2, ChosenIsQuiet, QuietFits
<1>3. ASSUME NEW k,
             Become(k, pools, [j EXCEPT ![w].stage = "permit", ![w].pool = Number], FALSE)
      PROVE  Fits(pools', job')
  BY <1>1, <1>3, ChosenIsQuiet, QuietFits
<1>4. QED
  BY <1>2, <1>3 DEF NewPool

\* Nor does getting any.
LEMMA AcquirePoolFits ==
    ASSUME SessionInv, Fits(pools, job), NEW w \in Workers, NEW j, Others(job, j, w),
           AcquirePool(w, j)
    PROVE  Fits(pools', job')
<1>1. pools \in Pools
  BY DEF SessionInv, Sound, Typed, Pools
<1>2. ASSUME NEW k, NEW q,
             Become(k, pools, [j EXCEPT ![w].stage = "permit", ![w].pool = q], FALSE)
      PROVE  Fits(pools', job')
  BY <1>1, <1>2, ChosenIsQuiet, QuietFits
<1>3. QED
  BY <1>2, NewPoolFits DEF AcquirePool

\* Taking a permit takes at most one: the oldest idle context of the pool, or a
\* new one when there is none and so no pool can be left too small.
LEMMA AcquireFits ==
    ASSUME PermitInv, PermitInv', SessionInv, SessionInv', Fits(pools, job),
           NEW w \in Workers, Acquire(w)
    PROVE  Fits(pools', job')
<1> DEFINE q == job[w].pool
           b == [pools EXCEPT ![q] = Tail(@)]
<1>1. job[w].stage = "permit" /\ job[w] \in Job /\ q \in PoolIds
  BY BusyIsJob DEF Acquire, At
<1>2. pools \in Pools /\ job \in [Workers -> Job \cup {Idle}]
  BY DEF SessionInv, Sound, Typed, Pools
<1>3. job' \in [Workers -> Job \cup {Idle}] /\ job'[w].pool = q
      /\ \A v \in Workers \ {w} : job'[v] = job[v]
  BY <1>1, <1>2 DEF SessionInv, Sound, Typed, Acquire, Become, Goes, Job
<1>4. \A r \in PoolIds \ {q} : Takers(job', r) = Takers(job, r)
  BY <1>1, <1>3 DEF Takers, Held
<1>5. Takers(job', q) \subseteq Takers(job, q) \cup {w}
  BY <1>3 DEF Takers
<1>6. ASSUME pools[q] # <<>>, NEW k, NEW spilled, Become(k, b, job', spilled)
      PROVE  Fits(pools', job')
  <2>1. /\ b \in Pools /\ Len(b[q]) = Len(pools[q]) - 1 /\ Len(pools[q]) \in Nat
        /\ \A r \in PoolIds : Len(b[r]) <= Len(pools[r])
    BY <1>1, <1>2, <1>6, TailIsSmaller
  <2> HIDE DEF b
  <2>2. Cardinality(Takers(job', q)) <= Cardinality(Takers(job, q)) + 1
    <3>1. /\ IsFiniteSet(Takers(job, q) \cup {w})
          /\ Cardinality(Takers(job, q) \cup {w}) \in {Cardinality(Takers(job, q)), Cardinality(Takers(job, q)) + 1}
      BY TakersCount, FS_AddElement
    <3>2. Cardinality(Takers(job', q)) <= Cardinality(Takers(job, q) \cup {w})
      BY <1>5, <3>1, FS_Subset
    <3>3. QED
      BY <3>1, <3>2, TakersCount
  <2>3. ASSUME NEW r \in PoolIds PROVE Len(b[r]) + Cardinality(Takers(job', r)) <= MaxContexts
    <3>1. /\ Len(b[r]) \in Nat /\ Len(pools[r]) \in Nat
          /\ Cardinality(Takers(job', r)) \in Nat /\ Cardinality(Takers(job, r)) \in Nat
          /\ Len(pools[r]) + Cardinality(Takers(job, r)) <= MaxContexts
      BY <1>2, <2>1, LenProperties, TakersCount DEF Pools, Fits
    <3>2. CASE r = q
      BY <2>1, <2>2, <3>1, <3>2, PoolAssumption
    <3>3. CASE r # q
      <4>1. Takers(job', r) = Takers(job, r) /\ Len(b[r]) <= Len(pools[r])
        BY <1>4, <2>1, <3>3
      <4>2. QED
        BY <3>1, <4>1, PoolAssumption
    <3>4. QED
      BY <3>2, <3>3
  <2>4. Fits(b, job')
    BY <2>3 DEF Fits
  <2>5. QED
    BY <1>6, <2>1, <2>4, BecomeFits
<1>7. ASSUME ~Reuses(w), Become(keyed, pools, Goes(w, "create"), FALSE)
      PROVE  Fits(pools', job')
  <2>1. job' = Goes(w, "create")
    BY <1>7 DEF Become
  <2>2. w \notin Takers(job', q)
    BY <1>1, <1>2, <1>7, <2>1 DEF Takers, Reuses, Goes, Job
  <2>3. \A r \in PoolIds : Takers(job', r) \subseteq Takers(job, r)
    BY <1>4, <1>5, <2>2
  <2>4. \A r \in PoolIds : Len(pools[r]) <= Len(pools[r])
    <3>1. \A r \in PoolIds : Len(pools[r]) \in Nat
      BY <1>2, LenProperties DEF Pools
    <3>2. QED
      BY <3>1
  <2>5. Fits(pools, job')
    BY <1>2, <2>3, <2>4, FewerFit
  <2>6. QED
    BY <1>2, <1>7, <2>1, <2>5, BecomeFits
<1>8. ASSUME pools[q] = <<>>, Become(keyed, pools, Goes(w, "create"), FALSE)
      PROVE  Fits(pools', job')
  <2>1. job' = Goes(w, "create")
    BY <1>8 DEF Become
  <2>2. Cardinality(Takers(job', q)) <= MaxContexts
    <3>1. Takers(job', q) \subseteq {v \in Workers : Holding(v)'}
      BY DEF Takers, Holding, At, Held
    <3>2. IsFiniteSet({v \in Workers : Holding(v)'})
      BY PoolAssumption, FS_Subset
    <3>3. /\ Cardinality(Takers(job', q)) <= Cardinality({v \in Workers : Holding(v)'})
          /\ Cardinality({v \in Workers : Holding(v)'}) \in Nat
      BY <3>1, <3>2, FS_Subset, FS_CardinalityType
    <3>4. permits' \in Nat
          /\ permits' + Cardinality({v \in Workers : Holding(v)'}) = MaxContexts
      BY DEF PermitInv, PermitsAreExact
    <3>5. QED
      BY <3>3, <3>4, TakersCount, PoolAssumption
  <2>3. ASSUME NEW r \in PoolIds PROVE Len(pools[r]) + Cardinality(Takers(job', r)) <= MaxContexts
    <3>1. CASE r = q
      <4>1. Len(pools[r]) = 0
        BY <1>8, <3>1, EmptySeq
      <4>2. QED
        BY <2>2, <3>1, <4>1, TakersCount
    <3>2. CASE r # q
      BY <1>4, <3>2 DEF Fits
    <3>3. QED
      BY <3>1, <3>2
  <2>4. Fits(pools, job')
    BY <2>3 DEF Fits
  <2>5. QED
    BY <1>2, <1>8, <2>1, <2>4, BecomeFits
<1>9. QED
  <2>1. ASSUME pools[q] # <<>>, NEW i, Become(keyed, b, i, FALSE)
        PROVE  Fits(pools', job')
    <3>1. i = job'
      BY <2>1 DEF Become
    <3> HIDE DEF b
    <3>2. QED
      BY <1>6, <2>1, <3>1
  <2>2. QED
    BY <1>7, <1>8, <2>1 DEF Acquire

\* Putting a context back puts back what was taken.
LEMMA ReturnFits ==
    ASSUME SessionInv, Fits(pools, job), NEW w \in Workers, Return(w)
    PROVE  Fits(pools', job')
<1> DEFINE q == job[w].pool
           c == Used(w)
           i == [job EXCEPT ![w] = Idle]
           b == [pools EXCEPT ![q] = IF Len(@) < MaxContexts THEN Append(@, c) ELSE @]
<1>1. job[w].stage = "use" /\ job[w] \in Job /\ q \in PoolIds
  BY BusyIsJob DEF Return, At
<1>2. pools \in Pools /\ job \in [Workers -> Job \cup {Idle}]
  BY DEF SessionInv, Sound, Typed, Pools
<1>3. ASSUME Become(keyed, pools, [job EXCEPT ![w].stage = "close", ![w].again = FALSE], FALSE)
      PROVE  Fits(pools', job')
  <2>1. Quiet([job EXCEPT ![w].stage = "close", ![w].again = FALSE], w)
    BY <1>1, <1>2 DEF Quiet, Held, Job
  <2>2. QED
    BY <1>2, <1>3, <2>1, QuietFits
<1>4. ASSUME Pooled(w), Become(keyed, b, i, FALSE)
      PROVE  Fits(pools', job')
  <2>1. c \in Context
    BY <1>1 DEF Used, Job, Context
  <2>2. /\ w \in Takers(job, q) /\ w \notin Takers(i, q)
        /\ \A r \in PoolIds : Takers(i, r) \subseteq Takers(job, r)
    BY <1>1, <1>2, <1>4 DEF Takers, Held, Pooled, Idle
  <2> HIDE DEF c, i
  <2>3. /\ pools[q] \in Seq(Context) /\ Len(pools[q]) \in Nat
        /\ Append(pools[q], c) \in Seq(Context) /\ Len(Append(pools[q], c)) = Len(pools[q]) + 1
    BY <1>1, <1>2, <2>1, AppendProperties, LenProperties DEF Pools
  <2>4. b \in Pools /\ Len(b[q]) <= Len(pools[q]) + 1 /\ \A r \in PoolIds \ {q} : b[r] = pools[r]
    BY <1>1, <1>2, <2>3 DEF Pools
  <2> HIDE DEF b
  <2>5. ASSUME NEW r \in PoolIds PROVE Len(b[r]) + Cardinality(Takers(i, r)) <= MaxContexts
    <3>1. /\ Len(b[r]) \in Nat /\ Len(pools[r]) \in Nat
          /\ Cardinality(Takers(i, r)) \in Nat /\ Cardinality(Takers(job, r)) \in Nat
          /\ Len(pools[r]) + Cardinality(Takers(job, r)) <= MaxContexts
      BY <1>2, <2>4, LenProperties, TakersCount DEF Pools, Fits
    <3>2. CASE r = q
      <4>1. IsFiniteSet(Takers(job, q) \ {w})
            /\ Cardinality(Takers(job, q) \ {w}) = Cardinality(Takers(job, q)) - 1
        BY <2>2, TakersCount, FS_RemoveElement
      <4>2. Takers(i, q) \subseteq Takers(job, q) \ {w}
        BY <1>1, <2>2
      <4>3. Cardinality(Takers(i, q)) <= Cardinality(Takers(job, q)) - 1
        BY <4>1, <4>2, FS_Subset
      <4>4. QED
        BY <2>4, <3>1, <3>2, <4>3, PoolAssumption, SMTT(30)
    <3>3. CASE r # q
      <4>1. Cardinality(Takers(i, r)) <= Cardinality(Takers(job, r))
        BY <2>2, TakersCount, FS_Subset
      <4>2. QED
        BY <2>4, <3>1, <3>3, <4>1, PoolAssumption
    <3>4. QED
      BY <3>2, <3>3
  <2>6. Fits(b, i)
    BY <2>5 DEF Fits
  <2>7. QED
    BY <1>4, <2>4, <2>6, BecomeFits
<1>5. QED
  BY <1>3, <1>4 DEF Return

\* The pools fit at first.
LEMMA CapacityInit == Init => CapacityInv
<1>1. SUFFICES ASSUME Init PROVE CapacityInv
  OBVIOUS
<1>2. ASSUME NEW q \in PoolIds PROVE Len(pools[q]) + Cardinality(Takers(job, q)) <= MaxContexts
  <2>1. Len(pools[q]) = 0
    BY <1>1, EmptySeq DEF Init
  <2>2. Takers(job, q) = {}
    BY <1>1 DEF Init, Takers, Held, Idle
  <2>3. QED
    BY <2>1, <2>2, FS_EmptySet, PoolAssumption
<1>3. QED
  BY <1>1, <1>2 DEF Init, CapacityInv, Fits

\* The flags stay flags.
LEMMA FlagsStay ==
    ASSUME CapacityInv, [Next]_vars
    PROVE  up' \in BOOLEAN /\ lost' \in BOOLEAN /\ excuse' \in BOOLEAN
<1>1. CASE UNCHANGED vars \/ Close
  BY <1>1 DEF vars, Close, CapacityInv
<1>2. ASSUME NEW w \in Workers,
             \/ \E r \in Requests : fetch(w, r) \/ screenshot(w, r)
             \/ Proceed(w) \/ TakeLock(w) \/ Acquire(w) \/ Cancel(w)
      PROVE  up' \in BOOLEAN /\ lost' \in BOOLEAN /\ excuse' \in BOOLEAN
  <2>1. up' = up \/ up' = TRUE
    BY <1>2, Zenon DEF fetch, screenshot, Begin, Proceed, Drain, Launched, LaunchFails, Retired, Created,
       CreateFails, Cleared, ClearFails, Return, PageFails, ChallengeTimesOut, Closed, TakeLock, Acquire, Cancel
  <2>2. \E k, p, j, spilled : Become(k, p, j, spilled)
    BY <1>2, ZenonT(40) DEF fetch, screenshot, Begin, Proceed, Drain, Launched, LaunchFails, Retired, Created,
       CreateFails, Cleared, ClearFails, Return, PageFails, ChallengeTimesOut, Closed, TakeLock, Acquire, Cancel,
       Ask, AcquirePool, NewPool, GiveUp
  <2>3. lost' \in BOOLEAN
    BY <2>2 DEF Become
  <2>4. excuse' = excuse \/ excuse' = TRUE \/ excuse' = FALSE
    BY <1>2, ZenonT(40) DEF fetch, screenshot, Begin, Proceed, Drain, Launched, LaunchFails, Retired, Created,
       CreateFails, Cleared, ClearFails, Return, PageFails, ChallengeTimesOut, Closed, TakeLock, Acquire, Cancel,
       Ask, AcquirePool, NewPool
  <2>5. QED
    BY <2>1, <2>3, <2>4 DEF CapacityInv
<1>3. QED
  BY <1>1, <1>2 DEF Next

\* Every step leaves what fits.
LEMMA CapacityStep ==
    PermitInv /\ PermitInv' /\ SessionInv /\ SessionInv' /\ CapacityInv /\ [Next]_vars => CapacityInv'
<1>1. SUFFICES ASSUME PermitInv, PermitInv', SessionInv, SessionInv', CapacityInv, [Next]_vars
               PROVE  Fits(pools', job')
  BY FlagsStay DEF CapacityInv, Fits, Takers
<1>2. pools \in Pools /\ Fits(pools, job) /\ job \in [Workers -> Job \cup {Idle}]
  BY <1>1 DEF SessionInv, Sound, Typed, Pools, CapacityInv
<1>3. CASE UNCHANGED vars
  BY <1>2, <1>3 DEF vars
<1>4. CASE Close
  <2>1. ASSUME NEW q \in PoolIds PROVE Len(pools'[q]) + Cardinality(Takers(job', q)) <= MaxContexts
    <3>1. Len(pools'[q]) = 0
      BY <1>4, EmptySeq DEF Close
    <3>2. Takers(job', q) = {}
      BY <1>4 DEF Close, Takers, Held, Idle
    <3>3. QED
      BY <3>1, <3>2, FS_EmptySet, PoolAssumption
  <2>2. QED
    BY <2>1 DEF Fits
<1>5. ASSUME NEW w \in Workers, NEW i, Quiet(i, w), NEW spilled, Become(keyed, pools, i, spilled)
      PROVE  Fits(pools', job')
  BY <1>2, <1>5, QuietFits
<1>6. ASSUME NEW w \in Workers, NEW j, Others(job, j, w), Ask(w, j)
      PROVE  Fits(pools', job')
  <2>1. CASE AcquirePool(w, j)
    BY <1>1, <1>2, <1>6, <2>1, AcquirePoolFits
  <2>2. CASE Become(keyed, pools, [j EXCEPT ![w].stage = "lock"], FALSE)
    <3>1. Quiet([j EXCEPT ![w].stage = "lock"], w)
      BY <1>6 DEF Quiet, Others, Held, Job, Idle
    <3>2. QED
      BY <1>5, <2>2, <3>1
  <2>3. QED
    BY <1>6, <2>1, <2>2 DEF Ask
<1>7. ASSUME NEW w \in Workers, NEW spilled, Become(keyed, pools, [job EXCEPT ![w] = Idle], spilled)
      PROVE  Fits(pools', job')
  <2>1. Quiet([job EXCEPT ![w] = Idle], w)
    BY <1>2 DEF Quiet, Idle, Held
  <2>2. QED
    BY <1>5, <1>7, <2>1
<1>8. ASSUME NEW w \in Workers, job[w].stage # "idle", NEW s, s \notin Held \/ job[w].stage \in Held,
             Become(keyed, pools, Goes(w, s), FALSE)
      PROVE  Fits(pools', job')
  <2>1. Quiet(Goes(w, s), w)
    BY <1>2, <1>8 DEF Quiet, Goes, Job, Idle
  <2>2. QED
    BY <1>5, <1>8, <2>1
<1>9. ASSUME NEW w \in Workers, NEW r \in Requests, fetch(w, r) \/ screenshot(w, r)
      PROVE  Fits(pools', job')
  <2>1. PICK again \in BOOLEAN : Begin(w, r, again)
    BY <1>9 DEF fetch, screenshot
  <2> DEFINE e == [stage |-> "lock", req |-> r, fresh |-> FALSE, again |-> again,
                   pool |-> Anon, ctx |-> NewContext(r)]
  <2>2. e \in Job
    BY <1>1, PoolsAreNumbered DEF Job, Stage, Context, NewContext, SessionInv, Sound
  <2>3. Others(job, [job EXCEPT ![w] = e], w)
    BY <1>2, <2>2 DEF Others
  <2>4. QED
    BY <1>6, <2>1, <2>3 DEF Begin
<1>10. ASSUME NEW w \in Workers, Drain(w)
       PROVE  Fits(pools', job')
  <2> DEFINE q == job[w].pool
  <2>1. job[w].stage = "evict" /\ q \in PoolIds /\ Others(job, job, w)
    BY <1>1, <1>10, BusyIsJob DEF Drain, At
  <2>2. CASE NewPool(w, job)
    <3>1. job[w].req.sticky
      BY <1>1, <2>1 DEF SessionInv, Sound, Placed
    <3>2. QED
      BY <1>1, <1>2, <2>1, <2>2, NewPoolFits
  <2>3. CASE pools[q] # <<>> /\ Become(keyed, [pools EXCEPT ![q] = Tail(@)], job, FALSE)
    <3>1. Quiet(job, w)
      BY <2>1 DEF Quiet, Held
    <3>2. QED
      BY <1>2, <2>1, <2>3, <3>1, QuietFits
  <2>4. QED
    BY <1>10, <2>2, <2>3 DEF Drain
<1>11. ASSUME NEW w \in Workers, Launched(w) \/ TakeLock(w)
       PROVE  Fits(pools', job')
  <2>1. job[w].stage # "idle" /\ Others(job, job, w)
    BY <1>1, <1>11, BusyIsJob DEF Launched, TakeLock, At
  <2>2. CASE AcquirePool(w, job)
    BY <1>1, <1>2, <2>1, <2>2, AcquirePoolFits
  <2>3. CASE Become(keyed, pools, Goes(w, "launch"), FALSE)
    BY <1>8, <2>1, <2>3 DEF Held
  <2>4. QED
    BY <1>11, <2>2, <2>3 DEF Launched, TakeLock
<1>12. ASSUME NEW w \in Workers, Retired(w) \/ ChallengeTimesOut(w)
       PROVE  Fits(pools', job')
  <2>1. job[w].stage \in Held /\ job[w].stage # "idle"
    BY <1>12 DEF Retired, ChallengeTimesOut, At, Held
  <2>2. QED
    BY <1>8, <1>12, <2>1 DEF Retired, ChallengeTimesOut
<1>13. ASSUME NEW w \in Workers, Created(w)
       PROVE  Fits(pools', job')
  <2> DEFINE i == [job EXCEPT ![w].stage = Ready(job[w].req),
                              ![w].ctx = NewContext(job[w].req)]
  <2>1. Quiet(i, w)
    BY <1>2, <1>13 DEF Quiet, Created, At, Held, Job, Idle
  <2>2. Become(keyed, pools, i, FALSE)
    BY <1>13 DEF Created
  <2>3. QED
    BY <1>5, <2>1, <2>2
<1>14. ASSUME NEW w \in Workers, Cleared(w) \/ ClearFails(w)
       PROVE  Fits(pools', job')
  <2>1. job[w].stage = "clear"
    BY <1>14 DEF Cleared, ClearFails, At
  <2>2. job[w] \in Job
    BY <1>2, <2>1 DEF Idle
  <2>3. Quiet([job EXCEPT ![w].stage = "use", ![w].ctx.state = {}], w)
    BY <1>2, <2>1, <2>2 DEF Quiet, Held, Job
  <2>4. Quiet([job EXCEPT ![w].stage = "use", ![w].ctx.kept = TRUE], w)
    BY <1>2, <2>1, <2>2 DEF Quiet, Held, Job
  <2>5. QED
    BY <1>5, <1>14, <2>3, <2>4 DEF Cleared, ClearFails
<1>15. ASSUME NEW w \in Workers, PageFails(w)
       PROVE  Fits(pools', job')
  <2>1. Quiet([job EXCEPT ![w].stage = "close", ![w].again = FALSE], w)
    BY <1>2, <1>15 DEF Quiet, PageFails, At, Held, Job, Idle
  <2>2. QED
    BY <1>5, <1>15, <2>1 DEF PageFails
<1>16. ASSUME NEW w \in Workers, Closed(w)
       PROVE  Fits(pools', job')
  <2> DEFINE j == [job EXCEPT ![w].fresh = TRUE, ![w].again = FALSE, ![w].pool = Anon]
  <2>1. job[w] \in Job /\ Anon \in PoolIds
    BY <1>1, <1>16, BusyIsJob, PoolsAreNumbered DEF Closed, At, SessionInv, Sound
  <2>2. Others(job, j, w)
    BY <1>2, <2>1 DEF Others, Job
  <2>3. CASE Ask(w, j)
    BY <1>6, <2>2, <2>3
  <2>4. QED
    BY <1>7, <1>16, <2>3 DEF Closed
<1>17. ASSUME NEW w \in Workers, LaunchFails(w) \/ CreateFails(w) \/ Cancel(w)
       PROVE  Fits(pools', job')
  <2>1. \E spilled : Become(keyed, pools, [job EXCEPT ![w] = Idle], spilled)
    BY <1>17 DEF LaunchFails, CreateFails, Cancel, GiveUp
  <2>2. QED
    BY <1>7, <2>1
<1>18. ASSUME NEW w \in Workers, Acquire(w) \/ Return(w)
       PROVE  Fits(pools', job')
  BY <1>1, <1>2, <1>18, AcquireFits, ReturnFits
<1>19. QED
  BY <1>1, <1>3, <1>4, <1>9, <1>10, <1>11, <1>12, <1>13, <1>14, <1>15, <1>16, <1>17, <1>18
     DEF Next, Proceed

\* Neither the table of the sessions nor a pool outgrows its cap, whatever
\* workers are suspended between looking and storing, and put_nowait() finds
\* room for every context in use (fetchers/browser.py, _acquire_pool and
\* _return_context).
THEOREM PoolsAreBounded == Spec => []PoolsBounded
<1>1. PermitInv /\ SessionInv /\ CapacityInv => PoolsBounded
  <2>1. SUFFICES ASSUME PermitInv, SessionInv, CapacityInv PROVE PoolsBounded
    OBVIOUS
  <2>2. permits \in 0..MaxContexts
    <3>1. IsFiniteSet({w \in Workers : Holding(w)})
      BY PoolAssumption, FS_Subset
    <3>2. Cardinality({w \in Workers : Holding(w)}) \in Nat /\ permits \in Nat
          /\ permits + Cardinality({w \in Workers : Holding(w)}) = MaxContexts
      BY <2>1, <3>1, FS_CardinalityType DEF PermitInv, PermitsAreExact
    <3>3. QED
      BY <3>2, PoolAssumption
  <2>3. TypeOK
    BY <2>1, <2>2 DEF TypeOK, SessionInv, Sound, Typed, KeyedOK, Keys, CapacityInv
  <2>4. ASSUME NEW q \in PoolIds PROVE Len(pools[q]) + Cardinality(Users(q)) <= MaxContexts
    <3>1. Users(q) = Takers(job, q)
      BY DEF Users, Takers, Holding, At, Held, Pooled
    <3>2. QED
      BY <2>1, <3>1 DEF CapacityInv, Fits
  <2>5. QED
    BY <2>1, <2>3, <2>4 DEF PoolsBounded, SessionInv, Sound, Typed, KeyedOK
<1>2. PermitInv /\ SessionInv /\ CapacityInv /\ [Next]_vars => (PermitInv /\ SessionInv /\ CapacityInv)'
  BY PermitStep, SessionStep, CapacityStep
<1>3. QED
  BY <1>1, <1>2, PermitInit, SessionInit, CapacityInit, PTL DEF Spec

-----------------------------------------------------------------------------
(* What is lost is excused *)

\* Pool q is still to be found: it is the anonymous one or in the table.
Found(k, q) == q = Anon \/ \E e \in ToSet(k) : e[2] = q

\* Inductive, with the invariant of the sessions: until something has happened
\* that may lose a context, a pool that a worker uses is still in the table, so
\* that the worker's end does not drop it.
ExcuseInv ==
    /\ lost => excuse
    /\ excuse \/ \A w \in Workers : job[w].stage = "evict" \/ Found(keyed, job[w].pool)

\* What is dropped was referred to.
LEMMA DroppedWasKnown ==
    ASSUME SessionInv, NEW q \in PoolIds, pools[q] # <<>>
    PROVE  Found(keyed, q) \/ \E w \in Workers : job[w].pool = q
BY DEF SessionInv, Referred, Found

\* Worker w goes on, with a table that has the same entries.
LEMMA SameTableExcused ==
    ASSUME SessionInv, ExcuseInv, NEW w \in Workers,
           NEW k, ToSet(k) = ToSet(keyed),
           NEW p, NEW j, \A v \in Workers \ {w} : j[v] = job[v],
           NEW spilled, Become(k, p, j, spilled),
           excuse => excuse', spilled => excuse',
           \A q \in PoolIds : p[q] # <<>> => pools[q] # <<>>,
           \/ excuse'
           \/ j[w].pool = job[w].pool /\ j[w].stage = job[w].stage
           \/ /\ Found(keyed, j[w].pool)
              /\ job[w].stage # "evict"
    PROVE  ExcuseInv'
<1>1. keyed' = k /\ job' = j /\ Referred(k, j) = Referred(keyed, j)
      /\ (lost' <=> (lost \/ spilled \/ \E i \in PoolIds \ Referred(k, j) : p[i] # <<>>))
  BY DEF Become, Referred
<1>2. \A q : Found(k, q) <=> Found(keyed, q)
  BY DEF Found
<1>3. ASSUME NEW q \in PoolIds \ Referred(k, j), p[q] # <<>>
      PROVE  excuse'
  <2>1. pools[q] # <<>> /\ ~Found(keyed, q) /\ \A v \in Workers : j[v].pool # q
    BY <1>1, <1>3 DEF Referred, Found
  <2>2. PICK v \in Workers : job[v].pool = q
    BY <2>1, DroppedWasKnown
  <2>3. v = w
    BY <2>1, <2>2
  <2>4. QED
    BY <2>1, <2>2, <2>3 DEF ExcuseInv
<1>4. lost' => excuse'
  BY <1>1, <1>3 DEF ExcuseInv
<1>5. excuse' \/ \A v \in Workers : j[v].stage = "evict" \/ Found(keyed, j[v].pool)
  BY DEF ExcuseInv
<1>6. excuse' \/ \A v \in Workers : job'[v].stage = "evict" \/ Found(keyed', job'[v].pool)
  BY <1>1, <1>2, <1>5
<1>7. QED
  BY <1>4, <1>6 DEF ExcuseInv, Found

\* A new pool drops none that is not empty, unless a worker loses its own.
LEMMA NewPoolExcused ==
    ASSUME SessionInv, ExcuseInv, NEW w \in Workers, NEW j, Others(job, j, w), j[w] \in Job,
           job[w].stage = "evict" => pools[job[w].pool] = <<>>,
           NewPool(w, j)
    PROVE  ExcuseInv'
<1> DEFINE full == Len(keyed) >= MaxPools
           victim == Head(keyed)[2]
           k == IF full THEN Tail(keyed) ELSE keyed
           x == make_session_key(j[w].req)
<1>1. Sound(keyed, pools, job) /\ KeyedOK(keyed) /\ job = [v \in Workers |-> job[v]]
  BY DEF SessionInv, Sound, Typed
<1>2. full => keyed # <<>>
  BY PoolAssumption, EmptySeq
<1>3. /\ KeyedOK(k) /\ ToSet(k) \subseteq ToSet(keyed) /\ Len(k) < MaxPools
      /\ \A e \in ToSet(keyed) : e \in ToSet(k) \/ (full /\ e[2] = victim)
  BY <1>1, <1>2, PoppedOK, PoolAssumption, LenProperties DEF KeyedOK
<1>4. \A v \in Workers \ {w} : j[v] = job[v]
  BY DEF Others
<1>5. ASSUME full, pools[victim] # <<>>, excuse' = (excuse \/ InUse(w, victim)),
             Become(k, [pools EXCEPT ![victim] = Tail(@)],
                    [j EXCEPT ![w].stage = "evict", ![w].pool = victim], FALSE)
      PROVE  ExcuseInv'
  <2> DEFINE i == [j EXCEPT ![w].stage = "evict", ![w].pool = victim]
             b == [pools EXCEPT ![victim] = Tail(@)]
  <2>1. i[w].stage = "evict" /\ i[w].pool = victim /\ \A v \in Workers \ {w} : i[v] = job[v]
    BY <1>4 DEF Others, Job
  <2>2. \A q \in PoolIds \ {victim} : b[q] = pools[q]
    BY <1>1 DEF Sound, Typed
  <2>3. keyed' = k /\ job' = i
        /\ (lost' <=> (lost \/ \E q \in PoolIds \ Referred(k, i) : b[q] # <<>>))
    BY <1>5 DEF Become
  <2> HIDE DEF i, b, k, full
  <2>4. excuse' \/ \A v \in Workers : i[v].stage = "evict" \/ Found(k, i[v].pool)
    <3>1. SUFFICES ASSUME ~excuse', NEW v \in Workers, v # w, i[v].stage # "evict"
                   PROVE  Found(k, i[v].pool)
      BY <2>1
    <3>2. Found(keyed, job[v].pool) /\ job[v].pool # victim
      BY <1>5, <2>1, <3>1 DEF ExcuseInv, InUse
    <3>3. QED
      BY <1>3, <2>1, <3>1, <3>2 DEF Found
  <2>5. ASSUME NEW q \in PoolIds \ Referred(k, i), b[q] # <<>> PROVE excuse'
    <3>1. q # victim /\ ~Found(k, q) /\ \A v \in Workers \ {w} : job[v].pool # q
      BY <2>1, <2>5 DEF Referred, Found
    <3>2. pools[q] # <<>> /\ ~Found(keyed, q)
      BY <1>3, <2>2, <2>5, <3>1 DEF Found
    <3>3. job[w].pool = q
      BY <3>1, <3>2, DroppedWasKnown
    <3>4. QED
      BY <1>5, <3>2, <3>3 DEF ExcuseInv
  <2>6. (lost' => excuse')
        /\ (excuse' \/ \A v \in Workers : job'[v].stage = "evict" \/ Found(keyed', job'[v].pool))
    BY <1>5, <2>3, <2>4, <2>5 DEF ExcuseInv
  <2>7. QED
    BY <2>6 DEF ExcuseInv, Found
<1>6. ASSUME ~full \/ pools[victim] = <<>>,
             excuse' = (excuse \/ (full /\ InUse(w, victim)) \/ \E e \in ToSet(k) : e[1] = x),
             Become(StoreKey(k, x, Number), pools,
                    [j EXCEPT ![w].stage = "permit", ![w].pool = Number], FALSE)
      PROVE  ExcuseInv'
  <2> DEFINE i == [j EXCEPT ![w].stage = "permit", ![w].pool = Number]
             m == StoreKey(k, x, Number)
  <2>1. i[w].stage = "permit" /\ i[w].pool = Number /\ \A v \in Workers \ {w} : i[v] = job[v]
    BY <1>4 DEF Others, Job
  <2>2. Number \in PoolIds /\ Number \notin Referred(keyed, job)
    BY <1>1, NumberIsNew
  <2>3. x \in Keys
    BY DEF Job, Keys
  <2>4. \A e \in ToSet(k) : e[2] # Number
    BY <1>3, <2>2 DEF Referred
  <2>5. keyed' = m /\ job' = i
        /\ (lost' <=> (lost \/ \E q \in PoolIds \ Referred(m, i) : pools[q] # <<>>))
    BY <1>6 DEF Become
  <2>6. /\ <<x, Number>> \in ToSet(m)
        /\ excuse' \/ ToSet(k) \subseteq ToSet(m)
    <3> HIDE DEF k, x, full
    <3>1. \A e : e \in ToSet(m) <=> e = <<x, Number>> \/ (e \in ToSet(k) /\ e[1] # x)
      BY <1>3, <2>2, <2>3, <2>4, StoredOK
    <3>2. QED
      BY <1>6, <3>1
  <2> HIDE DEF i, m, k, x, full
  <2>7. excuse' \/ \A v \in Workers : i[v].stage = "evict" \/ Found(m, i[v].pool)
    <3>1. CASE excuse'
      BY <3>1
    <3>2. ASSUME ~excuse', NEW v \in Workers, i[v].stage # "evict" PROVE Found(m, i[v].pool)
      <4>1. CASE v = w
        <5>1. <<x, Number>>[2] = Number
          OBVIOUS
        <5>2. QED
          BY <2>1, <2>6, <4>1, <5>1 DEF Found
      <4>2. CASE v # w
        <5>1. Found(keyed, job[v].pool) /\ (full => job[v].pool # victim)
          BY <1>6, <2>1, <3>2, <4>2 DEF ExcuseInv, InUse
        <5>2. Found(k, job[v].pool)
          BY <1>3, <5>1 DEF Found
        <5>3. QED
          BY <2>1, <2>6, <3>2, <4>2, <5>2 DEF Found
      <4>3. QED
        BY <4>1, <4>2
    <3>3. QED
      BY <3>1, <3>2
  <2>8. ASSUME NEW q \in PoolIds \ Referred(m, i), pools[q] # <<>> PROVE excuse'
    <3>1. ~Found(m, q) /\ \A v \in Workers \ {w} : job[v].pool # q
      BY <2>1, <2>8 DEF Referred, Found
    <3>2. CASE Found(keyed, q)
      <4>1. Found(k, q)
        BY <1>3, <1>6, <2>8, <3>2 DEF Found
      <4>2. QED
        BY <2>6, <3>1, <4>1 DEF Found
    <3>3. CASE ~Found(keyed, q)
      <4>1. job[w].pool = q
        BY <2>8, <3>1, <3>3, DroppedWasKnown
      <4>2. QED
        BY <1>6, <2>8, <3>3, <4>1 DEF ExcuseInv
    <3>4. QED
      BY <3>2, <3>3
  <2>9. (lost' => excuse')
        /\ (excuse' \/ \A v \in Workers : job'[v].stage = "evict" \/ Found(keyed', job'[v].pool))
    BY <1>6, <2>5, <2>7, <2>8 DEF ExcuseInv
  <2>10. QED
    BY <2>9 DEF ExcuseInv, Found
<1>7. QED
  BY <1>5, <1>6 DEF NewPool

\* Getting any pool drops none either.
LEMMA AcquirePoolExcused ==
    ASSUME SessionInv, ExcuseInv, NEW w \in Workers, NEW j, Others(job, j, w), j[w] \in Job,
           job[w].stage # "evict", AcquirePool(w, j)
    PROVE  ExcuseInv'
<1>1. KeyedOK(keyed)
  BY DEF SessionInv, Sound, Typed
<1>2. ASSUME NEW k, ToSet(k) = ToSet(keyed), NEW q, Found(keyed, q),
             Become(k, pools, [j EXCEPT ![w].stage = "permit", ![w].pool = q], FALSE),
             UNCHANGED excuse
      PROVE  ExcuseInv'
  <2> DEFINE i == [j EXCEPT ![w].stage = "permit", ![w].pool = q]
  <2>1. i[w].pool = q /\ \A v \in Workers \ {w} : i[v] = job[v]
    BY DEF Others, Job
  <2> HIDE DEF i
  <2>2. QED
    BY <1>2, <2>1, SameTableExcused DEF i
<1>3. ASSUME NEW a \in DOMAIN keyed
      PROVE  ToSet(Moved(keyed, a)) = ToSet(keyed) /\ Found(keyed, keyed[a][2])
  BY <1>1, MovedOK DEF Found, ToSet
<1>4. CASE NewPool(w, j)
  BY <1>4, NewPoolExcused
<1>5. CASE /\ Become(keyed, pools, [j EXCEPT ![w].stage = "permit", ![w].pool = Anon], FALSE)
           /\ UNCHANGED excuse
  <2>1. Found(keyed, Anon)
    BY DEF Found
  <2>2. QED
    BY <1>2, <1>5, <2>1
<1>6. ASSUME NEW a \in DOMAIN keyed,
             Become(Moved(keyed, a), pools,
                    [j EXCEPT ![w].stage = "permit", ![w].pool = keyed[a][2]], FALSE),
             UNCHANGED excuse
      PROVE  ExcuseInv'
  BY <1>2, <1>3, <1>6
<1>7. QED
  BY <1>4, <1>5, <1>6 DEF AcquirePool, Moved

\* Asking for a context drops none.
LEMMA AskExcused ==
    ASSUME SessionInv, ExcuseInv, NEW w \in Workers, NEW j, Others(job, j, w), j[w] \in Job,
           j[w].pool = Anon, job[w].stage # "evict", Ask(w, j)
    PROVE  ExcuseInv'
<1>1. CASE Become(keyed, pools, [j EXCEPT ![w].stage = "lock"], FALSE) /\ UNCHANGED excuse
  <2> DEFINE i == [j EXCEPT ![w].stage = "lock"]
  <2>1. Found(keyed, i[w].pool) /\ \A v \in Workers \ {w} : i[v] = job[v]
    BY DEF Others, Job, Found
  <2> HIDE DEF i
  <2>2. QED
    BY <1>1, <2>1, SameTableExcused DEF i
<1>2. QED
  BY <1>1, AcquirePoolExcused DEF Ask

\* Nothing is lost at first.
LEMMA ExcuseInit == Init => ExcuseInv
BY DEF Init, ExcuseInv, Found, Idle

\* Every step that loses a context is excused.
LEMMA ExcuseStep == SessionInv /\ ExcuseInv /\ [Next]_vars => ExcuseInv'
<1>1. SUFFICES ASSUME SessionInv, ExcuseInv, [Next]_vars PROVE ExcuseInv'
  OBVIOUS
<1>2. job \in [Workers -> Job \cup {Idle}] /\ pools \in Pools
      /\ Anon \in PoolIds /\ Found(keyed, Anon)
  BY <1>1, PoolsAreNumbered DEF SessionInv, Sound, Typed, Pools, Found
<1>3. CASE UNCHANGED vars
  BY <1>1, <1>3 DEF vars, ExcuseInv, Found
<1>4. CASE Close
  BY <1>4 DEF Close, ExcuseInv, Found, Idle
<1>5. ASSUME NEW w \in Workers, NEW spilled \in BOOLEAN,
             Become(keyed, pools, [job EXCEPT ![w] = Idle], spilled),
             excuse => excuse', spilled => excuse', excuse' \/ job[w].stage # "evict"
      PROVE  ExcuseInv'
  <2> DEFINE i == [job EXCEPT ![w] = Idle]
  <2>1. Found(keyed, i[w].pool) /\ \A v \in Workers \ {w} : i[v] = job[v]
    BY <1>2 DEF Idle, Found
  <2>2. Become(keyed, pools, i, spilled)
    BY <1>5
  <2> HIDE DEF i
  <2>3. \A q \in PoolIds : pools[q] # <<>> => pools[q] # <<>>
    OBVIOUS
  <2>4. \/ excuse'
        \/ Found(keyed, i[w].pool) /\ job[w].stage # "evict"
    BY <1>5, <2>1
  <2>5. CASE spilled = FALSE
    <3>1. Become(keyed, pools, i, FALSE) /\ (excuse => excuse')
      BY <1>5, <2>2, <2>5
    <3>2. QED
      BY <1>1, <2>1, <2>3, <2>4, <3>1, SameTableExcused
  <2>6. CASE spilled = TRUE
    <3>1. Become(keyed, pools, i, TRUE) /\ (excuse => excuse') /\ excuse'
      BY <1>5, <2>2, <2>6
    <3>2. QED
      BY <1>1, <2>1, <2>3, <3>1, SameTableExcused
  <2>7. QED
    BY <2>5, <2>6
<1>6. ASSUME NEW w \in Workers, NEW p, NEW i, Become(keyed, p, i, FALSE),
             \A v \in Workers \ {w} : i[v] = job[v], i[w].pool = job[w].pool,
             job[w].stage # "evict",
             \A q \in PoolIds : p[q] # <<>> => pools[q] # <<>>, UNCHANGED excuse
      PROVE  ExcuseInv'
  <2>1. excuse \/ Found(keyed, i[w].pool)
    BY <1>1, <1>6 DEF ExcuseInv
  <2>2. QED
    BY <1>1, <1>6, <2>1, SameTableExcused
<1>7. ASSUME NEW q \in PoolIds, pools[q] # <<>>
      PROVE  \A v \in PoolIds : [pools EXCEPT ![q] = Tail(@)][v] # <<>> => pools[v] # <<>>
  BY <1>2, <1>7 DEF Pools
<1>8. ASSUME NEW w \in Workers, NEW r \in Requests, fetch(w, r) \/ screenshot(w, r)
      PROVE  ExcuseInv'
  <2>1. PICK again \in BOOLEAN : Begin(w, r, again)
    BY <1>8 DEF fetch, screenshot
  <2> DEFINE e == [stage |-> "lock", req |-> r, fresh |-> FALSE, again |-> again,
                   pool |-> Anon, ctx |-> NewContext(r)]
             j == [job EXCEPT ![w] = e]
  <2>2. e \in Job /\ e.pool = Anon
    BY <1>2 DEF Job, Stage, Context, NewContext
  <2> HIDE DEF e
  <2>3. Others(job, j, w) /\ j[w] = e
    BY <1>2, <2>2 DEF Others
  <2>4. Ask(w, j) /\ job[w].stage # "evict"
    BY <2>1 DEF Begin, Idle, e
  <2> HIDE DEF j
  <2>5. QED
    BY <1>1, <2>2, <2>3, <2>4, AskExcused
<1>9. ASSUME NEW w \in Workers, Drain(w)
      PROVE  ExcuseInv'
  <2> DEFINE q == job[w].pool
             b == [pools EXCEPT ![q] = Tail(@)]
  <2>1. job[w].stage = "evict" /\ job[w] \in Job /\ q \in PoolIds /\ Others(job, job, w)
    BY <1>1, <1>9, BusyIsJob DEF Drain, At
  <2>2. CASE pools[q] = <<>> /\ NewPool(w, job)
    BY <1>1, <2>1, <2>2, NewPoolExcused
  <2>3. CASE pools[q] # <<>> /\ Become(keyed, b, job, FALSE) /\ UNCHANGED excuse
    <3>1. \A v \in PoolIds : b[v] # <<>> => pools[v] # <<>>
      BY <1>7, <2>1, <2>3
    <3> HIDE DEF b
    <3>2. QED
      BY <1>1, <2>3, <3>1, SameTableExcused
  <2>4. QED
    BY <1>9, <2>2, <2>3 DEF Drain
<1>10. ASSUME NEW w \in Workers, Launched(w)
       PROVE  ExcuseInv'
  <2>1. job[w].stage # "evict" /\ job[w] \in Job /\ Others(job, job, w)
    BY <1>1, <1>10, BusyIsJob DEF Launched, At
  <2>2. QED
    BY <1>1, <1>10, <2>1, AcquirePoolExcused DEF Launched
<1>11. ASSUME NEW w \in Workers, TakeLock(w)
       PROVE  ExcuseInv'
  <2>1. job[w].stage = "lock" /\ job[w] \in Job /\ Others(job, job, w)
    BY <1>1, <1>11, BusyIsJob DEF TakeLock, At
  <2>2. CASE AcquirePool(w, job)
    BY <1>1, <2>1, <2>2, AcquirePoolExcused
  <2>3. CASE Become(keyed, pools, Goes(w, "launch"), FALSE) /\ UNCHANGED excuse
    <3>1. Goes(w, "launch")[w].pool = job[w].pool
          /\ \A v \in Workers \ {w} : Goes(w, "launch")[v] = job[v]
      BY <1>2, <2>1 DEF Goes, Job
    <3>2. QED
      BY <1>6, <2>1, <2>3, <3>1
  <2>4. QED
    BY <1>11, <2>2, <2>3 DEF TakeLock
<1>12. ASSUME NEW w \in Workers, NEW s, s # "idle", job[w].stage \notin {"idle", "evict"},
              Become(keyed, pools, Goes(w, s), FALSE), UNCHANGED excuse
       PROVE  ExcuseInv'
  <2>1. Goes(w, s)[w].pool = job[w].pool /\ \A v \in Workers \ {w} : Goes(w, s)[v] = job[v]
    BY <1>2, <1>12 DEF Goes, Job, Idle
  <2>2. QED
    BY <1>6, <1>12, <2>1
<1>13. ASSUME NEW w \in Workers, Acquire(w)
       PROVE  ExcuseInv'
  <2> DEFINE q == job[w].pool
             b == [pools EXCEPT ![q] = Tail(@)]
  <2>1. job[w].stage = "permit" /\ job[w] \in Job /\ q \in PoolIds /\ UNCHANGED excuse
    BY <1>1, <1>13, BusyIsJob DEF Acquire, At
  <2>2. CASE Become(keyed, pools, Goes(w, "create"), FALSE)
    BY <1>12, <2>1, <2>2
  <2>3. ASSUME pools[q] # <<>>, NEW i, i[w].pool = q, \A v \in Workers \ {w} : i[v] = job[v],
               Become(keyed, b, i, FALSE)
        PROVE  ExcuseInv'
    <3>1. \A v \in PoolIds : b[v] # <<>> => pools[v] # <<>>
      BY <1>7, <2>1, <2>3
    <3> HIDE DEF b
    <3>2. QED
      BY <1>6, <2>1, <2>3, <3>1, ZenonT(40)
  <2>4. ASSUME NEW c, NEW s
        PROVE  /\ Goes(w, s)[w].pool = q /\ \A v \in Workers \ {w} : Goes(w, s)[v] = job[v]
               /\ [job EXCEPT ![w].stage = s, ![w].ctx = c][w].pool = q
               /\ \A v \in Workers \ {w} : [job EXCEPT ![w].stage = s, ![w].ctx = c][v] = job[v]
    BY <1>2, <2>1 DEF Goes, Job
  <2>5. ASSUME pools[q] # <<>>, Become(keyed, b, Goes(w, "retire"), FALSE)
        PROVE  ExcuseInv'
    <3> HIDE DEF b
    <3>1. QED
      BY <2>3, <2>4, <2>5
  <2>6. ASSUME pools[q] # <<>>, NEW s, NEW c,
               Become(keyed, b, [job EXCEPT ![w].stage = s, ![w].ctx = c], FALSE)
        PROVE  ExcuseInv'
    <3> DEFINE i == [job EXCEPT ![w].stage = s, ![w].ctx = c]
    <3>1. i[w].pool = q /\ (\A v \in Workers \ {w} : i[v] = job[v]) /\ Become(keyed, b, i, FALSE)
      BY <2>4, <2>6, ZenonT(40)
    <3> HIDE DEF b, i
    <3>2. QED
      BY <2>3, <2>6, <3>1
  <2>7. QED
    BY <1>13, <2>2, <2>5, <2>6 DEF Acquire
<1>14. ASSUME NEW w \in Workers,
              Retired(w) \/ Created(w) \/ Cleared(w) \/ ClearFails(w) \/ PageFails(w) \/ ChallengeTimesOut(w)
       PROVE  ExcuseInv'
  <2>1. job[w].stage \notin {"idle", "evict"} /\ job[w] \in Job /\ UNCHANGED excuse
    BY <1>1, <1>14, BusyIsJob DEF Retired, Created, Cleared, ClearFails, PageFails, ChallengeTimesOut, At
  <2>2. ASSUME NEW i, Become(keyed, pools, i, FALSE), i[w].pool = job[w].pool,
               \A v \in Workers \ {w} : i[v] = job[v]
        PROVE  ExcuseInv'
    BY <1>6, <2>1, <2>2
  <2>3. CASE Retired(w) \/ ChallengeTimesOut(w)
    BY <1>12, <2>1, <2>3 DEF Retired, ChallengeTimesOut
  <2>4. CASE Created(w)
    <3> DEFINE i == [job EXCEPT ![w].stage = Ready(job[w].req),
                                ![w].ctx = NewContext(job[w].req)]
    <3>1. i[w].pool = job[w].pool /\ \A v \in Workers \ {w} : i[v] = job[v]
      BY <1>2, <2>1 DEF Job
    <3>2. Become(keyed, pools, i, FALSE)
      BY <2>4 DEF Created
    <3>3. QED
      BY <2>2, <3>1, <3>2
  <2>5. CASE Cleared(w)
    <3> DEFINE i == [job EXCEPT ![w].stage = "use", ![w].ctx.state = {}]
    <3>1. i[w].pool = job[w].pool /\ \A v \in Workers \ {w} : i[v] = job[v]
      BY <1>2, <2>1 DEF Job
    <3>2. Become(keyed, pools, i, FALSE)
      BY <2>5 DEF Cleared
    <3>3. QED
      BY <2>2, <3>1, <3>2
  <2>6. CASE ClearFails(w)
    <3> DEFINE i == [job EXCEPT ![w].stage = "use", ![w].ctx.kept = TRUE]
    <3>1. i[w].pool = job[w].pool /\ \A v \in Workers \ {w} : i[v] = job[v]
      BY <1>2, <2>1 DEF Job
    <3>2. Become(keyed, pools, i, FALSE)
      BY <2>6 DEF ClearFails
    <3>3. QED
      BY <2>2, <3>1, <3>2
  <2>7. CASE PageFails(w)
    <3> DEFINE i == [job EXCEPT ![w].stage = "close", ![w].again = FALSE]
    <3>1. i[w].pool = job[w].pool /\ \A v \in Workers \ {w} : i[v] = job[v]
      BY <1>2, <2>1 DEF Job
    <3>2. Become(keyed, pools, i, FALSE)
      BY <2>7 DEF PageFails
    <3>3. QED
      BY <2>2, <3>1, <3>2
  <2>8. QED
    BY <1>14, <2>3, <2>4, <2>5, <2>6, <2>7
<1>15. ASSUME NEW w \in Workers, Return(w)
       PROVE  ExcuseInv'
  <2> DEFINE q == job[w].pool
             b == [pools EXCEPT ![q] = IF Len(@) < MaxContexts THEN Append(@, Used(w)) ELSE @]
             i == [job EXCEPT ![w] = Idle]
             h == [job EXCEPT ![w].stage = "close", ![w].again = FALSE]
  <2>1. job[w].stage = "use" /\ job[w] \in Job /\ q \in PoolIds /\ UNCHANGED excuse
    BY <1>1, <1>15, BusyIsJob DEF Return, At
  <2>2. CASE Become(keyed, pools, h, FALSE)
    <3>1. h[w].pool = q /\ \A v \in Workers \ {w} : h[v] = job[v]
      BY <1>2, <2>1 DEF Job
    <3> HIDE DEF h
    <3>2. QED
      BY <1>6, <2>1, <2>2, <3>1
  <2>3. CASE Become(keyed, b, i, FALSE)
    <3>1. \A v \in PoolIds \ {q} : b[v] = pools[v]
      BY <1>2 DEF Pools
    <3>2. i[w].pool = Anon /\ \A v \in Workers \ {w} : i[v] = job[v]
      BY <1>2 DEF Idle
    <3> HIDE DEF b, i
    <3>3. excuse \/ Found(keyed, q)
      BY <1>1, <2>1 DEF ExcuseInv
    <3>4. keyed' = keyed /\ job' = i
          /\ (lost' <=> (lost \/ \E v \in PoolIds \ Referred(keyed, i) : b[v] # <<>>))
      BY <2>3 DEF Become
    <3>5. ASSUME NEW v \in PoolIds \ Referred(keyed, i), b[v] # <<>> PROVE excuse
      <4>1. ~Found(keyed, v) /\ \A u \in Workers : i[u].pool # v
        BY <3>5 DEF Referred, Found
      <4>2. CASE v = q
        BY <3>3, <4>1, <4>2
      <4>3. CASE v # q
        <5>1. PICK u \in Workers : job[u].pool = v
          BY <3>1, <3>5, <4>1, <4>3, <1>1, DroppedWasKnown
        <5>2. QED
          BY <3>2, <4>1, <4>3, <5>1
      <4>4. QED
        BY <4>2, <4>3
    <3>6. (lost' => excuse')
          /\ (excuse' \/ \A v \in Workers : job'[v].stage = "evict" \/ Found(keyed', job'[v].pool))
      BY <1>1, <1>2, <2>1, <3>2, <3>4, <3>5 DEF ExcuseInv
    <3>7. QED
      BY <3>6 DEF ExcuseInv, Found
  <2> HIDE DEF b, h, i
  <2>4. QED
    BY <1>15, <2>2, <2>3 DEF Return, b, h, i
<1>16. ASSUME NEW w \in Workers, Closed(w)
       PROVE  ExcuseInv'
  <2> DEFINE j == [job EXCEPT ![w].fresh = TRUE, ![w].again = FALSE, ![w].pool = Anon]
  <2>1. job[w].stage = "close" /\ job[w] \in Job
    BY <1>1, <1>16, BusyIsJob DEF Closed, At
  <2>2. Others(job, j, w) /\ j[w] \in Job /\ j[w].pool = Anon
    BY <1>2, <2>1 DEF Others, Job
  <2>3. CASE Become(keyed, pools, [job EXCEPT ![w] = Idle], FALSE) /\ UNCHANGED excuse
    BY <1>5, <2>1, <2>3
  <2>4. CASE Ask(w, j)
    <3> HIDE DEF j
    <3>1. QED
      BY <1>1, <2>1, <2>2, <2>4, AskExcused
  <2>5. QED
    BY <1>16, <2>3, <2>4 DEF Closed
<1>17. ASSUME NEW w \in Workers, LaunchFails(w) \/ CreateFails(w) \/ Cancel(w)
       PROVE  ExcuseInv'
  <2>1. CASE LaunchFails(w)
    BY <1>5, <2>1 DEF LaunchFails, At
  <2>2. CASE CreateFails(w)
    <3>1. CASE Become(keyed, pools, [job EXCEPT ![w] = Idle], FALSE) /\ UNCHANGED excuse
      <4>1. job[w].stage # "evict"
        BY <2>2 DEF CreateFails, At
      <4>2. QED
        BY <1>5, <3>1, <4>1
    <3>2. CASE Become(keyed, pools, [job EXCEPT ![w] = Idle], TRUE) /\ excuse' = TRUE
      BY <1>5, <3>2
    <3>3. QED
      BY <2>2, <3>1, <3>2 DEF CreateFails, GiveUp
  <2>3. CASE Cancel(w)
    <3>1. excuse' = (excuse \/ job[w].stage \in {"evict", "create", "clear"})
      BY <2>3 DEF Cancel, At
    <3>2. excuse => excuse'
      BY <3>1
    <3>3. CASE Become(keyed, pools, [job EXCEPT ![w] = Idle], FALSE)
      BY <1>5, <3>1, <3>3
    <3>4. CASE Become(keyed, pools, [job EXCEPT ![w] = Idle], At(w, {"create", "clear"}))
      <4>1. /\ At(w, {"create", "clear"}) \in BOOLEAN
            /\ At(w, {"create", "clear"}) => excuse'
        <5>1. At(w, {"create", "clear"}) \in BOOLEAN
          BY DEF At
        <5>2. At(w, {"create", "clear"}) => excuse'
          BY <3>1 DEF At
        <5>3. QED
          BY <5>1, <5>2
      <4>2. excuse' \/ job[w].stage # "evict"
        BY <3>1
      <4>3. QED
        BY <1>5, <3>2, <3>4, <4>1, <4>2
    <3>5. QED
      BY <2>3, <3>3, <3>4 DEF Cancel, GiveUp
  <2>4. QED
    BY <1>17, <2>1, <2>2, <2>3
<1>18. QED
  BY <1>1, <1>3, <1>4, <1>8, <1>9, <1>10, <1>11, <1>13, <1>14, <1>15, <1>16, <1>17
     DEF Next, Proceed

\* No open context drops out of sight but for the reasons named there
\* (fetchers/browser.py, _acquire_pool, _drain_pool and _return_context).
THEOREM LossesAreExcused == Spec => []LostIsExcused
<1>1. ExcuseInv => LostIsExcused
  BY DEF ExcuseInv, LostIsExcused
<1>2. SessionInv /\ ExcuseInv /\ [Next]_vars => (SessionInv /\ ExcuseInv)'
  BY SessionStep, ExcuseStep
<1>3. QED
  BY <1>1, <1>2, SessionInit, ExcuseInit, PTL DEF Spec

=============================================================================
