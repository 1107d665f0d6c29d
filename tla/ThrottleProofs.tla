--------------------------- MODULE ThrottleProofs ---------------------------
(***************************************************************************)
(* Theorems about Throttle, for any number of workers, any gaps, window,   *)
(* pause and Crawl-delay.                                                  *)
(***************************************************************************)
EXTENDS Throttle, TLAPS

Sleeping == {"cooling", "spacing"}

Jobs ==
    /\ worker = [w \in Workers |-> worker[w]]
    /\ \A w \in Workers : {"pc", "timer"} \subseteq DOMAIN worker[w] /\ worker[w].timer \in Nat

\* Inductive.  Whoever sleeps under the lock sleeps alone; since only the holder
\* of the lock and those who get it after him touch gap and pause, what he has
\* read is still true when he wakes up: the timer covers the rest of the pause,
\* and with the time since the last start the gap.
SleeperInv ==
    /\ gap \in Nat /\ gap <= LongAgo
    /\ since \in Nat /\ since <= LongAgo
    /\ pause \in Nat
    /\ Jobs
    /\ ~delayRead => since = LongAgo
    /\ \A w \in Workers :
          /\ worker[w].pc # "idle" => delayRead
          /\ worker[w].pc = "cooling" => pause <= worker[w].timer
          /\ worker[w].pc = "spacing" => pause = 0 /\ GapOf(gap) <= since + worker[w].timer
    /\ \A v, w \in Workers : worker[v].pc \in Sleeping /\ worker[w].pc \in Sleeping => v = w

\* What a step may do.
StartsWell == \A w \in Workers : Starting(w) => since >= GapOf(gap) /\ pause = 0

-----------------------------------------------------------------------------
(* Numbers *)

\* The gap read from a map that keeps below the bound keeps below it.
LEMMA GapOfBounded ==
    ASSUME NEW g \in Nat, g <= LongAgo
    PROVE  GapOf(g) \in Nat /\ GapOf(g) <= LongAgo
BY ThrottleAssumption DEF GapOf, LongAgo, Greater

\* The bound is a number, above the cap on the gap and the Crawl-delay.
LEMMA LongAgoIsNat == LongAgo \in Nat /\ MaxGap <= LongAgo /\ CrawlDelay <= LongAgo
BY ThrottleAssumption DEF LongAgo, Greater

\* Adjusting the gap keeps it below the bound.
LEMMA AdjustedBounded ==
    ASSUME NEW g \in Nat, g <= LongAgo, NEW win, NEW s
    PROVE  Adjusted(g, win, s) \in Nat /\ Adjusted(g, win, s) <= LongAgo
<1>1. Grow(g) \in Nat /\ Grow(g) <= LongAgo
  <2>1. (3 * g + 1) \div 2 \in Nat
    OBVIOUS
  <2>2. QED
    BY <2>1, LongAgoIsNat, ThrottleAssumption DEF Grow, Lesser
<1>2. Shrink(g) \in Nat /\ Shrink(g) <= LongAgo
  <2>1. (95 * g) \div 100 \in Nat /\ (95 * g) \div 100 <= g
    OBVIOUS
  <2>2. QED
    BY <2>1, LongAgoIsNat, ThrottleAssumption DEF Shrink, Greater
<1>3. Adjusted(g, win, s) \in {Grow(g), Shrink(g), g}
  BY DEF Adjusted
<1>4. QED
  BY <1>1, <1>2, <1>3

-----------------------------------------------------------------------------
(* Moving one worker *)

Moved(w, p, t) ==
    /\ Jobs'
    /\ worker'[w].pc = p /\ worker'[w].timer = t
    /\ \A v \in Workers \ {w} : worker'[v] = worker[v]

\* At() moves its worker.
LEMMA AtMoves ==
    ASSUME Jobs, NEW w \in Workers, NEW p, NEW t \in Nat, At(w, p, t)
    PROVE  Moved(w, p, t)
<1>1. /\ worker' = [v \in Workers |-> worker'[v]]
      /\ \A v \in Workers \ {w} : worker'[v] = worker[v]
  BY DEF Jobs, At
<1>2. /\ {"pc", "timer"} \subseteq DOMAIN worker'[w]
      /\ worker'[w].pc = p /\ worker'[w].timer = t
  BY DEF Jobs, At
<1>3. QED
  BY <1>1, <1>2 DEF Moved, Jobs

\* A new record moves it too.
LEMMA RecordMoves ==
    ASSUME Jobs, NEW w \in Workers, NEW p, NEW s,
           worker' = [worker EXCEPT ![w] = [pc |-> p, timer |-> 0, status |-> s]]
    PROVE  Moved(w, p, 0)
BY DEF Moved, Jobs

\* A worker that goes to where nobody sleeps keeps the invariant, if the gap
\* and the pause stay or nobody sleeps.
LEMMA AwakeKeeps ==
    ASSUME SleeperInv, NEW w \in Workers, NEW p, NEW t \in Nat, Moved(w, p, t),
           p \notin Sleeping, p # "delay", p # "idle" => delayRead',
           delayRead => delayRead',
           UNCHANGED <<gap, pause>> \/ LockFree,
           gap' \in Nat, gap' <= LongAgo, pause' \in Nat, UNCHANGED since
    PROVE  SleeperInv' /\ StartsWell
<1>1. StartsWell
  BY DEF StartsWell, Starting, Moved
<1>2. \A v \in Workers : worker'[v].pc \in Sleeping =>
          /\ v # w /\ worker'[v] = worker[v] /\ worker[v].pc \in Sleeping
          /\ UNCHANGED <<gap, pause>>
  BY DEF Moved, LockFree, Sleeping
<1>3. \A v \in Workers :
          /\ worker'[v].pc # "idle" => delayRead'
          /\ worker'[v].pc = "cooling" => pause' <= worker'[v].timer
          /\ worker'[v].pc = "spacing" => pause' = 0 /\ (GapOf(gap) <= since + worker[v].timer)'
  BY <1>2 DEF SleeperInv, Moved, Sleeping, GapOf
<1>4. \A u, v \in Workers : worker'[u].pc \in Sleeping /\ worker'[v].pc \in Sleeping => u = v
  BY <1>2 DEF SleeperInv
<1>5. Jobs' /\ (~delayRead' => since' = LongAgo)
  BY DEF Moved, SleeperInv
<1>6. QED
  BY <1>1, <1>3, <1>4, <1>5 DEF SleeperInv

\* A worker that starts keeps it, if the gap is over and the pause too.
LEMMA StartKeeps ==
    ASSUME SleeperInv, NEW w \in Workers, Start(w), delayRead',
           \A v \in Workers \ {w} : worker[v].pc \notin Sleeping,
           since >= GapOf(gap), pause = 0,
           gap' \in Nat, gap' <= LongAgo, UNCHANGED pause
    PROVE  SleeperInv' /\ StartsWell
<1>1. PICK d \in Nat : Moved(w, "delay", d) /\ since' = 0
  BY AtMoves, ThrottleAssumption DEF Start, SleeperInv
<1>2. StartsWell
  BY <1>1 DEF StartsWell, Starting, Moved
<1>3. \A v \in Workers : worker'[v].pc \notin Sleeping
  BY <1>1 DEF Moved, Sleeping
<1>4. QED
  BY <1>1, <1>2, <1>3, LongAgoIsNat DEF SleeperInv, Moved, Sleeping

\* A worker that falls asleep keeps it, if its timer covers what is left.
LEMMA SleepKeeps ==
    ASSUME SleeperInv, NEW w \in Workers, NEW p \in Sleeping, NEW t \in Nat, Moved(w, p, t),
           \A v \in Workers \ {w} : worker[v].pc \notin Sleeping,
           delayRead',
           p = "cooling" => pause <= t,
           p = "spacing" => pause = 0 /\ GapOf(gap') <= since + t,
           gap' \in Nat, gap' <= LongAgo, UNCHANGED <<since, pause>>
    PROVE  SleeperInv' /\ StartsWell
<1>1. StartsWell
  BY DEF StartsWell, Starting, Moved, Sleeping
<1>2. \A v \in Workers \ {w} : worker'[v].pc \notin Sleeping
  BY DEF Moved
<1>3. \A v \in Workers :
          /\ worker'[v].pc = "cooling" => pause' <= worker'[v].timer
          /\ worker'[v].pc = "spacing" => pause' = 0 /\ (GapOf(gap) <= since + worker[v].timer)'
  BY <1>2 DEF Moved, Sleeping, GapOf
<1>4. \A u, v \in Workers : worker'[u].pc \in Sleeping /\ worker'[v].pc \in Sleeping => u = v
  BY <1>2
<1>5. Jobs'
  BY DEF Moved
<1>6. QED
  BY <1>1, <1>3, <1>4, <1>5 DEF SleeperInv

-----------------------------------------------------------------------------
(* wait() *)

\* Looking at the gap, once the pause is over and nobody else holds the lock,
\* leads to a start or to a sleep that covers the gap.
LEMMA SpaceKeeps ==
    ASSUME SleeperInv, NEW w \in Workers, NEW g \in Nat, g <= LongAgo, Space(w, g),
           \A v \in Workers \ {w} : worker[v].pc \notin Sleeping,
           pause = 0, delayRead', gap' = g, GapOf(g) = g,
           since >= g => since >= GapOf(gap),
           UNCHANGED pause
    PROVE  SleeperInv' /\ StartsWell
<1>1. since \in Nat
  BY DEF SleeperInv
<1>2. CASE since < g
  <2>1. At(w, "spacing", g - since) /\ UNCHANGED since
    BY <1>2 DEF Space
  <2>2. g - since \in Nat /\ g <= since + (g - since)
    BY <1>1, <1>2
  <2> DEFINE t == g - since
  <2> HIDE DEF t
  <2>3. Moved(w, "spacing", t)
    BY <2>1, <2>2, AtMoves DEF SleeperInv, t
  <2>4. QED
    BY <2>1, <2>2, <2>3, SleepKeeps DEF Sleeping, t
<1>3. CASE since >= g
  <2>1. Start(w)
    BY <1>1, <1>3 DEF Space
  <2>2. QED
    BY <1>3, <2>1, StartKeeps
<1>4. QED
  BY <1>1, <1>2, <1>3

\* Taking the lock when nobody sleeps.
LEMMA HoldKeeps ==
    ASSUME SleeperInv, NEW w \in Workers, NEW g \in Nat, g <= LongAgo, Hold(w, g),
           LockFree, delayRead',
           since >= GapOf(g) => since >= GapOf(gap),
           UNCHANGED pause
    PROVE  SleeperInv' /\ StartsWell
<1>1. \A v \in Workers \ {w} : worker[v].pc \notin Sleeping
  BY DEF LockFree, Sleeping
<1>2. pause \in Nat
  BY DEF SleeperInv
<1>3. CASE pause > 0
  <2>1. At(w, "cooling", pause) /\ gap' = g /\ UNCHANGED since
    BY <1>3 DEF Hold
  <2>2. Moved(w, "cooling", pause)
    BY <1>2, <2>1, AtMoves DEF SleeperInv
  <2>3. QED
    BY <1>1, <1>2, <2>1, <2>2, SleepKeeps DEF Sleeping
<1>4. CASE pause = 0
  <2>1. gap' = GapOf(g) /\ Space(w, GapOf(g))
    BY <1>4 DEF Hold
  <2>2. GapOf(g) \in Nat /\ GapOf(g) <= LongAgo
    BY GapOfBounded
  <2>3. GapOf(GapOf(g)) = GapOf(g)
    BY ThrottleAssumption DEF GapOf
  <2>4. QED
    BY <1>1, <1>4, <2>1, <2>2, <2>3, SpaceKeeps
<1>5. QED
  BY <1>2, <1>3, <1>4

\* Entering wait(), with the Crawl-delay written at the first time.
LEMMA EnterKeeps ==
    ASSUME SleeperInv, NEW w \in Workers, Enter(w)
    PROVE  SleeperInv' /\ StartsWell
<1>1. delayRead' /\ UNCHANGED pause
  BY DEF Enter
<1>2. Delayed \in Nat /\ Delayed <= LongAgo
  BY LongAgoIsNat, ThrottleAssumption DEF SleeperInv, Delayed, Greater
<1>3. since >= GapOf(Delayed) => since >= GapOf(gap)
  <2>1. CASE delayRead
    BY <2>1 DEF Delayed
  <2>2. CASE ~delayRead
    BY <2>2, GapOfBounded DEF SleeperInv
  <2>3. QED
    BY <2>1, <2>2
<1>4. CASE LockFree
  <2>1. Hold(w, Delayed)
    BY <1>4 DEF Enter
  <2> HIDE DEF Delayed
  <2>2. QED
    BY <1>1, <1>2, <1>3, <1>4, <2>1, HoldKeeps
<1>5. CASE ~LockFree
  <2>1. At(w, "wait", 0) /\ gap' = Delayed /\ UNCHANGED since
    BY <1>5 DEF Enter
  <2>2. Moved(w, "wait", 0)
    BY <2>1, AtMoves DEF SleeperInv
  <2>3. delayRead
    BY <1>5 DEF LockFree, SleeperInv
  <2>4. UNCHANGED <<gap, pause>>
    BY <1>1, <2>1, <2>3 DEF Delayed
  <2>5. QED
    BY <1>1, <1>2, <2>1, <2>2, <2>4, AwakeKeeps DEF Sleeping, SleeperInv
<1>6. QED
  BY <1>4, <1>5

\* Getting the lock, and waking up under it.
LEMMA WakeKeeps ==
    ASSUME SleeperInv, NEW w \in Workers, Acquire(w) \/ Cooled(w) \/ Spaced(w)
    PROVE  SleeperInv' /\ StartsWell
<1>1. delayRead /\ delayRead' /\ gap \in Nat /\ gap <= LongAgo
  BY DEF Acquire, Cooled, Spaced, SleeperInv
<1>2. CASE Acquire(w)
  <2>1. Hold(w, gap) /\ LockFree /\ UNCHANGED pause
    BY <1>2 DEF Acquire
  <2>2. QED
    BY <1>1, <2>1, HoldKeeps
<1>3. CASE Cooled(w)
  <2>1. \A v \in Workers \ {w} : worker[v].pc \notin Sleeping
    BY <1>3 DEF Cooled, SleeperInv, Sleeping
  <2>2. pause = 0 /\ UNCHANGED pause /\ gap' = GapOf(gap) /\ Space(w, GapOf(gap))
    BY <1>3 DEF Cooled, SleeperInv
  <2>3. GapOf(gap) \in Nat /\ GapOf(gap) <= LongAgo /\ GapOf(GapOf(gap)) = GapOf(gap)
    BY <1>1, GapOfBounded, ThrottleAssumption DEF GapOf
  <2>4. QED
    BY <1>1, <2>1, <2>2, <2>3, SpaceKeeps
<1>4. CASE Spaced(w)
  <2>1. \A v \in Workers \ {w} : worker[v].pc \notin Sleeping
    BY <1>4 DEF Spaced, SleeperInv, Sleeping
  <2>2. pause = 0 /\ UNCHANGED <<gap, pause>> /\ Start(w)
    BY <1>4 DEF Spaced, SleeperInv
  <2>3. since >= GapOf(gap)
    BY <1>1, <1>4, GapOfBounded DEF Spaced, SleeperInv
  <2>4. QED
    BY <1>1, <2>1, <2>2, <2>3, StartKeeps
<1>5. QED
  BY <1>2, <1>3, <1>4

-----------------------------------------------------------------------------
(* The fetch, the report and time *)

\* A fetch and its end.
LEMMA FetchKeeps ==
    ASSUME SleeperInv, NEW w \in Workers, Fetch(w) \/ Answered(w) \/ Cancel(w)
    PROVE  SleeperInv' /\ StartsWell
<1>1. UNCHANGED <<gap, since, pause, delayRead>>
  BY DEF Fetch, Answered, Raise, Answer, Cancel
<1>2. worker[w].pc # "idle"
  BY DEF Fetch, Answered, Raise, Answer, Cancel
<1>3. \E p \in {"fetch", "report", "idle"} : Moved(w, p, 0)
  <2>1. CASE Fetch(w)
    BY <2>1, AtMoves DEF Fetch, SleeperInv
  <2>2. CASE Raise(w) \/ Cancel(w)
    BY <2>2, RecordMoves DEF Raise, Cancel, Idle, SleeperInv
  <2>3. ASSUME NEW s, Answer(w, s)
        PROVE  Moved(w, "report", 0)
    BY <2>3, RecordMoves DEF Answer, SleeperInv
  <2>4. QED
    BY <2>1, <2>2, <2>3 DEF Answered
<1>4. QED
  BY <1>1, <1>2, <1>3, AwakeKeeps DEF SleeperInv, Sleeping

\* Recording a result, which needs the lock.
LEMMA ReportKeeps ==
    ASSUME SleeperInv, NEW w \in Workers, Report(w)
    PROVE  SleeperInv' /\ StartsWell
<1>1. LockFree /\ UNCHANGED <<since, delayRead>> /\ worker' = [worker EXCEPT ![w] = Idle]
  BY DEF Report, MayReport
<1>2. Moved(w, "idle", 0)
  BY <1>1, RecordMoves DEF Idle, SleeperInv
<1>3. pause' \in Nat
  BY ThrottleAssumption DEF Report, SleeperInv
<1>4. gap' \in Nat /\ gap' <= LongAgo
  <2>1. GapOf(gap) \in Nat /\ GapOf(gap) <= LongAgo
    BY GapOfBounded DEF SleeperInv
  <2>2. Lesser(2 * GapOf(gap), MaxGap) \in Nat /\ Lesser(2 * GapOf(gap), MaxGap) <= LongAgo
    BY <2>1, LongAgoIsNat, ThrottleAssumption DEF Lesser
  <2>3. \E win, s : gap' \in {Lesser(2 * GapOf(gap), MaxGap), gap, Adjusted(GapOf(gap), win, s)}
    BY DEF Report
  <2>4. QED
    BY <2>1, <2>2, <2>3, AdjustedBounded DEF SleeperInv
<1>5. QED
  BY <1>1, <1>2, <1>3, <1>4, AwakeKeeps DEF Sleeping

\* Time passes for the pause, the gap and the sleepers alike.
LEMMA TickKeeps ==
    ASSUME SleeperInv, Tick
    PROVE  SleeperInv' /\ StartsWell
<1>1. /\ since' = Lesser(since + 1, LongAgo) /\ pause' = Greater(pause - 1, 0)
      /\ UNCHANGED <<gap, delayRead>>
  BY DEF Tick
<1>2. /\ worker' = [w \in Workers |-> worker'[w]]
      /\ \A w \in Workers : /\ worker'[w].pc = worker[w].pc
                            /\ worker'[w].timer = Greater(worker[w].timer - 1, 0)
                            /\ DOMAIN worker'[w] = DOMAIN worker[w]
  BY DEF Tick, SleeperInv, Jobs
<1>3. Jobs'
  BY <1>2 DEF SleeperInv, Jobs, Greater
<1>4. /\ since' \in Nat /\ since' <= LongAgo /\ pause' \in Nat
      /\ ~delayRead' => since' = LongAgo
  BY <1>1, LongAgoIsNat DEF SleeperInv, Lesser, Greater
<1>5. ASSUME NEW w \in Workers
      PROVE  /\ worker'[w].pc = "cooling" => pause' <= worker'[w].timer
             /\ worker'[w].pc = "spacing" => pause' = 0 /\ (GapOf(gap) <= since + worker[w].timer)'
  <2>1. worker[w].timer \in Nat /\ pause \in Nat /\ since \in Nat /\ gap \in Nat
    BY DEF SleeperInv, Jobs
  <2>2. CASE worker[w].pc = "cooling"
    BY <1>1, <1>2, <2>1, <2>2 DEF SleeperInv, Greater
  <2>3. CASE worker[w].pc = "spacing"
    <3>1. pause = 0 /\ GapOf(gap) <= since + worker[w].timer
      BY <2>3 DEF SleeperInv
    <3>2. GapOf(gap) \in Nat /\ GapOf(gap) <= LongAgo
      BY GapOfBounded DEF SleeperInv
    <3>3. GapOf(gap) <= since' + worker'[w].timer
      BY <1>1, <1>2, <2>1, <3>1, <3>2, LongAgoIsNat DEF Lesser, Greater
    <3>4. QED
      BY <1>1, <1>2, <2>3, <3>1, <3>3 DEF Greater, GapOf
  <2>4. QED
    BY <1>2, <2>2, <2>3
<1>6. StartsWell
  BY <1>2 DEF StartsWell, Starting
<1>7. QED
  BY <1>1, <1>2, <1>3, <1>4, <1>5, <1>6 DEF SleeperInv

-----------------------------------------------------------------------------
(* Theorems *)

\* Nobody has started at first, and nobody sleeps.
LEMMA SleeperInit == Init => SleeperInv
BY LongAgoIsNat DEF Init, Idle, SleeperInv, Jobs, Sleeping

\* Every step keeps the invariant, and starts workers only when it may.
LEMMA SleeperStep == SleeperInv /\ [Next]_vars => SleeperInv' /\ (StartsWell \/ UNCHANGED vars)
<1>1. SUFFICES ASSUME SleeperInv, [Next]_vars
               PROVE  SleeperInv' /\ (StartsWell \/ UNCHANGED vars)
  OBVIOUS
<1>2. CASE UNCHANGED vars
  BY <1>1, <1>2 DEF vars, SleeperInv, Jobs, GapOf
<1>3. CASE Tick
  BY <1>1, <1>3, TickKeeps
<1>4. ASSUME NEW w \in Workers, Enter(w) \/ Acquire(w) \/ Asleep(w)
      PROVE  SleeperInv' /\ StartsWell
  BY <1>1, <1>4, EnterKeeps, WakeKeeps, FetchKeeps DEF Asleep
<1>5. ASSUME NEW w \in Workers, Report(w) \/ Answered(w) \/ Cancel(w)
      PROVE  SleeperInv' /\ StartsWell
  BY <1>1, <1>5, ReportKeeps, FetchKeeps
<1>6. QED
  BY <1>1, <1>2, <1>3, <1>4, <1>5 DEF Next

\* Two workers leave the wait() for a domain (crawler.py) the gap apart, although
\* the gap is read before the sleep: no report and no Crawl-delay changes it under
\* the sleeper.  What follows, the worker's own delay with its jitter and then the
\* request, is not spaced.
THEOREM StartsSpaced == Spec => StartsAreSpaced
<1>1. StartsWell => \A w \in Workers : Starting(w) => since >= GapOf(gap)
  BY DEF StartsWell
<1>2. SleeperInv /\ [Next]_vars => [\A w \in Workers : Starting(w) => since >= GapOf(gap)]_vars
  BY <1>1, SleeperStep
<1>3. QED
  BY <1>2, SleeperInit, SleeperStep, PTL DEF Spec, StartsAreSpaced

\* No worker leaves wait() in the pause after a 429 (crawler.py, record_result),
\* also when it was asleep or waiting as the pause began.  One that has left it
\* before may still make its request in the pause.
THEOREM PauseIsKept == Spec => NoStartInPause
<1>1. StartsWell => \A w \in Workers : Starting(w) => pause = 0
  BY DEF StartsWell
<1>2. SleeperInv /\ [Next]_vars => [\A w \in Workers : Starting(w) => pause = 0]_vars
  BY <1>1, SleeperStep
<1>3. QED
  BY <1>2, SleeperInit, SleeperStep, PTL DEF Spec, NoStartInPause

=============================================================================
