------------------------------ MODULE Throttle ------------------------------
(***************************************************************************)
(* _AdaptiveDomainThrottle (spider/crawler.py), enabled, and the workers   *)
(* that fetch pages of one domain through it: the Crawl-delay of the       *)
(* domain's robots.txt is written into the gap, wait() sleeps under the    *)
(* domain's lock, the fetch follows, and record_result() takes the lock    *)
(* again to adjust the gap.  The entries of a domain are its own as long   *)
(* as no more than _MAX_DOMAINS are in use, so one domain is enough.       *)
(*                                                                         *)
(* Time is in ticks and gaps are whole ticks, rounded as the text says.    *)
(***************************************************************************)
EXTENDS Integers, Sequences, FiniteSets

CONSTANTS
    Workers,        \* the crawler's workers
    BaseGap,        \* base_gap: the crawler's domain_delay
    MaxGap,         \* _MAX_GAP
    CbSleep,        \* _CB_SLEEP
    Window,         \* _WINDOW
    CrawlDelay,     \* robots.txt's Crawl-delay after clamping, 0 for none
    Delays,         \* what the crawler's delay and its random jitter may come to
    Faults          \* subset of {"429", "5xx", "0", "raise", "cancel"}

ASSUME ThrottleAssumption ==
    /\ BaseGap \in Nat \ {0}
    /\ MaxGap \in Nat /\ BaseGap <= MaxGap
    /\ CbSleep \in Nat \ {0}
    /\ Window \in Nat \ {0}
    /\ CrawlDelay \in Nat
    /\ Delays \subseteq Nat /\ Delays # {}

Lesser(x, y) == IF x < y THEN x ELSE y
Greater(x, y) == IF x < y THEN y ELSE x

LongAgo == Greater(MaxGap, CrawlDelay)

VARIABLES
    gap,        \* _gaps[domain], 0 while the map has no entry
    since,      \* ticks since _last[domain], up to LongAgo
    pause,      \* ticks until _cb_until[domain]
    window,     \* _windows[domain]: TRUE for an error
    delayRead,  \* is the domain in _domain_crawl_delays?
    worker      \* worker[w]: where w is with its page

vars == <<gap, since, pause, window, delayRead, worker>>

Status == {"ok", "5xx", "0", "429"}

Job == [pc : {"idle", "wait", "cooling", "spacing", "delay", "fetch", "report"},
        timer : Nat, status : Status]
Idle == [pc |-> "idle", timer |-> 0, status |-> "ok"]

TypeOK ==
    /\ gap \in Nat
    /\ since \in 0..LongAgo
    /\ pause \in 0..CbSleep
    /\ window \in Seq(BOOLEAN) /\ Len(window) <= Window
    /\ delayRead \in BOOLEAN
    /\ worker \in [Workers -> Job]

Init ==
    /\ gap = 0
    /\ since = LongAgo
    /\ pause = 0
    /\ window = << >>
    /\ delayRead = FALSE
    /\ worker = [w \in Workers |-> Idle]

-----------------------------------------------------------------------------
(* wait() *)

At(w, pc, timer) == worker' = [worker EXCEPT ![w].pc = pc, ![w].timer = timer]

\* Nobody sleeps under the lock.  Its waiters are served one at a time.
LockFree == \A w \in Workers : worker[w].pc \notin {"cooling", "spacing"}

\* The value _gaps[domain] reads, and inserts when it is missing.
GapOf(g) == IF g = 0 THEN BaseGap ELSE g

\* w leaves wait(), and sleeps for the delay and a jitter before its request.
Start(w) == (\E d \in Delays : At(w, "delay", d)) /\ since' = 0

\* The gap to the last start, which the pause does not count towards.
Space(w, g) ==
    IF since < g THEN At(w, "spacing", g - since) /\ UNCHANGED since
    ELSE Start(w)

\* Under the lock: the pause is read first.
Hold(w, g) ==
    IF pause > 0
    THEN At(w, "cooling", pause) /\ gap' = g /\ UNCHANGED since
    ELSE gap' = GapOf(g) /\ Space(w, GapOf(g))

\* The gap with the Crawl-delay, written once per domain if it is greater than
\* what the map holds.
Delayed == IF delayRead THEN gap ELSE Greater(gap, CrawlDelay)

Enter(w) ==
    /\ worker[w].pc = "idle"
    /\ delayRead' = TRUE
    /\ IF LockFree THEN Hold(w, Delayed)
       ELSE At(w, "wait", 0) /\ gap' = Delayed /\ UNCHANGED since
    /\ UNCHANGED <<pause, window>>

Acquire(w) ==
    /\ worker[w].pc = "wait"
    /\ LockFree
    /\ Hold(w, gap)
    /\ UNCHANGED <<pause, window, delayRead>>

\* Mutant of Cooled: the lock is given up and taken again after the pause.
CooledRequeues(w) ==
    /\ worker[w].pc = "cooling" /\ worker[w].timer = 0
    /\ At(w, "wait", 0)
    /\ UNCHANGED <<gap, since, pause, window, delayRead>>

\* The pause has been slept.
Cooled(w) ==
    /\ worker[w].pc = "cooling" /\ worker[w].timer = 0
    /\ gap' = GapOf(gap)
    /\ Space(w, GapOf(gap))
    /\ UNCHANGED <<pause, window, delayRead>>

Spaced(w) ==
    /\ worker[w].pc = "spacing" /\ worker[w].timer = 0
    /\ Start(w)
    /\ UNCHANGED <<gap, pause, window, delayRead>>

-----------------------------------------------------------------------------
(* The fetch *)

Fetch(w) ==
    /\ worker[w].pc = "delay" /\ worker[w].timer = 0
    /\ At(w, "fetch", 0)
    /\ UNCHANGED <<gap, since, pause, window, delayRead>>

\* A fetch that raises is not recorded.
Raise(w) ==
    /\ "raise" \in Faults
    /\ worker[w].pc = "fetch"
    /\ worker' = [worker EXCEPT ![w] = Idle]
    /\ UNCHANGED <<gap, since, pause, window, delayRead>>

Answer(w, s) ==
    /\ worker[w].pc = "fetch"
    /\ s = "ok" \/ s \in Faults
    /\ worker' = [worker EXCEPT ![w] = [pc |-> "report", timer |-> 0, status |-> s]]
    /\ UNCHANGED <<gap, since, pause, window, delayRead>>

-----------------------------------------------------------------------------
(* record_result() *)

Errors(win) == Cardinality({i \in DOMAIN win : win[i]})

\* The gap is multiplied by 1.5, rounded up, ...
Grow(g) == Lesser((3 * g + 1) \div 2, MaxGap)

\* ... or by 0.95, rounded down.
Shrink(g) == Greater(BaseGap, (95 * g) \div 100)

\* It grows with a 5xx if more than 30% of a full window are errors, and shrinks
\* if less than 5% are; a fetch without a status counts, but makes nothing grow.
Adjusted(g, win, s) ==
    IF s = "5xx" /\ 10 * Errors(win) > 3 * Window THEN Grow(g)
    ELSE IF 20 * Errors(win) < Window THEN Shrink(g) ELSE g

\* Mutant of MayReport: the result is recorded without the domain's lock.
MayReportAnyTime == TRUE

MayReport == LockFree

Report(w) ==
    LET s == worker[w].status
        all == Append(window, s \in {"5xx", "0"})
        win == IF Len(all) > Window THEN Tail(all) ELSE all
    IN
    /\ worker[w].pc = "report"
    /\ MayReport
    /\ window' = win
    /\ gap' = IF s = "429" THEN Lesser(2 * GapOf(gap), MaxGap)
              ELSE IF Len(win) < Window THEN gap
              ELSE Adjusted(GapOf(gap), win, s)
    /\ pause' = IF s = "429" THEN CbSleep ELSE pause
    /\ worker' = [worker EXCEPT ![w] = Idle]
    /\ UNCHANGED <<since, delayRead>>

-----------------------------------------------------------------------------

\* worker_timeout: any await is left, and the lock with it.
Cancel(w) ==
    /\ "cancel" \in Faults
    /\ worker[w].pc # "idle"
    /\ worker' = [worker EXCEPT ![w] = Idle]
    /\ UNCHANGED <<gap, since, pause, window, delayRead>>

Tick ==
    /\ since' = Lesser(since + 1, LongAgo)
    /\ pause' = Greater(pause - 1, 0)
    /\ worker' = [w \in Workers |-> [worker[w] EXCEPT !.timer = Greater(@ - 1, 0)]]
    /\ UNCHANGED <<gap, window, delayRead>>

Asleep(w) == Cooled(w) \/ Spaced(w) \/ Fetch(w)
Answered(w) == Raise(w) \/ \E s \in Status : Answer(w, s)

Next ==
    \/ Tick
    \/ \E w \in Workers :
          \/ Enter(w) \/ Acquire(w) \/ Report(w)
          \/ Asleep(w) \/ Answered(w) \/ Cancel(w)

Spec == Init /\ [][Next]_vars

\* Sleeps end, fetches end, and the lock is first come, first served.
Fairness ==
    /\ WF_vars(Tick)
    /\ \A w \in Workers : /\ WF_vars(Asleep(w)) /\ WF_vars(Answered(w))
                          /\ SF_vars(Acquire(w)) /\ SF_vars(Report(w))

FairSpec == Spec /\ Fairness

-----------------------------------------------------------------------------
(* Properties *)

Starting(w) == worker[w].pc # "delay" /\ worker'[w].pc = "delay"

\* Two workers leave wait() the gap apart, the gap that holds when the second one
\* does, although it is read before the sleep: nobody changes it in between.  (Their
\* requests follow after sleeps of their own, whose jitter may bring them closer.)
StartsAreSpaced == [][\A w \in Workers : Starting(w) => since >= GapOf(gap)]_vars

\* No worker leaves wait() during the pause of a 429 that is recorded while it
\* waits or sleeps.
NoStartInPause == [][\A w \in Workers : Starting(w) => pause = 0]_vars

\* A worker that waits for the domain gets to fetch, through any number of 429s,
\* unless it is cancelled.
WaiterStarts ==
    \A w \in Workers : worker[w].pc = "wait" ~> worker[w].pc \in {"delay", "idle"}

=============================================================================
