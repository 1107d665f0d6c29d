--------------------------- MODULE CircuitBreaker ---------------------------
(***************************************************************************)
(* _DomainCircuitBreaker (spider/crawler.py) and the workers of one crawl  *)
(* that ask it about one domain.  The breaker keeps its tables per domain  *)
(* and its lock is held over no await, so the domains do not disturb each  *)
(* other and each method is one step.  A worker takes a page, asks,        *)
(* fetches, reports and parses, and other workers do the same in between.  *)
(* What an open breaker does to the rows of its domain is modelled too: a  *)
(* page that is skipped is charged a retry and may be taken again at once. *)
(*                                                                         *)
(* Time is counted in ticks: worker_timeout (120 s) is FlightTicks and     *)
(* _OPEN_DURATION (300 s) is OpenTicks.  The domain is up or down; Faults  *)
(* names what else can become of a fetch.                                  *)
(***************************************************************************)
EXTENDS Integers, FiniteSets

CONSTANTS
    Workers,        \* the permits of the crawler's semaphore
    FailThreshold,  \* _FAIL_THRESHOLD
    OpenTicks,      \* _OPEN_DURATION
    HalfOpenProbe,  \* _HALF_OPEN_PROBE
    FlightTicks,    \* worker_timeout
    Pages,          \* the rows of the domain
    Budget,         \* max_url_retries
    NoPage,
    Faults          \* subset of {"neutral", "parse_error", "timeout"}

ASSUME BreakerAssumption ==
    /\ IsFiniteSet(Workers)
    /\ FailThreshold \in Nat \ {0}
    /\ OpenTicks \in Nat \ {0}
    /\ HalfOpenProbe \in Nat \ {0}
    /\ FlightTicks \in Nat
    /\ FlightTicks < OpenTicks
    /\ Budget \in Nat \ {0}
    /\ NoPage \notin Pages

VARIABLES
    streak,     \* _streak
    opened,     \* is the domain in _opened_at?
    age,        \* ticks since _opened_at, up to OpenTicks; 0 when closed
    probes,     \* _probes
    left,       \* left[p]: charges the row can still take; 0: never taken again
    flight,     \* flight[w]: the worker's page
    up          \* does the domain serve its pages?

vars == <<streak, opened, age, probes, left, flight, up>>
breaker == <<streak, opened, age, probes>>

Flight == [pc : {"idle", "fetch", "parse"}, page : Pages \cup {NoPage},
           age : 0..FlightTicks, probe : BOOLEAN]
Idle == [pc |-> "idle", page |-> NoPage, age |-> 0, probe |-> FALSE]

TypeOK ==
    /\ streak \in Nat
    /\ opened \in BOOLEAN
    /\ age \in 0..OpenTicks
    /\ probes \in Nat
    /\ left \in [Pages -> 0..Budget]
    /\ flight \in [Workers -> Flight]
    /\ up \in BOOLEAN

Init ==
    /\ streak = 0
    /\ opened = FALSE
    /\ age = 0
    /\ probes = 0
    /\ left = [p \in Pages |-> Budget]
    /\ flight = [w \in Workers |-> Idle]
    /\ up \in BOOLEAN

-----------------------------------------------------------------------------
(* A worker has a permit and the row of a page, which is of no other       *)
(* worker, and asks is_open().                                             *)

Waiting(p) == left[p] > 0 /\ \A w \in Workers : flight[w].page # p

Depart(w, p, probing) ==
    /\ flight[w].pc = "idle" /\ Waiting(p)
    /\ flight' = [flight EXCEPT ![w] =
                     [pc |-> "fetch", page |-> p, age |-> 0, probe |-> probing]]
    /\ UNCHANGED <<left, up>>

Admit(w, p) ==
    /\ ~opened
    /\ Depart(w, p, FALSE)
    /\ UNCHANGED breaker

\* Mutant of Probe: `<=` for `<`.
ProbeOffByOne(w, p) ==
    /\ opened /\ age >= OpenTicks
    /\ probes <= HalfOpenProbe
    /\ probes' = probes + 1
    /\ Depart(w, p, TRUE)
    /\ UNCHANGED <<streak, opened, age>>

\* Half-open.
Probe(w, p) ==
    /\ opened /\ age >= OpenTicks
    /\ probes < HalfOpenProbe
    /\ probes' = probes + 1
    /\ Depart(w, p, TRUE)
    /\ UNCHANGED <<streak, opened, age>>

\* Mutant of Skip: the row is given back as it was.
SkipUncharged(w, p) ==
    /\ opened /\ (age < OpenTicks \/ probes >= HalfOpenProbe)
    /\ flight[w].pc = "idle" /\ Waiting(p)
    /\ UNCHANGED <<breaker, left, flight, up>>

\* The breaker is open: the row is charged a retry and given back, without a wait.
Skip(w, p) ==
    /\ opened /\ (age < OpenTicks \/ probes >= HalfOpenProbe)
    /\ flight[w].pc = "idle" /\ Waiting(p)
    /\ left' = [left EXCEPT ![p] = @ - 1]
    /\ UNCHANGED <<breaker, flight, up>>

\* worker_timeout cancels a task that waits for a permit; its row stays in
\* 'processing'.
Expire(p) ==
    /\ "timeout" \in Faults
    /\ Waiting(p) /\ \A w \in Workers : flight[w].pc # "idle"
    /\ left' = [left EXCEPT ![p] = 0]
    /\ UNCHANGED <<breaker, flight, up>>

-----------------------------------------------------------------------------
(* Reporting *)

RecordSuccess ==
    /\ streak' = 0
    /\ opened' = FALSE
    /\ age' = 0
    /\ probes' = 0

\* A failure while the domain is open restarts nothing: not the cooldown, and
\* not the count of probes.
RecordFailure ==
    /\ streak' = streak + 1
    /\ opened' = (opened \/ streak + 1 >= FailThreshold)
    /\ UNCHANGED <<age, probes>>

\* The page is visited and done, and parsed.
Arrive(w) ==
    /\ flight' = [flight EXCEPT ![w].pc = "parse"]
    /\ left' = [left EXCEPT ![flight[w].page] = 0]

\* increment_retry(): the last charge fails the row.
GiveBack(w) ==
    /\ flight' = [flight EXCEPT ![w] = Idle]
    /\ left' = [left EXCEPT ![flight[w].page] = @ - 1]

\* The row is done, or left in 'processing', or visited and so never popped again.
Leave(w) ==
    /\ flight' = [flight EXCEPT ![w] = Idle]
    /\ left' = [left EXCEPT ![flight[w].page] = 0]

\* A 2xx or a 301, 302, 304.
Succeed(w) ==
    /\ flight[w].pc = "fetch" /\ up
    /\ RecordSuccess
    /\ Arrive(w)
    /\ UNCHANGED up

\* A 5xx, whose page is parsed all the same, or an exception.
Fail(w) ==
    /\ flight[w].pc = "fetch" /\ ~up
    /\ RecordFailure
    /\ Arrive(w) \/ GiveBack(w)
    /\ UNCHANGED up

\* The breaker is told nothing of a 4xx that is parsed, of a proxy rotated on 401
\* or 403, and of a page that robots.txt disallows.
Neutral(w) ==
    /\ "neutral" \in Faults
    /\ flight[w].pc = "fetch" /\ up
    /\ Arrive(w) \/ GiveBack(w) \/ Leave(w)
    /\ UNCHANGED <<breaker, up>>

\* The spider's callback raises: a failure of the domain too.
ParseRaises(w) ==
    /\ "parse_error" \in Faults
    /\ flight[w].pc = "parse"
    /\ RecordFailure
    /\ Leave(w)
    /\ UNCHANGED up

Finish(w) ==
    /\ flight[w].pc = "parse"
    /\ Leave(w)
    /\ UNCHANGED <<breaker, up>>

\* worker_timeout cancels the worker, which reports nothing.
Cancel(w) ==
    /\ "timeout" \in Faults
    /\ flight[w].pc # "idle"
    /\ Leave(w)
    /\ UNCHANGED <<breaker, up>>

-----------------------------------------------------------------------------
(* Time and the domain *)

\* No worker outlives worker_timeout.
Tick ==
    /\ \A w \in Workers : flight[w].pc # "idle" => flight[w].age < FlightTicks
    /\ age' = IF opened /\ age < OpenTicks THEN age + 1 ELSE age
    /\ flight' = [w \in Workers |-> IF flight[w].pc = "idle" THEN flight[w]
                                    ELSE [flight[w] EXCEPT !.age = @ + 1]]
    /\ UNCHANGED <<streak, opened, probes, left, up>>

Turn ==
    /\ up' = ~up
    /\ UNCHANGED <<breaker, left, flight>>

Ask(w, p) == Admit(w, p) \/ Probe(w, p) \/ Skip(w, p)

Answer(w) ==
    Succeed(w) \/ Fail(w) \/ Neutral(w) \/ ParseRaises(w) \/ Finish(w) \/ Cancel(w)

Next ==
    \/ Tick
    \/ Turn
    \/ \E w \in Workers, p \in Pages : Ask(w, p)
    \/ \E w \in Workers : Answer(w)
    \/ \E p \in Pages : Expire(p)

Spec == Init /\ [][Next]_vars

\* The dispatcher pops what is pending, and a page's task ends, by worker_timeout
\* at the latest.  Nothing makes a page wait for the cooldown.
Fairness ==
    /\ WF_vars(\E w \in Workers, p \in Pages : Ask(w, p))
    /\ \A w \in Workers : WF_vars(Answer(w))

FairSpec == Spec /\ Fairness

-----------------------------------------------------------------------------
(* Properties *)

\* The breaker is open exactly while the failures since the last success reach
\* the threshold, whatever stragglers report to an open breaker.
OpenMeansFailing == opened <=> streak >= FailThreshold

Probing == {w \in Workers : flight[w].pc # "idle" /\ flight[w].probe}

\* No more than HalfOpenProbe probes are under way at once, although a straggler
\* may close the breaker under a probe and failures open it again.
ProbesAreFew == Cardinality(Probing) <= HalfOpenProbe

\* An opening has all its probes until its cooldown is over: the count of an
\* earlier opening's probes does not stand in the way.
OpeningIsFresh == age < OpenTicks => probes = 0

\* A page is of one worker, and while it is fetched it can still be charged.
PagesAreHeld ==
    /\ \A w \in Workers : flight[w].pc = "idle" <=> flight[w].page = NoPage
    /\ \A w \in Workers : flight[w].pc = "fetch" => left[flight[w].page] > 0
    /\ \A v, w \in Workers :
         flight[v].page = flight[w].page => flight[v].page = NoPage \/ v = w

\* Inductive: until the breaker probes, the probes under way are those of an
\* earlier opening and as old as this one, so that none is left when it may.
BreakerInv ==
    /\ TypeOK
    /\ OpenMeansFailing
    /\ ~opened => age = 0
    /\ OpeningIsFresh
    /\ opened /\ probes = 0 => \A w \in Probing : flight[w].age >= age
    /\ age > FlightTicks => Cardinality(Probing) <= probes
    /\ probes <= HalfOpenProbe
    /\ ProbesAreFew

\* Every page of the domain is settled, although a failed probe leaves the breaker
\* open for good: no page waits for a cooldown that is not to end.  Many are settled
\* by failing within the cooldown, before a probe is due.
PagesAreSettled ==
    <>[](/\ \A p \in Pages : left[p] = 0
         /\ \A w \in Workers : flight[w].pc = "idle")

=============================================================================
