------------------------------ MODULE FetchPath ------------------------------
(***************************************************************************)
(* How a worker of the crawler gets a page (spider/crawler.py, from the    *)
(* choice of a proxy to the accounting): the HTTPFetcher of the host, in   *)
(* an LRU of fetchers that closes what it evicts, its requests             *)
(* (fetchers/http.py), detection and the ladder of escalation              *)
(* (fetchers/escalate.py), the browser, and what is reported to the proxy  *)
(* pool.  Each await is a step; workers share the fetchers, the last       *)
(* detection and the proxies.                                              *)
(*                                                                         *)
(* The browser is one step (BrowserPool shows its inside), and so are the  *)
(* attempts of a request with their redirects and the waits between them,  *)
(* up to the last.                                                         *)
(***************************************************************************)
EXTENDS ProxyManager, Protection

CONSTANTS
    Workers,
    Answers,        \* what sites and the browser may answer
    Hosts,
    MaxTracked,     \* _max_tracked_domains
    None,           \* no answer, no proxy, no host, no detection
    Faults          \* subset of {"request", "browser", "raise", "cancel", "use_browser",
                    \* "upkeep"}

ASSUME FetchAssumption ==
    /\ IsFiniteSet(Workers) /\ IsFiniteSet(Hosts)
    /\ \A a \in Answers : a.status \in Nat /\ a.signals \subseteq Signals
    /\ None \notin Answers
    /\ MaxTracked \in Nat \ {0}

VARIABLES
    tracked,    \* _host_fetchers: pairs of a host and a fetcher, the oldest first
    open,       \* the fetchers that have clients open
    marked,     \* _domain_needs_browser, the oldest first
    last,       \* _last_detection: None, or, if a vendor was detected, the workers that
                \* were under way then
    job,        \* job[w]: the page of w
    leaked      \* has the last step let an open fetcher go out of sight?

vars == <<pool, queue, checks, tracked, open, marked, last, job, leaked>>

\* Fetchers are numbered; 0 is none.
FetcherIds == 1..(Cardinality(Hosts) + Cardinality(Workers) + 1)

Stage == {"route", "evict", "warmup", "request", "swap", "rewarm", "browser", "parse"}

\* best is the answer the page has while the ladder looks for a better one.
Job == [stage : Stage, host : Hosts, proxy : Proxies, fetcher : FetcherIds \cup {0},
        best : Answers \cup {None}]
Idle == [stage |-> "idle", fetcher |-> 0]

TypeOK ==
    /\ ProxyTypeOK
    /\ tracked \in Seq(Hosts \X FetcherIds)
    /\ open \subseteq FetcherIds
    /\ marked \in Seq(Hosts) /\ Len(marked) <= MaxTracked
    /\ last \in (SUBSET Workers) \cup {None}
    /\ job \in [Workers -> Job \cup {Idle}]
    /\ leaked \in BOOLEAN

Init ==
    /\ ProxyInit
    /\ tracked = <<>>
    /\ open = {}
    /\ marked = <<>>
    /\ last = None
    /\ job = [w \in Workers |-> Idle]
    /\ leaked = FALSE

At(w, stages) == job[w].stage \in stages

\* On the ladder the page has an answer already: escalate.py catches what an
\* impersonated retry and a browser raise.
OnLadder(w) == job[w] # Idle /\ job[w].best # None

-----------------------------------------------------------------------------
(* The fetchers *)

Of(t, h) == {e[2] : e \in {x \in ToSet(t) : x[1] = h}}
Tracks(t) == {e[2] : e \in ToSet(t)}
Without(t, h) == RemoveFirstMatch(t, LAMBDA e : e[1] = h)
ReferredTo(t, j) == Tracks(t) \cup {j[w].fetcher : w \in Workers}
Number == Min(FetcherIds \ ReferredTo(tracked, job))

\* The fetchers become t, those that are open o, the jobs j: an open one that
\* nobody refers to has leaked.
Become(t, o, j) ==
    LET kept == ReferredTo(t, j)
    IN /\ tracked' = t
       /\ open' = o \cap kept
       /\ job' = j
       /\ leaked' = (o \ kept # {})

\* _host_fetchers[h] = f
Track(t, h, f) ==
    IF Of(t, h) # {} THEN [i \in DOMAIN t |-> IF t[i][1] = h THEN <<h, f>> ELSE t[i]]
                     ELSE Append(t, <<h, f>>)

\* fetch() of fetcher f, which makes itself a client when it has none or a
\* closed one.
Fetches(w, stage, f) == [job EXCEPT ![w].stage = stage, ![w].fetcher = f]

\* What is open when close() of the fetchers fs has returned, whoever uses them.
Close(fs) == open \ fs

-----------------------------------------------------------------------------
(* The end of a page *)

\* Mutant of Reset: the last detection stays.
ResetNothing == last

\* What _last_detection is when a page begins.
Reset == None

Done(w) == [job EXCEPT ![w] = Idle]
Less(d, w) == IF d = None THEN None ELSE d \ {w}
Leaves(w) == last' = Less(last, w)

\* The page raises: its proxy is charged, whatever it raises for.
Raises(w) ==
    /\ Become(tracked, open, Done(w))
    /\ pool' = WithFailure(job[w].proxy)
    /\ Leaves(w)
    /\ UNCHANGED <<queue, checks, marked>>

\* The page of w ends with 401 or 403, or its answer a is parsed.
Accounted(w, a) ==
    IF a.status \in Refusals THEN Done(w)
    ELSE [job EXCEPT ![w] = [stage |-> "parse", host |-> @.host, proxy |-> @.proxy,
                             fetcher |-> 0, best |-> None]]

\* Its answer a is charged to the proxy; det, the detection, is read.
Account(w, a, det) ==
    LET p == job[w].proxy
    IN /\ pool' = CASE a.status \in Refusals -> pool
                    [] IsOk(a) -> WithSuccess(p)
                    [] IsError(a) -> WithFailure(p)
                    [] OTHER -> pool
       /\ last' = Less(det, w)
       /\ UNCHANGED <<queue, checks>>

\* The callback takes the answer, or raises.
Parse(w) ==
    /\ At(w, {"parse"})
    /\ \/ /\ Become(tracked, open, Done(w))
          /\ UNCHANGED <<pool, queue, checks, marked, last>>
       \/ "raise" \in Faults /\ Raises(w)

-----------------------------------------------------------------------------
(* _process_item() chooses a proxy, _do_fetch() a fetcher *)

\* A page of h begins, with a proxy ...
Begin(w, h) ==
    /\ job[w] = Idle
    /\ \E p \in Proxies :
          /\ Picks(p)
          /\ job' = [job EXCEPT ![w] = [stage |-> "route", host |-> h, proxy |-> p, fetcher |-> 0,
                                        best |-> None]]
    /\ last' = Reset
    /\ leaked' = FALSE
    /\ UNCHANGED <<tracked, open, marked>>

\* ... or ends when all are in quarantine.
NoProxiesAvailable(w) ==
    /\ job[w] = Idle /\ Healthy = {}
    /\ last' = Reset
    /\ leaked' = FALSE
    /\ UNCHANGED <<pool, queue, checks, tracked, open, marked, job>>

Same == UNCHANGED <<pool, queue, checks, last>>

\* The page asks for a browser, or its host is known to need one.
ToBrowser(w) ==
    /\ At(w, {"route"})
    /\ "use_browser" \in Faults \/ job[w].host \in ToSet(marked)
    /\ Become(tracked, open, [job EXCEPT ![w].stage = "browser"])
    /\ Same /\ UNCHANGED marked

\* Mutant of Evicts: the evicted fetcher is not closed.
EvictsOpen(w, t, j) ==
    Become(Tail(t), open, [j EXCEPT ![w].stage = "evict"])

\* The oldest of the fetchers t is popped and closed, whoever uses it.
Evicts(w, t, j) ==
    Become(Tail(t), Close({Head(t)[2]}), [j EXCEPT ![w].stage = "evict"])

\* _get_host_fetcher(): the fetcher of the host, or a new one, which is warmed
\* up when those beyond the cap have been closed.
GetHostFetcher(w) ==
    LET h == job[w].host
    IN /\ At(w, {"route"})
       /\ h \notin ToSet(marked)
       /\ \/ \E f \in Of(tracked, h) :
                Become(Append(Without(tracked, h), <<h, f>>), open \cup {f},
                       Fetches(w, "request", f))
          \/ /\ Of(tracked, h) = {}
             /\ LET t == Append(tracked, <<h, Number>>)
                IN IF Len(t) > MaxTracked
                   THEN Evicts(w, t, [job EXCEPT ![w].fetcher = Number])
                   ELSE Become(t, open \cup {Number}, Fetches(w, "warmup", Number))
       /\ Same /\ UNCHANGED marked

Evicted(w) ==
    LET f == job[w].fetcher
    IN /\ At(w, {"evict"})
       /\ IF Len(tracked) > MaxTracked
          THEN Evicts(w, tracked, job)
          ELSE Become(tracked, open \cup {f}, Fetches(w, "warmup", f))
       /\ Same /\ UNCHANGED marked

\* Whatever the warm-up comes to, the page is fetched.
WarmedUp(w) ==
    LET f == job[w].fetcher
    IN /\ At(w, {"warmup", "rewarm"})
       /\ Become(tracked, open \cup {f}, Fetches(w, "request", f))
       /\ Same /\ UNCHANGED marked

-----------------------------------------------------------------------------
(* The requests of HTTPFetcher.fetch() *)

InFlight == {w \in Workers : job[w] # Idle}
Detected(a) == IF detect_protection(a).vendor = "none" THEN None ELSE InFlight

\* An impersonated attempt makes itself a session when somebody has closed the
\* fetcher.
Reopened(w) ==
    /\ At(w, {"request"}) /\ OnLadder(w)
    /\ job[w].fetcher \notin open
    /\ Become(tracked, open \cup {job[w].fetcher}, job)
    /\ Same /\ UNCHANGED marked

\* The last attempt met a retryable status or a transport error, a redirect is
\* one too many or unsafe, the answer is too large, or the client of a plain
\* request is closed.
RequestFails(w) ==
    /\ At(w, {"request"})
    /\ "request" \in Faults \/ (~OnLadder(w) /\ job[w].fetcher \notin open)
    /\ IF OnLadder(w)
       THEN /\ Become(tracked, open, [job EXCEPT ![w].stage = "browser"])
            /\ Same /\ UNCHANGED marked
       ELSE Raises(w)

-----------------------------------------------------------------------------
(* What _do_fetch() does with an answer *)

\* _domain_needs_browser[h] = True, for the last MaxTracked hosts.
Mark(h) ==
    LET m == Append(marked, h)
    IN marked' = IF Len(m) > MaxTracked THEN Tail(m) ELSE m

\* An answer no vendor is seen in is the page's, unless it is the shell of a
\* host that is not known to need a browser: now it is, and what the browser
\* raises is the page's end.
Unprotected(w, a) ==
    LET h == job[w].host
    IN IF needs_browser(a) /\ IsOk(a) /\ h \notin ToSet(marked)
       THEN /\ Mark(h)
            /\ Become(tracked, open, [job EXCEPT ![w].stage = "browser"])
            /\ last' = Detected(a)
            /\ UNCHANGED <<pool, queue, checks>>
       ELSE /\ Become(tracked, open, Accounted(w, a))
            /\ Account(w, a, Detected(a))
            /\ UNCHANGED marked

\* An impersonated retry: the host's fetcher is popped and closed.
Swap(w, a) ==
    LET old == Of(tracked, job[w].host)
    IN Become(Without(tracked, job[w].host), Close(old),
              [job EXCEPT ![w].stage = "swap", ![w].fetcher = 0, ![w].best = a])

Answered(w, a) ==
    LET d == detect_protection(a)
        rung == FirstRung(d)
    IN /\ At(w, {"request"}) /\ ~OnLadder(w)
       /\ a.status \notin Retryable
       /\ \/ d.vendor = "none" /\ Unprotected(w, a)
          \/ /\ d.vendor # "none" /\ rung = "none"
             /\ Become(tracked, open, Accounted(w, a))
             /\ Account(w, a, Detected(a))
             /\ UNCHANGED marked
          \/ /\ rung = "browser"
             /\ Become(tracked, open, [job EXCEPT ![w].stage = "browser", ![w].best = a])
             /\ last' = Detected(a)
             /\ UNCHANGED <<pool, queue, checks, marked>>
          \/ /\ rung = "impersonate"
             /\ Swap(w, a)
             /\ last' = Detected(a)
             /\ UNCHANGED <<pool, queue, checks, marked>>

\* A new fetcher takes the place, even of one another worker has put there.
Swapped(w) ==
    LET h == job[w].host
    IN /\ At(w, {"swap"})
       /\ Become(Track(tracked, h, Number), open \cup {Number},
                 [job EXCEPT ![w].stage = "rewarm", ![w].fetcher = Number])
       /\ Same /\ UNCHANGED marked

\* The impersonated retry has answered.
AnsweredAgain(w, a) ==
    /\ At(w, {"request"}) /\ OnLadder(w)
    /\ a.status \notin Retryable
    /\ IF SecondRung(a) = "browser"
       THEN /\ Become(tracked, open, [job EXCEPT ![w].stage = "browser", ![w].best = a])
            /\ Same
       ELSE /\ Become(tracked, open, Accounted(w, a))
            /\ Account(w, a, last)
    /\ UNCHANGED marked

\* The browser answers; cookies it earned are handed to the host's fetcher,
\* made for them if there is none, and not closing the oldest.
Browsed(w, a) ==
    LET h == job[w].host
    IN /\ At(w, {"browser"})
       /\ \/ Become(tracked, open, Accounted(w, a))
          \/ /\ Of(tracked, h) = {}
             /\ Become(Append(tracked, <<h, Number>>), open, Accounted(w, a))
       /\ Account(w, a, last)
       /\ UNCHANGED marked

\* Mutant of BrowserFails: the answer the page had is forgotten.
BrowserFailsPage(w) ==
    /\ At(w, {"browser"})
    /\ "browser" \in Faults
    /\ Raises(w)

BrowserFails(w) ==
    /\ At(w, {"browser"})
    /\ "browser" \in Faults
    /\ IF OnLadder(w)
       THEN /\ Become(tracked, open, Accounted(w, job[w].best))
            /\ Account(w, job[w].best, last)
            /\ UNCHANGED marked
       ELSE Raises(w)

\* The page is cancelled: nothing is charged, and a fetcher that is being closed
\* may stay open.
Cancel(w) ==
    /\ job[w] # Idle /\ "cancel" \in Faults
    /\ \/ Become(tracked, open, Done(w))
       \/ /\ At(w, {"evict", "swap"})
          /\ job' = Done(w)
          /\ open' = open \cap ReferredTo(tracked, Done(w))
          /\ leaked' = TRUE
          /\ UNCHANGED tracked
    /\ Leaves(w)
    /\ UNCHANGED <<pool, queue, checks, marked>>

-----------------------------------------------------------------------------
(* Specification *)

Proceed(w) ==
    \/ ToBrowser(w) \/ GetHostFetcher(w) \/ Evicted(w) \/ WarmedUp(w)
    \/ Reopened(w) \/ RequestFails(w) \/ Swapped(w)
    \/ \E a \in Answers : Answered(w, a) \/ AnsweredAgain(w, a) \/ Browsed(w, a)
    \/ BrowserFails(w) \/ Parse(w)

Maintain ==
    /\ "upkeep" \in Faults
    /\ Upkeep
    /\ leaked' = FALSE
    /\ UNCHANGED <<tracked, open, marked, last, job>>

Next ==
    \/ Maintain
    \/ \E w \in Workers :
          \/ \E h \in Hosts : Begin(w, h)
          \/ NoProxiesAvailable(w) \/ Proceed(w) \/ Cancel(w)

Spec == Init /\ [][Next]_vars

-----------------------------------------------------------------------------
(* Properties *)

\* The queue of the rotation and the entries of the proxy pool agree, however
\* proxies are added and removed around the pages and the checks that hold them.
ProxiesAreSound == TypeOK /\ RotationIsWhole

\* A page's outcome is never put down to a vendor seen before the page began:
\* a detection on record was made while every page that has yet to read it was
\* under way.  (It may have been another page's: _last_detection is one for all.)
AttributionIsRecent ==
    last # None => \A w \in Workers : ~At(w, {"idle", "parse"}) => w \in last

\* A fetcher goes out of sight with its clients open only if it had been popped
\* while a page used it, if a swapped fetcher takes the place of one put there
\* meanwhile, or if closing it is cut short; never by an eviction as such.
LeakIsExcused ==
    [][leaked' => \/ open \ Tracks(tracked) # {}
                  \/ \E w \in Workers :
                        \/ At(w, {"swap"}) /\ Of(tracked, job[w].host) # {}
                        \/ At(w, {"evict", "swap"}) /\ job'[w] = Idle]_vars

\* A page that has an answer when it climbs the ladder keeps one, whatever the
\* impersonated retry or the browser raises: it stays on the ladder with an answer
\* in hand, or goes on to have it parsed, or ends, with a refusal or cancelled, and
\* its proxy is charged for no raise.  (An answer of 500 or above is charged when it
\* is accounted for, and what the callback raises later is charged too.)
AnswerIsKept ==
    [][\A w \in Workers :
          OnLadder(w) =>
            \/ OnLadder(w)'
            \/ At(w, {"parse"})'
            \/ job'[w] = Idle /\ \A p \in Members : pool'[p].fails <= pool[p].fails]_vars

=============================================================================
