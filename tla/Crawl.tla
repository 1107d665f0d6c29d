------------------------------- MODULE Crawl -------------------------------
(***************************************************************************)
(* The crawler (spider/crawler.py): what Crawler.run() does to one crawl   *)
(* over the tables of UrlQueue.  A run is one Crawler instance.  Its three *)
(* activities are coroutines of one event loop: the dispatcher claims rows *)
(* and creates a task per row; each task walks _fetch_and_parse behind the *)
(* semaphore; the consumer hands the items out and, at the end, finalises  *)
(* the crawl.  One action is what a coroutine does from one await that can *)
(* suspend it to the next, so every interleaving the loop can produce is a *)
(* behaviour.  What an instance holds in memory is lost when its process   *)
(* dies; the tables are not, and a later run resumes from them.            *)
(*                                                                         *)
(* Faults names the events of the environment a run of the model allows.   *)
(***************************************************************************)
EXTENDS UrlQueue

CONSTANTS
    Seeds,          \* what spider.start_requests() yields
    Links,          \* Links[u]: the in-scope requests u's page leads to
    Runs,           \* Crawler instances on this crawl_id, at most one run each
    Tasks,          \* worker task slots: a bound on tasks alive at once
    NoUrl, NoRun,   \* placeholders
    Concurrency,    \* permits of the semaphore
    MaxPages,       \* max_pages, 0 when unset
    MaxDepth,       \* max_depth (and max_depth_per_domain, whichever is less)
    Dedup,          \* deduplicate_content
    CachedBefore,   \* URLs whose url_cache row holds their current hash
    Overlap,        \* may an instance start while another is alive?
    Faults          \* which environment events can happen

FaultNames ==
    {"crash", "timeout", "stop", "pause", "quit", "deadline", "unsafe", "open",
     "disallow", "auth", "fetch_error", "error_page", "parse_error", "no_handler"}

ASSUME CrawlAssumption ==
    /\ Seeds \subseteq Urls
    /\ Links \in [Urls -> SUBSET Urls]
    /\ NoUrl \notin Urls
    /\ NoRun \notin Runs
    /\ Concurrency \in Nat \ {0}
    /\ MaxPages \in Nat
    /\ MaxDepth \in Nat
    /\ Dedup \in BOOLEAN
    /\ CachedBefore \subseteq Urls
    /\ Overlap \in BOOLEAN
    /\ Faults \subseteq FaultNames

VARIABLES
    crawlRow,   \* crawls.state of this crawl
    cache,      \* URLs whose url_cache.content_hash is that of their page
    stored,     \* stored[u]: how often u's page was inserted into items
    phase,      \* phase[r]: where run() of r is
    toSeed,     \* toSeed[r]: start requests r has still to push
    disp,       \* disp[r]: where r's dispatcher is
    hand,       \* hand[r]: the row r's dispatcher has claimed and not spawned
    pages,      \* pages[r]: _pages_fetched
    inbox,      \* inbox[r]: items queued ahead of the None sentinel
    halt,       \* halt[r]: "stop" or "cancel" once the event is set
    paused,     \* paused[r]: _pause_event
    task,       \* task[t]: one worker task
    read        \* history: URLs whose items run() has yielded to its caller

durableVars == <<crawlRow, cache, stored>>
runVars == <<phase, toSeed, disp, hand, pages, inbox, halt, paused>>
vars == <<queueVars, durableVars, runVars, task, read>>

Live == {"recover", "seed", "running", "draining", "closing", "final"}

\* The steps of _fetch_and_parse, in source order.
ClaimedPc == {"gate", "reject", "robots", "skip", "fetch", "rotate",
              "cache", "dedup", "visit"}
VisitedPc == {"hash", "done"}
ParsedPc == {"parse", "store", "push"}
OwnerPc == ClaimedPc \cup VisitedPc \cup ParsedPc \cup {"retry"}
Pc == OwnerPc \cup {"idle", "report"}

Kind == {"fresh", "unchanged", "duplicate"}

Job == [pc : Pc, url : Urls \cup {NoUrl}, run : Runs \cup {NoRun}, kind : Kind]

Idle == [pc |-> "idle", url |-> NoUrl, run |-> NoRun, kind |-> "fresh"]

TypeOK ==
    /\ QueueTypeOK
    /\ crawlRow \in {"none", "running", "finished", "cancelled"}
    /\ cache \subseteq Urls
    /\ stored \in [Urls -> Nat]
    /\ phase \in [Runs -> Live \cup {"new", "closed", "dead"}]
    /\ toSeed \in [Runs -> SUBSET Urls]
    /\ disp \in [Runs -> {"off", "top", "spawn", "ended"}]
    /\ hand \in [Runs -> Urls \cup {NoUrl}]
    /\ pages \in [Runs -> Nat]
    /\ inbox \in [Runs -> SUBSET Urls]
    /\ halt \in [Runs -> {"no", "stop", "cancel"}]
    /\ paused \in [Runs -> BOOLEAN]
    /\ task \in [Tasks -> Job]
    /\ read \subseteq Urls

Init ==
    /\ QueueInit
    /\ crawlRow = "none"
    /\ cache = CachedBefore
    /\ stored = [u \in Urls |-> 0]
    /\ phase = [r \in Runs |-> "new"]
    /\ toSeed = [r \in Runs |-> {}]
    /\ disp = [r \in Runs |-> "off"]
    /\ hand = [r \in Runs |-> NoUrl]
    /\ pages = [r \in Runs |-> 0]
    /\ inbox = [r \in Runs |-> {}]
    /\ halt = [r \in Runs |-> "no"]
    /\ paused = [r \in Runs |-> FALSE]
    /\ task = [t \in Tasks |-> Idle]
    /\ read = {}

-----------------------------------------------------------------------------
(* Helpers *)

Busy(r) == {t \in Tasks : task[t].pc # "idle" /\ task[t].run = r}

\* The tasks of r inside `async with self._semaphore`.
Holding(r) == {t \in Busy(r) : task[t].pc # "gate"}

Goto(t, pc) == task' = [task EXCEPT ![t].pc = pc]
Exit(t) == task' = [task EXCEPT ![t] = Idle]

\* Every task of r is cancelled or gone.
Abandoned(r) == [t \in Tasks |-> IF t \in Busy(r) THEN Idle ELSE task[t]]

\* Mutant of FollowsLinks: `<=` in the depth gate.
FollowsLinksOffByOne(u) == depth[u] <= MaxDepth

FollowsLinks(u) == depth[u] < MaxDepth

-----------------------------------------------------------------------------
(* Starting and resuming: the head of run() *)

\* Crawler(...) or Crawler.resume(...), then run(): the crawl row is upserted
\* as RUNNING.  Unless runs may overlap, the previous process is gone.
Begin(r) ==
    /\ phase[r] = "new"
    /\ Overlap \/ \A q \in Runs : phase[q] \notin Live
    /\ crawlRow' = "running"
    /\ phase' = [phase EXCEPT ![r] = "recover"]
    /\ UNCHANGED <<queueVars, cache, stored, toSeed, disp, hand, pages, inbox,
                   halt, paused, task, read>>

\* Mutant of Recover: the test of pending_count() the wrong way round.
RecoverInverted(r) ==
    /\ phase[r] = "recover"
    /\ RequeueStale
    /\ toSeed' = [toSeed EXCEPT ![r] = IF PendingRows' = {} THEN {} ELSE Seeds]
    /\ phase' = [phase EXCEPT ![r] = "seed"]
    /\ UNCHANGED <<durableVars, disp, hand, pages, inbox, halt, paused, task, read>>

\* requeue_stale(), then pending_count(): start requests are pushed only when
\* no row is pending.
Recover(r) ==
    /\ phase[r] = "recover"
    /\ RequeueStale
    /\ toSeed' = [toSeed EXCEPT ![r] = IF PendingRows' = {} THEN Seeds ELSE {}]
    /\ phase' = [phase EXCEPT ![r] = "seed"]
    /\ UNCHANGED <<durableVars, disp, hand, pages, inbox, halt, paused, task, read>>

\* One queue.push() per start request, each with its own commit.
PushSeed(r, u) ==
    /\ phase[r] = "seed"
    /\ u \in toSeed[r]
    /\ Push({u}, 0)
    /\ toSeed' = [toSeed EXCEPT ![r] = @ \ {u}]
    /\ UNCHANGED <<durableVars, phase, disp, hand, pages, inbox, halt, paused,
                   task, read>>

\* The dispatcher task is created and the consumer starts to read.
Launch(r) ==
    /\ phase[r] = "seed"
    /\ toSeed[r] = {}
    /\ phase' = [phase EXCEPT ![r] = "running"]
    /\ disp' = [disp EXCEPT ![r] = "top"]
    /\ UNCHANGED <<queueVars, durableVars, toSeed, hand, pages, inbox, halt,
                   paused, task, read>>

-----------------------------------------------------------------------------
(* The dispatcher *)

Limited(r) == MaxPages > 0 /\ pages[r] >= MaxPages

\* The head of the loop is left on stop, max_pages or max_duration_seconds, and
\* the None sentinel is put.
DispatchStop(r) ==
    /\ disp[r] = "top"
    /\ \/ halt[r] # "no"
       \/ ~paused[r] /\ Limited(r)
       \/ ~paused[r] /\ "deadline" \in Faults
    /\ disp' = [disp EXCEPT ![r] = "ended"]
    /\ UNCHANGED <<queueVars, durableVars, phase, toSeed, hand, pages, inbox, halt,
                   paused, task, read>>

\* Past the head of the loop; while paused it sleeps.  pop()'s statement joins
\* the connection's queue with no suspension after these tests.
MayPop(r) == disp[r] = "top" /\ halt[r] = "no" /\ ~paused[r] /\ ~Limited(r)

DispatchClaim(r) ==
    /\ MayPop(r)
    /\ \E u \in Urls : Pop(u) /\ hand' = [hand EXCEPT ![r] = u]
    /\ disp' = [disp EXCEPT ![r] = "spawn"]
    /\ UNCHANGED <<durableVars, phase, toSeed, pages, inbox, halt, paused, task, read>>

\* Mutant of DispatchEmpty: the workers are not looked at.
DispatchEmptyHasty(r) ==
    /\ MayPop(r)
    /\ Claimable = {}
    /\ disp' = [disp EXCEPT ![r] = "ended"]
    /\ UNCHANGED <<queueVars, durableVars, phase, toSeed, hand, pages, inbox, halt,
                   paused, task, read>>

\* Mutant of DispatchEmpty: it waits for pending_count() to reach zero.
DispatchEmptyCounting(r) ==
    /\ MayPop(r)
    /\ PendingRows = {}
    /\ Busy(r) = {}
    /\ disp' = [disp EXCEPT ![r] = "ended"]
    /\ UNCHANGED <<queueVars, durableVars, phase, toSeed, hand, pages, inbox, halt,
                   paused, task, read>>

\* pop() returned None: give up unless a worker may still add rows.  The look
\* at the workers is one step with the pop: a worker whose insert came after
\* the pop's statement in the connection's queue is woken after the dispatcher.
DispatchEmpty(r) ==
    /\ MayPop(r)
    /\ Claimable = {}
    /\ Busy(r) = {}
    /\ disp' = [disp EXCEPT ![r] = "ended"]
    /\ UNCHANGED <<queueVars, durableVars, phase, toSeed, hand, pages, inbox, halt,
                   paused, task, read>>

\* asyncio.create_task(wait_for(_fetch_and_parse(...))).
Spawn(r) ==
    /\ disp[r] = "spawn"
    /\ \E t \in Tasks :
          /\ task[t].pc = "idle"
          /\ task' = [task EXCEPT ![t] = [pc |-> "gate", url |-> hand[r],
                                          run |-> r, kind |-> "fresh"]]
    /\ hand' = [hand EXCEPT ![r] = NoUrl]
    /\ disp' = [disp EXCEPT ![r] = "top"]
    /\ UNCHANGED <<queueVars, durableVars, phase, toSeed, pages, inbox, halt, paused,
                   read>>

-----------------------------------------------------------------------------
(* The worker: _fetch_and_parse.  All but the steps that name a result     *)
(* leave the run's own state alone.                                        *)

WorkerFrame == UNCHANGED <<crawlRow, phase, toSeed, disp, hand, halt, paused, read>>

\* A permit of the semaphore; then, with no suspension, the URL safety check
\* and the circuit breaker.
Enter(t) ==
    LET r == task[t].run IN
    /\ task[t].pc = "gate"
    /\ Cardinality(Holding(r)) < Concurrency
    /\ \/ Goto(t, "robots")
       \/ "unsafe" \in Faults /\ Goto(t, "reject")
       \/ "open" \in Faults /\ Goto(t, "retry")
    /\ UNCHANGED <<queueVars, cache, stored, pages, inbox>>
    /\ WorkerFrame

\* An unsafe URL is failed for good.
Reject(t) ==
    /\ task[t].pc = "reject"
    /\ MarkFailed(task[t].url)
    /\ Exit(t)
    /\ UNCHANGED <<cache, stored, pages, inbox>>
    /\ WorkerFrame

\* robots.allowed() and the crawl delay.
CheckRobots(t) ==
    /\ task[t].pc = "robots"
    /\ \/ Goto(t, "fetch")
       \/ "disallow" \in Faults /\ Goto(t, "skip")
    /\ UNCHANGED <<queueVars, cache, stored, pages, inbox>>
    /\ WorkerFrame

\* A disallowed URL is done, unfetched and not in the visited set.
SkipDisallowed(t) ==
    /\ task[t].pc = "skip"
    /\ MarkDone(task[t].url)
    /\ Exit(t)
    /\ UNCHANGED <<cache, stored, pages, inbox>>
    /\ WorkerFrame

\* Throttle, proxy choice, the read of url_cache, the fetch and the accounting
\* of its result.  A page that is not ok goes on like any other but is never
\* cached.  It is unchanged (304, or the hash of url_cache again) only if
\* url_cache has its hash; it may also have changed since.
Fetch(t) ==
    LET u == task[t].url
        next == IF Dedup THEN "dedup" ELSE "visit"
    IN
    /\ task[t].pc = "fetch"
    /\ \/ Goto(t, "cache")
       \/ "error_page" \in Faults /\ Goto(t, next)
       \/ "auth" \in Faults /\ Goto(t, "rotate")
       \/ "fetch_error" \in Faults /\ Goto(t, "retry")
       \/ /\ u \in cache
          /\ task' = [task EXCEPT ![t].pc = "visit", ![t].kind = "unchanged"]
    /\ UNCHANGED <<queueVars, cache, stored, pages, inbox>>
    /\ WorkerFrame

\* _update_url_cache() of a changed page: before it is visited or parsed.
WriteCache(t) ==
    /\ task[t].pc = "cache"
    /\ cache' = cache \cup {task[t].url}
    /\ Goto(t, IF Dedup THEN "dedup" ELSE "visit")
    /\ UNCHANGED <<queueVars, stored, pages, inbox>>
    /\ WorkerFrame

\* is_content_seen()
CheckSeen(t) ==
    /\ task[t].pc = "dedup"
    /\ task' = [task EXCEPT ![t].pc = "visit",
                            ![t].kind = IF ContentSeen(task[t].url) THEN "duplicate"
                                                                    ELSE "fresh"]
    /\ UNCHANGED <<queueVars, cache, stored, pages, inbox>>
    /\ WorkerFrame

Visit(t) ==
    /\ task[t].pc = "visit"
    /\ MarkVisited(task[t].url)
    /\ Goto(t, IF Dedup /\ task[t].kind = "fresh" THEN "hash" ELSE "done")
    /\ UNCHANGED <<cache, stored, pages, inbox>>
    /\ WorkerFrame

\* Mutant of RecordHash: the content hash is never recorded.
RecordHashSkipped(t) ==
    /\ task[t].pc = "hash"
    /\ Goto(t, "done")
    /\ UNCHANGED <<queueVars, cache, stored, pages, inbox>>
    /\ WorkerFrame

RecordHash(t) ==
    /\ task[t].pc = "hash"
    /\ MarkContentSeen(task[t].url)
    /\ Goto(t, "done")
    /\ UNCHANGED <<cache, stored, pages, inbox>>
    /\ WorkerFrame

\* mark_done() and the page count; a page that is not fresh ends here, and a
\* duplicate is not counted.
Done(t) ==
    LET k == task[t].kind IN
    /\ task[t].pc = "done"
    /\ MarkDone(task[t].url)
    /\ pages' = [pages EXCEPT ![task[t].run] = IF k = "duplicate" THEN @ ELSE @ + 1]
    /\ IF k = "fresh" THEN Goto(t, "parse") ELSE Exit(t)
    /\ UNCHANGED <<cache, stored, inbox>>
    /\ WorkerFrame

\* Where an item goes: the consumer reads what is put ahead of the sentinel.
Streamed(r, u) ==
    IF phase[r] = "running" /\ disp[r] # "ended"
    THEN [inbox EXCEPT ![r] = @ \cup {u}]
    ELSE inbox

\* The spider's callback: the page's item is streamed as it is yielded, the
\* links are collected.  It can raise before or after the item.
Parse(t) ==
    LET r == task[t].run
        u == task[t].url
    IN
    /\ task[t].pc = "parse"
    /\ \/ Goto(t, "store") /\ inbox' = Streamed(r, u)
       \/ "parse_error" \in Faults /\ Goto(t, "retry")
                                   /\ inbox' \in {inbox, Streamed(r, u)}
       \/ "no_handler" \in Faults /\ Exit(t) /\ UNCHANGED inbox
    /\ UNCHANGED <<queueVars, cache, stored, pages>>
    /\ WorkerFrame

\* Mutant of StoreItems: the task ends once the items are stored.
StoreItemsOnly(t) ==
    /\ task[t].pc = "store"
    /\ stored' = [stored EXCEPT ![task[t].url] = @ + 1]
    /\ Exit(t)
    /\ UNCHANGED <<queueVars, cache, pages, inbox>>
    /\ WorkerFrame

\* _persist_items()
StoreItems(t) ==
    /\ task[t].pc = "store"
    /\ stored' = [stored EXCEPT ![task[t].url] = @ + 1]
    /\ Goto(t, "push")
    /\ UNCHANGED <<queueVars, cache, pages, inbox>>
    /\ WorkerFrame

\* push_batch() of the children, one level deeper.
PushLinks(t) ==
    LET u == task[t].url IN
    /\ task[t].pc = "push"
    /\ Push(IF FollowsLinks(u) THEN Links[u] ELSE {}, depth[u] + 1)
    /\ Exit(t)
    /\ UNCHANGED <<cache, stored, pages, inbox>>
    /\ WorkerFrame

\* Mutant of Retry: a 401/403 forgets to give the row back.
RetryForgetsRotated(t) ==
    /\ task[t].pc \in {"retry", "rotate"}
    /\ IF task[t].pc = "rotate"
       THEN Goto(t, "report") /\ UNCHANGED queueVars
       ELSE Exit(t) /\ IncrementRetry(task[t].url)
    /\ UNCHANGED <<cache, stored, pages, inbox>>
    /\ WorkerFrame

\* increment_retry() of a skipped, failed or blocked URL.  After a 401/403 the
\* task still has to record the result, behind the throttle's lock.
Retry(t) ==
    /\ task[t].pc \in {"retry", "rotate"}
    /\ IncrementRetry(task[t].url)
    /\ IF task[t].pc = "rotate" THEN Goto(t, "report") ELSE Exit(t)
    /\ UNCHANGED <<cache, stored, pages, inbox>>
    /\ WorkerFrame

Report(t) ==
    /\ task[t].pc = "report"
    /\ Exit(t)
    /\ UNCHANGED <<queueVars, cache, stored, pages, inbox>>
    /\ WorkerFrame

\* worker_timeout: wait_for() cancels the coroutine at whatever await it is in,
\* the semaphore's included, and CancelledError passes every handler by.
WorkerTimeout(t) ==
    /\ "timeout" \in Faults
    /\ task[t].pc # "idle"
    /\ Exit(t)
    /\ UNCHANGED <<queueVars, cache, stored, pages, inbox>>
    /\ WorkerFrame

-----------------------------------------------------------------------------
(* The consumer and the end of run() *)

ReadItem(r, u) ==
    /\ phase[r] = "running"
    /\ u \in inbox[r]
    /\ inbox' = [inbox EXCEPT ![r] = @ \ {u}]
    /\ read' = read \cup {u}
    /\ UNCHANGED <<queueVars, durableVars, phase, toSeed, disp, hand, pages, halt,
                   paused, task>>

\* The finally block is entered: the dispatcher is cancelled, and a row it had
\* popped is left in 'processing'.
Drain(r) ==
    /\ phase' = [phase EXCEPT ![r] = "draining"]
    /\ disp' = [disp EXCEPT ![r] = "off"]
    /\ hand' = [hand EXCEPT ![r] = NoUrl]
    /\ inbox' = [inbox EXCEPT ![r] = {}]
    /\ UNCHANGED <<queueVars, durableVars, toSeed, pages, halt, paused, task, read>>

\* The consumer has read up to the sentinel.
ReadSentinel(r) ==
    /\ phase[r] = "running"
    /\ disp[r] = "ended"
    /\ inbox[r] = {}
    /\ Drain(r)

\* The caller leaves the `async for` early.
Quit(r) ==
    /\ "quit" \in Faults
    /\ phase[r] = "running"
    /\ Drain(r)

\* Mutant of DrainWorkers: finalise without waiting for the workers.
DrainWorkersHasty(r) ==
    /\ phase[r] = "draining"
    /\ phase' = [phase EXCEPT ![r] = "closing"]
    /\ UNCHANGED <<queueVars, durableVars, toSeed, disp, hand, pages, inbox, halt,
                   paused, task, read>>

\* Workers finish, or are cancelled after 30 s.
DrainWorkers(r) ==
    /\ phase[r] = "draining"
    /\ Busy(r) = {} \/ "timeout" \in Faults
    /\ task' = Abandoned(r)
    /\ phase' = [phase EXCEPT ![r] = "closing"]
    /\ UNCHANGED <<queueVars, durableVars, toSeed, disp, hand, pages, inbox, halt,
                   paused, read>>

\* Mutant of FinalRequeue: the rows of cancelled workers are forgotten.
FinalRequeueSkipped(r) ==
    /\ phase[r] = "closing"
    /\ phase' = [phase EXCEPT ![r] = "final"]
    /\ UNCHANGED <<queueVars, durableVars, toSeed, disp, hand, pages, inbox, halt,
                   paused, task, read>>

FinalRequeue(r) ==
    /\ phase[r] = "closing"
    /\ RequeueStale
    /\ phase' = [phase EXCEPT ![r] = "final"]
    /\ UNCHANGED <<durableVars, toSeed, disp, hand, pages, inbox, halt, paused, task,
                   read>>

Close(r) ==
    /\ phase[r] = "final"
    /\ crawlRow' = IF halt[r] = "cancel" THEN "cancelled" ELSE "finished"
    /\ phase' = [phase EXCEPT ![r] = "closed"]
    /\ UNCHANGED <<queueVars, cache, stored, toSeed, disp, hand, pages, inbox, halt,
                   paused, task, read>>

-----------------------------------------------------------------------------
(* The environment *)

\* stop() or cancel(); cancel() after stop() wins, never the reverse.
Halt(r, how) ==
    /\ "stop" \in Faults
    /\ phase[r] \in Live
    /\ halt[r] # "cancel" /\ halt[r] # how
    /\ halt' = [halt EXCEPT ![r] = how]
    /\ UNCHANGED <<queueVars, durableVars, phase, toSeed, disp, hand, pages, inbox,
                   paused, task, read>>

\* pause() and resume_in_place()
TogglePause(r) ==
    /\ "pause" \in Faults
    /\ phase[r] = "running"
    /\ paused' = [paused EXCEPT ![r] = ~@]
    /\ UNCHANGED <<queueVars, durableVars, phase, toSeed, disp, hand, pages, inbox,
                   halt, task, read>>

\* The process of r dies: its memory is gone.
Crash(r) ==
    /\ "crash" \in Faults
    /\ phase[r] \in Live
    /\ phase' = [phase EXCEPT ![r] = "dead"]
    /\ toSeed' = [toSeed EXCEPT ![r] = {}]
    /\ disp' = [disp EXCEPT ![r] = "off"]
    /\ hand' = [hand EXCEPT ![r] = NoUrl]
    /\ pages' = [pages EXCEPT ![r] = 0]
    /\ inbox' = [inbox EXCEPT ![r] = {}]
    /\ halt' = [halt EXCEPT ![r] = "no"]
    /\ paused' = [paused EXCEPT ![r] = FALSE]
    /\ task' = Abandoned(r)
    /\ UNCHANGED <<queueVars, durableVars, read>>

-----------------------------------------------------------------------------

Lifecycle(r) ==
    \/ Begin(r) \/ Recover(r) \/ Launch(r)
    \/ \E u \in Urls : PushSeed(r, u)

Dispatcher(r) == DispatchStop(r) \/ DispatchClaim(r) \/ DispatchEmpty(r) \/ Spawn(r)

Consumer(r) ==
    \/ ReadSentinel(r) \/ DrainWorkers(r) \/ FinalRequeue(r) \/ Close(r)
    \/ \E u \in Urls : ReadItem(r, u)

Worker(t) ==
    \/ Enter(t) \/ Reject(t) \/ CheckRobots(t) \/ SkipDisallowed(t) \/ Fetch(t)
    \/ WriteCache(t) \/ CheckSeen(t) \/ Visit(t) \/ RecordHash(t) \/ Done(t)
    \/ Parse(t) \/ StoreItems(t) \/ PushLinks(t) \/ Retry(t) \/ Report(t)

Environment(r) ==
    \/ Quit(r) \/ TogglePause(r) \/ Crash(r)
    \/ \E how \in {"stop", "cancel"} : Halt(r, how)

Next ==
    \/ \E r \in Runs : Lifecycle(r) \/ Dispatcher(r) \/ Consumer(r) \/ Environment(r)
    \/ \E t \in Tasks : Worker(t) \/ WorkerTimeout(t)

Spec == Init /\ [][Next]_vars

\* The event loop runs every coroutine that is ready, the process is started,
\* a fetch ends (every fetcher has a timeout) and the caller keeps iterating.
Fairness ==
    /\ \A r \in Runs : /\ WF_vars(Lifecycle(r))
                       /\ WF_vars(Dispatcher(r))
                       /\ WF_vars(Consumer(r))
    /\ \A t \in Tasks : WF_vars(Worker(t))

FairSpec == Spec /\ Fairness

=============================================================================
