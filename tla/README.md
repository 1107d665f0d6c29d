# A verification project for anansi

anansi is an asynchronous web scraper: a crawler with a persistent queue, fetchers, an adaptive parser, an MCP server that exposes all of it as tools, and a demo dashboard.
This directory holds TLA+ models of it, TLC configurations that check them, and TLAPS proofs.
Everything is translated from the code; paths below are relative to the repository, and line numbers are those of this commit.
`PROJECT.json` maps each definition to the lines it models.

## 1. Inventory

### Components that keep state

| Component | Code | State | Operations | What makes it correct |
|---|---|---|---|---|
| URL queue | `anansi/spider/queue.py`, schema in `anansi/db.py` | tables `url_queue` (status, retry_count, priority, depth) and `visited_urls` (content_hash) | push, push_batch, pop, mark_done, mark_failed, increment_retry, requeue_stale, mark_visited, mark_content_seen | a row has one owner; budgets hold; what is queued is settled |
| Crawler | `anansi/spider/crawler.py` | the `crawls` row, `items`, `url_cache`; in memory the dispatcher, the worker tasks, the semaphore, the item queue, stop/cancel/pause events, `_pages_fetched` | run, resume, pause, resume_in_place, stop, cancel; per page `_fetch_and_parse` | nothing is lost or stored twice across crashes and retries; a crawl ends, with everything done |
| Circuit breaker | `crawler.py` `_DomainCircuitBreaker` | per domain: streak, time of opening, probes | is_open, record_success, record_failure | open exactly after a streak of failures; few probes; the domain's pages are settled whether it recovers or not |
| Adaptive throttle | `crawler.py` `_AdaptiveDomainThrottle` | per domain, in LRU maps: gap, time of the last `wait()`, window of results, pause until, lock | wait, record_result, and the Crawl-delay written by the crawler | workers leave `wait()` a gap apart, and none in a pause |
| robots.txt cache | `anansi/robots.py` | cache with expiry, locks per origin | allowed, crawl_delay | one fetch per origin at a time; bounded |
| Proxy manager | `anansi/proxy/manager.py` | entries with fail count and quarantine, the queue of the rotation, checks under way | next, report_success, report_failure, add, remove, the health-check loop | a quarantine is deserved; the rotation reaches every proxy |
| Browser fetcher | `anansi/fetchers/browser.py` | browser, semaphore, anonymous and sticky pools of contexts | fetch, screenshot, close | permits and caps are exact; sessions and proxies do not mix; contexts are not lost; who waits is served |
| HTTP fetcher | `anansi/fetchers/http.py`, and the crawler's LRU of fetchers per host | clients by proxy | fetch, fetch_impersonated, close | a fetcher that goes out of sight is closed |
| Escalation | `anansi/protection.py`, `fetchers/escalate.py`, `fetchers/smart.py` | hosts marked for the browser, the last detection | detect, impersonate, browser | an answer in hand survives a failing step; a block is put down to a page of its time |
| Adaptive parser | `anansi/parser/adaptive.py`, `strategies.py` | table of selectors with confidence, a lock per parser | extract, train, decay | healing is stored and found again; tasks end |
| Connections | `anansi/db.py` | one connection per path and event loop, creation locks | selector_db, crawl_db, close_all | few are open; only one with the schema is registered |
| MCP server | `anansi/mcp_server/server.py` | registry of running crawls, page cache with a byte count | start, pause, resume, cancel, list; cache get, put, clear | the cap on crawls holds; the byte count is that of the entries; a cancelled crawl is terminal |
| Collectors | `anansi/collectors/` | a remote job and its deadline | trigger, poll, store | a run ends within its deadline, with rows or an exception |
| Dashboard | `dashboard/app.py` | the state file, the status on the page | run, break, heal, reset, by concurrent requests | the file hangs together; a request alone forgets nothing; the page is current once all is quiet |

Without protocol state, and not modelled: URL and address checks (`utils/url.py`, `security.py`), structured data and pagination (`parser/structured.py`, `pagination.py`), personas and bot profiles, the captcha client, the facade and the command line.

### Interactions

- A worker of the **crawler** asks the **circuit breaker**, takes the semaphore, asks the **robots cache**, waits in the **throttle**, fetches (through **proxy manager**, **HTTP** or **browser fetcher**, or the **escalation**), reports to throttle and breaker, and writes the **queue**, `url_cache` and `items`.
- The **dispatcher** and the workers share the queue's tables; the dispatcher and the consumer share the item queue, ended by a `None` sentinel.
- All coroutines of an event loop share one **connection** of `db.py`: a statement and its commit are separate awaits, statements of different coroutines interleave.
- The **MCP server** runs crawlers as tasks, and stops, pauses and cancels them from other requests.
- Crashes: only the tables survive. `Crawler.resume()` starts a new instance over them.

### Hard behaviours

Interleaving of coroutines at every await; crash and resume between two commits of one page; worker timeouts that cancel a coroutine anywhere; stop, cancel, pause and an impatient caller meeting in one `finally` block; retries of pages already half done; check-then-act on the content hash; time (cooldowns, pauses, deadlines) against late reports.
`PROJECT.json` lists each hazard at its line, with the properties that would catch it.

## 2. Plan

Order, most important first; *composed* names the modules it builds on.

| Step | Module | Models | State |
|---|---|---|---|
| 1 | `UrlQueue` | the tables and their statements | done |
| 2 | `Crawl`, `CrawlProps`, `MCCrawl` | run(), composed with `UrlQueue` | done |
| 3 | `PageLifecycle` | abstract: the life of a page | done, refinement checked and proved |
| 4 | `CrawlProofs` | types, claims, budgets, shutdown | done |
| 5 | `CircuitBreaker`, `BreakerProofs` | the breaker, its workers, and the rows that skips charge | done |
| 6 | `RobotsCache` | single-flight, expiry, eviction | done |
| 7 | `Throttle` | gaps, pauses, Crawl-delay | done |
| 8 | `McpRegistry` | tool calls over running crawls, on the phases of `Crawl` | done |
| 9 | `PageCache` | byte count, eviction, clear | done |
| 10 | `BrowserPool`, `PoolProofs` | contexts, sticky sessions, permits, close | done |
| 11 | `ProxyManager`, `Protection`, `FetchPath`, `ProxyProofs` | the path of a worker's fetch: proxy, host fetcher, detection, escalation, browser, accounting; composed of the first two | done |
| 12 | `Connections`, `SelectorStore`, `StoreProofs` | creation, sharing and closing of connections, composed with the tasks of the parser: confidence, healing, decay | done |
| 13 | `Dashboard` | load, modify, save by concurrent requests; the collector's polls | done |
| 14 | `RobotsProofs`, `ThrottleProofs`, depth in `CrawlProofs` | invariants of steps 2, 6 and 7 as theorems | done |
| 15 | refinement, content, harvest, completeness in `CrawlProofs`; sessions, capacity and losses in `PoolProofs`; rotation, detections and fetchers in `ProxyProofs`; connections and healing in `StoreProofs`; locks in `RobotsProofs` | the other safety properties of these modules as theorems | done |
| 16 | `ServerProofs` | the safety properties of `Dashboard`, `McpRegistry` and `PageCache` as theorems | done |
| 17 | `Connections` with `UrlQueue` | a dispatcher that dies on a database error | planned |

Also planned: the attempts and redirects inside one HTTP request; `SmartFetcher.fetch()`, which climbs the ladder for a single page.

## 3. Modules and the code they model

One action is what a coroutine does from one await that can suspend it to the next, so the interleavings of the models are those the event loop can produce.
Operators named `Mutant of X` in the modules are wrong versions of `X`; no specification uses them.
Each property has one that violates it, which shows that the property depends on the code it is about.

### UrlQueue

The tables `url_queue` and `visited_urls` of one crawl: `status`, `retries`, `depth`, `born`, `batches` (the insertion order), `visited`, `hashed`.
Each statement of `SQLiteQueue` with its commit is one operator, without UNCHANGED for variables of other modules, so that `Crawl` can conjoin it with what the caller does.
`Pop` takes the claimable row of the highest priority; rows of one insert have the same time of insertion, and any of them may come first.
A statement is taken to be atomic and to succeed: `aiosqlite` runs the statements of a connection one at a time, in order.

### Crawl

`Crawler.run()` over those tables. A run `r` is one `Crawler` instance, and keeps in memory what a crash loses.

| State | Code |
|---|---|
| `phase[r]` | the line `run()` is at: recover, seed, running, draining, closing, final |
| `disp[r]`, `hand[r]` | the dispatcher, and the row it has popped but not yet made a task for |
| `task[t]` | a worker: its URL, its run, its line in `_fetch_and_parse` |
| `inbox[r]`, `read` | the item queue ahead of the sentinel, and what the caller was given |
| `halt[r]`, `paused[r]`, `pages[r]` | the events, `_pages_fetched` |
| `crawlRow`, `cache`, `stored` | the tables `crawls`, `url_cache`, `items` |

The actions follow the source: `Begin`, `Recover`, `PushSeed`, `Launch` (head of `run()`); `DispatchStop`, `DispatchClaim`, `DispatchEmpty`, `Spawn`; `Enter` to `Report`, one per await of `_fetch_and_parse`; `ReadItem`, `ReadSentinel`, `DrainWorkers`, `FinalRequeue`, `Close`; `Halt`, `TogglePause`, `Quit`, `WorkerTimeout`, `Crash`.
`Faults` (`CrawlFaults` in `McpRegistry`) says which events of the environment a run of TLC allows: what a page can turn out to be, callbacks that raise, timeouts, crashes, an impatient caller.
A fetch has as outcomes what fetchers, robots cache, breaker, throttle and proxies can make of it.

Simplifications: a page that is in `url_cache` may come back unchanged or changed; 304 and an unchanged hash are one outcome; `conditional_get` is on; waiters of the semaphore enter in any order; a timeout cancels a coroutine before or after a statement, never leaves one half executed.

### CrawlProps, PageLifecycle, MCCrawl

`CrawlProps` states the properties of `Crawl`, and the inductive invariant `ClaimInv`.
`PageLifecycle` is the abstract promise: a page is unknown, queued, taken, settled; it may be given back; it is published at most once, after it is settled.
`ImplementsPageLifecycle` maps `status` and `visited` to the stage of a page and `stored` to its publications.
`MCCrawl` has the sites and contents that the runs use.

### CircuitBreaker

`_DomainCircuitBreaker` for one domain, with the workers that take a page of it, ask, fetch, report and parse, and time in ticks.
`up` says whether the domain answers; it may change at any time.
`left[p]` is how many charges the row of page p can still take; 0 means that no `pop()` returns it again.
`Admit`, `Probe` and `Skip` are the outcomes of `is_open()`: a skip charges the row and gives it back at once (`crawler.py:610-613`), with no wait for the cooldown.
`Arrive`, `GiveBack` and `Leave` are what becomes of a row after its fetch; `Expire` is worker_timeout on a task that still waits for a permit.
A worker's page takes at most `FlightTicks` (worker_timeout).

### RobotsCache

`allowed()` by the workers, split where it awaits the lock and the fetch: `Miss`, `Acquire`, `Store`, `Cancel`.
A fresh entry is answered from the cache, which changes nothing and is no action; what `Store` keeps is an entry, whether the origin has a robots.txt or not.
Lock objects are numbers, so that two locks for one origin can be told apart.
`crawl_delay()` is `allowed()` followed by a read, and adds no state.
`dropped` records the origins whose lock an eviction or expiry has removed while a worker was on them.

### Throttle

`_AdaptiveDomainThrottle` for one domain: `Enter`/`Acquire` take the lock, `Cooled` and `Spaced` end the two sleeps of `wait()`, `Fetch` ends the crawler's own sleep after it, `Answer` and `Report` lead to `record_result()`, which takes the same lock.
`Delayed` is the Crawl-delay the crawler writes into the gap when it first sees the domain; `Delays` are the values of the crawler's own sleep, its delay and a random jitter (`crawler.py:643-645`).
`Start` is the moment a worker leaves `wait()`, which is what the code spaces: the request follows after that sleep.
The time of the last one is kept as the time since, capped at the largest gap.
A 5xx or a fetch without a status is an error in the window, but only a 5xx makes the gap grow (`Adjusted`).

### McpRegistry

The tools `crawl_site`, `pause_crawl`, `resume_crawl`, `cancel_crawl` over the registry and the tasks of the crawls.
A crawl is reduced to the phase of its `run()` and whether workers are under way (`busy`): what `Crawl` models in detail.
`Interrupt` delivers the CancelledError of `task.cancel()` at whatever await the task is in; the statement it was awaiting may have been executed or not.
`Cleanup` is the `finally` block of `_run()`, and `CleanupFails` the same when `proxy_manager.stop()` or `fetcher.close()` raises in it, which skips the two pops.
`told` and `leaked` are history: the crawls `cancel_crawl` has answered for, and those that failed to close.

### PageCache

`_fetch_one()` and `clear_cache`: the `OrderedDict` is a sequence, least recently used first, `bytes` is `_page_cache_bytes`.
`Miss` and `Store` are the two sides of the fetch; the conversion in a thread is part of that wait.
A call that carries actions or captures the network does not look the page up (`bypass` in `Miss`).
`served` records what the last step served, for the properties; `Drift` is how far `bytes` is off the sum of the entries.

### BrowserPool

A `BrowserFetcher`, used by the workers of a crawl or by tool calls of the MCP server.

| State | Code |
|---|---|
| `up`, `permits` | `_browser`, `_context_semaphore` |
| `keyed`, `pools` | `_session_pools` in LRU order, and the idle contexts of each pool and of the anonymous one |
| `job[w]` | the line of `fetch()` the worker is at, its request, its pool and its context |
| `lost`, `excuse` | history: whether an open context is referred to by nobody, and whether something has happened that may lose one |

A fetch runs through `TakeLock`, `Launched` (`_ensure_browser`), `Drain` (`_get_session_pool` makes room), `Acquire`, `Retired`, `Created`, `Cleared` (`_get_context`), the page, and `Return` or `Closed` (`_return_context`).
`PageFails`, `ChallengeTimesOut`, `CreateFails`, `ClearFails`, `LaunchFails` and `Cancel` are what may happen instead; `Close` is `close()` when nobody uses the fetcher.
A context is the proxy it was made with, the requests whose cookies it carries, and whether a clearing failed on it (`kept`); that it is due for retirement is a choice.

### ProxyManager, Protection, FetchPath

`ProxyManager` has the entries and the queue of the rotation. Its methods are synchronous, so each is an operator that its caller conjoins; only a health check is suspended, between its request and its report.
The scores are left out: if a domain has a record, any healthy proxy may score best (`Picks`).
`ProxyList` is the list the caller gives, which may name a proxy twice: it then has one entry and two places in the queue.

`Protection` has the decisions as operators: `detect_protection`, `detect_akamai_block`, and the steps of the ladder.
An answer is a status and a set of signals.

`FetchPath` is a page of a worker from the choice of the proxy to the report: `Begin`, `GetHostFetcher`, `Evicted`, `WarmedUp`, `Answered`, `Swapped`, `AnsweredAgain`, `Browsed`, `Parse`, with `RequestFails`, `BrowserFails`, `NoProxiesAvailable` and `Cancel` instead.

| State | Code |
|---|---|
| `tracked`, `open` | `_host_fetchers` in LRU order, and which fetchers have clients open |
| `marked` | `_domain_needs_browser` |
| `last` | `_last_detection`, as the workers that were under way when it was made |
| `job[w]` | the await the worker is at, its host, proxy and fetcher, and the answer it has in hand |

The browser is one step here, as are the attempts of a request with the waits and redirects between them.

### Connections, SelectorStore

`Connections` is the registry of `db.py` for one database and one event loop: `registered` the connection handed out, `open` and `ready` those that are open and those with the schema, `generation` the creation lock (how many were dropped before it), `conn[t]` where task t is in `_get_connection()`, `closer` where a `close_all()` is.
`CreationFails` is a connect or a schema that raises, `Abandoned` a task that is cancelled while it makes a connection: what was opened stays open and is never registered. `close_all()` itself is not cancelled.
`SelectorStore` composes it with the tasks of a parser: `ExtractBegins`, `TrainBegins`, `Extract`, `TakeParserLock`, `Write`, `Fails`, `Cancelled` (at any of these awaits); `Decay` is the statement of `decay_stale_selectors()`, `Redesign` the site's.
A confidence is 0, between 0 and 1, or 1.

### Dashboard

The four buttons of the page, one request each, in threads.
`saved` is the last state written in whole and `form` what the file is now: `write_text()` truncates (`Truncate`) and then writes (`Write`), and a file read in between is `empty`; two writers at once can leave it `garbled`, which is read as the default state.
`job[op]` holds the copy of the state that the request loaded (`Begin`) and works on; `Pending`, `Collected` and `RunRaises` are the collector's polls; `Crash` restarts the server.
What a request has saved last is its answer (`Answers`), which the page renders in a step of its own (`Render`): the answers of two threads are rendered in any order, and heal's is held back half a second (`app.py:489-496`).
A reset, and a page that is loaded, ask for the state (`GetState`) and render that.
`Reload` may happen at any time: the requests under way go on in the server, and nobody hears their answers.
`blurred` is history: whether what the page rendered last overlapped another request.

## 4. The runs

| Run | Properties | What it shows |
|---|---|---|
| `crawl_restart` | `ClaimExclusive`, `RetryBudget`, `ImplementsPageLifecycle` | with crashes, callers that leave, deadlines, timeouts, failed fetches, error pages and raising callbacks, and a second run over the same tables: rows keep one owner and their budget, and a page lives the life of `PageLifecycle`, which publishes its items at most once |
| `crawl_shutdown` | `TerminalRowIsQuiet`, `RunEnds` | stop, cancel, pause, quit, max_pages and timeouts: a terminal crawl row means that nothing runs, and a run that is not paused ends, also when a row stays pending that no `pop()` returns |
| `crawl_harvest` | `VisitedIsHarvested`, `FinishedIsComplete`, `ItemsAreYielded`, `DepthIsSound`, `ContentBounded` | without crashes, cancellations and raising callbacks a finished crawl has found, settled, stored and yielded everything, within max_depth and duplicates excepted, over two consecutive runs |
| `breaker` | `ProbesAreFew`, `PagesAreSettled` | one probe at a time, although stragglers close and open the breaker under it; every page of the domain is settled, although a breaker whose probe failed stays open for good |
| `robots` | `SingleFlight`, `MapsBounded` | one fetch of a robots.txt at a time unless its lock was dropped; both maps are bounded, but for the locks that cancelled workers leave |
| `throttle` | `StartsAreSpaced`, `NoStartInPause`, `WaiterStarts` | workers leave `wait()` a gap apart and outside the pause, under 429s, errors, timeouts and a Crawl-delay; a waiter gets to fetch |
| `registry` | `RegistryIsExact`, `CancelledEnds` | the registry holds the crawls that run and are not cancelled, and besides them only those whose proxies or browser failed to close; a cancelled crawl ends, although its fetches hang |
| `page_cache` | `CapsHold`, `ServedIsFresh`, `OnlyClearDrifts` | the caps hold for what is cached, what is served is fresh, only `clear_cache` takes the byte count off |
| `browser` | `PoolsBounded`, `PermitsAreExact`, `IdentityIsKept`, `LostIsExcused`, `PermitIsGranted` | under every failure and a cancellation at every await: caps and permits are exact, a page finds its own proxy, in a session its own cookies, and outside none, or those of other pages outside if clearing its context failed, contexts are lost only where the code lets go of them, and who waits for a permit gets one |
| `fetch` | `QuarantineIsDeserved`, `ProxiesAreSound`, `AttributionIsRecent`, `LeakIsExcused`, `AnswerIsKept` | with a list that repeats a proxy, proxies removed, added and checked, and every step failing or cancelled: the rotation reaches each proxy of the pool, fetchers leak only when closed under a user, an answer in hand survives a failing escalation |
| `dashboard` | `StatusIsCoherent`, `ViewIsCurrent`, `NothingIsForgotten`, `RequestEnds` | overlapping requests, answers rendered in any order, reloads, a restart and exceptions: what the file says hangs together, a quiet page is current unless what it rendered last overlapped another request, a request alone forgets nothing, every request ends |
| `selectors` | `ConnectionsAreFew`, `ErrorIsExcused`, `HealingIsLearnt`, `TaskEnds` | a connection made, failing, abandoned and closed under two tasks, before and after a redesign: as few are open as closes and lost creations allow, a task meets a failing connection only after a close or a failed creation, healing is not repeated, nobody waits for ever |

The properties are stated so that they hold of the code as it is; where it does less than its documentation says, the next section tells.

### Where the code and its documentation part

The models contain each of these behaviours, unless it says otherwise; the properties above are stated so that they hold in spite of them.

- **A crash loses a page.** `mark_done()` (`crawler.py:750-751`) commits before the items and links (806-807): after a crash in between they are lost for good, although `docs/features.md:17` has "Crawls survive process restarts."
- **A failed probe.** The breaker allows one probe, and a failed one resets nothing (`crawler.py:230-246`): it stays open for the rest of the crawl, against `crawler.py:207`, "recovers after a cooldown".
- **A skip burns the budget.** A page of an open domain is charged a retry at once and is pending again (`crawler.py:610-613`): the domain's rows fail within milliseconds, long before the 300 s are over, so most openings are never probed. `PagesAreSettled` says that the rows are settled, not that they are fetched.
- **No robots.txt.** A 404 is cached as a refusal of everything (`robots.py:75-81`), against the module's own lines 15-16. The verdict is not in the model.
- **`clear_cache` keeps the byte count** (`server.py:1617`, 1623, against 66 and 503): in the end nothing is cached any more.
- **Seeding is not atomic.** Start requests are pushed one commit at a time, and only if `pending_count()` is 0 (`crawler.py:434-437`). After a crash between two pushes the resumed crawl finds the first pending and never pushes the others, although `crawler.py:568-569` says it "picks up exactly where it left off".
- **A raising callback is not retried.** The worker calls `increment_retry()` (`crawler.py:816-818`) on a page it has marked visited (750), and `pop()` skips visited rows (`queue.py:132-135`): the row stays pending and is neither retried nor failed.
- **A worker timeout charges no retry.** `crawler.py:811-813` handles `TimeoutError`, but the `wait_for()` around the coroutine (475-480) raises CancelledError inside it, which 809-810 re-raises: the row stays in `processing` until the final `requeue_stale()`, and the crawl is finished with it pending. So `crawl_harvest` has no timeouts.
- **max_pages is overrun.** It is compared with pages completed (`crawler.py:449`); what is in flight comes on top.
- **Items after the sentinel.** After `stop()`, the pages in flight are finished and stored, but their items are queued behind the sentinel (`crawler.py:488`) and are not yielded. So `crawl_harvest` has no stop.
- **Two live instances.** `Crawler.resume()` on a crawl whose first instance is alive requeues its rows (`crawler.py:429`), and pages are fetched and stored twice. `docs/getting-started.md:107-110` shows how to pause one instance and resume with another. `Overlap` switches this on; all runs, and `CrawlProofs` but for types and depths, have it off.
- **Duplicates.** The content hash is checked and recorded by two statements (`crawler.py:742-748`): as many workers as are in flight keep the same content. `ContentBounded` is the bound that remains, and it is attained.
- **Pause lets claimed rows start.** A row already popped waits for the semaphore and is fetched after `pause()` (`crawler.py:445-447`), which 543 describes as "after the current in-flight requests finish".
- **A dropped lock.** `_store()` drops the lock of an evicted or expired entry also while a worker holds it (`robots.py:44-50`); the next worker makes a new one and fetches too. `SingleFlight` excepts these origins.
- **Crawl-delay below domain_delay.** `_gaps.get(domain, 0.0)` is 0 until the first `wait()` (`crawler.py:634-639`), so a Crawl-delay of 1 s replaces a domain_delay of 5 s; `tests/test_robots.py:151` says the gap must not be reduced below it, but asserts only that it is at least 1.
- **A 429 that speeds up.** `min(gap * 2, 60)` (`crawler.py:179`) shortens a gap that a Crawl-delay has set above 60 s.
- **A fetch in the pause, or too close.** After `wait()` the crawler sleeps its own delay and a random jitter (`crawler.py:643-645`) and does not look at the pause again: a request may start in a pause, and two may come closer than the gap. The properties of `throttle` are about leaving `wait()`.
- **An entry that stays.** If `proxy_manager.stop()` or `fetcher.close()` raises in the `finally` block of a crawl's task (`server.py:1068-1072`), the pops behind it are skipped: the crawl is over, but keeps its slot until somebody cancels it.
- **The cap on crawls.** `cancel_crawl` frees the slot while the crawl still drains its workers (`server.py:1400-1407`); another can start meanwhile.
- **A cancelled crawl that stays "running".** `task.cancel()` raises at whatever await `run()` is in; while it seeds, or in its `finally` block, the row is not written again (`server.py:1404`, `crawler.py:423-437`, 499-533).
- **Restart.** `crawl_site` makes a new id for each call (`server.py:989`), so it does not pick up what a restart cut short, although 1309-1310 says so.
- **The page cache's key.** It is the URL and the format only (`server.py:416`): the page that actions left is stored and served to plain calls (419-420, 500), and a page cached whole is served whole to a call that asks for chunks. The models know keys, not chunks.
- **Challenges that are retried.** Cloudflare's challenges come with 429 or 503, which `http.py:57` and 481 retry and then raise: they never reach the detection and the browser (`escalate.py:99-100`).
- **Session pools.** A pool dropped to make room is drained, but a context that is in use stays open and is put back into a pool nobody finds (`browser.py:442-445`), against the comment in 370-373.
- **Host fetchers.** An evicted fetcher is closed while a worker may be using it, whose next request opens a client that nobody closes (`crawler.py:886-891`); the one an escalation returns is put in `_host_fetchers` without an eviction (928); and `close()` iterates over clients that a request may add to (`http.py:519`).
- **A proxy listed twice.** The pool keeps one entry and the queue two places (`manager.py:101-104`), and `crawl_site` passes on the list it is given (`server.py:982-1033`): the proxy has two turns, and after `remove()` one place is left without an entry, which the rotation passes over.
- **Cookies that stay.** A failing `clear_cookies()` is ignored and the context goes to the next fetch with the cookies of the last (`browser.py:552-556`), against the comment at 546-549. `IdentityIsKept` allows this outside sessions only, where a context is cleared.
- **Selectors do not decay.** `adaptive.py:7` promises 1% a day; nothing calls `decay_stale_selectors()`, `record_success()` or `record_failure()`. A trained selector is not pinned at 1.0 (229): misses lower it like any other.
- **One connection.** After a `close_all()` under a task that is creating one, there are two (`db.py:141-144`, 178); one whose schema fails, or whose task is cancelled while it connects or sets up the schema (176-181), stays open and is known to nobody; and in a database made before `content_hash`, the index of `_CRAWL_SCHEMA` fails before the migration adds the column.
- **The dashboard.** A run after a break reports records (`app.py:537`, `or 3`) and "healthy" with the incident open and the prices stale; two breaks and one heal leave an incident open; a restart in the middle of a heal leaves "healing", for which the page has no button.
- **A page that shows another status than the file.** Answers are rendered when they arrive, heal's half a second later still (`app.py:489-496`), whatever the order of their saves: with a break and a heal at once the file may end at "failed" and the page at "recovered", which hides the heal button until the page asks again. A reload during a request leaves the page at what was on file then.
- **A fetch under way survives `clear_cache`** and stores its page for the whole time to live (`server.py:500`).

### Bounds

- `crawl_restart`, `crawl_shutdown`: 3 URLs with cycles, one start request, 2 permits and 3 task slots, a retry budget of 2, and 2 runs or 1. Two workers in flight and a third task at the semaphore are what the races need; a budget of 2 has both branches of `increment_retry()`; a third run adds nothing a second one cannot show, since a run starts from the tables alone. No spawn waits for a slot, since at most 3 rows can be in progress. `crawl_shutdown` has one run, which is what ends, and max_pages 2 of 3.
- `crawl_harvest`: 5 URLs, two start pages, one page reachable only below max_depth 1, and three pages of one content, two of them start pages.
- `breaker`: 3 workers, 4 pages with a budget of 2 charges, a threshold of 2, cooldown of 3 ticks against flights of 1: the relation of 300 s to 120 s is what matters. Four pages for three permits let one wait while all are taken; a straggler's success, a probe and its failure fit in their budgets. Each charge is counted, so a streak is bounded by the pages.
- `robots`: 3 workers, 3 origins, room for 2, `Ttl` 2, a fetch of up to 1, and `Horizon` 4 on the clock: an entry can be made, evicted, expire, be replaced, and expire again, and an eviction has a choice.
- `throttle`: 3 workers, a window of 2, a cap of 4 with a base of 2 and a Crawl-delay of 5 above the cap, and a jitter of 0 or 1 on a delay of 0. Times are counted down, so no horizon is needed.
- `registry`: 3 crawls in 2 slots, each id used once.
- `page_cache`: 2 callers, 4 keys, room for 2 entries and 4 units of bytes, sizes that fit twice, fill and exceed it, `Ttl` 2, `Horizon` 4: an entry can expire and be replaced.
- `browser`: 2 workers, one site directly and through a proxy, each in a session and without, 1 context and 1 session pool: every cap is reached by two workers, and either can evict, wait for or spoil what the other uses.
- `fetch`: 2 workers, 2 hosts, room for 1 host's fetcher and mark, answers for each branch of the ladder, and 2 proxies, listed as p1, p2, p1, with a quarantine after 1 failure, counted up to 2 (`FailCap`). With all of this at once the model goes beyond 25 million states, so `PagesAreFew` in `MCFetchPath` restricts the states explored: one page with at most one fetcher meets every rotation, two pages or two fetchers meet p1 alone in one place. The methods of the pool are synchronous and nothing else reads the queue, so what two pages do to it is what one page does twice in a row.
- `dashboard`: one page, a button pressed only while at most 1 request is under way (that of a page being loaded counts), 1 incident, 2 polls, 1 restart. Two requests are what overwriting and rendering out of order take. A kind of request is under way once, also after a reload, when the page could start it again.
- `selectors`: 2 tasks of one parser, which makes its lock matter, 1 selector loaded where the code loads 10 (`Limit`), so that the other can be left out, 1 close and 1 creation that fails or is cancelled (`MaxLosses` bounds both together). Cancellations elsewhere are not bounded.

Symmetry is declared only in runs without liveness properties, over sets whose members are interchangeable.
`CHECK_DEADLOCK FALSE` stands in the configurations of systems that really end, or stop at their horizon: crawls that are closed, a registry whose ids are used up.

### Fairness

- `Crawl`: weak fairness of the start of a run, the dispatcher, the consumer and each worker: asyncio runs each ready coroutine, each fetcher has a timeout, and the caller keeps iterating. None for stop, pause, crashes or timeouts.
- `CircuitBreaker`: weak fairness of taking a page that is pending while a permit is free, since the dispatcher pops what is pending as long as the crawl is neither stopped nor paused, and of each worker's answers, which worker_timeout ends. None for the clock: nothing in the code waits for the cooldown.
- `Throttle`: weak fairness of sleeps and answers; strong fairness of taking the lock, because `asyncio.Lock` serves its waiters in order and the model does not.
- `McpRegistry`: weak fairness of the tasks; none for the workers, which may hang, nor for the tools.
- `BrowserPool`: weak fairness of each worker's step, because calls of the browser have timeouts; strong fairness of taking the lock and a permit, because asyncio serves both in order.
- `Dashboard`: weak fairness of each request, its thread and then its answer on the page; the collector's polls are counted against its deadline.
- `SelectorStore`: weak fairness of each task, strong fairness of taking its parser's lock. None for closes, failures, cancellations or the redesign.

## 5. The proofs

| Theorem | Module | States |
|---|---|---|
| `TypeCorrect` | `CrawlProofs` | `Spec => []TypeOK` |
| `ClaimInvariant` | `CrawlProofs` | `Spec => []ClaimInv`, if runs do not overlap |
| `ClaimIsExclusive`, `StoredAtMostOnce`, `RetriesWithinBudget`, `TerminalIsQuiet` | `CrawlProofs` | four safety properties that follow |
| `CrawlImplementsPages` | `CrawlProofs` | `Spec => ImplementsPageLifecycle`, if runs do not overlap |
| `DepthIsBounded` | `CrawlProofs` | `Spec => []DepthIsSound`, also when runs overlap |
| `ContentIsBounded` | `CrawlProofs` | `Spec => []ContentBounded`, if runs do not overlap |
| `VisitedAreHarvested`, `StoredIsYielded`, `FinishedHasNothingLeft` | `CrawlProofs` | the properties of `crawl_harvest`, if runs do not overlap, under `NeverLost`, `RunsToTheEnd`, and both |
| `BreakerSafe` | `BreakerProofs` | `Spec => [](OpenMeansFailing /\ ProbesAreFew /\ OpeningIsFresh)` |
| `QuarantineDeserved`, `ProxiesSound` | `ProxyProofs` | `QuarantineIsDeserved`, `ProxiesAreSound` of the proxies |
| `DetectionsAreRecent`, `LeaksAreExcused`, `AnswersAreKept` | `ProxyProofs` | `AttributionIsRecent`, `LeakIsExcused`, `AnswerIsKept` of the path of a fetch |
| `ErrorExcused`, `ConnectionsFew`, `HealingLearnt` | `StoreProofs` | `ErrorIsExcused`, `ConnectionsAreFew`, `HealingIsLearnt` |
| `PermitsExact`, `SessionsKeepIdentity`, `PoolsAreBounded`, `LossesAreExcused` | `PoolProofs` | `PermitsAreExact`, `IdentityIsKept`, `PoolsBounded`, `LostIsExcused` |
| `CacheIsBounded`, `FetchIsSingle`, `MapsAreBounded` | `RobotsProofs` | `CacheBounded`, `SingleFlight`, `MapsBounded` |
| `StartsSpaced`, `PauseIsKept` | `ThrottleProofs` | `StartsAreSpaced`, `NoStartInPause` |
| `StatusCoherent`, `ViewCurrent`, `NothingForgotten` | `ServerProofs` | `StatusIsCoherent`, `ViewIsCurrent`, `NothingIsForgotten` of the dashboard |
| `RegistryExact` | `ServerProofs` | `RegistryIsExact` of the MCP server |
| `CapsAreKept`, `ServedFresh`, `ClearDrifts` | `ServerProofs` | `CapsHold`, `ServedIsFresh`, `OnlyClearDrifts` of the page cache |

So every safety property that a run checks, invariant or action property, is a theorem.
All hold for every value of the constants that meets the assumptions next to their declarations: any site, any number of runs, workers and permits, any budget, any set of faults.
Those assumptions are that sizes and limits are natural numbers, that sets of tasks, workers, crawls and the like are finite, that the records of constants have the fields the code reads, and that the values that stand for "none" are none of the others.
What a theorem needs beyond them stands in its statement.

**ClaimInv.** `ClaimExclusive` is not inductive: that `Pop` does not hand out an owned row follows from the row being in `processing`, so the invariant says what every owner knows about its row (`ClaimedRows`), by its line in `_fetch_and_parse`.
The sweep `RequeueStale` would break that, so the invariant says that only one instance is alive (`Solo`) and that it has no workers when it sweeps.
After `mark_done()` a worker no longer has a row in `processing`: it is the visited set that keeps others away, which is why `Unstored` ties `stored` to `visited`.
`WithinBudget` and `SweptLast` carry the other two properties.
Steps fall into three groups, with a lemma each: a worker's step, which touches its own row and may insert others (`LocalStepKeeps`); a step that touches neither rows nor tasks (`QuietKeeps`); and the sweep (`SweepKeeps`). The remaining actions are treated one by one in `ClaimStep`.
The assumption `NoOverlap` is needed: without it TLC finds a page stored twice in a few steps, by a second instance that requeues the rows of a live one.

**BreakerInv.** The count of probes is reset by a success, also by that of a straggler, so `probes` alone does not bound the probes under way. It does because a worker that departed before the breaker opened has ended when the cooldown is over: `FlightTicks < OpenTicks`, 120 s against 300 s, is used there. So the probes of an earlier opening do not stand in the way of this one's (`OpeningIsFresh`). `PagesAreHeld` says that a page has one worker and a charge left while it is fetched; `BreakerStep` needs it for the types of `left` alone.

**Refinement.** Each step of a worker, the dispatcher, the sweep or a crash maps to one of `PageLifecycle` for its own page, or for none: `StepImplements`, on `ClaimInv`. The abstract steps name pages one by one; inserts and the sweep, which change many rows at once, map to the steps over sets of pages.

**DepthInv.** A row is inserted by `PushSeed` at depth 0 or by `PushLinks` one below a row whose depth is under max_depth; so the invariant is that every row, and every URL a worker or a dispatcher has in hand, is a row within max_depth, to which a chain of as many links as its depth leads from the start pages (`Sound`). A step only ever adds one link to a chain, so no induction over paths is needed. Runs may overlap here.

**KeptInv.** Between the check of the content hash and its record (`crawler.py:742-748`) a worker holds a permit; the pages of one content that are recorded, together with those of the workers in between, are at most as many as permits, because the first record makes every later check fail.

**HarvestInv, YieldInv, CompleteInv** build on one another, and two assumptions on the constants name what they need; `crawl_harvest` satisfies both.
`NeverLost`: no crash, no worker timeout, no callback that raises or is missing, and nothing cached by an earlier crawl. Each of these does leave a visited page without its items, as section 4 says.
`RunsToTheEnd`: no crash, no caller that leaves, no stop, no deadline, no max_pages, since pages in flight at a stop are stored behind the sentinel.
`HarvestInv` says what a worker knows of its page between `mark_done()` and the last link it pushes, and that `url_cache` has only pages that are visited or about to be, so that no page of this crawl comes back unchanged before it is harvested.
`YieldInv` says that the sentinel is put when no worker is left.
`CompleteInv` says that a row in progress has somebody to work on it (`Tended`), that a visited row is not queued again, and that from the dispatcher's end on no row is left (`Phased`).

**PoolInv** (`ProxyProofs`) is `QuarantineIsDeserved` with the type of the pool alone: a success takes one off the count and lifts the quarantine together, a failure imposes it when the count has reached max_failures. What pages, fetchers and checks do meanwhile does not matter, and the proof does not mention it.
`ProxyInv` adds that the rotation holds every proxy of the pool, and besides only those the caller's list repeats; each other proxy has one place. Removal, which takes one place, and the rotation itself are the steps that could break it. The assumption on `ProxyList` is only that it is a list of proxies that is not empty, as the constructor demands.
`FetchInv` has the types of fetchers and marks, and that what is open is tracked, until one of the three races that `LeakIsExcused` names. `RecentInv` is about the one last detection that all workers share.

**StoreInv** says what holds as long as nobody has closed and no creation has failed: the registered connection and those in the hands of tasks have the schema. A task that waits for the lock looks again when it has it, so it is handed a sound one or none. A cancellation takes the task's connection with it and is no exception to that.
`FewInv` counts the connections: two tasks that open one hold different locks, and each `close_all()` drops one lock. The bound is quadratic in the closes: with two closes and four tasks, more than the run has, one connection for each close is too few, since the tasks that wait for either dropped lock open one each. A creation that fails or is cancelled (`Lost`) leaves at most the one it had opened.
`TasksInv` adds that those who have healed and those who are about to are no more than the tasks.

**PermitInv.** `PermitsAreExact` could break in one way only, that a second launch replaces the semaphore under a holder. So the invariant adds that who holds or waits for a permit, or drains a pool, does so while the browser is up, that who launches does so while it is down, and that one worker launches at a time.
`SessionInv` says that what is idle in a pool was made for the owner of the pool, so that a context that could not be cleared carries cookies of the anonymous pool only, `CapacityInv` that the idle contexts of a pool and those that will come back into it fit, and `ExcuseInv` that a pool in use is in the table until something happened that the property names.

**BoundInv, FlightInv** (`RobotsProofs`). The cache is within the cap because `_store()` trims after each insertion, of expired entries first. For single flight each origin whose lock was never dropped under a worker has one lock for all workers that are on it (`LockInv`), and the fetching one holds it. That `NewLock` gives a lock in use nowhere needs a count of the workers: `FiniteSetTheorems`. That no lock is left behind (`MapsBounded`) is an action property: each step but a cancellation leaves a lock to an entry or to a worker.

**SleeperInv** (`ThrottleProofs`). One worker at a time sleeps under the lock, its timer covers the pause when it cools, and what is left of the gap when it spaces; reports wait for the same lock, so neither changes under it. No relation between domain_delay and the Crawl-delay is assumed.

**DashInv** (`ServerProofs`). Each request under way has a typed state in hand, and what it is about to write hangs together (`Made`): a heal goes through its saves in order, so the fifth finds the repaired selector that the third has put there, whatever was written to the file meanwhile. "healing" needs more (`Healing`): while a heal writes, the file is empty or somebody else has written it. A request that is alone has of the file what it loaded (`Undisturbed`), which is what `NothingForgotten` rests on. For `ViewCurrent` a page that waits alone, while no request saves, has been told what is on file or will be (`Told`); and a request nobody hears any more overlaps what the page shows, or a page still to be loaded (`Unheard`). Requests that save are `Serving`, pages that wait for an answer or have one to render are `Waiting`.

**RegistryInv.** A crawl that `cancel_crawl` has answered for was once started, and CancelledError comes only from there: so a task that ends without its `finally` block, because it is interrupted in it, is out of the registry already. A crawl that failed to close is `gone`, so that its id stays in the registry until it is cancelled and is not started again.

**CacheInv.** Entries are one to a key, each expires its time to live after its lookup, and the count of bytes is at least what is there: evictions go by the count, so the cap holds for the sum. Sums and filters of sequences are recursive functions here, and what they return for every sequence is proved by induction (`EveryNatural`, `EverySequence`, stated over sets instead of predicates, and from the well-foundedness of the naturals): `TotalOf`, `WithoutOf`, `TotalSplits`, `WithoutKey`.
`ServerProofs` extends `Dashboard`, `McpRegistry` and `PageCache` together, so that their theorems share the lemmas about sequences; this is why the initial states, the steps and the specifications of the last two are named `RegistryInit`, `CacheNext` and so on.

**Only model-checked.** Liveness (`RunEnds`, `PagesAreSettled`, `WaiterStarts`, `CancelledEnds`, `PermitIsGranted`, `RequestEnds`, `TaskEnds`), which needs fairness and ENABLED, out of the prover's reach. The properties of `crawl_harvest` are proved for the faults that run has; what else is lost under the others is in section 4, not in a theorem.

## 6. What is not modelled

- Pure functions of text and the heuristics: URL and address checks, structured data, pagination, selector strategies, patterns of block detection, verdicts of a robots.txt. Their results are outcomes.
- `Spider`, sitemaps, personas, bot profiles, the facade and the command line, which keep no state another step depends on; the captcha solver and the stealth scripts, which call outside.
- The attempts, waits and redirects inside one HTTP request: one step of `FetchPath`.
- `SmartFetcher.fetch()`, which climbs the ladder for one page outside a crawl; `Protection` has its decisions.
- The scores of proxies: where a domain has a record, any healthy proxy may be chosen.
- `close_db()` and `init_all()`, which nothing calls; busy retries inside a schema script.
- Failing database statements in a crawl (a dispatcher that dies of one leaves `run()` waiting): `Crawl` takes statements to succeed, `SelectorStore` shows failing connections for its own users only.
- The breaker inside `Crawl`: there a skip is an outcome that charges a retry; `CircuitBreaker` has when it happens.
- A `close_all()` that is cancelled. A statement of a task and its commit are one step of `SelectorStore`, which a cancellation precedes or follows.
- Two pages of the dashboard, and a second request of a kind beside one that a reload has left behind.
- The collector's `run_sync()` and its table of rows; timelines, evidence and amounts in the dashboard's state.
- More than 4096 domains in the throttle's maps.
- Metrics, logging, wording.
