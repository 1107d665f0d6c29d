----------------------------- MODULE CrawlProps -----------------------------
(***************************************************************************)
(* What the crawler must do, stated over the state of Crawl.  Which        *)
(* property holds under which Faults is the matter of the runs.            *)
(***************************************************************************)
EXTENDS Crawl

\* A worker that still has the claim on its URL.
Owners == {t \in Tasks : task[t].pc \in OwnerPc}
Owned(u) == \E t \in Owners : task[t].url = u
InHand(u) == \E r \in Runs : disp[r] = "spawn" /\ hand[r] = u

Settled(u) == u \in visited \/ status[u] \in {"done", "failed"}

\* A chain of n links leads from a start request to u.
Reaches(n, u) ==
    \E p \in [0..n -> Urls] :
        p[0] \in Seeds /\ p[n] = u /\ \A i \in 1..n : p[i] \in Links[p[i - 1]]

-----------------------------------------------------------------------------
(* Safety *)

\* A row has one owner: no two workers, and no worker and dispatcher, hold the
\* claim on the same URL, through retries, late reports, timeouts, crashes and
\* the two requeue_stale() sweeps.
ClaimExclusive ==
    /\ \A s, t \in Owners : task[s].url = task[t].url => s = t
    /\ \A u \in Urls : InHand(u) => ~Owned(u)

\* The items of a page are inserted at most once per crawl: the items table has
\* no key that would refuse a second insert.
StoredOnce == \A u \in Urls : stored[u] <= 1

\* increment_retry() never charges a row beyond its budget.
RetryBudget == \A u \in Urls : retries[u] <= MaxUrlRetries

\* Once list_crawls shows a crawl as finished or cancelled, no worker touches
\* its rows and none is left in 'processing'.
TerminalRowIsQuiet ==
    crawlRow \in {"finished", "cancelled"} =>
        /\ Owners = {}
        /\ \A u \in Urls : status[u] # "processing"

\* max_depth: a row's recorded depth is the length of a chain of links from a
\* start request, and no row lies deeper than max_depth.
DepthIsSound ==
    \A u \in Urls : status[u] # "absent" => depth[u] <= MaxDepth /\ Reaches(depth[u], u)

\* Under deduplicate_content: u is not kept, since a page of its content is.
Duplicate(u) == Dedup /\ u \notin hashed /\ ContentSeen(u)

\* A page that was visited and whose worker is gone is a duplicate, or has its
\* items stored and its links in the queue: nothing of it is lost.
VisitedIsHarvested ==
    \A u \in visited : ~Owned(u) =>
        \/ Duplicate(u)
        \/ /\ stored[u] > 0
           /\ FollowsLinks(u) => \A v \in Links[u] : status[v] # "absent"

\* A crawl that finished because there was nothing left to do has nothing left
\* to do: every row is done or failed, and every page is found that the start
\* requests and the pages it kept lead to.
FinishedIsComplete ==
    crawlRow = "finished" =>
        LET Followed == {v \in visited : FollowsLinks(v) /\ ~Duplicate(v)}
        IN  /\ \A u \in Urls : status[u] \in {"absent", "done", "failed"}
            /\ \A u \in Seeds \cup UNION {Links[v] : v \in Followed} : status[u] # "absent"

\* Every item that was stored was also handed to the caller of run().
ItemsAreYielded ==
    crawlRow \in {"finished", "cancelled"} => \A u \in Urls : stored[u] > 0 => u \in read

\* deduplicate_content: the pages of one content that are kept were all fetched
\* at once, before the first of them was recorded.
ContentBounded ==
    Dedup => \A u \in Urls :
        Cardinality({v \in Urls : stored[v] > 0 /\ Content[v] = Content[u]}) <= Concurrency

-----------------------------------------------------------------------------
(* The inductive invariant behind the safety properties, when runs do not  *)
(* overlap.                                                                *)

\* A worker that is not idle works for a run, on a URL; so does a dispatcher
\* between its pop() and its create_task().
Bound ==
    /\ \A t \in Tasks : task[t].pc # "idle" => task[t].url \in Urls /\ task[t].run \in Runs
    /\ \A r \in Runs : disp[r] = "spawn" => hand[r] \in Urls

\* One instance is alive, and only a live one has coroutines.
Solo ==
    /\ \A q, r \in Runs : phase[q] \in Live /\ phase[r] \in Live => q = r
    /\ \A r \in Runs : disp[r] # "off" => phase[r] = "running"
    /\ \A t \in Tasks : task[t].pc # "idle" => phase[task[t].run] \in {"running", "draining"}

\* What a worker that holds a claim knows of its row.
RowOf(t) ==
    LET u == task[t].url IN
    /\ task[t].pc \in ClaimedPc => status[u] = "processing" /\ u \notin visited
    /\ task[t].pc \in VisitedPc => status[u] = "processing" /\ u \in visited
    /\ task[t].pc \in ParsedPc => status[u] = "done" /\ u \in visited
    /\ task[t].pc = "retry" => status[u] = "processing" \/ u \in visited

ClaimedRows ==
    /\ \A t \in Owners : RowOf(t)
    /\ \A r \in Runs : disp[r] = "spawn" =>
          status[hand[r]] = "processing" /\ hand[r] \notin visited

\* Only a visited page is stored, and a worker on its way to storing a page is
\* the first to.
Unstored ==
    /\ \A u \in Urls : stored[u] > 0 => u \in visited
    /\ \A t \in Tasks : task[t].pc \in VisitedPc \cup {"parse", "store"} =>
          stored[task[t].url] = 0

\* A row that is or will be worked on has budget left.
WithinBudget ==
    /\ \A u \in Urls : status[u] \in {"absent", "pending", "processing"} =>
          retries[u] < MaxUrlRetries
    /\ \A t \in Owners : retries[task[t].url] < MaxUrlRetries

\* From the last sweep on nothing is in progress, and a crawl whose row is
\* terminal has no live run.
SweptLast ==
    /\ \A r \in Runs : phase[r] = "final" => \A u \in Urls : status[u] # "processing"
    /\ crawlRow \in {"finished", "cancelled"} => \A r \in Runs : phase[r] \notin Live

ClaimInv ==
    /\ TypeOK /\ Bound
    /\ Solo /\ ClaimedRows /\ ClaimExclusive
    /\ Unstored /\ StoredOnce
    /\ WithinBudget /\ RetryBudget
    /\ SweptLast /\ TerminalRowIsQuiet

-----------------------------------------------------------------------------
(* Refinement *)

\* The life of each page is the one PageLifecycle promises.
Stage(u) ==
    IF Settled(u) THEN "settled"
    ELSE CASE status[u] = "absent" -> "unknown"
           [] status[u] = "pending" -> "queued"
           [] status[u] = "processing" -> "taken"

Pages == INSTANCE PageLifecycle
    WITH stage <- [u \in Urls |-> Stage(u)], published <- stored

ImplementsPageLifecycle == Pages!Spec

-----------------------------------------------------------------------------
(* Liveness *)

\* No run goes on for ever, unless it is paused: a row that stays pending and
\* that no pop() can claim does not hold it up, and neither does a lost worker.
RunEnds == \A r \in Runs : []<>(phase[r] \notin Live \/ paused[r])

=============================================================================
