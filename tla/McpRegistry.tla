---------------------------- MODULE McpRegistry ----------------------------
(***************************************************************************)
(* The crawls an MCP server runs (mcp_server/server.py): crawl_site starts *)
(* a task around Crawler.run() and registers it, pause_crawl, resume_crawl *)
(* and cancel_crawl reach it through the registry, and the task takes      *)
(* itself out when it ends.  A crawl is what Crawl makes of it, reduced to *)
(* the part of run() it is in and whether workers are under way; a step of *)
(* a tool has no await in it that suspends.                                *)
(*                                                                         *)
(* cancel_crawl also cancels the task: CancelledError is raised at the     *)
(* await the task is suspended in, wherever that is.                       *)
(***************************************************************************)
EXTENDS Integers, FiniteSets

CONSTANTS
    Crawls,         \* crawl ids: crawl_site makes a new one each time
    MaxActive,      \* _MAX_ACTIVE_CRAWLS
    CrawlFaults     \* subset of {"hang", "error", "close", "restart"}

ASSUME RegistryAssumption ==
    /\ IsFiniteSet(Crawls)
    /\ MaxActive \in Nat \ {0}

VARIABLES
    row,        \* crawls.state
    phase,      \* phase[c]: where c's task is
    busy,       \* busy[c]: are workers of c under way?
    paused,     \* _pause_event of c's crawler
    halted,     \* _stop_event and _cancel_event of c's crawler
    raised,     \* raised[c]: CancelledError is on its way to c's task
    active,     \* the keys of _active_crawlers and of _crawl_tasks
    told,       \* history: crawls cancel_crawl has answered "cancelled" for
    leaked      \* history: crawls whose proxies or browser failed to close

registryVars == <<row, phase, busy, paused, halted, raised, active, told, leaked>>

Alive == {"begin", "seed", "run", "drain", "close", "cleanup"}

RegistryTypeOK ==
    /\ row \in [Crawls -> {"none", "running", "finished", "cancelled"}]
    /\ phase \in [Crawls -> Alive \cup {"new", "gone"}]
    /\ busy \in [Crawls -> BOOLEAN]
    /\ paused \in [Crawls -> BOOLEAN]
    /\ halted \in [Crawls -> BOOLEAN]
    /\ raised \in [Crawls -> BOOLEAN]
    /\ active \subseteq Crawls
    /\ told \subseteq Crawls
    /\ leaked \subseteq Crawls

RegistryInit ==
    /\ row = [c \in Crawls |-> "none"]
    /\ phase = [c \in Crawls |-> "new"]
    /\ busy = [c \in Crawls |-> FALSE]
    /\ paused = [c \in Crawls |-> FALSE]
    /\ halted = [c \in Crawls |-> FALSE]
    /\ raised = [c \in Crawls |-> FALSE]
    /\ active = {}
    /\ told = {}
    /\ leaked = {}

Goto(c, p) == phase' = [phase EXCEPT ![c] = p]

-----------------------------------------------------------------------------
(* The tools *)

CrawlSite(c) ==
    /\ phase[c] = "new" /\ row[c] = "none"
    /\ Cardinality(active) < MaxActive
    /\ active' = active \cup {c}
    /\ Goto(c, "begin")
    /\ UNCHANGED <<row, busy, paused, halted, raised, told, leaked>>

SetPause(c, p) ==
    /\ c \in active
    /\ paused[c] # p
    /\ paused' = [paused EXCEPT ![c] = p]
    /\ UNCHANGED <<row, phase, busy, halted, raised, active, told, leaked>>

\* pause_crawl and resume_crawl
PauseCrawl(c) == SetPause(c, TRUE)
ResumeCrawl(c) == SetPause(c, FALSE)

\* cancel_crawl answers at once; the crawl has still to end, or has ended and left
\* its entry behind.
CancelCrawl(c) ==
    /\ c \in active
    /\ halted' = [halted EXCEPT ![c] = TRUE]
    /\ raised' = [raised EXCEPT ![c] = phase[c] \in Alive]
    /\ active' = active \ {c}
    /\ told' = told \cup {c}
    /\ UNCHANGED <<row, phase, busy, paused, leaked>>

-----------------------------------------------------------------------------
(* The task *)

\* Crawler.run() until it has written the crawl row.
BeginRun(c) ==
    /\ phase[c] = "begin" /\ ~raised[c]
    /\ row' = [row EXCEPT ![c] = "running"]
    /\ Goto(c, "seed")
    /\ UNCHANGED <<busy, paused, halted, raised, active, told, leaked>>

Seed(c) ==
    /\ phase[c] = "seed" /\ ~raised[c]
    /\ Goto(c, "run")
    /\ UNCHANGED <<row, busy, paused, halted, raised, active, told, leaked>>

\* The dispatcher starts workers.
Dispatch(c) ==
    /\ phase[c] = "run" /\ ~halted[c] /\ ~paused[c]
    /\ ~busy[c]
    /\ busy' = [busy EXCEPT ![c] = TRUE]
    /\ UNCHANGED <<row, phase, paused, halted, raised, active, told, leaked>>

\* They end, one way or the other, also when the task that started them is gone.
Work(c) ==
    /\ busy[c]
    /\ busy' = [busy EXCEPT ![c] = FALSE]
    /\ UNCHANGED <<row, phase, paused, halted, raised, active, told, leaked>>

\* The dispatcher leaves its loop, with nothing to do or at a limit, and run()
\* enters its finally block.
Leave(c) ==
    /\ phase[c] = "run" /\ ~raised[c]
    /\ halted[c] \/ ~paused[c]
    /\ Goto(c, "drain")
    /\ UNCHANGED <<row, busy, paused, halted, raised, active, told, leaked>>

\* Mutant of Drain: no deadline.
DrainPatient(c) ==
    /\ phase[c] = "drain" /\ ~raised[c]
    /\ ~busy[c]
    /\ Goto(c, "close")
    /\ UNCHANGED <<row, busy, paused, halted, raised, active, told, leaked>>

\* Workers that have not ended after 30 s are cancelled.
Drain(c) ==
    /\ phase[c] = "drain" /\ ~raised[c]
    /\ ~busy[c] \/ "hang" \in CrawlFaults
    /\ busy' = [busy EXCEPT ![c] = FALSE]
    /\ Goto(c, "close")
    /\ UNCHANGED <<row, paused, halted, raised, active, told, leaked>>

Close(c) ==
    /\ phase[c] = "close" /\ ~raised[c]
    /\ row' = [row EXCEPT ![c] = IF halted[c] THEN "cancelled" ELSE "finished"]
    /\ Goto(c, "cleanup")
    /\ UNCHANGED <<busy, paused, halted, raised, active, told, leaked>>

\* CancelledError: before its try block run() is left at once, in its loop the
\* finally block is entered, and the finally block itself is left where it is,
\* its workers going on alone.  ProxyManager.stop() swallows it.  The row may have
\* been written or not.
Interrupt(c) ==
    /\ raised[c] /\ phase[c] \in Alive
    /\ raised' = [raised EXCEPT ![c] = FALSE]
    /\ \/ phase[c] = "run" /\ Goto(c, "drain")
       \/ phase[c] # "run" /\ Goto(c, "cleanup")
       \/ phase[c] = "cleanup" /\ Goto(c, "gone")
    /\ \/ UNCHANGED row
       \/ phase[c] = "begin" /\ row' = [row EXCEPT ![c] = "running"]
       \/ phase[c] = "close" /\ row' = [row EXCEPT ![c] = "cancelled"]
    /\ UNCHANGED <<busy, paused, halted, active, told, leaked>>

\* A start request or a statement raises where run() does not catch it.
Raise(c) ==
    /\ "error" \in CrawlFaults
    /\ phase[c] \in {"begin", "seed", "close"} /\ ~raised[c]
    /\ Goto(c, "cleanup")
    /\ UNCHANGED <<row, busy, paused, halted, raised, active, told, leaked>>

\* Mutant of Cleanup: it follows the loop over the items instead of standing in
\* a finally block.
CleanupAfterLoop(c) ==
    /\ phase[c] = "cleanup" /\ ~raised[c]
    /\ active' = IF row[c] \in {"finished", "cancelled"} THEN active \ {c} ELSE active
    /\ Goto(c, "gone")
    /\ UNCHANGED <<row, busy, paused, halted, raised, told, leaked>>

\* The finally block of _run().
Cleanup(c) ==
    /\ phase[c] = "cleanup" /\ ~raised[c]
    /\ active' = active \ {c}
    /\ Goto(c, "gone")
    /\ UNCHANGED <<row, busy, paused, halted, raised, told, leaked>>

\* proxy_manager.stop() or fetcher.close() raises before the entries are popped.
CleanupFails(c) ==
    /\ "close" \in CrawlFaults
    /\ phase[c] = "cleanup" /\ ~raised[c]
    /\ leaked' = leaked \cup {c}
    /\ Goto(c, "gone")
    /\ UNCHANGED <<row, busy, paused, halted, raised, active, told>>

-----------------------------------------------------------------------------

\* The server's process ends and is started again.
Restart ==
    /\ "restart" \in CrawlFaults
    /\ active # {} \/ \E c \in Crawls : phase[c] \in Alive
    /\ phase' = [c \in Crawls |-> IF phase[c] \in Alive THEN "gone" ELSE phase[c]]
    /\ busy' = [c \in Crawls |-> FALSE]
    /\ paused' = [c \in Crawls |-> FALSE]
    /\ halted' = [c \in Crawls |-> FALSE]
    /\ raised' = [c \in Crawls |-> FALSE]
    /\ active' = {}
    /\ leaked' = {}
    /\ UNCHANGED <<row, told>>

Task(c) ==
    \/ BeginRun(c) \/ Seed(c) \/ Leave(c) \/ Drain(c) \/ Close(c)
    \/ Interrupt(c) \/ Raise(c) \/ Cleanup(c) \/ CleanupFails(c)

Tool(c) ==
    \/ CrawlSite(c) \/ PauseCrawl(c) \/ ResumeCrawl(c) \/ CancelCrawl(c)

RegistryNext ==
    \/ Restart
    \/ \E c \in Crawls : Task(c) \/ Dispatch(c) \/ Work(c) \/ Tool(c)

RegistrySpec == RegistryInit /\ [][RegistryNext]_registryVars

\* The event loop runs every task that is ready.  A worker may hang.
RegistryFairness == \A c \in Crawls : WF_registryVars(Task(c))

RegistryFairSpec == RegistrySpec /\ RegistryFairness

-----------------------------------------------------------------------------
(* Properties *)

\* The registry holds a crawl exactly as long as its task runs and it is not
\* cancelled, so that none that runs is out of reach.  Only a crawl whose proxies or
\* browser failed to close keeps its entry, until it is cancelled.
RegistryIsExact == active = ({c \in Crawls : phase[c] \in Alive} \cup leaked) \ told

\* A crawl that is cancelled ends, although its fetches may hang, whatever it
\* was doing.
CancelledEnds == \A c \in Crawls : c \in told ~> phase[c] = "gone"

=============================================================================
