------------------------------ MODULE UrlQueue ------------------------------
(***************************************************************************)
(* The tables behind anansi's SQLiteQueue (spider/queue.py) and the        *)
(* statements it runs on them.  A row of url_queue is never deleted and    *)
(* UNIQUE(crawl_id, url) makes the URL its key, so the table is a family   *)
(* of functions over Urls in which "absent" stands for no row.  Every      *)
(* operator below is one statement and its commit: aiosqlite runs the      *)
(* statements of a connection one at a time on its own thread, so each is  *)
(* atomic, and what the caller does between two of them is not.            *)
(*                                                                         *)
(* A URL here is in canonical form; Priority is what its first pusher      *)
(* asked for, and Content stands for the MD5 of the page it serves.        *)
(***************************************************************************)
EXTENDS Integers, FiniteSets

CONSTANTS
    Urls,           \* the URLs the crawl can meet
    Priority,       \* Priority[u]: url_queue.priority of u
    Content,        \* Content[u]: the fingerprint of u's page
    MaxUrlRetries   \* Crawler(max_url_retries=...)

ASSUME QueueAssumption ==
    /\ Priority \in [Urls -> Int]
    /\ MaxUrlRetries \in Nat \ {0}

VARIABLES
    status,     \* url_queue.status, or "absent"
    retries,    \* url_queue.retry_count
    depth,      \* url_queue.meta["depth"]
    born,       \* the batch that inserted the row: orders ids up to ties
    batches,    \* batches inserted so far
    visited,    \* visited_urls
    hashed      \* the visited_urls whose content_hash is set

rowVars == <<retries, depth, born, batches>>
queueVars == <<status, retries, depth, born, batches, visited, hashed>>

RowStatus == {"absent", "pending", "processing", "done", "failed"}

QueueTypeOK ==
    /\ status \in [Urls -> RowStatus]
    /\ retries \in [Urls -> Nat]
    /\ depth \in [Urls -> Nat]
    /\ born \in [Urls -> Nat]
    /\ batches \in Nat
    /\ visited \subseteq Urls
    /\ hashed \subseteq visited

QueueInit ==
    /\ status = [u \in Urls |-> "absent"]
    /\ retries = [u \in Urls |-> 0]
    /\ depth = [u \in Urls |-> 0]
    /\ born = [u \in Urls |-> 0]
    /\ batches = 0
    /\ visited = {}
    /\ hashed = {}

-----------------------------------------------------------------------------
(* Enqueue *)

\* Mutant of Push: INSERT OR REPLACE, which resets a row that exists.
PushReplacing(S, d) ==
    /\ status' = [u \in Urls |-> IF u \in S THEN "pending" ELSE status[u]]
    /\ depth' = [u \in Urls |-> IF u \in S THEN d ELSE depth[u]]
    /\ born' = [u \in Urls |-> IF u \in S THEN batches + 1 ELSE born[u]]
    /\ batches' = batches + 1
    /\ UNCHANGED <<retries, visited, hashed>>

\* INSERT OR IGNORE of a batch of links found at one depth: a URL that has a
\* row keeps it, the depth of its first discovery included.
Push(S, d) ==
    LET fresh == {u \in S : status[u] = "absent"} IN
    /\ status' = [u \in Urls |-> IF u \in fresh THEN "pending" ELSE status[u]]
    /\ depth' = [u \in Urls |-> IF u \in fresh THEN d ELSE depth[u]]
    /\ born' = [u \in Urls |-> IF u \in fresh THEN batches + 1 ELSE born[u]]
    /\ batches' = IF fresh = {} THEN batches ELSE batches + 1
    /\ UNCHANGED <<retries, visited, hashed>>

-----------------------------------------------------------------------------
(* Dequeue *)

PendingRows == {u \in Urls : status[u] = "pending"}

\* The rows the subselect of pop() ranges over.
Claimable == PendingRows \ visited

\* ORDER BY priority DESC, id ASC LIMIT 1; ids of one batch are not told apart.
Ahead(u, v) ==
    \/ Priority[u] > Priority[v]
    \/ Priority[u] = Priority[v] /\ born[u] <= born[v]

Pop(u) ==
    /\ u \in Claimable
    /\ \A v \in Claimable : Ahead(u, v)
    /\ status' = [status EXCEPT ![u] = "processing"]
    /\ UNCHANGED <<rowVars, visited, hashed>>

MarkDone(u) ==
    /\ status' = [status EXCEPT ![u] = "done"]
    /\ UNCHANGED <<rowVars, visited, hashed>>

MarkFailed(u) ==
    /\ status' = [status EXCEPT ![u] = "failed"]
    /\ UNCHANGED <<rowVars, visited, hashed>>

\* Mutant of IncrementRetry: `<=` for `<`, one retry too many.
IncrementRetryOffByOne(u) ==
    /\ retries' = [retries EXCEPT ![u] = @ + 1]
    /\ status' = [status EXCEPT ![u] =
                    IF retries[u] + 1 <= MaxUrlRetries THEN "pending" ELSE "failed"]
    /\ UNCHANGED <<depth, born, batches, visited, hashed>>

\* Charge one retry; the row is requeued under budget whether or not it is
\* visited, and failed at the budget.
IncrementRetry(u) ==
    /\ retries' = [retries EXCEPT ![u] = @ + 1]
    /\ status' = [status EXCEPT ![u] =
                    IF retries[u] + 1 < MaxUrlRetries THEN "pending" ELSE "failed"]
    /\ UNCHANGED <<depth, born, batches, visited, hashed>>

\* Reset every row left in 'processing'.
RequeueStale ==
    /\ status' = [u \in Urls |->
                    IF status[u] = "processing" THEN "pending" ELSE status[u]]
    /\ UNCHANGED <<rowVars, visited, hashed>>

-----------------------------------------------------------------------------
(* The visited set *)

MarkVisited(u) ==
    /\ visited' = visited \cup {u}
    /\ UNCHANGED <<status, rowVars, hashed>>

ContentSeen(u) == \E v \in hashed : Content[v] = Content[u]

\* An UPDATE: it sets the hash of a URL that is already in visited_urls.
MarkContentSeen(u) ==
    /\ hashed' = IF u \in visited THEN hashed \cup {u} ELSE hashed
    /\ UNCHANGED <<status, rowVars, visited>>

=============================================================================
