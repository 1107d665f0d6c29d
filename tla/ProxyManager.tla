---------------------------- MODULE ProxyManager ----------------------------
(***************************************************************************)
(* The proxy pool (proxy/manager.py): rotation over a queue, preference    *)
(* for proxies with a record against the domain, quarantine after          *)
(* max_failures, and the health-check loop.  Its methods are synchronous,  *)
(* each is one step of the caller; a health check is suspended between its *)
(* request and its report, and proxies may be removed and added meanwhile. *)
(*                                                                         *)
(* The record of outcomes behind the scores is left out: whether a domain  *)
(* has one is a choice, and with one any healthy proxy may score best.     *)
(* The list a caller gives may name a proxy twice: it then has one entry   *)
(* and two places in the queue.                                            *)
(* That a quarantine has lasted _QUARANTINE_RECHECK_SECS is a choice too.  *)
(***************************************************************************)
EXTENDS Integers, SequencesExt

CONSTANTS
    Proxies,
    ProxyList,      \* proxies, the caller's list
    MaxFailures,    \* max_failures
    FailCap         \* bound on fail_count, which has none in the code

ASSUME ProxyAssumption ==
    /\ IsFiniteSet(Proxies)
    /\ ProxyList \in Seq(Proxies) /\ ProxyList # <<>>
    /\ MaxFailures \in Nat \ {0}
    /\ FailCap \in Nat /\ MaxFailures < FailCap

VARIABLES
    pool,       \* _entries: of each proxy in the pool, what is kept of it
    queue,      \* _queue
    checks      \* checks[p]: the health check of p that is under way

pvars == <<pool, queue, checks>>

\* fails is fail_count, out whether quarantined_until lies ahead.
Entry == [fails : 0..FailCap, out : BOOLEAN]
NewEntry == [fails |-> 0, out |-> FALSE]

\* A check is of the entry that is in the pool, or of one that was removed.
Check == {"none", "current", "removed"}

ProxyTypeOK ==
    /\ pool \in UNION {[P -> Entry] : P \in SUBSET Proxies}
    /\ queue \in Seq(Proxies)
    /\ checks \in [Proxies -> Check]

\* _entries is a dict, which keeps one of each; _queue a deque, which keeps all.
ProxyInit ==
    /\ pool = [p \in ToSet(ProxyList) |-> NewEntry]
    /\ queue = ProxyList
    /\ checks = [p \in Proxies |-> "none"]

Members == DOMAIN pool
Healthy == {p \in Members : ~pool[p].out}

-----------------------------------------------------------------------------
(* next(domain) *)

\* The queue up to and with its first healthy proxy goes to the back.
FirstHealthy == Min({i \in DOMAIN queue : queue[i] \in Healthy})
Rotated == SubSeq(queue, FirstHealthy + 1, Len(queue)) \o SubSeq(queue, 1, FirstHealthy)

\* next(domain) returns p: by rotation, or by score.
Picks(p) ==
    /\ Healthy # {}
    /\ \/ p = queue[FirstHealthy] /\ queue' = Rotated
       \/ p \in Healthy /\ UNCHANGED queue
    /\ UNCHANGED <<pool, checks>>

-----------------------------------------------------------------------------
(* report_success(), report_failure(): the new pool *)

Lesser(x, y) == IF x < y THEN x ELSE y

\* Mutant of WithSuccess: a success counts, and lifts no quarantine.
WithSuccessInside(p) ==
    IF p \in Members THEN [pool EXCEPT ![p].fails = IF @ = 0 THEN 0 ELSE @ - 1] ELSE pool

WithSuccess(p) ==
    IF p \in Members
    THEN [pool EXCEPT ![p] = [fails |-> IF @.fails = 0 THEN 0 ELSE @.fails - 1, out |-> FALSE]]
    ELSE pool

\* A failure that counts; with penalize=False it is only put on record.
WithFailure(p) ==
    IF p \in Members
    THEN [pool EXCEPT ![p] = [fails |-> Lesser(@.fails + 1, FailCap),
                              out |-> @.out \/ @.fails + 1 >= MaxFailures]]
    ELSE pool

-----------------------------------------------------------------------------
(* add(), remove(), the passing of time, the health-check loop *)

AddProxy(p) ==
    /\ p \notin Members
    /\ pool' = [q \in Members \cup {p} |-> IF q = p THEN NewEntry ELSE pool[q]]
    /\ queue' = Append(queue, p)
    /\ UNCHANGED checks

\* Mutant of RemoveProxy: the queue keeps the proxy.
RemoveProxyFromPool(p) ==
    /\ p \in Members
    /\ pool' = [q \in Members \ {p} |-> pool[q]]
    /\ checks' = [checks EXCEPT ![p] = IF @ = "current" THEN "removed" ELSE @]
    /\ UNCHANGED queue

\* Of a proxy with two places one stays, without an entry, until it is removed
\* again or added.
RemoveProxy(p) ==
    /\ p \in Members \cup ToSet(queue)
    /\ pool' = [q \in Members \ {p} |-> pool[q]]
    /\ queue' = RemoveFirst(queue, p)
    /\ checks' = [checks EXCEPT ![p] = IF @ = "current" THEN "removed" ELSE @]

QuarantineEnds(p) ==
    /\ p \in Members /\ pool[p].out
    /\ pool' = [pool EXCEPT ![p].out = FALSE]
    /\ UNCHANGED <<queue, checks>>

\* _check_all(): once the last round has ended.
CheckAll ==
    /\ \A p \in Proxies : checks[p] = "none"
    /\ Members # {}
    /\ checks' = [p \in Proxies |-> IF p \in Members THEN "current" ELSE "none"]
    /\ UNCHANGED <<pool, queue>>

\* _check_one(): a 200 resets the entry that was checked, which may be in the
\* pool no longer; anything else is reported for the proxy's URL.
Checked(p) ==
    /\ checks[p] # "none"
    /\ \/ pool' = IF checks[p] = "current" THEN [pool EXCEPT ![p] = NewEntry] ELSE pool
       \/ pool' = WithFailure(p)
    /\ checks' = [checks EXCEPT ![p] = "none"]
    /\ UNCHANGED queue

\* What happens to the pool apart from fetches.
Upkeep ==
    \/ CheckAll
    \/ \E p \in Proxies : AddProxy(p) \/ RemoveProxy(p) \/ QuarantineEnds(p) \/ Checked(p)

-----------------------------------------------------------------------------
(* Properties *)

\* A proxy is in quarantine only while max_failures count against it, whatever
\* late successes, checks of removed entries and expiries there were.
QuarantineIsDeserved == \A p \in Members : pool[p].out => pool[p].fails >= MaxFailures

\* The proxies the caller's list names more than once.
Repeated == {p \in Proxies : \E i, j \in DOMAIN ProxyList :
                                i # j /\ ProxyList[i] = p /\ ProxyList[j] = p}

\* The queue of the rotation holds every proxy of the pool, so that the rotation
\* reaches a healthy proxy whenever there is one; each has one place and no
\* other proxy has any, apart from those the caller's list repeats.
RotationIsWhole ==
    /\ Members \subseteq ToSet(queue)
    /\ ToSet(queue) \subseteq Members \cup Repeated
    /\ \A i, j \in DOMAIN queue : queue[i] = queue[j] => i = j \/ queue[i] \in Repeated

=============================================================================
