---------------------------- MODULE ProxyProofs ----------------------------
(***************************************************************************)
(* Theorems about the proxy pool under FetchPath, for any number of        *)
(* proxies, workers and hosts and any answers.                             *)
(***************************************************************************)
EXTENDS FetchPath, FiniteSetTheorems, SequenceTheorems, WellFoundedInduction, TLAPS

Pools == UNION {[P -> Entry] : P \in SUBSET Proxies}
PoolOK == pool \in Pools
PoolInv == PoolOK /\ QuarantineIsDeserved

-----------------------------------------------------------------------------
(* What the operations make of a pool *)

\* A success leaves a pool of deserved quarantines.
LEMMA SuccessKeeps ==
    ASSUME PoolInv, NEW p, pool' = WithSuccess(p)
    PROVE  PoolInv'
<1>1. PICK P \in SUBSET Proxies : pool \in [P -> Entry]
  BY DEF PoolInv, PoolOK, Pools
<1>2. pool' \in [P -> Entry]
  BY <1>1, ProxyAssumption DEF WithSuccess, Members, Entry
<1>3. QuarantineIsDeserved'
  BY <1>1 DEF WithSuccess, Members, Entry, PoolInv, QuarantineIsDeserved
<1>4. QED
  BY <1>2, <1>3 DEF PoolInv, PoolOK, Pools

\* A failure quarantines no proxy below max_failures, also where the count is
\* at its bound.
LEMMA FailureKeeps ==
    ASSUME PoolInv, NEW p, pool' = WithFailure(p)
    PROVE  PoolInv'
<1>1. PICK P \in SUBSET Proxies : pool \in [P -> Entry]
  BY DEF PoolInv, PoolOK, Pools
<1>2. pool' \in [P -> Entry]
  BY <1>1, ProxyAssumption DEF WithFailure, Members, Entry, Lesser
<1>3. QuarantineIsDeserved'
  BY <1>1, ProxyAssumption
  DEF WithFailure, Members, Entry, Lesser, PoolInv, QuarantineIsDeserved
<1>4. QED
  BY <1>2, <1>3 DEF PoolInv, PoolOK, Pools

\* So does what happens to the pool apart from fetches.
LEMMA UpkeepKeeps ==
    ASSUME PoolInv, Upkeep
    PROVE  PoolInv'
<1>1. PICK P \in SUBSET Proxies : pool \in [P -> Entry]
  BY DEF PoolInv, PoolOK, Pools
<1>2. CASE UNCHANGED pool
  BY <1>2 DEF PoolInv, PoolOK, Pools, QuarantineIsDeserved, Members
<1>3. ASSUME NEW p \in Proxies, AddProxy(p)
      PROVE  PoolInv'
  <2>1. pool' \in [P \cup {p} -> Entry]
    BY <1>1, <1>3, ProxyAssumption DEF AddProxy, Members, Entry, NewEntry
  <2>2. QuarantineIsDeserved'
    BY <1>1, <1>3 DEF AddProxy, Members, NewEntry, PoolInv, QuarantineIsDeserved
  <2>3. QED
    BY <2>1, <2>2 DEF PoolInv, PoolOK, Pools
<1>4. ASSUME NEW p \in Proxies, RemoveProxy(p)
      PROVE  PoolInv'
  <2>1. pool' \in [P \ {p} -> Entry]
    BY <1>1, <1>4 DEF RemoveProxy, Members, Entry
  <2>2. QuarantineIsDeserved'
    BY <1>1, <1>4 DEF RemoveProxy, Members, PoolInv, QuarantineIsDeserved
  <2>3. QED
    BY <2>1, <2>2 DEF PoolInv, PoolOK, Pools
<1>5. ASSUME NEW p \in Proxies, QuarantineEnds(p)
      PROVE  PoolInv'
  <2>1. pool' \in [P -> Entry]
    BY <1>1, <1>5 DEF QuarantineEnds, Members, Entry
  <2>2. QuarantineIsDeserved'
    BY <1>1, <1>5 DEF QuarantineEnds, Members, Entry, PoolInv, QuarantineIsDeserved
  <2>3. QED
    BY <2>1, <2>2 DEF PoolInv, PoolOK, Pools
<1>6. ASSUME NEW p \in Proxies, Checked(p)
      PROVE  PoolInv'
  <2>1. CASE pool' = [pool EXCEPT ![p] = NewEntry]
    <3>1. NewEntry \in Entry
      BY ProxyAssumption DEF Entry, NewEntry
    <3>2. pool' \in [P -> Entry]
      BY <1>1, <2>1, <3>1
    <3>3. QuarantineIsDeserved'
      BY <1>1, <2>1 DEF Members, Entry, NewEntry, PoolInv, QuarantineIsDeserved
    <3>4. QED
      BY <3>2, <3>3 DEF PoolInv, PoolOK, Pools
  <2>2. CASE pool' = WithFailure(p)
    BY <2>2, FailureKeeps
  <2>3. QED
    BY <1>2, <1>6, <2>1, <2>2 DEF Checked
<1>7. QED
  BY <1>2, <1>3, <1>4, <1>5, <1>6 DEF Upkeep, CheckAll

-----------------------------------------------------------------------------
(* Steps of the workers *)

\* A step of a worker leaves the pool alone, or reports an outcome to it.
LEMMA WorkerReports ==
    ASSUME NEW w \in Workers,
           \/ \E h \in Hosts : Begin(w, h)
           \/ NoProxiesAvailable(w) \/ Proceed(w) \/ Cancel(w)
    PROVE  UNCHANGED pool \/ \E p : pool' = WithSuccess(p) \/ pool' = WithFailure(p)
<1>1. ASSUME NEW a, NEW det, Account(w, a, det)
      PROVE  UNCHANGED pool \/ \E p : pool' = WithSuccess(p) \/ pool' = WithFailure(p)
  BY <1>1 DEF Account
<1>2. ASSUME Raises(w)
      PROVE  \E p : pool' = WithFailure(p)
  BY <1>2 DEF Raises
<1>3. ASSUME NEW a \in Answers, Answered(w, a)
      PROVE  UNCHANGED pool \/ \E p : pool' = WithSuccess(p) \/ pool' = WithFailure(p)
  BY <1>1, <1>3 DEF Answered, Unprotected
<1>4. ASSUME NEW a \in Answers, AnsweredAgain(w, a) \/ Browsed(w, a)
      PROVE  UNCHANGED pool \/ \E p : pool' = WithSuccess(p) \/ pool' = WithFailure(p)
  BY <1>1, <1>4 DEF AnsweredAgain, Browsed, Same
<1>5. CASE ToBrowser(w) \/ GetHostFetcher(w) \/ Evicted(w) \/ WarmedUp(w) \/ Reopened(w) \/ Swapped(w)
  BY <1>5 DEF ToBrowser, GetHostFetcher, Evicted, WarmedUp, Reopened, Swapped, Same
<1>6. CASE RequestFails(w) \/ BrowserFails(w) \/ Parse(w)
  BY <1>1, <1>2, <1>6 DEF RequestFails, BrowserFails, Parse, Same
<1>7. CASE (\E h \in Hosts : Begin(w, h)) \/ NoProxiesAvailable(w) \/ Cancel(w)
  BY <1>7 DEF Begin, Picks, NoProxiesAvailable, Cancel
<1>8. QED
  BY <1>3, <1>4, <1>5, <1>6, <1>7 DEF Proceed

-----------------------------------------------------------------------------
(* Theorem *)

\* The caller's list is one of proxies.
LEMMA ListedProxies == ToSet(ProxyList) \in SUBSET Proxies
<1>1. DOMAIN ProxyList = 1..Len(ProxyList) /\ \A i \in 1..Len(ProxyList) : ProxyList[i] \in Proxies
  BY ProxyAssumption, LenProperties, ElementOfSeq
<1>2. QED
  BY <1>1 DEF ToSet

\* Initially no proxy is in quarantine.
LEMMA PoolInit == Init => PoolInv
<1>1. SUFFICES ASSUME Init PROVE PoolInv
  OBVIOUS
<1>2. pool \in [ToSet(ProxyList) -> Entry]
  BY <1>1, ProxyAssumption DEF Init, ProxyInit, Entry, NewEntry
<1>3. QED
  BY <1>1, <1>2, ListedProxies DEF Init, ProxyInit, NewEntry, PoolInv, PoolOK, Pools, QuarantineIsDeserved, Members

\* Every step keeps the pool sound.
LEMMA PoolStep == PoolInv /\ [Next]_vars => PoolInv'
<1>1. SUFFICES ASSUME PoolInv, [Next]_vars PROVE PoolInv'
  OBVIOUS
<1>2. CASE UNCHANGED pool
  BY <1>1, <1>2 DEF PoolInv, PoolOK, Pools, QuarantineIsDeserved, Members
<1>3. CASE Maintain
  BY <1>1, <1>3, UpkeepKeeps DEF Maintain
<1>4. ASSUME NEW w \in Workers,
             \/ \E h \in Hosts : Begin(w, h)
             \/ NoProxiesAvailable(w) \/ Proceed(w) \/ Cancel(w)
      PROVE  PoolInv'
  <2>1. UNCHANGED pool \/ \E p : pool' = WithSuccess(p) \/ pool' = WithFailure(p)
    BY <1>4, WorkerReports
  <2>2. QED
    BY <1>1, <1>2, <2>1, SuccessKeeps, FailureKeeps
<1>5. QED
  BY <1>1, <1>2, <1>3, <1>4 DEF Next, vars

\* A proxy is in quarantine only while max_failures count against it
\* (proxy/manager.py, report_success, report_failure and the health checks),
\* however many workers report late and whatever is removed and added meanwhile.
THEOREM QuarantineDeserved == Spec => []QuarantineIsDeserved
<1>1. PoolInv => QuarantineIsDeserved
  BY DEF PoolInv
<1>2. QED
  BY <1>1, PoolInit, PoolStep, PTL DEF Spec

-----------------------------------------------------------------------------
(* The last detection *)

\* Stages of a page whose outcome is accounted for, or of none.
Settled == {"idle", "parse"}

\* What a step of w may do to the last detection: forget it, leave it to a page
\* that was under way, account for the page of w, or put a new one on record.
Detects(w) ==
    \/ last' = None
    \/ last' = last /\ (job'[w].stage \in Settled \/ job[w].stage \notin Settled)
    \/ last' = Less(last, w) /\ job'[w].stage \in Settled
    \/ last' = InFlight \ {w} /\ job'[w].stage \in Settled
    \/ last' = InFlight /\ job[w] # Idle

\* A step of w touches no other page.
Touches(w) ==
    /\ DOMAIN job' = Workers
    /\ \A v \in Workers \ {w} : job'[v] = job[v]

\* The page of w changes its stage and what else it holds, or ends.
LEMMA PagesMoved ==
    ASSUME DOMAIN job = Workers, NEW w \in Workers
    PROVE  /\ \A s : job' = [job EXCEPT ![w].stage = s] => Touches(w)
           /\ \A s, f : job' = Fetches(w, s, f) => Touches(w)
           /\ \A s, f : job' = [[job EXCEPT ![w].fetcher = f] EXCEPT ![w].stage = s] => Touches(w)
           /\ \A s, f, a : job' = [job EXCEPT ![w].stage = s, ![w].fetcher = f, ![w].best = a]
                           => Touches(w)
           /\ \A s, a : job' = [job EXCEPT ![w].stage = s, ![w].best = a] => Touches(w)
           /\ job' = Done(w) => Touches(w) /\ job'[w] = Idle /\ job'[w].stage \in Settled
           /\ \A a : job' = Accounted(w, a) => Touches(w) /\ job'[w].stage \in Settled
<1>1. \A s : job' = [job EXCEPT ![w].stage = s] => Touches(w)
  BY DEF Touches
<1>2. \A s, f : job' = Fetches(w, s, f) => Touches(w)
  BY DEF Touches, Fetches
<1>3. \A s, f : job' = [[job EXCEPT ![w].fetcher = f] EXCEPT ![w].stage = s] => Touches(w)
  BY DEF Touches
<1>4. \A s, f, a : job' = [job EXCEPT ![w].stage = s, ![w].fetcher = f, ![w].best = a] => Touches(w)
  BY DEF Touches
<1>5. \A s, a : job' = [job EXCEPT ![w].stage = s, ![w].best = a] => Touches(w)
  BY DEF Touches
<1>6. job' = Done(w) => Touches(w) /\ job'[w] = Idle /\ job'[w].stage \in Settled
  BY DEF Touches, Done, Idle, Settled
<1>7. \A a : job' = Accounted(w, a) => Touches(w) /\ job'[w].stage \in Settled
  BY DEF Touches, Done, Accounted, Idle, Settled
<1>8. QED
  BY <1>1, <1>2, <1>3, <1>4, <1>5, <1>6, <1>7

\* Every step of w touches the page of w alone, and the detection as it may.
LEMMA WorkerDetects ==
    ASSUME DOMAIN job = Workers,
           NEW w \in Workers,
           \/ \E h \in Hosts : Begin(w, h)
           \/ NoProxiesAvailable(w) \/ Proceed(w) \/ Cancel(w)
    PROVE  Touches(w) /\ Detects(w)
<1>a. ASSUME Raises(w)
      PROVE  Touches(w) /\ Detects(w)
  BY <1>a, PagesMoved DEF Raises, Become, Leaves, Detects
<1>b. ASSUME NEW a, NEW det, job' = Accounted(w, a), Account(w, a, det), det = last \/ det = Detected(a)
      PROVE  Touches(w) /\ Detects(w)
  <2>1. last' = Less(last, w) \/ last' = None \/ last' = InFlight \ {w}
    BY <1>b DEF Account, Detected, Less
  <2>2. Touches(w) /\ job'[w].stage \in Settled
    BY <1>b, PagesMoved
  <2>3. QED
    BY <2>1, <2>2 DEF Detects
<1>c. ASSUME NEW a, last' = Detected(a), job[w] # Idle
      PROVE  Detects(w)
  BY <1>c DEF Detected, Detects
<1>d. ASSUME Same, NEW s, s \notin Settled, job[w].stage = s
      PROVE  Detects(w)
  BY <1>d DEF Same, Detects
<1>1. ASSUME NEW h \in Hosts, Begin(w, h)
      PROVE  Touches(w) /\ Detects(w)
  BY <1>1 DEF Begin, Touches, Detects, Reset
<1>2. CASE NoProxiesAvailable(w)
  BY <1>2 DEF NoProxiesAvailable, Touches, Detects, Reset
<1>3. CASE ToBrowser(w)
  BY <1>3, <1>d, PagesMoved DEF ToBrowser, Become, At, Settled
<1>4. CASE GetHostFetcher(w)
  BY <1>4, <1>d, PagesMoved DEF GetHostFetcher, Evicts, Become, At, Settled
<1>5. CASE Evicted(w)
  BY <1>5, <1>d, PagesMoved DEF Evicted, Evicts, Become, At, Settled
<1>6. CASE WarmedUp(w)
  BY <1>6, <1>d, PagesMoved DEF WarmedUp, Become, At, Settled
<1>7. CASE Reopened(w)
  BY <1>7, <1>d DEF Reopened, Become, At, Settled, Touches
<1>8. CASE RequestFails(w)
  BY <1>8, <1>a, <1>d, PagesMoved DEF RequestFails, Become, At, Settled
<1>9. CASE Swapped(w)
  <2>1. Same /\ job[w].stage = "swap" /\ job' = Fetches(w, "rewarm", Number)
    BY <1>9 DEF Swapped, Become, At, Fetches
  <2>2. QED
    BY <2>1, <1>d, PagesMoved DEF Settled
<1>10. ASSUME NEW a \in Answers, Answered(w, a)
       PROVE  Touches(w) /\ Detects(w)
  <2>1. job[w] # Idle
    BY <1>10 DEF Answered, At, Idle
  <2>2. CASE Unprotected(w, a)
    BY <2>1, <2>2, <1>b, <1>c, PagesMoved DEF Unprotected, Become
  <2>3. CASE Become(tracked, open, Accounted(w, a)) /\ Account(w, a, Detected(a))
    BY <2>3, <1>b DEF Become
  <2>4. CASE /\ Become(tracked, open, [job EXCEPT ![w].stage = "browser", ![w].best = a])
             /\ last' = Detected(a)
    BY <2>1, <2>4, <1>c, PagesMoved DEF Become
  <2>5. CASE Swap(w, a) /\ last' = Detected(a)
    BY <2>1, <2>5, <1>c, PagesMoved DEF Swap, Become
  <2>6. QED
    BY <1>10, <2>2, <2>3, <2>4, <2>5 DEF Answered
<1>11. ASSUME NEW a \in Answers, AnsweredAgain(w, a)
       PROVE  Touches(w) /\ Detects(w)
  <2>1. job[w].stage = "request"
    BY <1>11 DEF AnsweredAgain, At
  <2>2. CASE /\ Become(tracked, open, [job EXCEPT ![w].stage = "browser", ![w].best = a])
             /\ Same
    BY <2>1, <2>2, <1>d, PagesMoved DEF Become, Settled
  <2>3. CASE Become(tracked, open, Accounted(w, a)) /\ Account(w, a, last)
    BY <2>3, <1>b DEF Become
  <2>4. QED
    BY <1>11, <2>2, <2>3 DEF AnsweredAgain
<1>12. ASSUME NEW a \in Answers, Browsed(w, a)
       PROVE  Touches(w) /\ Detects(w)
  BY <1>12, <1>b DEF Browsed, Become
<1>13. CASE BrowserFails(w)
  BY <1>13, <1>a, <1>b DEF BrowserFails, Become
<1>14. CASE Parse(w)
  BY <1>14, <1>a, PagesMoved DEF Parse, Become, Detects
<1>15. CASE Cancel(w)
  BY <1>15, PagesMoved DEF Cancel, Become, Leaves, Detects
<1>16. QED
  BY <1>1, <1>2, <1>3, <1>4, <1>5, <1>6, <1>7, <1>8, <1>9, <1>10, <1>11, <1>12, <1>13, <1>14, <1>15
  DEF Proceed

RecentInv == DOMAIN job = Workers /\ AttributionIsRecent

\* Every step keeps the last detection to the pages it was made among.
LEMMA RecentStep == RecentInv /\ [Next]_vars => RecentInv'
<1>1. SUFFICES ASSUME RecentInv, [Next]_vars PROVE RecentInv'
  OBVIOUS
<1>2. CASE UNCHANGED <<job, last>>
  BY <1>1, <1>2 DEF RecentInv, AttributionIsRecent, At
<1>3. ASSUME NEW w \in Workers,
             \/ \E h \in Hosts : Begin(w, h)
             \/ NoProxiesAvailable(w) \/ Proceed(w) \/ Cancel(w)
      PROVE  RecentInv'
  <2>1. Touches(w) /\ Detects(w)
    BY <1>1, <1>3, WorkerDetects DEF RecentInv
  <2>2. SUFFICES ASSUME last' # None, NEW v \in Workers, ~At(v, {"idle", "parse"})'
                 PROVE  v \in last'
    BY <2>1 DEF RecentInv, AttributionIsRecent, Touches
  <2>3. v # w => job'[v] = job[v]
    BY <2>1 DEF Touches
  <2>4. job[v].stage \notin Settled \/ v = w
    BY <2>2, <2>3 DEF At, Settled
  <2>5. job'[v].stage \notin Settled
    BY <2>2 DEF At, Settled
  <2>6. last # None /\ job[v].stage \notin Settled => v \in last
    BY <1>1 DEF RecentInv, AttributionIsRecent, At, Settled
  <2>7. job[v].stage \notin Settled => v \in InFlight
    BY DEF InFlight, Idle, Settled
  <2>8. CASE last' = last /\ (job'[w].stage \in Settled \/ job[w].stage \notin Settled)
    BY <2>2, <2>4, <2>5, <2>6, <2>8
  <2>9. CASE last' = Less(last, w) /\ job'[w].stage \in Settled
    BY <2>2, <2>4, <2>5, <2>6, <2>9 DEF Less
  <2>10. CASE last' = InFlight \ {w} /\ job'[w].stage \in Settled
    BY <2>4, <2>5, <2>7, <2>10
  <2>11. CASE last' = InFlight /\ job[w] # Idle
    BY <2>4, <2>7, <2>11 DEF InFlight
  <2>12. QED
    BY <2>1, <2>2, <2>8, <2>9, <2>10, <2>11 DEF Detects
<1>4. QED
  BY <1>1, <1>2, <1>3 DEF Next, Maintain, vars

\* The outcome of a page is never put down to a vendor seen before the page
\* began (spider/crawler.py, _last_detection, one for all workers), however
\* many workers there are and whatever the sites answer.
THEOREM DetectionsAreRecent == Spec => []AttributionIsRecent
<1>1. Init => RecentInv
  BY DEF Init, RecentInv, AttributionIsRecent
<1>2. RecentInv => AttributionIsRecent
  BY DEF RecentInv
<1>3. QED
  BY <1>1, <1>2, RecentStep, PTL DEF Spec

-----------------------------------------------------------------------------
(* Sequences without an element, with one more, and rotated *)

\* Every set of naturals but the empty one has its least.
LEMMA LeastIsThere ==
    ASSUME NEW S \in SUBSET Nat, S # {}
    PROVE  Min(S) \in S /\ \A n \in S : Min(S) <= n
<1>1. PICK x \in S : \A y \in S : ~(<<y, x>> \in OpToRel(<, Nat))
  BY NatLessThanWellFounded, WFMin
<1>2. \A y \in S : x <= y
  <2>1. SUFFICES ASSUME NEW y \in S, y < x PROVE FALSE
    OBVIOUS
  <2>2. <<y, x>> \in OpToRel(<, Nat)
    BY <2>1 DEF OpToRel
  <2>3. QED
    BY <1>1, <2>2
<1>3. QED
  BY <1>2 DEF Min

\* r is s without its i-th element.
Drops(r, s, i) ==
    /\ Len(r) = Len(s) - 1
    /\ \A n \in 1..Len(r) : r[n] = IF n < i THEN s[n] ELSE s[n + 1]

\* What RemoveAt returns.
LEMMA RemovedAt ==
    ASSUME NEW S, NEW s \in Seq(S), NEW i \in 1..Len(s)
    PROVE  RemoveAt(s, i) \in Seq(S) /\ Drops(RemoveAt(s, i), s, i)
<1> DEFINE a == SubSeq(s, 1, i - 1)
           b == SubSeq(s, i + 1, Len(s))
<1>1. Len(s) \in Nat /\ i \in Nat /\ i >= 1 /\ i <= Len(s)
  BY LenProperties
<1>2. \A n \in 1..(i - 1) : s[n] \in S
  BY <1>1, ElementOfSeq
<1>3. \A n \in (i + 1)..Len(s) : s[n] \in S
  BY <1>1, ElementOfSeq
<1>4. /\ a \in Seq(S)
      /\ Len(a) = IF 1 <= i - 1 THEN i - 1 - 1 + 1 ELSE 0
      /\ \A n \in 1..(i - 1 - 1 + 1) : a[n] = s[1 + n - 1]
  BY <1>1, <1>2, SubSeqProperties
<1>5. /\ b \in Seq(S)
      /\ Len(b) = IF i + 1 <= Len(s) THEN Len(s) - (i + 1) + 1 ELSE 0
      /\ \A n \in 1..(Len(s) - (i + 1) + 1) : b[n] = s[i + 1 + n - 1]
  BY <1>1, <1>3, SubSeqProperties
<1> HIDE DEF a, b
<1>6. Len(a) = i - 1 /\ Len(b) = Len(s) - i
  BY <1>1, <1>4, <1>5
<1>7. \A n \in 1..Len(a) : a[n] = s[n]
  BY <1>1, <1>4, <1>6
<1>8. \A n \in 1..Len(b) : b[n] = s[n + i]
  BY <1>1, <1>5, <1>6
<1>9. /\ a \o b \in Seq(S)
      /\ Len(a \o b) = Len(a) + Len(b)
      /\ \A n \in 1..(Len(a) + Len(b)) : (a \o b)[n] = IF n <= Len(a) THEN a[n] ELSE b[n - Len(a)]
  BY <1>4, <1>5, ConcatProperties
<1>10. Len(a \o b) = Len(s) - 1
  BY <1>1, <1>6, <1>9
<1>11. ASSUME NEW n \in 1..(Len(s) - 1)
       PROVE  (a \o b)[n] = IF n < i THEN s[n] ELSE s[n + 1]
  <2>1. (a \o b)[n] = IF n <= Len(a) THEN a[n] ELSE b[n - Len(a)]
    BY <1>1, <1>6, <1>9
  <2>2. CASE n < i
    BY <1>1, <1>6, <1>7, <2>1, <2>2
  <2>3. CASE ~(n < i)
    <3>1. n - Len(a) \in 1..Len(b) /\ ~(n <= Len(a))
      BY <1>1, <1>6, <2>3
    <3>2. b[n - Len(a)] = s[n - Len(a) + i] /\ n - Len(a) + i = n + 1
      BY <1>1, <1>6, <1>8, <3>1
    <3>3. QED
      BY <2>1, <2>3, <3>1, <3>2
  <2>4. QED
    BY <2>2, <2>3
<1>12. QED
  BY <1>9, <1>10, <1>11 DEF Drops, RemoveAt, a, b

\* The elements of s have one place each, but for those in D.
PlacedOnce(s, D) == \A i, j \in DOMAIN s : s[i] = s[j] => i = j \/ s[i] \in D

\* Without an element the others have their places still, and it has none unless
\* it may have several.
LEMMA DroppedOne ==
    ASSUME NEW S, NEW D, NEW s \in Seq(S), NEW r \in Seq(S), NEW i \in 1..Len(s),
           Drops(r, s, i), PlacedOnce(s, D)
    PROVE  /\ PlacedOnce(r, D)
           /\ ToSet(s) \ {s[i]} \subseteq ToSet(r)
           /\ ToSet(r) \subseteq ToSet(s)
           /\ s[i] \in D \/ s[i] \notin ToSet(r)
<1>1. /\ Len(s) \in Nat /\ DOMAIN s = 1..Len(s)
      /\ Len(r) = Len(s) - 1 /\ DOMAIN r = 1..Len(r)
  BY LenProperties DEF Drops
<1>2. \A n \in 1..Len(r) : r[n] = IF n < i THEN s[n] ELSE s[n + 1]
  BY DEF Drops
<1>3. \A a, b \in 1..Len(s) : s[a] = s[b] => a = b \/ s[a] \in D
  BY <1>1 DEF PlacedOnce
<1>4. PlacedOnce(r, D)
  <2>1. SUFFICES ASSUME NEW a \in 1..Len(r), NEW b \in 1..Len(r), r[a] = r[b], r[a] \notin D
                 PROVE  a = b
    BY <1>1 DEF PlacedOnce
  <2>2. r[a] = (IF a < i THEN s[a] ELSE s[a + 1]) /\ r[b] = (IF b < i THEN s[b] ELSE s[b + 1])
    BY <1>2
  <2>3. /\ a \in 1..Len(s) /\ a + 1 \in 1..Len(s)
        /\ b \in 1..Len(s) /\ b + 1 \in 1..Len(s)
    BY <1>1
  <2>4. CASE a < i /\ b < i
    BY <1>3, <2>1, <2>2, <2>3, <2>4
  <2>5. CASE a < i /\ ~(b < i)
    <3>1. s[a] = s[b + 1] /\ s[a] \notin D
      BY <2>1, <2>2, <2>5
    <3>2. a = b + 1
      BY <1>3, <2>3, <3>1
    <3>3. QED
      BY <1>1, <2>5, <3>2
  <2>6. CASE ~(a < i) /\ b < i
    <3>1. s[a + 1] = s[b] /\ s[a + 1] \notin D
      BY <2>1, <2>2, <2>6
    <3>2. a + 1 = b
      BY <1>3, <2>3, <3>1
    <3>3. QED
      BY <1>1, <2>6, <3>2
  <2>7. CASE ~(a < i) /\ ~(b < i)
    <3>1. r[a] = s[a + 1] /\ r[b] = s[b + 1]
      BY <2>2, <2>7, Zenon
    <3>2. s[a + 1] = s[b + 1] /\ s[a + 1] \notin D
      BY <2>1, <3>1, Zenon
    <3>3. a + 1 = b + 1
      BY <1>3, <2>3, <3>2
    <3>4. QED
      BY <1>1, <3>3
  <2>8. QED
    BY <2>4, <2>5, <2>6, <2>7
<1>5. ASSUME NEW a \in 1..Len(r)
      PROVE  r[a] \in ToSet(s) /\ (r[a] = s[i] => s[i] \in D)
  <2>1. CASE a < i
    <3>1. r[a] = s[a] /\ a \in 1..Len(s) /\ a # i
      BY <1>1, <1>2, <2>1
    <3>2. QED
      BY <1>1, <1>3, <3>1 DEF ToSet
  <2>2. CASE ~(a < i)
    <3>1. r[a] = s[a + 1] /\ a + 1 \in 1..Len(s) /\ a + 1 # i
      BY <1>1, <1>2, <2>2
    <3>2. QED
      BY <1>1, <1>3, <3>1 DEF ToSet
  <2>3. QED
    BY <2>1, <2>2
<1>6. ASSUME NEW a \in 1..Len(s), a # i
      PROVE  \E b \in 1..Len(r) : r[b] = s[a]
  <2>1. CASE a < i
    <3>1. a \in 1..Len(r)
      BY <1>1, <2>1
    <3>2. QED
      BY <1>2, <2>1, <3>1
  <2>2. CASE ~(a < i)
    <3>1. a - 1 \in 1..Len(r) /\ ~(a - 1 < i) /\ (a - 1) + 1 = a
      BY <1>1, <1>6, <2>2
    <3>2. r[a - 1] = s[a]
      BY <1>2, <3>1
    <3>3. QED
      BY <3>1, <3>2
  <2>3. QED
    BY <2>1, <2>2
<1>7. ASSUME NEW e \in ToSet(r)
      PROVE  e \in ToSet(s) /\ (e = s[i] => s[i] \in D)
  BY <1>1, <1>5, <1>7 DEF ToSet
<1>8. ASSUME NEW e \in ToSet(s) \ {s[i]}
      PROVE  e \in ToSet(r)
  <2>1. PICK a \in 1..Len(s) : e = s[a]
    BY <1>1 DEF ToSet
  <2>2. a # i
    BY <2>1
  <2>3. QED
    BY <1>1, <1>6, <2>1, <2>2 DEF ToSet
<1>9. QED
  BY <1>4, <1>7, <1>8

\* The first k elements go to the back: none is lost, and none doubled.
Turned(s, k) == SubSeq(s, k + 1, Len(s)) \o SubSeq(s, 1, k)

LEMMA RotatedOnce ==
    ASSUME NEW S, NEW D, NEW s \in Seq(S), NEW k \in 1..Len(s), PlacedOnce(s, D)
    PROVE  /\ Turned(s, k) \in Seq(S) /\ PlacedOnce(Turned(s, k), D)
           /\ ToSet(Turned(s, k)) = ToSet(s)
<1> DEFINE r == Turned(s, k)
           a == SubSeq(s, k + 1, Len(s))
           b == SubSeq(s, 1, k)
           n == Len(s)
<1>1. n \in Nat /\ k \in Nat /\ k >= 1 /\ k <= n /\ DOMAIN s = 1..n
  BY LenProperties
<1>2. \A i \in 1..k : s[i] \in S
  BY <1>1, ElementOfSeq
<1>3. \A i \in (k + 1)..n : s[i] \in S
  BY <1>1, ElementOfSeq
<1>4. /\ a \in Seq(S)
      /\ Len(a) = IF k + 1 <= n THEN n - (k + 1) + 1 ELSE 0
      /\ \A i \in 1..(n - (k + 1) + 1) : a[i] = s[k + 1 + i - 1]
  BY <1>1, <1>3, SubSeqProperties
<1>5. /\ b \in Seq(S)
      /\ Len(b) = IF 1 <= k THEN k - 1 + 1 ELSE 0
      /\ \A i \in 1..(k - 1 + 1) : b[i] = s[1 + i - 1]
  BY <1>1, <1>2, SubSeqProperties
<1>0. r = a \o b
  BY DEF Turned
<1> HIDE DEF a, b, n, r
<1>6. Len(a) = n - k /\ Len(b) = k
  BY <1>1, <1>4, <1>5
<1>7. ASSUME NEW i \in 1..(n - k)
      PROVE  a[i] = s[i + k]
  <2>1. i \in 1..(n - (k + 1) + 1) /\ k + 1 + i - 1 = i + k
    BY <1>1
  <2>2. a[i] = s[k + 1 + i - 1]
    BY <1>4, <2>1
  <2>3. QED
    BY <2>1, <2>2
<1>8. \A i \in 1..k : b[i] = s[i]
  BY <1>1, <1>5
<1>9. /\ a \o b \in Seq(S)
      /\ Len(a \o b) = Len(a) + Len(b)
      /\ \A i \in 1..(Len(a) + Len(b)) : (a \o b)[i] = IF i <= Len(a) THEN a[i] ELSE b[i - Len(a)]
  BY <1>4, <1>5, ConcatProperties
<1>10. r = a \o b
  BY <1>0
<1>11. r \in Seq(S) /\ Len(r) = n /\ Len(a) + Len(b) = n
  BY <1>1, <1>6, <1>9, <1>10
<1>12. ASSUME NEW i \in 1..n
       PROVE  r[i] = IF i <= n - k THEN s[i + k] ELSE s[i - (n - k)]
  <2>1. r[i] = IF i <= n - k THEN a[i] ELSE b[i - (n - k)]
    BY <1>6, <1>9, <1>10, <1>11
  <2>2. CASE i <= n - k
    BY <1>1, <1>7, <2>1, <2>2
  <2>3. CASE ~(i <= n - k)
    <3>1. i - (n - k) \in 1..k
      BY <1>1, <2>3
    <3>2. QED
      BY <1>8, <2>1, <2>3, <3>1
  <2>4. QED
    BY <2>2, <2>3
<1>13. DOMAIN r = 1..n
  BY <1>11, LenProperties
<1>14. \A i, j \in 1..n : s[i] = s[j] => i = j \/ s[i] \in D
  BY <1>1 DEF PlacedOnce
<1>15. PlacedOnce(r, D)
  <2>1. SUFFICES ASSUME NEW i \in 1..n, NEW j \in 1..n, r[i] = r[j], r[i] \notin D
                 PROVE  i = j
    BY <1>13 DEF PlacedOnce
  <2>2. PICK x \in 1..n : r[i] = s[x] /\ x = IF i <= n - k THEN i + k ELSE i - (n - k)
    <3>1. (IF i <= n - k THEN i + k ELSE i - (n - k)) \in 1..n
      BY <1>1
    <3>2. QED
      BY <1>12, <3>1
  <2>3. PICK y \in 1..n : r[j] = s[y] /\ y = IF j <= n - k THEN j + k ELSE j - (n - k)
    <3>1. (IF j <= n - k THEN j + k ELSE j - (n - k)) \in 1..n
      BY <1>1
    <3>2. QED
      BY <1>12, <3>1
  <2>4. x = y
    BY <1>14, <2>1, <2>2, <2>3
  <2>5. QED
    BY <1>1, <2>2, <2>3, <2>4
<1>16. ASSUME NEW i \in 1..n
       PROVE  r[i] \in ToSet(s)
  <2>1. i + k \in 1..n \/ ~(i <= n - k)
    BY <1>1
  <2>2. i - (n - k) \in 1..n \/ i <= n - k
    BY <1>1
  <2>3. QED
    BY <1>1, <1>12, <2>1, <2>2 DEF ToSet
<1>17. ASSUME NEW i \in 1..n
       PROVE  \E j \in 1..n : r[j] = s[i]
  <2>1. CASE i > k
    <3>1. i - k \in 1..n /\ i - k <= n - k /\ (i - k) + k = i
      BY <1>1, <2>1
    <3>2. r[i - k] = s[i]
      BY <1>12, <3>1
    <3>3. QED
      BY <3>1, <3>2
  <2>2. CASE ~(i > k)
    <3>1. i + (n - k) \in 1..n /\ ~(i + (n - k) <= n - k) /\ (i + (n - k)) - (n - k) = i
      BY <1>1, <2>2
    <3>2. r[i + (n - k)] = s[i]
      BY <1>12, <3>1
    <3>3. QED
      BY <3>1, <3>2
  <2>3. QED
    BY <2>1, <2>2
<1>18. QED
  <2>1. DOMAIN s = 1..n
    BY <1>1 DEF n
  <2>2. ASSUME NEW e \in ToSet(r)
        PROVE  e \in ToSet(s)
    BY <1>13, <1>16 DEF ToSet
  <2>3. ASSUME NEW e \in ToSet(s)
        PROVE  e \in ToSet(r)
    BY <1>13, <1>17, <2>1 DEF ToSet
  <2>4. QED
    BY <1>11, <1>15, <2>2, <2>3 DEF r

\* A new element at the end.
LEMMA OneMore ==
    ASSUME NEW S, NEW D, NEW s \in Seq(S), NEW e \in S, PlacedOnce(s, D),
           e \in D \/ e \notin ToSet(s)
    PROVE  /\ Append(s, e) \in Seq(S) /\ PlacedOnce(Append(s, e), D)
           /\ ToSet(Append(s, e)) = ToSet(s) \cup {e}
<1> DEFINE r == Append(s, e)
<1>1. /\ r \in Seq(S) /\ Len(r) = Len(s) + 1
      /\ \A i \in 1..Len(s) : r[i] = s[i]
      /\ r[Len(s) + 1] = e
  BY AppendProperties
<1> HIDE DEF r
<1>2. Len(s) \in Nat /\ DOMAIN s = 1..Len(s) /\ DOMAIN r = 1..(Len(s) + 1)
  BY <1>1, LenProperties
<1>3. \A i \in 1..Len(s) : s[i] # e \/ e \in D
  BY <1>2 DEF ToSet
<1>4. \A i \in 1..(Len(s) + 1) : i \in 1..Len(s) \/ i = Len(s) + 1
  BY <1>2
<1>5. \A i, j \in 1..Len(s) : s[i] = s[j] => i = j \/ s[i] \in D
  BY <1>2 DEF PlacedOnce
<1>6. PlacedOnce(r, D)
  BY <1>1, <1>2, <1>3, <1>4, <1>5 DEF PlacedOnce
<1>7. Len(s) + 1 \in 1..(Len(s) + 1) /\ \A i \in 1..Len(s) : i \in 1..(Len(s) + 1)
  BY <1>2
<1>8. ToSet(r) = ToSet(s) \cup {e}
  BY <1>1, <1>2, <1>4, <1>7 DEF ToSet
<1>9. QED
  BY <1>1, <1>6, <1>8 DEF r

-----------------------------------------------------------------------------
(* The rotation *)

ProxyInv == ProxyTypeOK /\ RotationIsWhole

\* A rotation loses no proxy: when one is healthy it is in the queue.
LEMMA PickedWhole ==
    ASSUME ProxyInv, NEW p \in Proxies, Picks(p)
    PROVE  ProxyInv'
<1>1. /\ queue \in Seq(Proxies) /\ PlacedOnce(queue, Repeated)
      /\ Members \subseteq ToSet(queue) /\ ToSet(queue) \subseteq Members \cup Repeated
  BY DEF ProxyInv, ProxyTypeOK, RotationIsWhole, PlacedOnce
<1>2. UNCHANGED <<pool, checks>>
  BY DEF Picks
<1>3. CASE UNCHANGED queue
  BY <1>2, <1>3 DEF ProxyInv, ProxyTypeOK, RotationIsWhole, Members
<1>4. CASE queue' = Rotated
  <2> DEFINE I == {i \in DOMAIN queue : queue[i] \in Healthy}
  <2>1. DOMAIN queue = 1..Len(queue) /\ Len(queue) \in Nat
    BY <1>1, LenProperties
  <2>2. I \in SUBSET Nat
    BY <2>1
  <2>3. PICK q \in Members : q \in Healthy
    BY DEF Picks, Healthy
  <2>4. \E i \in DOMAIN queue : queue[i] = q
    BY <1>1, <2>3 DEF ToSet
  <2>5. I # {}
    BY <2>3, <2>4
  <2>6. FirstHealthy \in I
    BY <2>2, <2>5, LeastIsThere DEF FirstHealthy
  <2>7. FirstHealthy \in 1..Len(queue)
    BY <2>1, <2>6
  <2>8. queue' \in Seq(Proxies) /\ PlacedOnce(queue', Repeated) /\ ToSet(queue') = ToSet(queue)
    <3>1. queue \in Seq(Proxies) /\ PlacedOnce(queue, Repeated)
      BY <1>1
    <3>2. queue' = Turned(queue, FirstHealthy)
      BY <1>4 DEF Rotated, Turned
    <3>3. QED
      BY <2>7, <3>1, <3>2, RotatedOnce
  <2>9. QED
    BY <1>1, <1>2, <2>8 DEF ProxyInv, ProxyTypeOK, RotationIsWhole, PlacedOnce, Members
<1>5. QED
  BY <1>3, <1>4 DEF Picks

\* A report changes what is kept of a proxy, and not which are in the pool.
LEMMA ReportedWhole ==
    ASSUME ProxyInv, UNCHANGED <<queue, checks>>,
           UNCHANGED pool \/ \E p : pool' = WithSuccess(p) \/ pool' = WithFailure(p)
    PROVE  ProxyInv'
<1>1. PICK P \in SUBSET Proxies : pool \in [P -> Entry]
  BY DEF ProxyInv, ProxyTypeOK
<1>2. \A p : WithSuccess(p) \in [P -> Entry]
  BY <1>1, ProxyAssumption DEF WithSuccess, Members, Entry
<1>3. \A p : WithFailure(p) \in [P -> Entry]
  BY <1>1, ProxyAssumption DEF WithFailure, Members, Entry, Lesser
<1>4. pool' \in [P -> Entry]
  BY <1>1, <1>2, <1>3
<1>5. Members' = Members
  BY <1>1, <1>4 DEF Members
<1>6. QED
  BY <1>4, <1>5 DEF ProxyInv, ProxyTypeOK, RotationIsWhole

\* add() puts a proxy in both.
LEMMA AddedWhole ==
    ASSUME ProxyInv, NEW p \in Proxies, AddProxy(p)
    PROVE  ProxyInv'
<1>1. PICK P \in SUBSET Proxies : pool \in [P -> Entry]
  BY DEF ProxyInv, ProxyTypeOK
<1>2. NewEntry \in Entry
  BY ProxyAssumption DEF NewEntry, Entry
<1>3. pool' \in [P \cup {p} -> Entry]
  BY <1>1, <1>2 DEF AddProxy, Members
<1>4. Members' = Members \cup {p} /\ p \notin Members
  BY DEF AddProxy, Members
<1>5. /\ queue \in Seq(Proxies) /\ PlacedOnce(queue, Repeated)
      /\ Members \subseteq ToSet(queue) /\ ToSet(queue) \subseteq Members \cup Repeated
  BY DEF ProxyInv, ProxyTypeOK, RotationIsWhole, PlacedOnce
<1>6. queue' \in Seq(Proxies) /\ PlacedOnce(queue', Repeated) /\ ToSet(queue') = ToSet(queue) \cup {p}
  BY <1>4, <1>5, OneMore DEF AddProxy
<1>7. P \cup {p} \in SUBSET Proxies
  OBVIOUS
<1>8. ProxyTypeOK'
  BY <1>3, <1>6, <1>7 DEF ProxyInv, ProxyTypeOK, AddProxy
<1>9. QED
  BY <1>4, <1>5, <1>6, <1>8 DEF ProxyInv, RotationIsWhole, PlacedOnce

\* remove() takes it out of both: its first place in the queue, which is the only
\* one unless the caller's list repeats it.
LEMMA RemovedWhole ==
    ASSUME ProxyInv, NEW p \in Proxies, RemoveProxy(p)
    PROVE  ProxyInv'
<1>1. PICK P \in SUBSET Proxies : pool \in [P -> Entry]
  BY DEF ProxyInv, ProxyTypeOK
<1>2. pool' \in [P \ {p} -> Entry]
  BY <1>1 DEF RemoveProxy, Members
<1>3. Members' = Members \ {p}
  BY DEF RemoveProxy, Members
<1>4. /\ queue \in Seq(Proxies) /\ PlacedOnce(queue, Repeated)
      /\ Members \subseteq ToSet(queue) /\ ToSet(queue) \subseteq Members \cup Repeated
  BY DEF ProxyInv, ProxyTypeOK, RotationIsWhole, PlacedOnce
<1>5. /\ queue' \in Seq(Proxies) /\ PlacedOnce(queue', Repeated)
      /\ ToSet(queue) \ {p} \subseteq ToSet(queue') /\ ToSet(queue') \subseteq ToSet(queue)
      /\ p \in Repeated \/ p \notin ToSet(queue')
  <2> DEFINE I == {i \in 1..Len(queue) : queue[i] = p}
             k == Min(I)
  <2>1. Len(queue) \in Nat /\ DOMAIN queue = 1..Len(queue)
    BY <1>4, LenProperties
  <2>2. \E i \in 1..Len(queue) : queue[i] = p
    <3>1. p \in ToSet(queue)
      BY <1>4 DEF RemoveProxy
    <3>2. QED
      BY <2>1, <3>1 DEF ToSet
  <2>3. I \in SUBSET Nat /\ I # {}
    BY <2>1, <2>2
  <2>4. k \in I
    BY <2>3, LeastIsThere
  <2>5. queue' = RemoveAt(queue, k)
    BY <2>2, <2>3 DEF RemoveProxy, RemoveFirst, SelectInSeq
  <2>6. k \in 1..Len(queue) /\ queue[k] = p
    BY <2>4
  <2> HIDE DEF k, I
  <2>7. queue' \in Seq(Proxies) /\ Drops(queue', queue, k)
    BY <1>4, <2>5, <2>6, RemovedAt
  <2>8. QED
    BY <1>4, <2>6, <2>7, DroppedOne
<1>6. checks' \in [Proxies -> Check]
  BY DEF RemoveProxy, Check, ProxyInv, ProxyTypeOK
<1>7. QED
  <2>1. ProxyTypeOK'
    BY <1>2, <1>5, <1>6 DEF ProxyInv, ProxyTypeOK
  <2>2. RotationIsWhole'
    BY <1>3, <1>4, <1>5 DEF RotationIsWhole, PlacedOnce
  <2>3. QED
    BY <2>1, <2>2 DEF ProxyInv

\* Nothing else that happens to the pool changes which proxies it has.
LEMMA UpkeptWhole ==
    ASSUME ProxyInv, Upkeep
    PROVE  ProxyInv'
<1>1. PICK P \in SUBSET Proxies : pool \in [P -> Entry]
  BY DEF ProxyInv, ProxyTypeOK
<1>2. checks \in [Proxies -> Check]
  BY DEF ProxyInv, ProxyTypeOK
<1>3. ASSUME UNCHANGED queue, pool' \in [P -> Entry], checks' \in [Proxies -> Check]
      PROVE  ProxyInv'
  <2>1. Members' = Members
    BY <1>1, <1>3 DEF Members
  <2>2. QED
    BY <1>3, <2>1 DEF ProxyInv, ProxyTypeOK, RotationIsWhole
<1>4. CASE CheckAll
  <2>1. checks' \in [Proxies -> Check]
    BY <1>4 DEF CheckAll, Check
  <2>2. QED
    BY <1>1, <1>3, <1>4, <2>1 DEF CheckAll
<1>5. ASSUME NEW p \in Proxies, QuarantineEnds(p)
      PROVE  ProxyInv'
  <2>1. pool' \in [P -> Entry]
    BY <1>1, <1>5 DEF QuarantineEnds, Members, Entry
  <2>2. QED
    BY <1>2, <1>3, <1>5, <2>1 DEF QuarantineEnds
<1>6. ASSUME NEW p \in Proxies, Checked(p)
      PROVE  ProxyInv'
  <2>1. checks' \in [Proxies -> Check]
    BY <1>2, <1>6 DEF Checked, Check
  <2>2. NewEntry \in Entry
    BY ProxyAssumption DEF NewEntry, Entry
  <2>3. [pool EXCEPT ![p] = NewEntry] \in [P -> Entry]
    BY <1>1, <2>2
  <2>4. WithFailure(p) \in [P -> Entry]
    BY <1>1, ProxyAssumption DEF WithFailure, Members, Entry, Lesser
  <2>5. pool' \in [P -> Entry]
    BY <1>1, <1>6, <2>3, <2>4 DEF Checked
  <2>6. QED
    BY <1>3, <1>6, <2>1, <2>5 DEF Checked
<1>7. QED
  BY <1>4, <1>5, <1>6, AddedWhole, RemovedWhole DEF Upkeep

\* Initially the queue is the caller's list, and the pool what is in it.
LEMMA ProxyInitWhole ==
    ASSUME ProxyInit
    PROVE  ProxyInv
<1>1. NewEntry \in Entry
  BY ProxyAssumption DEF NewEntry, Entry
<1>2. DOMAIN ProxyList = 1..Len(ProxyList) /\ \A i \in 1..Len(ProxyList) : ProxyList[i] \in Proxies
  BY ProxyAssumption, LenProperties, ElementOfSeq
<1>3. ToSet(ProxyList) \in SUBSET Proxies
  BY ListedProxies
<1>4. pool \in [ToSet(ProxyList) -> Entry] /\ Members = ToSet(ProxyList)
  BY <1>1 DEF ProxyInit, Members
<1>5. queue = ProxyList /\ queue \in Seq(Proxies) /\ checks \in [Proxies -> Check]
  BY ProxyAssumption DEF ProxyInit, Check
<1>6. \A i, j \in DOMAIN ProxyList :
         ProxyList[i] = ProxyList[j] => i = j \/ ProxyList[i] \in Repeated
  BY <1>2 DEF Repeated
<1>7. QED
  BY <1>3, <1>4, <1>5, <1>6 DEF ProxyInv, ProxyTypeOK, RotationIsWhole

\* What a step of a worker does to the proxies.
LEMMA WorkerProxies ==
    ASSUME ProxyInv, NEW w \in Workers,
           \/ \E h \in Hosts : Begin(w, h)
           \/ NoProxiesAvailable(w) \/ Proceed(w) \/ Cancel(w)
    PROVE  ProxyInv'
<1>1. UNCHANGED pool \/ \E p : pool' = WithSuccess(p) \/ pool' = WithFailure(p)
  BY WorkerReports
<1>2. ASSUME NEW h \in Hosts, Begin(w, h)
      PROVE  ProxyInv'
  BY <1>2, PickedWhole DEF Begin
<1>3. CASE NoProxiesAvailable(w) \/ Cancel(w) \/ Parse(w)
  BY <1>1, <1>3, ReportedWhole DEF NoProxiesAvailable, Cancel, Parse, Raises
<1>4. CASE ToBrowser(w) \/ GetHostFetcher(w) \/ Evicted(w) \/ WarmedUp(w) \/ Reopened(w) \/ Swapped(w)
  BY <1>1, <1>4, ReportedWhole
  DEF ToBrowser, GetHostFetcher, Evicted, WarmedUp, Reopened, Swapped, Same
<1>5. CASE RequestFails(w) \/ BrowserFails(w)
  BY <1>1, <1>5, ReportedWhole DEF RequestFails, BrowserFails, Raises, Account, Same
<1>6. ASSUME NEW a \in Answers, Answered(w, a)
      PROVE  ProxyInv'
  BY <1>1, <1>6, ReportedWhole DEF Answered, Unprotected, Account
<1>7. ASSUME NEW a \in Answers, AnsweredAgain(w, a) \/ Browsed(w, a)
      PROVE  ProxyInv'
  BY <1>1, <1>7, ReportedWhole DEF AnsweredAgain, Browsed, Account, Same
<1>8. QED
  BY <1>2, <1>3, <1>4, <1>5, <1>6, <1>7 DEF Proceed

-----------------------------------------------------------------------------
(* The fetchers that are kept *)

Pair == Hosts \X FetcherIds

\* The fetchers t: of each host one at most.
TracksOK(t) ==
    /\ t \in Seq(Pair)
    /\ \A a, b \in DOMAIN t : t[a][1] = t[b][1] => a = b

\* What it is to be tracked, by index.
LEMMA TrackedByIndex ==
    ASSUME NEW t, TracksOK(t)
    PROVE  /\ Len(t) \in Nat /\ DOMAIN t = 1..Len(t)
           /\ \A a \in 1..Len(t) : t[a] \in Pair /\ t[a] = <<t[a][1], t[a][2]>>
                                   /\ t[a][1] \in Hosts /\ t[a][2] \in FetcherIds
           /\ \A f : f \in Tracks(t) <=> \E a \in 1..Len(t) : t[a][2] = f
           /\ \A h, f : f \in Of(t, h) <=> \E a \in 1..Len(t) : t[a][1] = h /\ t[a][2] = f
<1>1. Len(t) \in Nat /\ DOMAIN t = 1..Len(t)
  BY LenProperties DEF TracksOK
<1>2. ASSUME NEW a \in 1..Len(t)
      PROVE  t[a] \in Pair
  BY ElementOfSeq DEF TracksOK
<1>3. \A e \in Pair : e = <<e[1], e[2]>> /\ e[1] \in Hosts /\ e[2] \in FetcherIds
  BY DEF Pair
<1>4. \A f : f \in Tracks(t) <=> \E a \in 1..Len(t) : t[a][2] = f
  BY <1>1 DEF Tracks, ToSet
<1>5. \A h, f : f \in Of(t, h) <=> \E a \in 1..Len(t) : t[a][1] = h /\ t[a][2] = f
  BY <1>1 DEF Of, ToSet
<1>6. QED
  BY <1>1, <1>2, <1>3, <1>4, <1>5

\* A host has one fetcher at most, and it is tracked.
LEMMA OneOfHost ==
    ASSUME NEW t, TracksOK(t), NEW h
    PROVE  /\ \A f, g \in Of(t, h) : f = g
           /\ Of(t, h) \subseteq Tracks(t)
           /\ Tracks(t) \subseteq FetcherIds
<1>1. \A f, g \in Of(t, h) : f = g
  <2>1. SUFFICES ASSUME NEW f \in Of(t, h), NEW g \in Of(t, h)
                 PROVE  f = g
    OBVIOUS
  <2>2. PICK a \in DOMAIN t : t[a][1] = h /\ t[a][2] = f
    BY TrackedByIndex
  <2>3. PICK b \in DOMAIN t : t[b][1] = h /\ t[b][2] = g
    BY TrackedByIndex
  <2>4. a = b
    BY <2>2, <2>3 DEF TracksOK
  <2>5. QED
    BY <2>2, <2>3, <2>4
<1>2. \A f \in Of(t, h) : f \in Tracks(t)
  BY TrackedByIndex
<1>3. \A f \in Tracks(t) : f \in FetcherIds
  BY TrackedByIndex
<1>4. QED
  BY <1>1, <1>2, <1>3

\* Without the i-th of them the others are kept as they were.
LEMMA DroppedPair ==
    ASSUME NEW t, TracksOK(t), NEW r \in Seq(Pair), NEW i \in 1..Len(t), Drops(r, t, i)
    PROVE  /\ TracksOK(r)
           /\ Tracks(r) \subseteq Tracks(t)
           /\ \A f \in Tracks(t) : f \in Tracks(r) \/ f = t[i][2]
           /\ Of(r, t[i][1]) = {}
<1>1. Len(t) \in Nat /\ DOMAIN t = 1..Len(t) /\ DOMAIN r = 1..Len(r) /\ Len(r) = Len(t) - 1
  BY TrackedByIndex, LenProperties DEF Drops
<1>2. ASSUME NEW a \in 1..Len(r)
      PROVE  \E x \in 1..Len(t) : /\ r[a] = t[x] /\ x # i
                                  /\ x = IF a < i THEN a ELSE a + 1
  <2>1. r[a] = t[IF a < i THEN a ELSE a + 1]
    BY DEF Drops
  <2>2. (IF a < i THEN a ELSE a + 1) \in 1..Len(t) /\ (IF a < i THEN a ELSE a + 1) # i
    BY <1>1
  <2>3. QED
    BY <2>1, <2>2
<1>3. ASSUME NEW x \in 1..Len(t), x # i
      PROVE  \E a \in 1..Len(r) : r[a] = t[x]
  <2>1. CASE x < i
    <3>1. x \in 1..Len(r)
      BY <1>1, <2>1
    <3>2. QED
      BY <2>1, <3>1 DEF Drops
  <2>2. CASE ~(x < i)
    <3>1. x - 1 \in 1..Len(r) /\ ~(x - 1 < i) /\ (x - 1) + 1 = x
      BY <1>1, <1>3, <2>2
    <3>2. r[x - 1] = t[x]
      BY <3>1 DEF Drops
    <3>3. QED
      BY <3>1, <3>2
  <2>3. QED
    BY <2>1, <2>2
<1>4. \A x, y \in 1..Len(t) : t[x][1] = t[y][1] => x = y
  BY <1>1 DEF TracksOK
<1>5. TracksOK(r)
  <2>1. SUFFICES ASSUME NEW a \in 1..Len(r), NEW b \in 1..Len(r), r[a][1] = r[b][1]
                 PROVE  a = b
    BY <1>1 DEF TracksOK
  <2>2. PICK x \in 1..Len(t) : r[a] = t[x] /\ x = IF a < i THEN a ELSE a + 1
    BY <1>2
  <2>3. PICK y \in 1..Len(t) : r[b] = t[y] /\ y = IF b < i THEN b ELSE b + 1
    BY <1>2
  <2>4. x = y
    BY <1>4, <2>1, <2>2, <2>3
  <2>5. QED
    BY <1>1, <2>2, <2>3, <2>4
<1>6. \A f \in Tracks(r) : f \in Tracks(t)
  <2>1. SUFFICES ASSUME NEW f \in Tracks(r) PROVE f \in Tracks(t)
    OBVIOUS
  <2>2. PICK a \in 1..Len(r) : r[a][2] = f
    BY <1>5, TrackedByIndex
  <2>3. PICK x \in 1..Len(t) : r[a] = t[x]
    BY <1>2
  <2>4. QED
    BY <2>2, <2>3, TrackedByIndex
<1>7. \A f \in Tracks(t) : f \in Tracks(r) \/ f = t[i][2]
  <2>1. SUFFICES ASSUME NEW f \in Tracks(t), f # t[i][2] PROVE f \in Tracks(r)
    OBVIOUS
  <2>2. PICK x \in 1..Len(t) : t[x][2] = f
    BY TrackedByIndex
  <2>3. PICK a \in 1..Len(r) : r[a] = t[x]
    BY <1>3, <2>1, <2>2
  <2>4. QED
    BY <1>5, <2>2, <2>3, TrackedByIndex
<1>8. Of(r, t[i][1]) = {}
  <2>1. SUFFICES ASSUME NEW f \in Of(r, t[i][1]) PROVE FALSE
    OBVIOUS
  <2>2. PICK a \in 1..Len(r) : r[a][1] = t[i][1]
    BY <1>5, <2>1, TrackedByIndex
  <2>3. PICK x \in 1..Len(t) : r[a] = t[x] /\ x # i
    BY <1>2
  <2>4. QED
    BY <1>4, <2>2, <2>3
<1>9. QED
  BY <1>5, <1>6, <1>7, <1>8

\* pop(h) leaves the others, and no fetcher of h.
LEMMA WithoutHost ==
    ASSUME NEW t, TracksOK(t), NEW h
    PROVE  /\ TracksOK(Without(t, h))
           /\ Tracks(Without(t, h)) \subseteq Tracks(t)
           /\ \A f \in Tracks(t) : f \in Tracks(Without(t, h)) \/ f \in Of(t, h)
           /\ Of(Without(t, h), h) = {}
<1> DEFINE I == {i \in 1..Len(t) : t[i][1] = h}
           k == Min(I)
<1>1. CASE \A i \in 1..Len(t) : t[i][1] # h
  <2>1. Without(t, h) = t
    BY <1>1 DEF Without, RemoveFirstMatch
  <2>2. Of(t, h) = {}
    BY <1>1, TrackedByIndex
  <2>3. QED
    BY <2>1, <2>2
<1>2. CASE \E i \in 1..Len(t) : t[i][1] = h
  <2>1. Len(t) \in Nat /\ t \in Seq(Pair)
    BY TrackedByIndex DEF TracksOK
  <2>2. I \in SUBSET Nat /\ I # {}
    BY <1>2, <2>1
  <2>3. k \in I
    BY <2>2, LeastIsThere
  <2>4. Without(t, h) = RemoveAt(t, k)
    BY <1>2, <2>2 DEF Without, RemoveFirstMatch, SelectInSeq
  <2>5. k \in 1..Len(t) /\ t[k][1] = h
    BY <2>3
  <2> HIDE DEF k, I
  <2>6. Without(t, h) \in Seq(Pair) /\ Drops(Without(t, h), t, k)
    BY <2>1, <2>4, <2>5, RemovedAt
  <2>7. t[k][2] \in Of(t, h)
    BY <2>5, TrackedByIndex
  <2>8. QED
    BY <2>5, <2>6, <2>7, DroppedPair
<1>3. QED
  BY <1>1, <1>2

\* A fetcher of a host that has none goes to the end.
LEMMA AppendedPair ==
    ASSUME NEW t, TracksOK(t), NEW h \in Hosts, NEW f \in FetcherIds, Of(t, h) = {}
    PROVE  /\ TracksOK(Append(t, <<h, f>>))
           /\ Tracks(Append(t, <<h, f>>)) = Tracks(t) \cup {f}
           /\ Append(t, <<h, f>>) # <<>>
           /\ Len(Append(t, <<h, f>>)) = Len(t) + 1
<1> DEFINE r == Append(t, <<h, f>>)
           n == Len(t)
<1>1. n \in Nat /\ DOMAIN t = 1..n /\ t \in Seq(Pair)
  BY TrackedByIndex DEF TracksOK
<1>2. <<h, f>> \in Pair
  BY DEF Pair
<1>3. /\ r \in Seq(Pair) /\ r # <<>> /\ Len(r) = n + 1
      /\ \A i \in 1..n : r[i] = t[i]
      /\ r[n + 1] = <<h, f>>
  BY <1>1, <1>2, AppendProperties
<1> HIDE DEF r, n
<1>4. DOMAIN r = 1..(n + 1)
  BY <1>3, LenProperties
<1>5. \A i \in 1..(n + 1) : i \in 1..n \/ i = n + 1
  BY <1>1
<1>6. \A i \in 1..n : t[i][1] # h
  <2>1. SUFFICES ASSUME NEW i \in 1..n, t[i][1] = h PROVE FALSE
    OBVIOUS
  <2>2. t[i][2] \in Of(t, h)
    BY <2>1, TrackedByIndex, ZenonT(40) DEF n
  <2>3. QED
    BY <2>2
<1>7. \A a, b \in 1..n : t[a][1] = t[b][1] => a = b
  BY <1>1 DEF TracksOK
<1>8. TracksOK(r)
  <2>1. SUFFICES ASSUME NEW a \in 1..(n + 1), NEW b \in 1..(n + 1), r[a][1] = r[b][1]
                 PROVE  a = b
    BY <1>3, <1>4 DEF TracksOK
  <2>2. r[n + 1][1] = h
    BY <1>3
  <2>3. CASE a \in 1..n /\ b \in 1..n
    BY <1>3, <1>7, <2>1, <2>3
  <2>4. CASE a \in 1..n /\ b = n + 1
    BY <1>3, <1>6, <2>1, <2>2, <2>4
  <2>5. CASE a = n + 1 /\ b \in 1..n
    BY <1>3, <1>6, <2>1, <2>2, <2>5
  <2>6. QED
    BY <1>5, <2>3, <2>4, <2>5
<1>9. \A e : e \in Tracks(t) <=> \E a \in 1..n : t[a][2] = e
  BY TrackedByIndex DEF n
<1>10. \A e : e \in Tracks(r) <=> \E a \in 1..(n + 1) : r[a][2] = e
  BY <1>3, <1>8, TrackedByIndex
<1>11. \A e : e \in Tracks(r) <=> e \in Tracks(t) \cup {f}
  <2>1. r[n + 1][2] = f /\ n + 1 \in 1..(n + 1) /\ \A a \in 1..n : a \in 1..(n + 1)
    BY <1>1, <1>3
  <2>2. ASSUME NEW e \in Tracks(r)
        PROVE  e \in Tracks(t) \cup {f}
    BY <1>3, <1>5, <1>9, <1>10, <2>1
  <2>3. ASSUME NEW e \in Tracks(t) \cup {f}
        PROVE  e \in Tracks(r)
    BY <1>3, <1>9, <1>10, <2>1
  <2>4. QED
    BY <2>2, <2>3
<1>12. Tracks(r) = Tracks(t) \cup {f}
  BY <1>11
<1>13. QED
  BY <1>3, <1>8, <1>12 DEF r, n

\* The oldest goes.
LEMMA TailOfPairs ==
    ASSUME NEW t, TracksOK(t), t # <<>>
    PROVE  /\ TracksOK(Tail(t))
           /\ Tracks(Tail(t)) \subseteq Tracks(t)
           /\ \A f \in Tracks(t) : f \in Tracks(Tail(t)) \/ f = Head(t)[2]
           /\ Len(Tail(t)) = Len(t) - 1
<1>1. t \in Seq(Pair) /\ Len(t) \in Nat
  BY TrackedByIndex DEF TracksOK
<1>2. /\ Tail(t) \in Seq(Pair)
      /\ Len(Tail(t)) = Len(t) - 1
      /\ \A i \in 1..Len(Tail(t)) : Tail(t)[i] = t[i + 1]
  BY <1>1, HeadTailProperties
<1>3. 1 \in 1..Len(t)
  BY <1>1, EmptySeq
<1>4. Drops(Tail(t), t, 1)
  <2>1. \A i \in 1..Len(Tail(t)) : ~(i < 1)
    BY <1>1, <1>2
  <2>2. QED
    BY <1>2, <2>1 DEF Drops
<1>5. Head(t) = t[1]
  BY DEF Head
<1>6. QED
  BY <1>2, <1>3, <1>4, <1>5, DroppedPair

\* _host_fetchers[h] = f tracks f, and keeps the others unless h had one.
LEMMA TrackedPair ==
    ASSUME NEW t, TracksOK(t), NEW h \in Hosts, NEW f \in FetcherIds
    PROVE  /\ TracksOK(Track(t, h, f))
           /\ Of(t, h) = {} => Tracks(t) \cup {f} = Tracks(Track(t, h, f))
<1>1. CASE Of(t, h) = {}
  BY <1>1, AppendedPair DEF Track
<1>2. CASE Of(t, h) # {}
  <2> DEFINE r == [i \in DOMAIN t |-> IF t[i][1] = h THEN <<h, f>> ELSE t[i]]
  <2>1. Track(t, h, f) = r
    BY <1>2 DEF Track
  <2>2. <<h, f>> \in Pair /\ <<h, f>>[1] = h
    BY DEF Pair
  <2>3. DOMAIN t = 1..Len(t) /\ Len(t) \in Nat /\ \A i \in 1..Len(t) : t[i] \in Pair
    BY TrackedByIndex
  <2>4. r \in [1..Len(t) -> Pair]
    BY <2>2, <2>3
  <2>5. r \in Seq(Pair) /\ DOMAIN r = DOMAIN t
    BY <2>3, <2>4 DEF Seq
  <2>6. \A i \in DOMAIN t : r[i][1] = t[i][1]
    BY <2>2
  <2>7. TracksOK(r)
    BY <2>5, <2>6 DEF TracksOK
  <2>8. QED
    BY <1>2, <2>1, <2>7
<1>3. QED
  BY <1>1, <1>2

\* The image of a finite set under a function is no larger.
LEMMA ImageIsSmall ==
    ASSUME NEW S, IsFiniteSet(S), NEW g, g = [s \in S |-> g[s]]
    PROVE  IsFiniteSet({g[s] : s \in S}) /\ Cardinality({g[s] : s \in S}) <= Cardinality(S)
<1> DEFINE T == {g[s] : s \in S}
<1>1. g \in [S -> T]
  OBVIOUS
<1>2. \A t \in T : \E s \in S : g[s] = t
  OBVIOUS
<1> HIDE DEF T
<1>3. g \in Surjection(S, T)
  BY <1>1, <1>2 DEF Surjection
<1>4. IsFiniteSet(T) /\ Cardinality(T) <= Cardinality(S)
  BY <1>3, FS_Surjection
<1>5. QED
  BY <1>4 DEF T

\* No more fetchers are tracked than there are hosts.
LEMMA TrackedFew ==
    ASSUME NEW t, TracksOK(t)
    PROVE  IsFiniteSet(Tracks(t)) /\ Cardinality(Tracks(t)) <= Cardinality(Hosts)
<1> DEFINE n == Len(t)
           g == [a \in 1..n |-> t[a][1]]
           e == [a \in 1..n |-> t[a][2]]
           D == {e[a] : a \in 1..n}
<1>1. n \in Nat /\ DOMAIN t = 1..n /\ \A a \in 1..n : t[a][1] \in Hosts
  BY TrackedByIndex
<1>2. IsFiniteSet(1..n) /\ Cardinality(1..n) = n
  BY <1>1, FS_Interval
<1>3. g \in [1..n -> Hosts] /\ \A a, b \in 1..n : g[a] = g[b] => a = b
  BY <1>1 DEF TracksOK
<1>4. g \in Injection(1..n, Hosts)
  BY <1>3 DEF Injection, IsInjective
<1>5. Cardinality(1..n) <= Cardinality(Hosts)
  BY <1>4, FetchAssumption, FS_Injection
<1>6. e = [a \in 1..n |-> e[a]]
  OBVIOUS
<1>7. \A f : f \in Tracks(t) <=> f \in D
  BY TrackedByIndex
<1>8. Tracks(t) = D
  BY <1>7
<1> HIDE DEF e, n
<1>9. IsFiniteSet(D) /\ Cardinality(D) <= Cardinality(1..n)
  BY <1>2, <1>6, ImageIsSmall
<1> HIDE DEF D
<1>10. Cardinality(D) \in Nat /\ Cardinality(Hosts) \in Nat
  BY <1>9, FetchAssumption, FS_CardinalityType
<1>11. QED
  BY <1>1, <1>2, <1>5, <1>8, <1>9, <1>10

-----------------------------------------------------------------------------
(* The pages *)

\* Stages of a page that has a fetcher.
Fetching == {"evict", "warmup", "request", "rewarm"}

JobOK(x) ==
    /\ x \in Job \cup {Idle}
    /\ x.stage = "parse" => x.best = None
    /\ x.stage \in Fetching => x.fetcher \in FetcherIds

JobsOK(j) ==
    /\ DOMAIN j = Workers /\ j = [w \in Workers |-> j[w]]
    /\ \A w \in Workers : JobOK(j[w])

\* There is a number for a new fetcher: no more are referred to than there are
\* hosts and workers.
LEMMA NumberIsFree ==
    ASSUME TracksOK(tracked), JobsOK(job)
    PROVE  Number \in FetcherIds
<1> DEFINE A == Tracks(tracked)
           B == {job[w].fetcher : w \in Workers}
           g == [w \in Workers |-> job[w].fetcher]
           C == {g[w] : w \in Workers}
           h == Cardinality(Hosts)
           n == Cardinality(Workers)
           S == FetcherIds \ (A \cup B)
<1>1. h \in Nat /\ n \in Nat
  BY FetchAssumption, FS_CardinalityType
<1>2. IsFiniteSet(A) /\ Cardinality(A) <= h
  BY TrackedFew
<1>3. IsFiniteSet(B) /\ Cardinality(B) <= n
  <2>1. g = [w \in Workers |-> g[w]]
    OBVIOUS
  <2>2. B = C
    OBVIOUS
  <2> HIDE DEF g, B
  <2>3. IsFiniteSet(C) /\ Cardinality(C) <= n
    BY <2>1, FetchAssumption, ImageIsSmall
  <2>4. QED
    BY <2>2, <2>3
<1> HIDE DEF A, B
<1>4. Cardinality(A) \in Nat /\ Cardinality(B) \in Nat
  BY <1>2, <1>3, FS_CardinalityType
<1>5. IsFiniteSet(A \cap B) /\ Cardinality(A \cap B) \in Nat
  BY <1>2, FS_Intersection, FS_CardinalityType
<1>6. /\ IsFiniteSet(A \cup B)
      /\ Cardinality(A \cup B) = Cardinality(A) + Cardinality(B) - Cardinality(A \cap B)
  BY <1>2, <1>3, FS_Union
<1>7. Cardinality(A \cup B) <= h + n
  BY <1>1, <1>2, <1>3, <1>4, <1>5, <1>6
<1> HIDE DEF h, n
<1>8. FetcherIds = 1..(h + n + 1)
  BY DEF FetcherIds, h, n
<1>9. 1 \in Int /\ h + n + 1 \in Int /\ ~(1 > h + n + 1) /\ h + n + 1 - 1 + 1 = h + n + 1
  BY <1>1
<1>10. Cardinality(FetcherIds) = h + n + 1
  BY <1>8, <1>9, FS_Interval
<1>11. S # {}
  <2>1. SUFFICES ASSUME S = {} PROVE FALSE
    OBVIOUS
  <2>2. FetcherIds \in SUBSET (A \cup B)
    BY <2>1
  <2>3. Cardinality(FetcherIds) <= Cardinality(A \cup B)
    BY <1>6, <2>2, FS_Subset
  <2>4. Cardinality(A \cup B) \in Nat
    BY <1>6, FS_CardinalityType
  <2>5. QED
    BY <1>1, <1>7, <1>10, <2>3, <2>4
<1>12. S \in SUBSET Nat
  BY <1>1, <1>8
<1>13. Min(S) \in S
  BY <1>11, <1>12, LeastIsThere
<1>14. Number = Min(S)
  BY DEF Number, ReferredTo, A, B
<1>15. QED
  BY <1>13, <1>14

\* A page that is under way has all its parts.
LEMMA PageHasParts ==
    ASSUME JobsOK(job), NEW w \in Workers, job[w] # Idle
    PROVE  job[w] \in Job
BY DEF JobsOK, JobOK

\* One page becomes x.
LEMMA OnePage ==
    ASSUME JobsOK(job), NEW w \in Workers, NEW x, JobOK(x)
    PROVE  JobsOK([job EXCEPT ![w] = x])
BY DEF JobsOK

\* One page moves to another stage, with what it needs there.
LEMMA PageMoves ==
    ASSUME JobsOK(job), NEW w \in Workers, job[w] # Idle, NEW s \in Stage \ {"parse"}
    PROVE  /\ s \notin Fetching \/ job[w].fetcher \in FetcherIds
              => JobsOK([job EXCEPT ![w].stage = s])
           /\ \A f \in FetcherIds \cup {0} :
                 s \notin Fetching \/ f \in FetcherIds
                 => /\ JobsOK([job EXCEPT ![w].stage = s, ![w].fetcher = f])
                    /\ JobsOK([[job EXCEPT ![w].fetcher = f] EXCEPT ![w].stage = s])
                    /\ \A a \in Answers :
                          JobsOK([job EXCEPT ![w].stage = s, ![w].fetcher = f, ![w].best = a])
           /\ \A a \in Answers :
                 s \notin Fetching => JobsOK([job EXCEPT ![w].stage = s, ![w].best = a])
<1>1. job[w] \in Job
  BY PageHasParts
<1>2. w \in DOMAIN job /\ DOMAIN job = Workers
  BY DEF JobsOK
<1>3. ASSUME NEW j, DOMAIN j = Workers, j = [v \in Workers |-> j[v]],
             \A v \in Workers \ {w} : j[v] = job[v],
             j[w] \in Job, j[w].stage = s, s \in Fetching => j[w].fetcher \in FetcherIds
      PROVE  JobsOK(j)
  BY <1>3 DEF JobsOK, JobOK
<1>4. ASSUME s \notin Fetching \/ job[w].fetcher \in FetcherIds
      PROVE  JobsOK([job EXCEPT ![w].stage = s])
  <2> DEFINE j == [job EXCEPT ![w].stage = s]
  <2>1. DOMAIN j = Workers /\ j = [v \in Workers |-> j[v]] /\ \A v \in Workers \ {w} : j[v] = job[v]
    BY <1>2
  <2>2. j[w] = [job[w] EXCEPT !.stage = s]
    BY <1>2
  <2> HIDE DEF j
  <2>3. j[w] \in Job /\ j[w].stage = s /\ j[w].fetcher = job[w].fetcher
    BY <1>1, <2>2 DEF Job
  <2>4. JobsOK(j)
    BY <1>3, <1>4, <2>1, <2>3
  <2>5. QED
    BY <2>4 DEF j
<1>5. ASSUME NEW f \in FetcherIds \cup {0}, s \notin Fetching \/ f \in FetcherIds
      PROVE  JobsOK([job EXCEPT ![w].stage = s, ![w].fetcher = f])
  <2> DEFINE j == [job EXCEPT ![w].stage = s, ![w].fetcher = f]
  <2>1. DOMAIN j = Workers /\ j = [v \in Workers |-> j[v]] /\ \A v \in Workers \ {w} : j[v] = job[v]
    BY <1>2
  <2>2. j[w] = [job[w] EXCEPT !.stage = s, !.fetcher = f]
    BY <1>2
  <2> HIDE DEF j
  <2>3. j[w] \in Job /\ j[w].stage = s /\ j[w].fetcher = f
    BY <1>1, <2>2 DEF Job
  <2>4. JobsOK(j)
    BY <1>3, <1>5, <2>1, <2>3
  <2>5. QED
    BY <2>4 DEF j
<1>6. ASSUME NEW f \in FetcherIds \cup {0}, s \notin Fetching \/ f \in FetcherIds
      PROVE  JobsOK([[job EXCEPT ![w].fetcher = f] EXCEPT ![w].stage = s])
  <2> DEFINE j == [[job EXCEPT ![w].fetcher = f] EXCEPT ![w].stage = s]
  <2>1. DOMAIN j = Workers /\ j = [v \in Workers |-> j[v]] /\ \A v \in Workers \ {w} : j[v] = job[v]
    BY <1>2
  <2>2. j[w] = [job[w] EXCEPT !.fetcher = f, !.stage = s]
    BY <1>2
  <2> HIDE DEF j
  <2>3. j[w] \in Job /\ j[w].stage = s /\ j[w].fetcher = f
    BY <1>1, <2>2 DEF Job
  <2>4. JobsOK(j)
    BY <1>3, <1>6, <2>1, <2>3
  <2>5. QED
    BY <2>4 DEF j
<1>7. ASSUME NEW f \in FetcherIds \cup {0}, s \notin Fetching \/ f \in FetcherIds, NEW a \in Answers
      PROVE  JobsOK([job EXCEPT ![w].stage = s, ![w].fetcher = f, ![w].best = a])
  <2> DEFINE j == [job EXCEPT ![w].stage = s, ![w].fetcher = f, ![w].best = a]
  <2>1. DOMAIN j = Workers /\ j = [v \in Workers |-> j[v]] /\ \A v \in Workers \ {w} : j[v] = job[v]
    BY <1>2
  <2>2. j[w] = [job[w] EXCEPT !.stage = s, !.fetcher = f, !.best = a]
    BY <1>2
  <2> HIDE DEF j
  <2>3. j[w] \in Job /\ j[w].stage = s /\ j[w].fetcher = f
    BY <1>1, <2>2 DEF Job
  <2>4. JobsOK(j)
    BY <1>3, <1>7, <2>1, <2>3
  <2>5. QED
    BY <2>4 DEF j
<1>8. ASSUME NEW a \in Answers, s \notin Fetching
      PROVE  JobsOK([job EXCEPT ![w].stage = s, ![w].best = a])
  <2> DEFINE j == [job EXCEPT ![w].stage = s, ![w].best = a]
  <2>1. DOMAIN j = Workers /\ j = [v \in Workers |-> j[v]] /\ \A v \in Workers \ {w} : j[v] = job[v]
    BY <1>2
  <2>2. j[w] = [job[w] EXCEPT !.stage = s, !.best = a]
    BY <1>2
  <2> HIDE DEF j
  <2>3. j[w] \in Job /\ j[w].stage = s
    BY <1>1, <2>2 DEF Job
  <2>4. JobsOK(j)
    BY <1>3, <1>8, <2>1, <2>3
  <2>5. QED
    BY <2>4 DEF j
<1>9. QED
  BY <1>4, <1>5, <1>6, <1>7, <1>8

\* A page ends, or its answer is parsed.
LEMMA PageEnds ==
    ASSUME JobsOK(job), NEW w \in Workers
    PROVE  /\ JobsOK(Done(w))
           /\ job[w] # Idle => \A a : JobsOK(Accounted(w, a))
<1>1. JobOK(Idle)
  BY DEF JobOK, Idle, Fetching
<1>2. JobsOK(Done(w))
  BY <1>1, OnePage DEF Done
<1>3. ASSUME job[w] # Idle, NEW a
      PROVE  JobsOK(Accounted(w, a))
  <2> DEFINE x == [stage |-> "parse", host |-> job[w].host, proxy |-> job[w].proxy,
                   fetcher |-> 0, best |-> None]
  <2>1. job[w] \in Job
    BY <1>3, PageHasParts
  <2>2. JobOK(x)
    BY <2>1 DEF JobOK, Job, Stage, Fetching
  <2>3. JobsOK([job EXCEPT ![w] = x])
    BY <2>2, OnePage
  <2>4. Accounted(w, a) = Done(w) \/ Accounted(w, a) = [job EXCEPT ![w] = x]
    BY DEF Accounted, JobsOK
  <2>5. QED
    BY <1>2, <2>3, <2>4
<1>4. QED
  BY <1>2, <1>3

-----------------------------------------------------------------------------
(* What a step leaves of the fetchers *)

FetchersOK ==
    /\ TracksOK(tracked)
    /\ open \subseteq FetcherIds
    /\ JobsOK(job)
    /\ leaked \in BOOLEAN

\* Nothing leaks as long as what is open is tracked.
Tidy == leaked' => open \ Tracks(tracked) # {}

\* The fetchers become t, those open o, the pages j.
LEMMA BecomeOK ==
    ASSUME NEW t, NEW o, NEW j, Become(t, o, j),
           TracksOK(t), o \subseteq FetcherIds, JobsOK(j)
    PROVE  /\ FetchersOK'
           /\ (open \subseteq Tracks(tracked) => o \subseteq ReferredTo(t, j)) => Tidy
<1>1. leaked' = (o \ ReferredTo(t, j) # {})
  BY DEF Become
<1>2. leaked' \in BOOLEAN
  BY <1>1
<1>3. tracked' = t /\ open' \subseteq o /\ job' = j
  BY DEF Become
<1>4. TracksOK(tracked)'
  BY <1>3 DEF TracksOK
<1>5. JobsOK(job)'
  BY <1>3 DEF JobsOK, JobOK
<1>6. (open \subseteq Tracks(tracked) => o \subseteq ReferredTo(t, j)) => Tidy
  BY <1>1 DEF Tidy
<1>7. QED
  BY <1>2, <1>3, <1>4, <1>5, <1>6 DEF FetchersOK

\* The pages become j, and the fetchers stay.
LEMMA StayingOK ==
    ASSUME FetchersOK, NEW j, Become(tracked, open, j), JobsOK(j)
    PROVE  FetchersOK' /\ Tidy
<1>1. Tracks(tracked) \subseteq ReferredTo(tracked, j)
  BY DEF ReferredTo
<1>2. open \subseteq Tracks(tracked) => open \subseteq ReferredTo(tracked, j)
  BY <1>1
<1>3. TracksOK(tracked) /\ open \subseteq FetcherIds
  BY DEF FetchersOK
<1>4. QED
  BY <1>2, <1>3, BecomeOK

\* The page of w uses f, which it opens if it must, and the fetchers are t,
\* which loses none.
LEMMA OpeningOK ==
    ASSUME FetchersOK, NEW w \in Workers, NEW t, TracksOK(t), NEW f \in FetcherIds,
           NEW j, JobsOK(j), j[w].fetcher = f,
           Become(t, open \cup {f}, j), Tracks(tracked) \subseteq Tracks(t) \cup {f}
    PROVE  FetchersOK' /\ Tidy
<1>1. f \in ReferredTo(t, j) /\ Tracks(t) \subseteq ReferredTo(t, j)
  BY DEF ReferredTo
<1>2. open \subseteq Tracks(tracked) => open \cup {f} \subseteq ReferredTo(t, j)
  BY <1>1
<1>3. open \cup {f} \subseteq FetcherIds
  BY DEF FetchersOK
<1>4. QED
  BY <1>2, <1>3, BecomeOK

\* The oldest of t is closed before it goes, so that an eviction leaks nothing.
LEMMA EvictsOK ==
    ASSUME FetchersOK, NEW w \in Workers, NEW t, TracksOK(t), t # <<>>,
           Tracks(tracked) \subseteq Tracks(t),
           NEW j, JobsOK([j EXCEPT ![w].stage = "evict"]), Evicts(w, t, j)
    PROVE  FetchersOK' /\ Tidy
<1> DEFINE k == [j EXCEPT ![w].stage = "evict"]
           o == open \ {Head(t)[2]}
<1>1. Become(Tail(t), o, k)
  BY DEF Evicts, Close
<1>2. TracksOK(Tail(t)) /\ \A f \in Tracks(t) : f \in Tracks(Tail(t)) \/ f = Head(t)[2]
  BY TailOfPairs
<1>3. JobsOK(k)
  OBVIOUS
<1> HIDE DEF k
<1>4. open \subseteq Tracks(tracked) => o \subseteq ReferredTo(Tail(t), k)
  BY <1>2 DEF ReferredTo
<1>5. o \subseteq FetcherIds
  BY DEF FetchersOK
<1> HIDE DEF o
<1>6. QED
  BY <1>1, <1>2, <1>3, <1>4, <1>5, BecomeOK

\* _get_host_fetcher() takes the fetcher of the host, or makes one: a fetcher
\* that is made may have the oldest evicted.
LEMMA GetHostFetcherOK ==
    ASSUME FetchersOK, NEW w \in Workers, GetHostFetcher(w)
    PROVE  FetchersOK' /\ Tidy
<1> DEFINE h == job[w].host
<1>1. TracksOK(tracked) /\ JobsOK(job) /\ open \subseteq FetcherIds
  BY DEF FetchersOK
<1>2. job[w] # Idle
  BY DEF GetHostFetcher, At, Idle
<1>3. h \in Hosts /\ w \in DOMAIN job /\ DOMAIN job = Workers
  BY <1>1, <1>2, PageHasParts DEF Job, JobsOK
<1>4. job[w] \in Job
  BY <1>1, <1>2, PageHasParts
<1> HIDE DEF h
<1>5. ASSUME NEW f \in Of(tracked, h),
             Become(Append(Without(tracked, h), <<h, f>>), open \cup {f}, Fetches(w, "request", f))
      PROVE  FetchersOK' /\ Tidy
  <2> DEFINE u == Without(tracked, h)
             t == Append(u, <<h, f>>)
             j == Fetches(w, "request", f)
  <2>1. f \in FetcherIds /\ \A g \in Of(tracked, h) : g = f
    BY <1>1, OneOfHost
  <2>2. /\ TracksOK(u) /\ Of(u, h) = {}
        /\ \A g \in Tracks(tracked) : g \in Tracks(u) \/ g \in Of(tracked, h)
    BY <1>1, WithoutHost
  <2> HIDE DEF u
  <2>3. TracksOK(t) /\ Tracks(t) = Tracks(u) \cup {f}
    BY <1>3, <2>1, <2>2, AppendedPair
  <2>4. JobsOK(j)
    BY <1>1, <1>2, <2>1, PageMoves DEF Fetches, Stage
  <2>5. j[w].fetcher = f
    BY <1>3, <1>4 DEF Fetches, Job
  <2>6. Become(t, open \cup {f}, j)
    BY <1>5 DEF u
  <2>7. Tracks(tracked) \subseteq Tracks(t) \cup {f}
    BY <2>1, <2>2, <2>3
  <2> HIDE DEF t, j
  <2>8. QED
    BY <2>1, <2>3, <2>4, <2>5, <2>6, <2>7, OpeningOK
<1>6. ASSUME Of(tracked, h) = {}, NEW t, t = Append(tracked, <<h, Number>>)
      PROVE  /\ Evicts(w, t, [job EXCEPT ![w].fetcher = Number]) => FetchersOK' /\ Tidy
             /\ Become(t, open \cup {Number}, Fetches(w, "warmup", Number)) => FetchersOK' /\ Tidy
  <2>1. Number \in FetcherIds
    BY <1>1, NumberIsFree
  <2>2. TracksOK(t) /\ Tracks(t) = Tracks(tracked) \cup {Number} /\ t # <<>>
    BY <1>1, <1>3, <1>6, <2>1, AppendedPair
  <2>3. JobsOK([[job EXCEPT ![w].fetcher = Number] EXCEPT ![w].stage = "evict"])
    BY <1>1, <1>2, <2>1, PageMoves DEF Stage
  <2>4. JobsOK(Fetches(w, "warmup", Number))
    BY <1>1, <1>2, <2>1, PageMoves DEF Fetches, Stage
  <2>5. Fetches(w, "warmup", Number)[w].fetcher = Number
    BY <1>3, <1>4 DEF Fetches, Job
  <2>6. ASSUME Evicts(w, t, [job EXCEPT ![w].fetcher = Number])
        PROVE  FetchersOK' /\ Tidy
    BY <2>2, <2>3, <2>6, EvictsOK
  <2>7. ASSUME Become(t, open \cup {Number}, Fetches(w, "warmup", Number))
        PROVE  FetchersOK' /\ Tidy
    BY <2>1, <2>2, <2>4, <2>5, <2>7, OpeningOK
  <2>8. QED
    BY <2>6, <2>7
<1>7. QED
  BY <1>5, <1>6 DEF GetHostFetcher, h

\* The oldest go one after the other, until there are not too many; then the
\* fetcher is warmed up.
LEMMA EvictedOK ==
    ASSUME FetchersOK, NEW w \in Workers, Evicted(w)
    PROVE  FetchersOK' /\ Tidy
<1> DEFINE f == job[w].fetcher
<1>1. TracksOK(tracked) /\ JobsOK(job)
  BY DEF FetchersOK
<1>2. job[w].stage = "evict" /\ job[w] # Idle
  BY DEF Evicted, At, Idle
<1>3. job[w] \in Job
  BY <1>1, <1>2, PageHasParts
<1>4. w \in DOMAIN job /\ f \in FetcherIds
  BY <1>1, <1>2 DEF JobsOK, JobOK, Fetching
<1>5. CASE Evicts(w, tracked, job) /\ Len(tracked) > MaxTracked
  <2>1. tracked # <<>>
    <3>1. Len(<<>>) = 0
      BY EmptySeq
    <3>2. QED
      BY <1>5, <3>1, FetchAssumption
  <2>2. JobsOK([job EXCEPT ![w].stage = "evict"])
    BY <1>1, <1>2, <1>4, PageMoves DEF Stage
  <2>3. QED
    BY <1>1, <1>5, <2>1, <2>2, EvictsOK
<1>6. CASE Become(tracked, open \cup {f}, Fetches(w, "warmup", f))
  <2>1. JobsOK(Fetches(w, "warmup", f))
    BY <1>1, <1>2, <1>4, PageMoves DEF Fetches, Stage
  <2>2. Fetches(w, "warmup", f)[w].fetcher = f
    BY <1>3, <1>4 DEF Fetches, Job
  <2> HIDE DEF f
  <2>3. QED
    BY <1>1, <1>4, <1>6, <2>1, <2>2, OpeningOK
<1>7. QED
  BY <1>5, <1>6 DEF Evicted

\* A page fetches with its fetcher, open or not.
LEMMA UsedOK ==
    ASSUME FetchersOK, NEW w \in Workers, WarmedUp(w) \/ Reopened(w)
    PROVE  FetchersOK' /\ Tidy
<1> DEFINE f == job[w].fetcher
<1>1. TracksOK(tracked) /\ JobsOK(job)
  BY DEF FetchersOK
<1>2. job[w].stage \in {"warmup", "rewarm", "request"} /\ job[w] # Idle
  BY DEF WarmedUp, Reopened, At, Idle
<1>3. job[w] \in Job
  BY <1>1, <1>2, PageHasParts
<1>4. w \in DOMAIN job /\ f \in FetcherIds
  BY <1>1, <1>2 DEF JobsOK, JobOK, Fetching
<1>5. JobsOK(Fetches(w, "request", f))
  BY <1>1, <1>2, <1>4, PageMoves DEF Fetches, Stage
<1>6. Fetches(w, "request", f)[w].fetcher = f
  BY <1>3, <1>4 DEF Fetches, Job
<1>7. job[w].fetcher = f
  OBVIOUS
<1>8. Become(tracked, open \cup {f}, Fetches(w, "request", f)) \/ Become(tracked, open \cup {f}, job)
  BY DEF WarmedUp, Reopened
<1> HIDE DEF f
<1>9. QED
  BY <1>1, <1>4, <1>5, <1>6, <1>7, <1>8, OpeningOK

\* The popped fetcher is closed before the page goes on.
LEMMA SwapOK ==
    ASSUME FetchersOK, NEW w \in Workers, job[w] # Idle, NEW a \in Answers, Swap(w, a)
    PROVE  FetchersOK' /\ Tidy
<1> DEFINE h == job[w].host
           j == [job EXCEPT ![w].stage = "swap", ![w].fetcher = 0, ![w].best = a]
           u == Without(tracked, h)
           o == open \ Of(tracked, h)
<1>1. TracksOK(tracked) /\ JobsOK(job) /\ open \subseteq FetcherIds
  BY DEF FetchersOK
<1>2. JobsOK(j)
  BY <1>1, PageMoves DEF Fetching, Stage
<1>3. TracksOK(u) /\ \A g \in Tracks(tracked) : g \in Tracks(u) \/ g \in Of(tracked, h)
  BY <1>1, WithoutHost
<1>4. Become(u, o, j)
  BY DEF Swap, Close
<1> HIDE DEF j, u
<1>5. open \subseteq Tracks(tracked) => o \subseteq ReferredTo(u, j)
  BY <1>3 DEF ReferredTo
<1>6. o \subseteq FetcherIds
  BY <1>1
<1> HIDE DEF o
<1>7. QED
  BY <1>2, <1>3, <1>4, <1>5, <1>6, BecomeOK

\* The new fetcher takes the place of the popped one: of another too, if one was
\* put there meanwhile.
LEMMA SwappedOK ==
    ASSUME FetchersOK, NEW w \in Workers, Swapped(w)
    PROVE  FetchersOK' /\ (Of(tracked, job[w].host) = {} => Tidy)
<1> DEFINE h == job[w].host
           j == Fetches(w, "rewarm", Number)
           t == Track(tracked, h, Number)
           o == open \cup {Number}
<1>1. TracksOK(tracked) /\ JobsOK(job) /\ open \subseteq FetcherIds
  BY DEF FetchersOK
<1>2. job[w] # Idle
  BY DEF Swapped, At, Idle
<1>3. job[w] \in Job /\ h \in Hosts /\ w \in DOMAIN job
  BY <1>1, <1>2, PageHasParts DEF Job, JobsOK
<1>4. Number \in FetcherIds
  BY <1>1, NumberIsFree
<1>5. TracksOK(t) /\ (Of(tracked, h) = {} => Tracks(tracked) \cup {Number} = Tracks(t))
  BY <1>1, <1>3, <1>4, TrackedPair
<1>6. JobsOK(j)
  BY <1>1, <1>2, <1>4, PageMoves DEF Fetches, Stage
<1>7. j[w].fetcher = Number
  BY <1>3 DEF Fetches, Job
<1>8. Become(t, o, j)
  BY DEF Swapped, Fetches
<1>9. Number \in ReferredTo(t, j) /\ Tracks(t) \subseteq ReferredTo(t, j)
  BY <1>7 DEF ReferredTo
<1> HIDE DEF j, t
<1>10. Of(tracked, h) = {} => (open \subseteq Tracks(tracked) => o \subseteq ReferredTo(t, j))
  BY <1>5, <1>9
<1>11. o \subseteq FetcherIds
  BY <1>1, <1>4
<1> HIDE DEF o
<1>12. QED
  BY <1>5, <1>6, <1>8, <1>10, <1>11, BecomeOK DEF h

\* Cookies from the browser may make a fetcher for the host.
LEMMA BrowsedOK ==
    ASSUME FetchersOK, NEW w \in Workers, NEW a, Browsed(w, a)
    PROVE  FetchersOK' /\ Tidy
<1> DEFINE h == job[w].host
           j == Accounted(w, a)
           t == Append(tracked, <<h, Number>>)
<1>1. TracksOK(tracked) /\ JobsOK(job) /\ open \subseteq FetcherIds
  BY DEF FetchersOK
<1>2. job[w] # Idle
  BY DEF Browsed, At, Idle
<1>3. h \in Hosts
  BY <1>1, <1>2, PageHasParts DEF Job
<1>4. JobsOK(j)
  BY <1>1, <1>2, PageEnds
<1>5. CASE Become(tracked, open, j)
  BY <1>4, <1>5, StayingOK
<1>6. CASE Of(tracked, h) = {} /\ Become(t, open, j)
  <2>1. Number \in FetcherIds
    BY <1>1, NumberIsFree
  <2>2. TracksOK(t) /\ Tracks(t) = Tracks(tracked) \cup {Number}
    BY <1>1, <1>3, <1>6, <2>1, AppendedPair
  <2> HIDE DEF t, j
  <2>3. open \subseteq Tracks(tracked) => open \subseteq ReferredTo(t, j)
    BY <2>2 DEF ReferredTo
  <2>4. QED
    BY <1>1, <1>4, <1>6, <2>2, <2>3, BecomeOK
<1>7. QED
  BY <1>5, <1>6 DEF Browsed

\* A page raises, or ends in parsing.
LEMMA RaisesOK ==
    ASSUME FetchersOK, NEW w \in Workers, Raises(w)
    PROVE  FetchersOK' /\ Tidy
<1>1. JobsOK(Done(w))
  BY PageEnds DEF FetchersOK
<1>2. QED
  BY <1>1, StayingOK DEF Raises

\* A step of w keeps the fetchers in order, and leaks only where it is excused.
LEMMA WorkerFetchers ==
    ASSUME FetchersOK, NEW w \in Workers,
           \/ \E h \in Hosts : Begin(w, h)
           \/ NoProxiesAvailable(w) \/ Proceed(w) \/ Cancel(w)
    PROVE  /\ FetchersOK'
           /\ \/ Tidy
              \/ At(w, {"swap"}) /\ Of(tracked, job[w].host) # {}
              \/ At(w, {"evict", "swap"}) /\ job'[w] = Idle
<1>1. TracksOK(tracked) /\ JobsOK(job) /\ open \subseteq FetcherIds /\ w \in DOMAIN job
  BY DEF FetchersOK, JobsOK
<1>2. ASSUME NEW h \in Hosts, Begin(w, h)
      PROVE  FetchersOK' /\ Tidy
  <2>1. PICK p \in Proxies :
           job' = [job EXCEPT ![w] = [stage |-> "route", host |-> h, proxy |-> p, fetcher |-> 0,
                                      best |-> None]]
    BY <1>2 DEF Begin
  <2>2. JobOK([stage |-> "route", host |-> h, proxy |-> p, fetcher |-> 0, best |-> None])
    BY DEF JobOK, Job, Stage, Fetching
  <2>3. JobsOK(job')
    BY <1>1, <2>1, <2>2, OnePage
  <2>4. UNCHANGED <<tracked, open>> /\ leaked' = FALSE
    BY <1>2 DEF Begin
  <2>5. JobsOK(job)'
    BY <2>3 DEF JobsOK, JobOK
  <2>6. QED
    BY <1>1, <2>4, <2>5 DEF FetchersOK, TracksOK, Tidy
<1>3. CASE NoProxiesAvailable(w)
  BY <1>1, <1>3 DEF NoProxiesAvailable, FetchersOK, TracksOK, JobsOK, JobOK, Tidy
<1>4. CASE ToBrowser(w)
  <2>1. job[w] # Idle
    BY <1>4 DEF ToBrowser, At, Idle
  <2>2. JobsOK([job EXCEPT ![w].stage = "browser"])
    BY <1>1, <2>1, PageMoves DEF Fetching, Stage
  <2>3. QED
    BY <1>4, <2>2, StayingOK DEF ToBrowser
<1>5. CASE RequestFails(w)
  <2>1. job[w] # Idle
    BY <1>5 DEF RequestFails, At, Idle
  <2>2. JobsOK([job EXCEPT ![w].stage = "browser"])
    BY <1>1, <2>1, PageMoves DEF Fetching, Stage
  <2>3. QED
    BY <1>5, <2>2, StayingOK, RaisesOK DEF RequestFails
<1>6. ASSUME NEW a \in Answers, Answered(w, a)
      PROVE  FetchersOK' /\ Tidy
  <2>1. job[w] # Idle
    BY <1>6 DEF Answered, At, Idle
  <2>2. JobsOK([job EXCEPT ![w].stage = "browser"])
    BY <1>1, <2>1, PageMoves DEF Fetching, Stage
  <2>3. JobsOK([job EXCEPT ![w].stage = "browser", ![w].best = a])
    BY <1>1, <2>1, PageMoves DEF Fetching, Stage
  <2>4. JobsOK(Accounted(w, a))
    BY <1>1, <2>1, PageEnds
  <2>5. CASE Swap(w, a)
    BY <2>1, <2>5, SwapOK
  <2>6. QED
    BY <1>6, <2>2, <2>3, <2>4, <2>5, StayingOK DEF Answered, Unprotected
<1>7. ASSUME NEW a \in Answers, AnsweredAgain(w, a)
      PROVE  FetchersOK' /\ Tidy
  <2>1. job[w] # Idle
    BY <1>7 DEF AnsweredAgain, At, Idle
  <2>2. JobsOK([job EXCEPT ![w].stage = "browser", ![w].best = a])
    BY <1>1, <2>1, PageMoves DEF Fetching, Stage
  <2>3. JobsOK(Accounted(w, a))
    BY <1>1, <2>1, PageEnds
  <2>4. QED
    BY <1>7, <2>2, <2>3, StayingOK DEF AnsweredAgain
<1>8. CASE BrowserFails(w)
  <2>1. job[w] # Idle
    BY <1>8 DEF BrowserFails, At, Idle
  <2>2. JobsOK(Accounted(w, job[w].best))
    BY <1>1, <2>1, PageEnds
  <2>3. QED
    BY <1>8, <2>2, StayingOK, RaisesOK DEF BrowserFails
<1>9. CASE Parse(w)
  <2>1. JobsOK(Done(w))
    BY <1>1, PageEnds
  <2>2. QED
    BY <1>9, <2>1, StayingOK, RaisesOK DEF Parse
<1>10. CASE Cancel(w)
  <2>1. JobsOK(Done(w))
    BY <1>1, PageEnds
  <2>2. CASE Become(tracked, open, Done(w))
    BY <2>1, <2>2, StayingOK
  <2>3. CASE /\ At(w, {"evict", "swap"})
             /\ job' = Done(w)
             /\ open' = open \cap ReferredTo(tracked, Done(w))
             /\ leaked' = TRUE
             /\ UNCHANGED tracked
    <3>1. JobsOK(job)'
      BY <2>1, <2>3 DEF JobsOK, JobOK
    <3>2. FetchersOK'
      BY <1>1, <2>3, <3>1 DEF FetchersOK, TracksOK
    <3>3. job'[w] = Idle
      BY <1>1, <2>3 DEF Done
    <3>4. QED
      BY <2>3, <3>2, <3>3
  <2>4. QED
    BY <1>10, <2>2, <2>3 DEF Cancel
<1>11. CASE Swapped(w)
  <2>1. At(w, {"swap"})
    BY <1>11 DEF Swapped
  <2>2. QED
    BY <1>11, <2>1, SwappedOK
<1>12. QED
  BY <1>2, <1>3, <1>4, <1>5, <1>6, <1>7, <1>8, <1>9, <1>10, <1>11,
     GetHostFetcherOK, EvictedOK, UsedOK, BrowsedOK
  DEF Proceed

-----------------------------------------------------------------------------
(* The hosts that need a browser, and the whole type invariant *)

MarkedOK == marked \in Seq(Hosts) /\ Len(marked) <= MaxTracked
LastOK == last \in (SUBSET Workers) \cup {None}

\* The hosts on record never exceed their bound: the oldest makes room.
LEMMA MarkKeeps ==
    ASSUME MarkedOK, NEW h \in Hosts, Mark(h)
    PROVE  MarkedOK'
<1> DEFINE m == Append(marked, h)
<1>1. Len(marked) \in Nat /\ MaxTracked \in Nat
  BY LenProperties, FetchAssumption DEF MarkedOK
<1>2. m \in Seq(Hosts) /\ m # <<>> /\ Len(m) = Len(marked) + 1
  BY AppendProperties DEF MarkedOK
<1>3. marked' = IF Len(m) > MaxTracked THEN Tail(m) ELSE m
  BY DEF Mark
<1> HIDE DEF m
<1>4. Tail(m) \in Seq(Hosts) /\ Len(Tail(m)) = Len(m) - 1
  BY <1>2, HeadTailProperties
<1>5. Len(marked) <= MaxTracked
  BY DEF MarkedOK
<1>6. marked' \in Seq(Hosts)
  BY <1>2, <1>3, <1>4
<1>7. Len(marked') <= MaxTracked
  BY <1>1, <1>2, <1>3, <1>4, <1>5
<1>8. QED
  BY <1>6, <1>7 DEF MarkedOK

\* A step of w marks the host of w at most.
LEMMA WorkerMarks ==
    ASSUME FetchersOK, MarkedOK, NEW w \in Workers,
           \/ \E h \in Hosts : Begin(w, h)
           \/ NoProxiesAvailable(w) \/ Proceed(w) \/ Cancel(w)
    PROVE  MarkedOK'
<1>1. CASE UNCHANGED marked
  BY <1>1 DEF MarkedOK
<1>2. ASSUME NEW a \in Answers, Answered(w, a)
      PROVE  MarkedOK'
  <2>1. job[w] # Idle
    BY <1>2 DEF Answered, At, Idle
  <2>2. job[w].host \in Hosts
    BY <2>1, PageHasParts DEF FetchersOK, Job
  <2>3. UNCHANGED marked \/ Mark(job[w].host)
    BY <1>2 DEF Answered, Unprotected
  <2>4. QED
    BY <1>1, <2>2, <2>3, MarkKeeps
<1>3. ASSUME NEW a \in Answers, AnsweredAgain(w, a) \/ Browsed(w, a)
      PROVE  MarkedOK'
  BY <1>1, <1>3 DEF AnsweredAgain, Browsed
<1>4. CASE ToBrowser(w) \/ GetHostFetcher(w) \/ Evicted(w) \/ WarmedUp(w) \/ Reopened(w) \/ Swapped(w)
  BY <1>1, <1>4 DEF ToBrowser, GetHostFetcher, Evicted, WarmedUp, Reopened, Swapped
<1>5. CASE RequestFails(w) \/ BrowserFails(w) \/ Parse(w)
  BY <1>1, <1>5 DEF RequestFails, BrowserFails, Parse, Raises
<1>6. CASE (\E h \in Hosts : Begin(w, h)) \/ NoProxiesAvailable(w) \/ Cancel(w)
  BY <1>1, <1>6 DEF Begin, NoProxiesAvailable, Cancel
<1>7. QED
  BY <1>2, <1>3, <1>4, <1>5, <1>6 DEF Proceed

\* The inductive invariant of the fetch path.
FetchInv == ProxyInv /\ FetchersOK /\ MarkedOK /\ LastOK

\* The parts are sound initially.
LEMMA FetchInit == Init => FetchInv
<1>1. SUFFICES ASSUME Init PROVE FetchInv
  OBVIOUS
<1>2. ProxyInv
  BY <1>1, ProxyInitWhole DEF Init
<1>3. <<>> \in Seq(Pair) /\ <<>> \in Seq(Hosts) /\ Len(<<>>) = 0 /\ DOMAIN <<>> = {}
  BY EmptySeq
<1>4. TracksOK(tracked)
  BY <1>1, <1>3 DEF Init, TracksOK
<1>5. JobOK(Idle)
  BY DEF JobOK, Idle, Fetching
<1>6. JobsOK(job)
  BY <1>1, <1>5 DEF Init, JobsOK
<1>7. MarkedOK
  BY <1>1, <1>3, FetchAssumption DEF Init, MarkedOK
<1>8. open \subseteq FetcherIds /\ leaked \in BOOLEAN /\ LastOK
  BY <1>1 DEF Init, LastOK
<1>9. QED
  BY <1>2, <1>4, <1>6, <1>7, <1>8 DEF FetchInv, FetchersOK

\* Every step keeps them so.
LEMMA FetchStep == FetchInv /\ [Next]_vars => FetchInv'
<1>1. SUFFICES ASSUME FetchInv, [Next]_vars PROVE FetchInv'
  OBVIOUS
<1>2. CASE UNCHANGED vars
  <2>1. ProxyInv'
    BY <1>1, <1>2 DEF FetchInv, vars, ProxyInv, ProxyTypeOK, RotationIsWhole, Members
  <2>2. FetchersOK'
    BY <1>1, <1>2 DEF FetchInv, vars, FetchersOK, TracksOK, JobsOK, JobOK
  <2>3. QED
    BY <1>1, <1>2, <2>1, <2>2 DEF FetchInv, vars, MarkedOK, LastOK
<1>3. CASE Maintain
  <2>1. ProxyInv'
    BY <1>1, <1>3, UpkeptWhole DEF FetchInv, Maintain
  <2>2. FetchersOK'
    BY <1>1, <1>3 DEF FetchInv, Maintain, FetchersOK, TracksOK, JobsOK, JobOK
  <2>3. QED
    BY <1>1, <1>3, <2>1, <2>2 DEF FetchInv, Maintain, MarkedOK, LastOK
<1>4. ASSUME NEW w \in Workers,
             \/ \E h \in Hosts : Begin(w, h)
             \/ NoProxiesAvailable(w) \/ Proceed(w) \/ Cancel(w)
      PROVE  FetchInv'
  <2>1. ProxyInv'
    BY <1>1, <1>4, WorkerProxies DEF FetchInv
  <2>2. FetchersOK'
    BY <1>1, <1>4, WorkerFetchers DEF FetchInv
  <2>3. MarkedOK'
    BY <1>1, <1>4, WorkerMarks DEF FetchInv
  <2>4. LastOK'
    <3>1. Detects(w)
      BY <1>1, <1>4, WorkerDetects DEF FetchInv, FetchersOK, JobsOK
    <3>2. InFlight \subseteq Workers
      BY DEF InFlight
    <3>3. last \in (SUBSET Workers) \cup {None}
      BY <1>1 DEF FetchInv, LastOK
    <3>4. Less(last, w) \in (SUBSET Workers) \cup {None}
      BY <3>3 DEF Less
    <3>5. InFlight \ {w} \in SUBSET Workers /\ InFlight \in SUBSET Workers
      BY <3>2
    <3>6. last' \in (SUBSET Workers) \cup {None}
      BY <3>1, <3>3, <3>4, <3>5 DEF Detects
    <3>7. QED
      BY <3>6 DEF LastOK
  <2>5. QED
    BY <2>1, <2>2, <2>3, <2>4 DEF FetchInv
<1>5. QED
  BY <1>1, <1>2, <1>3, <1>4 DEF Next

\* The rotation holds every proxy of the pool, once and no other unless the
\* caller's list repeats it, and the rest of the fetch path has its type
\* (proxy/manager.py, __init__, next, add and remove; spider/crawler.py, the
\* fetchers of the hosts): for any list of proxies and any number of hosts and
\* workers there is a number for every new fetcher.
THEOREM ProxiesSound == Spec => []ProxiesAreSound
<1>1. ASSUME FetchInv PROVE ProxiesAreSound
  <2>1. tracked \in Seq(Hosts \X FetcherIds)
    BY <1>1 DEF FetchInv, FetchersOK, TracksOK, Pair
  <2>2. job \in [Workers -> Job \cup {Idle}]
    BY <1>1 DEF FetchInv, FetchersOK, JobsOK, JobOK
  <2>3. QED
    BY <1>1, <2>1, <2>2
    DEF FetchInv, FetchersOK, ProxyInv, MarkedOK, LastOK, ProxiesAreSound, TypeOK
<1>2. QED
  BY <1>1, FetchInit, FetchStep, PTL DEF Spec

\* A fetcher goes out of sight with its clients open only if it had been popped
\* while a page used it, if a swap replaces one put there meanwhile, or if a
\* cancellation cuts its closing short (spider/crawler.py, _get_host_fetcher and
\* the impersonated retry): an eviction as such leaks nothing.
THEOREM LeaksAreExcused == Spec => LeakIsExcused
<1> DEFINE Excused ==
        leaked' => \/ open \ Tracks(tracked) # {}
                   \/ \E w \in Workers :
                         \/ At(w, {"swap"}) /\ Of(tracked, job[w].host) # {}
                         \/ At(w, {"evict", "swap"}) /\ job'[w] = Idle
<1>1. ASSUME FetchInv, [Next]_vars PROVE [Excused]_vars
  <2>1. CASE UNCHANGED vars
    BY <2>1
  <2>2. CASE Maintain
    BY <2>2 DEF Maintain
  <2>3. ASSUME NEW w \in Workers,
               \/ \E h \in Hosts : Begin(w, h)
               \/ NoProxiesAvailable(w) \/ Proceed(w) \/ Cancel(w)
        PROVE  Excused
    BY <1>1, <2>3, WorkerFetchers DEF FetchInv, Tidy
  <2>4. QED
    BY <1>1, <2>1, <2>2, <2>3 DEF Next
<1>2. Spec => [][Excused]_vars
  BY <1>1, FetchInit, FetchStep, PTL DEF Spec
<1>3. QED
  BY <1>2 DEF LeakIsExcused

-----------------------------------------------------------------------------
(* Answers that are kept *)

\* What becomes of a page that has an answer: it has one still, or goes on to have
\* it parsed, or ends and charges no failure.
Kept(w) ==
    \/ job'[w] # Idle /\ job'[w].best # None
    \/ job'[w].stage = "parse"
    \/ job'[w] = Idle /\ UNCHANGED pool

LEMMA LadderSpares ==
    ASSUME FetchersOK, NEW w \in Workers, OnLadder(w),
           \/ \E h \in Hosts : Begin(w, h)
           \/ NoProxiesAvailable(w) \/ Proceed(w) \/ Cancel(w)
    PROVE  Kept(w)
<1>1. JobsOK(job) /\ w \in DOMAIN job
  BY DEF FetchersOK, JobsOK
<1>2. job[w] # Idle /\ job[w] \in Job /\ job[w].best \in Answers
  <2>1. job[w] # Idle /\ job[w].best # None
    BY DEF OnLadder
  <2>2. job[w] \in Job
    BY <1>1, <2>1, PageHasParts
  <2>3. QED
    BY <2>1, <2>2 DEF Job
<1>3. job[w].stage # "parse"
  BY <1>1, <1>2 DEF JobsOK, JobOK, OnLadder
<1>4. ASSUME NEW a \in Answers, NEW det, job' = Accounted(w, a), Account(w, a, det)
      PROVE  Kept(w)
  <2>1. CASE a.status \in Refusals
    <3>1. a.status \in Nat
      BY FetchAssumption
    <3>2. ~IsOk(a) /\ ~IsError(a)
      BY <2>1, <3>1 DEF Refusals, IsOk, IsError
    <3>3. UNCHANGED pool
      BY <1>4, <2>1, <3>2 DEF Account
    <3>4. job'[w] = Idle
      BY <1>1, <1>4, <2>1 DEF Accounted, Done
    <3>5. QED
      BY <3>3, <3>4 DEF Kept
  <2>2. CASE a.status \notin Refusals
    <3>1. job'[w].stage = "parse"
      BY <1>1, <1>4, <2>2 DEF Accounted
    <3>2. QED
      BY <3>1 DEF Kept
  <2>3. QED
    BY <2>1, <2>2
<1>5. ASSUME NEW s \in Stage, job'[w].stage = s, job'[w].best \in Answers
      PROVE  Kept(w)
  <2>1. s # "idle"
    BY DEF Stage
  <2>2. job'[w] # Idle
    BY <1>5, <2>1 DEF Idle
  <2>3. job'[w].best # None
    BY <1>5, FetchAssumption
  <2>4. QED
    BY <2>2, <2>3 DEF Kept
<1>6. ASSUME NEW s \in Stage, job' = [job EXCEPT ![w].stage = s]
      PROVE  Kept(w)
  <2>1. job'[w] = [job[w] EXCEPT !.stage = s]
    BY <1>1, <1>6
  <2>2. job'[w].stage = s /\ job'[w].best = job[w].best
    BY <1>2, <2>1 DEF Job
  <2>3. QED
    BY <1>2, <1>5, <2>2
<1>7. ASSUME NEW s \in Stage, NEW f, job' = [job EXCEPT ![w].stage = s, ![w].fetcher = f]
      PROVE  Kept(w)
  <2>1. job'[w] = [job[w] EXCEPT !.stage = s, !.fetcher = f]
    BY <1>1, <1>7
  <2>2. job'[w].stage = s /\ job'[w].best = job[w].best
    BY <1>2, <2>1 DEF Job
  <2>3. QED
    BY <1>2, <1>5, <2>2
<1>8. ASSUME NEW s \in Stage, NEW f, job' = [[job EXCEPT ![w].fetcher = f] EXCEPT ![w].stage = s]
      PROVE  Kept(w)
  <2>1. job'[w] = [job[w] EXCEPT !.fetcher = f, !.stage = s]
    BY <1>1, <1>8
  <2>2. job'[w].stage = s /\ job'[w].best = job[w].best
    BY <1>2, <2>1 DEF Job
  <2>3. QED
    BY <1>2, <1>5, <2>2
<1>9. ASSUME NEW s \in Stage, NEW a \in Answers, job' = [job EXCEPT ![w].stage = s, ![w].best = a]
      PROVE  Kept(w)
  <2>1. job'[w] = [job[w] EXCEPT !.stage = s, !.best = a]
    BY <1>1, <1>9
  <2>2. job'[w].stage = s /\ job'[w].best = a
    BY <1>2, <2>1 DEF Job
  <2>3. QED
    BY <1>5, <2>2
<1>10. {"request", "warmup", "rewarm", "evict", "browser"} \subseteq Stage
  BY DEF Stage
<1>11. CASE (\E h \in Hosts : Begin(w, h)) \/ NoProxiesAvailable(w)
  BY <1>2, <1>11 DEF Begin, NoProxiesAvailable
<1>12. CASE Cancel(w)
  <2>1. job' = Done(w) /\ UNCHANGED pool
    BY <1>12 DEF Cancel, Become
  <2>2. QED
    BY <1>1, <2>1 DEF Kept, Done
<1>13. CASE ToBrowser(w) \/ WarmedUp(w) \/ Swapped(w)
  BY <1>6, <1>7, <1>10, <1>13 DEF ToBrowser, WarmedUp, Swapped, Become, Fetches
<1>14. CASE GetHostFetcher(w)
  <2>1. CASE \E f \in Of(tracked, job[w].host) : job' = Fetches(w, "request", f)
    BY <1>7, <1>10, <2>1 DEF Fetches
  <2>2. CASE job' = [[job EXCEPT ![w].fetcher = Number] EXCEPT ![w].stage = "evict"]
    BY <1>8, <1>10, <2>2
  <2>3. CASE job' = Fetches(w, "warmup", Number)
    BY <1>7, <1>10, <2>3 DEF Fetches
  <2>4. QED
    BY <1>14, <2>1, <2>2, <2>3 DEF GetHostFetcher, Become, Evicts
<1>15. CASE Evicted(w)
  <2>1. CASE job' = [job EXCEPT ![w].stage = "evict"]
    BY <1>6, <1>10, <2>1
  <2>2. CASE job' = Fetches(w, "warmup", job[w].fetcher)
    BY <1>7, <1>10, <2>2 DEF Fetches
  <2>3. QED
    BY <1>15, <2>1, <2>2 DEF Evicted, Become, Evicts
<1>16. CASE Reopened(w)
  <2>1. job' = job
    BY <1>16 DEF Reopened, Become
  <2>2. QED
    BY <1>2, <1>5, <2>1 DEF Job
<1>17. CASE RequestFails(w)
  BY <1>6, <1>10, <1>17 DEF RequestFails, Become
<1>18. ASSUME NEW a \in Answers, Answered(w, a)
       PROVE  Kept(w)
  BY <1>18 DEF Answered
<1>19. ASSUME NEW a \in Answers, AnsweredAgain(w, a)
       PROVE  Kept(w)
  <2>1. CASE SecondRung(a) = "browser"
    BY <1>9, <1>10, <1>19, <2>1 DEF AnsweredAgain, Become
  <2>2. CASE SecondRung(a) # "browser"
    BY <1>4, <1>19, <2>2 DEF AnsweredAgain, Become
  <2>3. QED
    BY <2>1, <2>2
<1>20. ASSUME NEW a \in Answers, Browsed(w, a)
       PROVE  Kept(w)
  BY <1>4, <1>20 DEF Browsed, Become
<1>21. CASE BrowserFails(w)
  BY <1>2, <1>4, <1>21 DEF BrowserFails, Become
<1>22. CASE Parse(w)
  BY <1>3, <1>22 DEF Parse, At
<1>23. QED
  BY <1>11, <1>12, <1>13, <1>14, <1>15, <1>16, <1>17, <1>18, <1>19, <1>20, <1>21, <1>22 DEF Proceed

\* A page that has an answer when it climbs the ladder (fetchers/escalate.py)
\* keeps one, whatever the impersonated retry or the browser raises: it stays on
\* the ladder with an answer, or goes on to have it parsed, or ends, refused or
\* cancelled, without a failure charged to its proxy in that step.
THEOREM AnswersAreKept == Spec => AnswerIsKept
<1> DEFINE Spared ==
        \A w \in Workers :
           OnLadder(w) =>
             \/ OnLadder(w)'
             \/ At(w, {"parse"})'
             \/ job'[w] = Idle /\ \A p \in Members : pool'[p].fails <= pool[p].fails
<1>1. ASSUME FetchInv, [Next]_vars PROVE [Spared]_vars
  <2>1. PICK P \in SUBSET Proxies : pool \in [P -> Entry]
    BY <1>1 DEF FetchInv, ProxyInv, ProxyTypeOK
  <2>2. UNCHANGED pool => \A p \in Members : pool'[p].fails <= pool[p].fails
    BY <2>1, ProxyAssumption DEF Members, Entry
  <2>3. CASE UNCHANGED vars
    BY <2>3
  <2>4. CASE Maintain
    BY <2>4 DEF Maintain, OnLadder
  <2>5. ASSUME NEW v \in Workers,
               \/ \E h \in Hosts : Begin(v, h)
               \/ NoProxiesAvailable(v) \/ Proceed(v) \/ Cancel(v)
        PROVE  Spared
    <3>1. SUFFICES ASSUME NEW w \in Workers, OnLadder(w)
                   PROVE  \/ OnLadder(w)'
                          \/ At(w, {"parse"})'
                          \/ job'[w] = Idle /\ \A p \in Members : pool'[p].fails <= pool[p].fails
      OBVIOUS
    <3>2. Touches(v)
      BY <1>1, <2>5, WorkerDetects DEF FetchInv, FetchersOK, JobsOK
    <3>3. CASE w # v
      BY <3>1, <3>2, <3>3 DEF Touches, OnLadder
    <3>4. CASE w = v
      <4>1. Kept(w)
        BY <1>1, <2>5, <3>1, <3>4, LadderSpares DEF FetchInv
      <4>2. QED
        BY <2>2, <4>1 DEF Kept, OnLadder, At
    <3>5. QED
      BY <3>3, <3>4
  <2>6. QED
    BY <1>1, <2>3, <2>4, <2>5 DEF Next
<1>2. Spec => [][Spared]_vars
  BY <1>1, FetchInit, FetchStep, PTL DEF Spec
<1>3. QED
  BY <1>2 DEF AnswerIsKept

=============================================================================
