---------------------------- MODULE CrawlProofs ----------------------------
(***************************************************************************)
(* Theorems about Crawl, for any site, any number of runs and workers.     *)
(***************************************************************************)
EXTENDS CrawlProps, FiniteSetTheorems, TLAPS

TypeInv == TypeOK /\ Bound

-----------------------------------------------------------------------------
(* The statements of the queue keep its tables well typed. *)

\* Inserting pages keeps the tables typed.
LEMMA PushType ==
    ASSUME QueueTypeOK, NEW S, NEW d \in Nat, Push(S, d)
    PROVE  QueueTypeOK'
BY DEF QueueTypeOK, Push, RowStatus

\* Claiming a row keeps the tables typed.
LEMMA PopType ==
    ASSUME QueueTypeOK, NEW u, Pop(u)
    PROVE  QueueTypeOK'
BY DEF QueueTypeOK, Pop, RowStatus, rowVars

\* Settling a row keeps the tables typed.
LEMMA MarkType ==
    ASSUME QueueTypeOK, NEW u, MarkDone(u) \/ MarkFailed(u)
    PROVE  QueueTypeOK'
BY DEF QueueTypeOK, MarkDone, MarkFailed, RowStatus, rowVars

\* Charging a row's retry keeps the tables typed: the count moves by one, the
\* status to pending or failed.
LEMMA RetryType ==
    ASSUME QueueTypeOK, NEW u \in Urls, IncrementRetry(u)
    PROVE  QueueTypeOK'
<1>1. retries' \in [Urls -> Nat]
  BY DEF QueueTypeOK, IncrementRetry
<1>2. status' \in [Urls -> RowStatus]
  BY DEF QueueTypeOK, IncrementRetry, RowStatus
<1>3. QED
  BY <1>1, <1>2 DEF QueueTypeOK, IncrementRetry

\* Taking rows in progress back into the queue keeps the tables typed.
LEMMA RequeueType ==
    ASSUME QueueTypeOK, RequeueStale
    PROVE  QueueTypeOK'
BY DEF QueueTypeOK, RequeueStale, RowStatus, rowVars

\* Recording a visit, or a content hash, keeps the tables typed.
LEMMA VisitType ==
    ASSUME QueueTypeOK, NEW u \in Urls, MarkVisited(u) \/ MarkContentSeen(u)
    PROVE  QueueTypeOK'
BY DEF QueueTypeOK, MarkVisited, MarkContentSeen, RowStatus, rowVars

\* Steps that leave the queue's tables alone keep them typed.
LEMMA QueueFrame ==
    ASSUME QueueTypeOK, UNCHANGED queueVars
    PROVE  QueueTypeOK'
BY DEF QueueTypeOK, queueVars, RowStatus

-----------------------------------------------------------------------------
(* The moves of a worker's program counter keep the tasks well typed. *)

\* A free task slot is a job.
LEMMA IdleJob == Idle \in Job
BY DEF Idle, Job, Pc, Kind

\* A worker that moves to another line is still a job.
LEMMA GotoType ==
    ASSUME TypeInv, NEW t \in Tasks, task[t].pc # "idle", NEW p \in Pc, Goto(t, p),
           UNCHANGED <<disp, hand>>
    PROVE  task' \in [Tasks -> Job] /\ Bound'
<1>1. task' \in [Tasks -> Job]
  BY DEF TypeInv, TypeOK, Job, Goto
<1>2. Bound'
  BY DEF TypeInv, TypeOK, Job, Bound, Goto
<1>3. QED
  BY <1>1, <1>2

\* A worker that marks its page for a retry is still a job.
LEMMA MarkedType ==
    ASSUME TypeInv, NEW t \in Tasks, task[t].pc # "idle", NEW p \in Pc, NEW k \in Kind,
           task' = [task EXCEPT ![t].pc = p, ![t].kind = k],
           UNCHANGED <<disp, hand>>
    PROVE  task' \in [Tasks -> Job] /\ Bound'
<1>1. task' \in [Tasks -> Job]
  BY DEF TypeInv, TypeOK, Job
<1>2. Bound'
  BY DEF TypeInv, TypeOK, Job, Bound
<1>3. QED
  BY <1>1, <1>2

\* A worker that returns leaves a typed slot.
LEMMA ExitType ==
    ASSUME TypeInv, NEW t \in Tasks, Exit(t), UNCHANGED <<disp, hand>>
    PROVE  task' \in [Tasks -> Job] /\ Bound'
<1>1. task' \in [Tasks -> Job]
  BY IdleJob DEF TypeInv, TypeOK, Exit
<1>2. Bound'
  BY DEF TypeInv, TypeOK, Job, Bound, Exit, Idle
<1>3. QED
  BY <1>1, <1>2

\* The slots of a run that dies are typed.
LEMMA AbandonedType ==
    ASSUME TypeInv, NEW r \in Runs, task' = Abandoned(r)
    PROVE  /\ task' \in [Tasks -> Job]
           /\ \A t \in Tasks : task'[t].pc # "idle" => task'[t] = task[t]
BY IdleJob DEF TypeInv, TypeOK, Job, Abandoned, Idle

-----------------------------------------------------------------------------
(* Type correctness *)

\* The initial state is typed.
LEMMA TypeInit == Init => TypeInv
BY QueueAssumption, CrawlAssumption
   DEF Init, QueueInit, TypeInv, TypeOK, QueueTypeOK, RowStatus, Live, Bound, Idle,
       Job, Pc, OwnerPc, ClaimedPc, VisitedPc, ParsedPc, Kind

\* Every step keeps the state typed: one step per action.
LEMMA TypeStep == TypeInv /\ [Next]_vars => TypeInv'
<1> SUFFICES ASSUME TypeInv, [Next]_vars PROVE TypeInv'
  OBVIOUS
<1> USE CrawlAssumption
<1>1. ASSUME NEW r \in Runs, Begin(r) PROVE TypeInv'
  BY <1>1, QueueFrame DEF TypeInv, TypeOK, Bound, durableVars, Live, Begin
<1>2. ASSUME NEW r \in Runs, Recover(r) PROVE TypeInv'
  BY <1>2, RequeueType DEF TypeInv, TypeOK, Bound, durableVars, Live, Recover
<1>3. ASSUME NEW r \in Runs, NEW u \in Urls, PushSeed(r, u) PROVE TypeInv'
  BY <1>3, PushType DEF TypeInv, TypeOK, Bound, durableVars, Live, PushSeed
<1>4. ASSUME NEW r \in Runs, Launch(r) PROVE TypeInv'
  BY <1>4, QueueFrame DEF TypeInv, TypeOK, Bound, durableVars, Live, Launch
<1>5. ASSUME NEW r \in Runs, DispatchStop(r) PROVE TypeInv'
  BY <1>5, QueueFrame DEF TypeInv, TypeOK, Bound, durableVars, Live, DispatchStop
<1>6. ASSUME NEW r \in Runs, DispatchClaim(r) PROVE TypeInv'
  BY <1>6, PopType DEF TypeInv, TypeOK, Bound, durableVars, Live, DispatchClaim, MayPop
<1>7. ASSUME NEW r \in Runs, DispatchEmpty(r) PROVE TypeInv'
  BY <1>7, QueueFrame DEF TypeInv, TypeOK, Bound, durableVars, Live, DispatchEmpty
<1>8. ASSUME NEW r \in Runs, Spawn(r) PROVE TypeInv'
  BY <1>8, QueueFrame DEF TypeInv, TypeOK, Bound, durableVars, Live, Spawn, Job, Pc, OwnerPc, ClaimedPc, Kind
<1>9. ASSUME NEW r \in Runs, NEW u \in Urls, ReadItem(r, u) PROVE TypeInv'
  BY <1>9, QueueFrame DEF TypeInv, TypeOK, Bound, durableVars, Live, ReadItem
<1>10. ASSUME NEW r \in Runs, ReadSentinel(r) PROVE TypeInv'
  BY <1>10, QueueFrame DEF TypeInv, TypeOK, Bound, durableVars, Live, ReadSentinel, Drain
<1>11. ASSUME NEW r \in Runs, Quit(r) PROVE TypeInv'
  BY <1>11, QueueFrame DEF TypeInv, TypeOK, Bound, durableVars, Live, Quit, Drain
<1>12. ASSUME NEW r \in Runs, DrainWorkers(r) PROVE TypeInv'
  BY <1>12, QueueFrame, AbandonedType DEF TypeInv, TypeOK, Bound, durableVars, Live, DrainWorkers
<1>13. ASSUME NEW r \in Runs, FinalRequeue(r) PROVE TypeInv'
  BY <1>13, RequeueType DEF TypeInv, TypeOK, Bound, durableVars, Live, FinalRequeue
<1>14. ASSUME NEW r \in Runs, Close(r) PROVE TypeInv'
  BY <1>14, QueueFrame DEF TypeInv, TypeOK, Bound, durableVars, Live, Close
<1>15. ASSUME NEW r \in Runs, TogglePause(r) PROVE TypeInv'
  BY <1>15, QueueFrame DEF TypeInv, TypeOK, Bound, durableVars, Live, TogglePause
<1>16. ASSUME NEW r \in Runs, Crash(r) PROVE TypeInv'
  BY <1>16, QueueFrame, AbandonedType DEF TypeInv, TypeOK, Bound, durableVars, Live, Crash
<1>17. ASSUME NEW r \in Runs, NEW how \in {"stop", "cancel"}, Halt(r, how) PROVE TypeInv'
  BY <1>17, QueueFrame DEF TypeInv, TypeOK, Bound, durableVars, Live, Halt
<1>18. ASSUME NEW t \in Tasks, Enter(t) PROVE TypeInv'
  BY <1>18, QueueFrame, GotoType DEF TypeInv, TypeOK, Bound, durableVars, Enter, WorkerFrame,
     Pc, OwnerPc, ClaimedPc, VisitedPc, ParsedPc, Kind
<1>19. ASSUME NEW t \in Tasks, Reject(t) PROVE TypeInv'
  BY <1>19, MarkType, ExitType DEF TypeInv, TypeOK, Bound, durableVars, Reject, WorkerFrame
<1>20. ASSUME NEW t \in Tasks, CheckRobots(t) PROVE TypeInv'
  BY <1>20, QueueFrame, GotoType DEF TypeInv, TypeOK, Bound, durableVars, CheckRobots, WorkerFrame,
     Pc, OwnerPc, ClaimedPc, VisitedPc, ParsedPc, Kind
<1>21. ASSUME NEW t \in Tasks, SkipDisallowed(t) PROVE TypeInv'
  BY <1>21, MarkType, ExitType DEF TypeInv, TypeOK, Bound, durableVars, SkipDisallowed, WorkerFrame
<1>22. ASSUME NEW t \in Tasks, Fetch(t) PROVE TypeInv'
  BY <1>22, QueueFrame, GotoType, MarkedType DEF TypeInv, TypeOK, Bound, durableVars, Fetch, WorkerFrame,
     Pc, OwnerPc, ClaimedPc, VisitedPc, ParsedPc, Kind
<1>23. ASSUME NEW t \in Tasks, WriteCache(t) PROVE TypeInv'
  BY <1>23, QueueFrame, GotoType DEF TypeInv, TypeOK, Bound, durableVars, WriteCache, WorkerFrame,
     Pc, OwnerPc, ClaimedPc, VisitedPc, ParsedPc, Kind
<1>24. ASSUME NEW t \in Tasks, CheckSeen(t) PROVE TypeInv'
  BY <1>24, QueueFrame, MarkedType DEF TypeInv, TypeOK, Bound, durableVars, CheckSeen, WorkerFrame,
     Pc, OwnerPc, ClaimedPc, VisitedPc, ParsedPc, Kind
<1>25. ASSUME NEW t \in Tasks, Visit(t) PROVE TypeInv'
  BY <1>25, VisitType, GotoType DEF TypeInv, TypeOK, Bound, durableVars, Visit, WorkerFrame,
     Pc, OwnerPc, ClaimedPc, VisitedPc, ParsedPc, Kind
<1>26. ASSUME NEW t \in Tasks, RecordHash(t) PROVE TypeInv'
  BY <1>26, VisitType, GotoType DEF TypeInv, TypeOK, Bound, durableVars, RecordHash, WorkerFrame,
     Pc, OwnerPc, ClaimedPc, VisitedPc, ParsedPc, Kind
<1>27. ASSUME NEW t \in Tasks, Done(t) PROVE TypeInv'
  BY <1>27, MarkType, ExitType, GotoType DEF TypeInv, TypeOK, Bound, durableVars, Done, WorkerFrame,
     Pc, OwnerPc, ClaimedPc, VisitedPc, ParsedPc, Kind
<1>28. ASSUME NEW t \in Tasks, Parse(t) PROVE TypeInv'
  BY <1>28, QueueFrame, ExitType, GotoType DEF TypeInv, TypeOK, Bound, durableVars, Parse, WorkerFrame,
     Pc, OwnerPc, ClaimedPc, VisitedPc, ParsedPc, Kind, Streamed
<1>29. ASSUME NEW t \in Tasks, StoreItems(t) PROVE TypeInv'
  BY <1>29, QueueFrame, GotoType DEF TypeInv, TypeOK, Bound, durableVars, StoreItems, WorkerFrame,
     Pc, OwnerPc, ClaimedPc, VisitedPc, ParsedPc, Kind
<1>30. ASSUME NEW t \in Tasks, PushLinks(t) PROVE TypeInv'
  <2>1. task[t].url \in Urls /\ depth[task[t].url] + 1 \in Nat
    BY <1>30 DEF TypeInv, TypeOK, QueueTypeOK, Bound, PushLinks
  <2>2. QueueTypeOK'
    BY <1>30, <2>1 DEF TypeInv, TypeOK, QueueTypeOK, RowStatus, PushLinks, Push
  <2>3. QED
    BY <1>30, <2>2, ExitType DEF TypeInv, TypeOK, durableVars, PushLinks, WorkerFrame
<1>31. ASSUME NEW t \in Tasks, Retry(t) PROVE TypeInv'
  BY <1>31, RetryType, ExitType, GotoType DEF TypeInv, TypeOK, Bound, durableVars, Retry, WorkerFrame,
     Pc, OwnerPc, ClaimedPc, VisitedPc, ParsedPc, Kind
<1>32. ASSUME NEW t \in Tasks, Report(t) PROVE TypeInv'
  BY <1>32, QueueFrame, ExitType DEF TypeInv, TypeOK, Bound, durableVars, Report, WorkerFrame
<1>33. ASSUME NEW t \in Tasks, WorkerTimeout(t) PROVE TypeInv'
  BY <1>33, QueueFrame, ExitType DEF TypeInv, TypeOK, Bound, durableVars, WorkerTimeout, WorkerFrame
<1>34. CASE UNCHANGED vars
  BY <1>34, QueueFrame DEF TypeInv, TypeOK, Bound, durableVars, vars, runVars
<1>35. QED
  BY <1>1, <1>2, <1>3, <1>4, <1>5, <1>6, <1>7, <1>8, <1>9, <1>10, <1>11,
     <1>12, <1>13, <1>14, <1>15, <1>16, <1>17, <1>18, <1>19, <1>20,
     <1>21, <1>22, <1>23, <1>24, <1>25, <1>26, <1>27, <1>28, <1>29,
     <1>30, <1>31, <1>32, <1>33, <1>34
     DEF Next, Lifecycle, Dispatcher, Consumer, Environment, Worker

\* In every reachable state the tables, the crawl row, the runs and the tasks of
\* run() have the types their declarations say, for any site and any faults.
THEOREM TypeCorrect == Spec => []TypeOK
<1>1. TypeInv => TypeOK
  BY DEF TypeInv
<1>2. QED
  BY <1>1, TypeInit, TypeStep, PTL DEF Spec

-----------------------------------------------------------------------------
(* Depth *)

Rows == {u \in Urls : status[u] # "absent"}

\* A chain of d links within max_depth leads to u.
Sound(u, d) == d <= MaxDepth /\ Reaches(d, u)

\* A start request is at the end of a chain of no links.
LEMMA SeedReached ==
    ASSUME NEW u \in Seeds
    PROVE  Reaches(0, u)
<1> DEFINE p == [i \in 0..0 |-> u]
<1>1. p \in [0..0 -> Urls] /\ p[0] = u
  BY CrawlAssumption
<1>2. \A i \in 1..0 : p[i] \in Links[p[i - 1]]
  OBVIOUS
<1> HIDE DEF p
<1>3. QED
  BY <1>1, <1>2 DEF Reaches

\* A link prolongs a chain by one.
LEMMA LinkReached ==
    ASSUME NEW n \in Nat, NEW u \in Urls, NEW v \in Links[u], Reaches(n, u)
    PROVE  Reaches(n + 1, v)
<1>1. PICK p \in [0..n -> Urls] :
        p[0] \in Seeds /\ p[n] = u /\ \A i \in 1..n : p[i] \in Links[p[i - 1]]
  BY DEF Reaches
<1> DEFINE q == [i \in 0..(n + 1) |-> IF i <= n THEN p[i] ELSE v]
<1>2. q \in [0..(n + 1) -> Urls]
  BY CrawlAssumption
<1>3. q[0] \in Seeds /\ q[n + 1] = v
  BY <1>1
<1>4. ASSUME NEW i \in 1..(n + 1) PROVE q[i] \in Links[q[i - 1]]
  <2>1. CASE i \in 1..n
    BY <1>1, <2>1
  <2>2. CASE i = n + 1
    BY <1>1, <2>2
  <2>3. QED
    BY <2>1, <2>2
<1> HIDE DEF q
<1>5. QED
  BY <1>2, <1>3, <1>4 DEF Reaches

\* Inductive: whoever works on a page, or is about to, works on a row, so that
\* the depth its links are inserted with is one more than that of a row.
DepthInv ==
    /\ TypeInv
    /\ \A u \in Rows : Sound(u, depth[u])
    /\ \A r \in Runs : toSeed[r] \subseteq Seeds
    /\ \A t \in Tasks : task[t].pc # "idle" => task[t].url \in Rows
    /\ \A r \in Runs : disp[r] = "spawn" => hand[r] \in Rows

\* What a step does to the tables: it settles, claims or sweeps rows, or inserts
\* rows at the depth of a chain that leads to them.
QueueStep ==
    \/ UNCHANGED <<status, depth>>
    \/ RequeueStale
    \/ \E u \in Rows : MarkDone(u) \/ MarkFailed(u) \/ IncrementRetry(u) \/ Pop(u)
    \/ \E S, d : Push(S, d) /\ \A u \in S : Sound(u, d)

\* Rows are never deleted, and keep the depth of their first discovery.
LEMMA RowsStay ==
    ASSUME QueueTypeOK, QueueStep, \A u \in Rows : Sound(u, depth[u])
    PROVE  Rows \subseteq Rows' /\ \A u \in Rows' : Sound(u, depth'[u])
<1>1. CASE UNCHANGED <<status, depth>>
  BY <1>1 DEF Rows
<1>2. CASE RequeueStale
  BY <1>2 DEF RequeueStale, rowVars, Rows, QueueTypeOK
<1>3. ASSUME NEW u \in Rows, MarkDone(u) \/ MarkFailed(u) \/ IncrementRetry(u) \/ Pop(u)
      PROVE  Rows \subseteq Rows' /\ \A v \in Rows' : Sound(v, depth'[v])
  <2>1. UNCHANGED depth /\ \A v \in Urls : v # u => status'[v] = status[v]
    BY <1>3 DEF MarkDone, MarkFailed, IncrementRetry, Pop, rowVars, QueueTypeOK
  <2>2. status'[u] # "absent"
    BY <1>3 DEF MarkDone, MarkFailed, IncrementRetry, Pop, QueueTypeOK, Rows
  <2>3. QED
    BY <2>1, <2>2 DEF Rows
<1>4. ASSUME NEW S, NEW d, Push(S, d), \A u \in S : Sound(u, d)
      PROVE  Rows \subseteq Rows' /\ \A u \in Rows' : Sound(u, depth'[u])
  <2>1. /\ \A u \in Rows : status'[u] = status[u] /\ depth'[u] = depth[u]
        /\ \A u \in Rows' \ Rows : u \in S /\ depth'[u] = d
    BY <1>4 DEF Push, Rows
  <2>2. QED
    BY <1>4, <2>1 DEF Rows
<1>5. QED
  BY <1>1, <1>2, <1>3, <1>4 DEF QueueStep

\* The tables change by such a step only.
LEMMA StepOfQueue == DepthInv /\ [Next]_vars => QueueStep
<1> SUFFICES ASSUME DepthInv, [Next]_vars PROVE QueueStep
  OBVIOUS
<1>1. CASE UNCHANGED vars
  BY <1>1 DEF vars, queueVars, QueueStep
<1>2. ASSUME NEW r \in Runs, Lifecycle(r) PROVE QueueStep
  <2>1. CASE Begin(r) \/ Recover(r) \/ Launch(r)
    BY <2>1 DEF Begin, Recover, Launch, queueVars, QueueStep
  <2>2. ASSUME NEW u \in Urls, PushSeed(r, u) PROVE QueueStep
    <3>1. ASSUME u \in Seeds PROVE Sound(u, 0)
      BY <3>1, SeedReached, CrawlAssumption DEF Sound
    <3>2. QED
      BY <2>2, <3>1 DEF PushSeed, QueueStep, DepthInv
  <2>3. QED
    BY <1>2, <2>1, <2>2 DEF Lifecycle
<1>3. ASSUME NEW r \in Runs, Dispatcher(r) PROVE QueueStep
  <2>1. ASSUME NEW u \in Urls, Pop(u) PROVE u \in Rows
    BY <2>1 DEF Pop, Claimable, PendingRows, Rows
  <2>2. QED
    BY <1>3, <2>1 DEF Dispatcher, DispatchStop, DispatchClaim, DispatchEmpty, Spawn,
       queueVars, QueueStep
<1>4. ASSUME NEW r \in Runs, Consumer(r) PROVE QueueStep
  BY <1>4 DEF Consumer, ReadSentinel, Drain, DrainWorkers, FinalRequeue, Close, ReadItem,
     queueVars, QueueStep
<1>5. ASSUME NEW r \in Runs, Environment(r) PROVE QueueStep
  BY <1>5 DEF Environment, Quit, Drain, TogglePause, Crash, Halt, queueVars, QueueStep
<1>6. ASSUME NEW t \in Tasks, Worker(t) \/ WorkerTimeout(t) PROVE QueueStep
  <2>1. task[t].pc # "idle" => task[t].url \in Rows
    BY DEF DepthInv
  <2>2. CASE \/ Enter(t) \/ CheckRobots(t) \/ Fetch(t) \/ WriteCache(t) \/ CheckSeen(t)
             \/ Parse(t) \/ StoreItems(t) \/ Report(t) \/ WorkerTimeout(t)
    BY <2>2 DEF Enter, CheckRobots, Fetch, WriteCache, CheckSeen, Parse, StoreItems, Report,
       WorkerTimeout, queueVars, QueueStep
  <2>3. CASE Visit(t) \/ RecordHash(t)
    BY <2>3 DEF Visit, RecordHash, MarkVisited, MarkContentSeen, rowVars, QueueStep
  <2>4. CASE Reject(t) \/ SkipDisallowed(t) \/ Done(t) \/ Retry(t)
    BY <2>1, <2>4 DEF Reject, SkipDisallowed, Done, Retry, QueueStep
  <2>5. CASE PushLinks(t)
    <3> DEFINE u == task[t].url
               S == IF FollowsLinks(u) THEN Links[u] ELSE {}
               d == depth[u] + 1
    <3>1. u \in Urls /\ Push(S, d)
      BY <2>1, <2>5 DEF PushLinks, Rows
    <3>2. depth[u] \in Nat /\ Reaches(depth[u], u)
      BY <2>1, <2>5, <3>1
         DEF PushLinks, DepthInv, TypeInv, TypeOK, QueueTypeOK, Sound
    <3>3. ASSUME NEW v \in S PROVE Sound(v, d)
      <4>1. FollowsLinks(u) /\ v \in Links[u]
        OBVIOUS
      <4>2. d <= MaxDepth
        BY <3>2, <4>1, CrawlAssumption DEF FollowsLinks
      <4>3. Reaches(d, v)
        BY <3>1, <3>2, <4>1, LinkReached
      <4>4. QED
        BY <4>2, <4>3 DEF Sound
    <3> HIDE DEF S, d
    <3>4. QED
      BY <3>1, <3>3 DEF QueueStep
  <2>6. QED
    BY <1>6, <2>2, <2>3, <2>4, <2>5 DEF Worker
<1>7. QED
  BY <1>1, <1>2, <1>3, <1>4, <1>5, <1>6 DEF Next

\* A task that is at work had its URL before, or is given what the dispatcher
\* had in hand; what that has in hand now it has popped.
LEMMA StepOfTasks ==
    ASSUME DepthInv, [Next]_vars
    PROVE  /\ \A t \in Tasks : task'[t].pc # "idle" =>
                 \/ task[t].pc # "idle" /\ task'[t].url = task[t].url
                 \/ \E r \in Runs : disp[r] = "spawn" /\ task'[t].url = hand[r]
           /\ \A r \in Runs : disp'[r] = "spawn" =>
                 \/ disp[r] = "spawn" /\ hand'[r] = hand[r]
                 \/ Pop(hand'[r])
<1> DEFINE Kept == \A t \in Tasks : task'[t].pc # "idle" =>
                       task[t].pc # "idle" /\ task'[t].url = task[t].url
           Given == \A t \in Tasks : task'[t].pc # "idle" =>
                 \/ task[t].pc # "idle" /\ task'[t].url = task[t].url
                 \/ \E r \in Runs : disp[r] = "spawn" /\ task'[t].url = hand[r]
           Popped == \A r \in Runs : disp'[r] = "spawn" =>
                 \/ disp[r] = "spawn" /\ hand'[r] = hand[r]
                 \/ Pop(hand'[r])
<1>1. TypeInv
  BY DEF DepthInv
<1>2. CASE UNCHANGED vars
  BY <1>2 DEF vars, runVars
<1>3. ASSUME NEW r \in Runs, Lifecycle(r) \/ Consumer(r) \/ Environment(r)
      PROVE  Kept /\ Popped
  <2>1. task' = task \/ task' = Abandoned(r)
    BY <1>3 DEF Lifecycle, Begin, Recover, Launch, PushSeed, Consumer, ReadSentinel, Drain,
       DrainWorkers, FinalRequeue, Close, ReadItem, Environment, Quit, TogglePause, Crash, Halt
  <2>2. Kept
    BY <1>1, <2>1, AbandonedType
  <2>3. UNCHANGED <<disp, hand>> \/ \E p \in {"top", "off"} :
           disp' = [disp EXCEPT ![r] = p] /\ \A q \in Runs : q # r => hand'[q] = hand[q]
    BY <1>1, <1>3 DEF Lifecycle, Begin, Recover, Launch, PushSeed, Consumer, ReadSentinel, Drain,
       DrainWorkers, FinalRequeue, Close, ReadItem, Environment, Quit, TogglePause, Crash, Halt,
       TypeInv, TypeOK
  <2>4. Popped
    BY <1>1, <2>3 DEF TypeInv, TypeOK
  <2>5. QED
    BY <2>2, <2>4
<1>4. ASSUME NEW r \in Runs, Dispatcher(r)
      PROVE  Given /\ Popped
  <2>1. CASE DispatchStop(r) \/ DispatchEmpty(r)
    BY <1>1, <2>1 DEF DispatchStop, DispatchEmpty, TypeInv, TypeOK
  <2>2. CASE DispatchClaim(r)
    BY <1>1, <2>2 DEF DispatchClaim, TypeInv, TypeOK
  <2>3. CASE Spawn(r)
    BY <1>1, <2>3 DEF Spawn, TypeInv, TypeOK, Idle
  <2>4. QED
    BY <1>4, <2>1, <2>2, <2>3 DEF Dispatcher
<1>5. ASSUME NEW t \in Tasks, Worker(t) \/ WorkerTimeout(t)
      PROVE  Kept /\ Popped
  <2>1. UNCHANGED <<disp, hand>> /\ task[t].pc # "idle"
    BY <1>5 DEF Worker, Enter, Reject, CheckRobots, SkipDisallowed, Fetch, WriteCache, CheckSeen,
       Visit, RecordHash, Done, Parse, StoreItems, PushLinks, Retry, Report, WorkerTimeout,
       WorkerFrame
  <2>2. \/ task' = [task EXCEPT ![t] = Idle]
        \/ \E p : task' = [task EXCEPT ![t].pc = p]
        \/ \E p, k : task' = [task EXCEPT ![t].pc = p, ![t].kind = k]
    BY <1>5 DEF Worker, Enter, Reject, CheckRobots, SkipDisallowed, Fetch, WriteCache, CheckSeen,
       Visit, RecordHash, Done, Parse, StoreItems, PushLinks, Retry, Report, WorkerTimeout,
       Goto, Exit
  <2>3. \A v \in Tasks : v # t => task'[v] = task[v]
    BY <1>1, <2>2 DEF TypeInv, TypeOK
  <2>4. task'[t].pc # "idle" => task'[t].url = task[t].url
    <3>1. CASE task' = [task EXCEPT ![t] = Idle]
      BY <1>1, <3>1 DEF TypeInv, TypeOK, Idle
    <3>2. CASE \E p : task' = [task EXCEPT ![t].pc = p]
      BY <1>1, <3>2 DEF TypeInv, TypeOK, Job
    <3>3. CASE \E p, k : task' = [task EXCEPT ![t].pc = p, ![t].kind = k]
      BY <1>1, <3>3 DEF TypeInv, TypeOK, Job
    <3>4. QED
      BY <2>2, <3>1, <3>2, <3>3
  <2>5. Kept
    BY <2>1, <2>3, <2>4
  <2>6. QED
    BY <2>1, <2>5
<1>6. QED
  BY <1>2, <1>3, <1>4, <1>5 DEF Next

\* Only start requests are ever waiting to be pushed.
LEMMA StepOfSeeds ==
    ASSUME DepthInv, [Next]_vars
    PROVE  \A r \in Runs : toSeed'[r] \subseteq Seeds
<1>1. TypeOK /\ \A r \in Runs : toSeed[r] \subseteq Seeds
  BY DEF DepthInv, TypeInv
<1>2. CASE UNCHANGED toSeed
  BY <1>1, <1>2
<1>3. ASSUME NEW r \in Runs, Recover(r) PROVE \A q \in Runs : toSeed'[q] \subseteq Seeds
  BY <1>1, <1>3 DEF TypeOK, Recover
<1>4. ASSUME NEW r \in Runs, NEW u \in Urls, PushSeed(r, u)
      PROVE  \A q \in Runs : toSeed'[q] \subseteq Seeds
  BY <1>1, <1>4 DEF TypeOK, PushSeed
<1>5. ASSUME NEW r \in Runs, Crash(r) PROVE \A q \in Runs : toSeed'[q] \subseteq Seeds
  BY <1>1, <1>5 DEF TypeOK, Crash
<1>6. QED
  BY <1>2, <1>3, <1>4, <1>5
     DEF Next, Lifecycle, Begin, Launch, Dispatcher, DispatchStop, DispatchClaim,
         DispatchEmpty, Spawn, Consumer, ReadSentinel, Drain, DrainWorkers,
         FinalRequeue, Close, ReadItem, Environment, Quit, TogglePause, Halt, Worker,
         Enter, Reject, CheckRobots, SkipDisallowed, Fetch, WriteCache, CheckSeen,
         Visit, RecordHash, Done, Parse, StoreItems, PushLinks, Retry, Report,
         WorkerTimeout, WorkerFrame, vars, runVars

\* Every step keeps it.
LEMMA DepthStep == DepthInv /\ [Next]_vars => DepthInv'
<1> SUFFICES ASSUME DepthInv, [Next]_vars PROVE DepthInv'
  OBVIOUS
<1>1. TypeInv'
  BY TypeStep DEF DepthInv
<1>2. Rows \subseteq Rows' /\ \A u \in Rows' : Sound(u, depth'[u])
  BY StepOfQueue, RowsStay DEF DepthInv, TypeInv, TypeOK
<1>3. \A t \in Tasks : task'[t].pc # "idle" => task'[t].url \in Rows'
  BY <1>2, StepOfTasks DEF DepthInv
<1>4. \A r \in Runs : disp'[r] = "spawn" => hand'[r] \in Rows'
  <2>1. \A u : Pop(u) => u \in Rows
    BY DEF Pop, Claimable, PendingRows, Rows
  <2>2. QED
    BY <1>2, <2>1, StepOfTasks DEF DepthInv
<1>5. \A r \in Runs : toSeed'[r] \subseteq Seeds
  BY StepOfSeeds
<1>6. \A u \in Rows' : Sound(u, depth[u])'
  BY <1>2 DEF Sound, Reaches
<1>7. QED
  BY <1>1, <1>3, <1>4, <1>5, <1>6 DEF DepthInv

\* DepthInv holds in every behaviour, overlapping runs included.
LEMMA DepthInvariant == Spec => []DepthInv
<1>1. Init => DepthInv
  BY TypeInit DEF Init, QueueInit, DepthInv, Rows, Idle
<1>2. QED
  BY <1>1, DepthStep, PTL DEF Spec

\* max_depth (crawler.py, _fetch_and_parse): the depth of a row is the length of
\* a chain of links that leads to it, and no row lies deeper than max_depth,
\* whichever pages are retried, requeued or fetched twice, and whatever crashes.
THEOREM DepthIsBounded == Spec => []DepthIsSound
<1>1. DepthInv => DepthIsSound
  BY DEF DepthInv, Rows, Sound, DepthIsSound
<1>2. QED
  BY <1>1, DepthInvariant, PTL

-----------------------------------------------------------------------------
(* When runs of a crawl do not overlap, a row has one owner, a page is     *)
(* stored once, no row is charged beyond its budget and a crawl shown as   *)
(* ended is quiet.  ClaimInv is inductive and implies all four.            *)

NoOverlap == Overlap = FALSE

\* An empty queue without runs satisfies the invariant.
LEMMA ClaimInit == Init => ClaimInv
BY TypeInit, QueueAssumption
   DEF Init, QueueInit, TypeInv, ClaimInv, Solo, ClaimedRows, ClaimExclusive, InHand,
       Unstored, StoredOnce, WithinBudget, RetryBudget, SweptLast, TerminalRowIsQuiet,
       Owners, OwnerPc, ClaimedPc, VisitedPc, ParsedPc, Idle, Live

-----------------------------------------------------------------------------
(* A worker's step touches the row of its own URL and no other, except     *)
(* that it may insert rows.  What it does to its own row is all there is   *)
(* to check about it.                                                      *)

Untouched(v) ==
    /\ status'[v] = status[v] \/ (status[v] = "absent" /\ status'[v] = "pending")
    /\ retries'[v] = retries[v]
    /\ stored'[v] = stored[v]
    /\ v \in visited' <=> v \in visited

OnlyMoves(t) ==
    /\ \A s \in Tasks \ {t} : task'[s] = task[s]
    /\ task'[t].pc = "idle" \/ (/\ task'[t].url = task[t].url
                                /\ task'[t].run = task[t].run
                                /\ task'[t].pc \in OwnerPc => task[t].pc \in OwnerPc)
    /\ UNCHANGED <<phase, disp, hand, crawlRow>>

OnlyOwnRow(t) == \A v \in Urls : Untouched(v) \/ (t \in Owners /\ v = task[t].url)

OwnRowOk(t) ==
    LET u == task[t].url IN
    /\ task'[t].pc \in OwnerPc => RowOf(t)' /\ retries'[u] < MaxUrlRetries
    /\ task'[t].pc \in VisitedPc \cup {"parse", "store"} => stored'[u] = 0
    /\ stored'[u] <= 1 /\ (stored'[u] > 0 => u \in visited')
    /\ status'[u] = "processing" => status[u] = "processing"
    /\ status'[u] \in {"absent", "pending", "processing"} => retries'[u] < MaxUrlRetries
    /\ retries'[u] <= MaxUrlRetries

LocalStep(t) == OnlyMoves(t) /\ OnlyOwnRow(t) /\ OwnRowOk(t)

\* Such a step keeps the invariant.
LEMMA LocalStepKeeps ==
    ASSUME ClaimInv, TypeInv', NEW t \in Tasks, task[t].pc # "idle", LocalStep(t)
    PROVE  ClaimInv'
<1> USE QueueAssumption
<1>1. Solo'
  BY DEF ClaimInv, Solo, LocalStep, OnlyMoves
<1>2. \A s \in Owners' : s \in Owners /\ task'[s].url = task[s].url
  BY DEF LocalStep, OnlyMoves, Owners, OwnerPc, ClaimedPc, VisitedPc, ParsedPc
<1>3. ClaimExclusive'
  <2>1. \A s1, s2 \in Owners' : task'[s1].url = task'[s2].url => s1 = s2
    BY <1>2 DEF ClaimInv, ClaimExclusive
  <2>2. \A u \in Urls : InHand(u)' => ~Owned(u)'
    BY <1>2 DEF ClaimInv, ClaimExclusive, LocalStep, OnlyMoves, InHand, Owned
  <2>3. QED
    BY <2>1, <2>2 DEF ClaimExclusive
<1>4. ASSUME NEW s \in Owners', s # t
      PROVE  task'[s] = task[s] /\ task[s].url \in Urls /\ Untouched(task[s].url)
  <2>1. s \in Owners /\ task'[s] = task[s]
    BY <1>2, <1>4 DEF LocalStep, OnlyMoves, Owners
  <2>2. task[s].url \in Urls /\ (t \in Owners => task[s].url # task[t].url)
    BY <2>1, <1>4
       DEF ClaimInv, ClaimExclusive, Bound, Owners, OwnerPc, ClaimedPc, VisitedPc,
           ParsedPc
  <2>3. QED
    BY <2>1, <2>2 DEF LocalStep, OnlyOwnRow
<1>5. ClaimedRows'
  <2>1. ASSUME NEW s \in Owners' PROVE RowOf(s)'
    <3>1. CASE s = t
      BY <3>1 DEF LocalStep, OwnRowOk, Owners
    <3>2. CASE s # t
      BY <1>2, <1>4, <3>2 DEF ClaimInv, ClaimedRows, RowOf, Untouched
    <3>3. QED
      BY <3>1, <3>2
  <2>2. ASSUME NEW r \in Runs, disp'[r] = "spawn"
        PROVE  status'[hand'[r]] = "processing" /\ hand'[r] \notin visited'
    <3>1. disp[r] = "spawn" /\ hand'[r] = hand[r] /\ hand[r] \in Urls
      BY <2>2 DEF LocalStep, OnlyMoves, ClaimInv, Bound
    <3>2. Untouched(hand[r])
      BY <3>1 DEF LocalStep, OnlyOwnRow, ClaimInv, ClaimExclusive, InHand, Owned
    <3>3. QED
      BY <3>1, <3>2 DEF ClaimInv, ClaimedRows, Untouched
  <2>3. QED
    BY <2>1, <2>2 DEF ClaimedRows
<1>6. Unstored' /\ StoredOnce'
  <2>1. ASSUME NEW v \in Urls PROVE stored'[v] <= 1 /\ (stored'[v] > 0 => v \in visited')
    BY DEF LocalStep, OnlyOwnRow, OwnRowOk, Untouched, ClaimInv, Unstored, StoredOnce
  <2>2. ASSUME NEW s \in Tasks, task'[s].pc \in VisitedPc \cup {"parse", "store"}
        PROVE  stored'[task'[s].url] = 0
    <3>1. CASE s = t
      BY <3>1, <2>2 DEF LocalStep, OnlyMoves, OwnRowOk, VisitedPc
    <3>2. CASE s # t
      <4>1. s \in Owners'
        BY <2>2 DEF Owners, OwnerPc, VisitedPc, ParsedPc
      <4>2. QED
        BY <4>1, <2>2, <3>2, <1>4 DEF ClaimInv, Unstored, Untouched
    <3>3. QED
      BY <3>1, <3>2
  <2>3. QED
    BY <2>1, <2>2 DEF Unstored, StoredOnce
<1>7. WithinBudget' /\ RetryBudget'
  <2>1. ASSUME NEW v \in Urls
        PROVE  /\ retries'[v] <= MaxUrlRetries
               /\ status'[v] \in {"absent", "pending", "processing"} =>
                     retries'[v] < MaxUrlRetries
    BY DEF LocalStep, OnlyOwnRow, OwnRowOk, Untouched, ClaimInv, WithinBudget,
           RetryBudget
  <2>2. ASSUME NEW s \in Owners' PROVE retries'[task'[s].url] < MaxUrlRetries
    <3>1. CASE s = t
      BY <1>2, <3>1 DEF LocalStep, OwnRowOk, Owners
    <3>2. CASE s # t
      BY <1>2, <1>4, <3>2 DEF ClaimInv, WithinBudget, Untouched
    <3>3. QED
      BY <3>1, <3>2
  <2>3. QED
    BY <2>1, <2>2 DEF WithinBudget, RetryBudget
<1>8. SweptLast' /\ TerminalRowIsQuiet'
  <2>1. ASSUME NEW v \in Urls, status'[v] = "processing" PROVE status[v] = "processing"
    BY <2>1 DEF LocalStep, OnlyOwnRow, OwnRowOk, Untouched
  <2>2. SweptLast'
    BY <2>1 DEF ClaimInv, SweptLast, LocalStep, OnlyMoves
  <2>3. crawlRow' \in {"finished", "cancelled"} => Owners' = {}
    BY <1>2 DEF ClaimInv, TerminalRowIsQuiet, LocalStep, OnlyMoves
  <2>4. QED
    BY <2>1, <2>2, <2>3 DEF ClaimInv, TerminalRowIsQuiet, LocalStep, OnlyMoves
<1>9. QED
  BY <1>1, <1>3, <1>5, <1>6, <1>7, <1>8 DEF ClaimInv, TypeInv

\* A worker that moves on touches no other task.
LEMMA GotoMoves ==
    ASSUME TypeOK, NEW t \in Tasks, NEW p, Goto(t, p)
    PROVE  /\ \A s \in Tasks \ {t} : task'[s] = task[s]
           /\ task'[t].pc = p
           /\ task'[t].url = task[t].url /\ task'[t].run = task[t].run
BY DEF TypeOK, Job, Goto

\* A worker that returns touches no other task.
LEMMA ExitMoves ==
    ASSUME TypeOK, NEW t \in Tasks, Exit(t)
    PROVE  /\ \A s \in Tasks \ {t} : task'[s] = task[s]
           /\ task'[t].pc = "idle"
BY DEF TypeOK, Job, Exit, Idle

-----------------------------------------------------------------------------
(* Every step keeps ClaimInv. *)

\* Every step of _fetch_and_parse() is such a step.
LEMMA WorkerKeeps ==
    ASSUME ClaimInv, TypeInv', NEW t \in Tasks, Worker(t) \/ WorkerTimeout(t)
    PROVE  ClaimInv'
<1> USE QueueAssumption, CrawlAssumption
<1> DEFINE u == task[t].url
<1>0. TypeInv
  BY DEF ClaimInv, TypeInv
<1>1. ASSUME Enter(t) PROVE LocalStep(t)
  <2>1. OnlyMoves(t)
    BY <1>0, <1>1, GotoMoves, ExitMoves
       DEF TypeInv, OnlyMoves, OwnerPc, ClaimedPc, Enter, WorkerFrame
  <2>2. OnlyOwnRow(t)
    BY <1>0, <1>1 DEF OnlyOwnRow, Untouched, queueVars, Enter
  <2>3. OwnRowOk(t)
    BY <1>0, <1>1, <2>1, GotoMoves, ExitMoves
       DEF OwnRowOk, OnlyMoves, RowOf, Owners, OwnerPc, VisitedPc, ParsedPc, ClaimInv,
           ClaimedRows, Unstored, StoredOnce, WithinBudget, RetryBudget, Bound,
           queueVars, Enter
  <2>4. QED
    BY <2>1, <2>2, <2>3 DEF LocalStep
<1>2. ASSUME Reject(t) PROVE LocalStep(t)
  <2>1. OnlyMoves(t)
    BY <1>0, <1>2, GotoMoves, ExitMoves DEF TypeInv, OnlyMoves, Reject, WorkerFrame
  <2>2. OnlyOwnRow(t)
    BY <1>0, <1>2
       DEF OnlyOwnRow, Untouched, Owners, OwnerPc, ClaimedPc, rowVars, Reject,
           MarkFailed
  <2>3. OwnRowOk(t)
    BY <1>0, <1>2, <2>1, GotoMoves, ExitMoves
       DEF OwnRowOk, OwnerPc, ClaimedPc, VisitedPc, ParsedPc, ClaimInv, Unstored,
           StoredOnce, WithinBudget, RetryBudget, Bound, rowVars, Reject, MarkFailed
  <2>4. QED
    BY <2>1, <2>2, <2>3 DEF LocalStep
<1>3. ASSUME CheckRobots(t) PROVE LocalStep(t)
  <2>1. OnlyMoves(t)
    BY <1>0, <1>3, GotoMoves, ExitMoves
       DEF TypeInv, OnlyMoves, OwnerPc, ClaimedPc, CheckRobots, WorkerFrame
  <2>2. OnlyOwnRow(t)
    BY <1>0, <1>3 DEF OnlyOwnRow, Untouched, queueVars, CheckRobots
  <2>3. OwnRowOk(t)
    BY <1>0, <1>3, <2>1, GotoMoves, ExitMoves
       DEF OwnRowOk, OnlyMoves, RowOf, Owners, OwnerPc, VisitedPc, ParsedPc, ClaimInv,
           ClaimedRows, Unstored, StoredOnce, WithinBudget, RetryBudget, Bound,
           queueVars, CheckRobots
  <2>4. QED
    BY <2>1, <2>2, <2>3 DEF LocalStep
<1>4. ASSUME SkipDisallowed(t) PROVE LocalStep(t)
  <2>1. OnlyMoves(t)
    BY <1>0, <1>4, GotoMoves, ExitMoves
       DEF TypeInv, OnlyMoves, SkipDisallowed, WorkerFrame
  <2>2. OnlyOwnRow(t)
    BY <1>0, <1>4
       DEF OnlyOwnRow, Untouched, Owners, OwnerPc, ClaimedPc, rowVars, SkipDisallowed,
           MarkDone
  <2>3. OwnRowOk(t)
    BY <1>0, <1>4, <2>1, GotoMoves, ExitMoves
       DEF OwnRowOk, OwnerPc, ClaimedPc, VisitedPc, ParsedPc, ClaimInv, Unstored,
           StoredOnce, WithinBudget, RetryBudget, Bound, rowVars, SkipDisallowed,
           MarkDone
  <2>4. QED
    BY <2>1, <2>2, <2>3 DEF LocalStep
<1>5. ASSUME Fetch(t) PROVE LocalStep(t)
  <2>1. OnlyMoves(t)
    BY <1>0, <1>5, GotoMoves, ExitMoves
       DEF TypeInv, OnlyMoves, OwnerPc, ClaimedPc, TypeOK, Job, Fetch, WorkerFrame
  <2>2. OnlyOwnRow(t)
    BY <1>0, <1>5 DEF OnlyOwnRow, Untouched, queueVars, Fetch
  <2>3. OwnRowOk(t)
    BY <1>0, <1>5, <2>1, GotoMoves, ExitMoves
       DEF OwnRowOk, RowOf, Owners, OwnerPc, ClaimedPc, VisitedPc, ParsedPc, ClaimInv,
           ClaimedRows, Unstored, WithinBudget, RetryBudget, Bound, TypeOK, Job,
           queueVars, Fetch
  <2>4. QED
    BY <2>1, <2>2, <2>3 DEF LocalStep
<1>6. ASSUME WriteCache(t) PROVE LocalStep(t)
  <2>1. OnlyMoves(t)
    BY <1>0, <1>6, GotoMoves, ExitMoves
       DEF TypeInv, OnlyMoves, OwnerPc, ClaimedPc, WriteCache, WorkerFrame
  <2>2. OnlyOwnRow(t)
    BY <1>0, <1>6 DEF OnlyOwnRow, Untouched, queueVars, WriteCache
  <2>3. OwnRowOk(t)
    BY <1>0, <1>6, <2>1, GotoMoves, ExitMoves
       DEF OwnRowOk, OnlyMoves, RowOf, Owners, OwnerPc, VisitedPc, ParsedPc, ClaimInv,
           ClaimedRows, Unstored, StoredOnce, WithinBudget, RetryBudget, Bound,
           queueVars, WriteCache
  <2>4. QED
    BY <2>1, <2>2, <2>3 DEF LocalStep
<1>7. ASSUME CheckSeen(t) PROVE LocalStep(t)
  <2>1. OnlyMoves(t)
    BY <1>0, <1>7, GotoMoves, ExitMoves
       DEF TypeInv, OnlyMoves, OwnerPc, ClaimedPc, TypeOK, CheckSeen, WorkerFrame
  <2>2. OnlyOwnRow(t)
    BY <1>0, <1>7 DEF OnlyOwnRow, Untouched, queueVars, CheckSeen
  <2>3. OwnRowOk(t)
    BY <1>0, <1>7, <2>1, GotoMoves, ExitMoves
       DEF OwnRowOk, RowOf, Owners, OwnerPc, ClaimedPc, VisitedPc, ParsedPc, ClaimInv,
           ClaimedRows, Unstored, WithinBudget, RetryBudget, Bound, TypeOK, queueVars,
           CheckSeen
  <2>4. QED
    BY <2>1, <2>2, <2>3 DEF LocalStep
<1>8. ASSUME Visit(t) PROVE LocalStep(t)
  <2>1. OnlyMoves(t)
    BY <1>0, <1>8, GotoMoves, ExitMoves
       DEF TypeInv, OnlyMoves, OwnerPc, ClaimedPc, Visit, WorkerFrame
  <2>2. OnlyOwnRow(t)
    BY <1>0, <1>8
       DEF OnlyOwnRow, Untouched, Owners, OwnerPc, ClaimedPc, rowVars, Visit,
           MarkVisited
  <2>3. OwnRowOk(t)
    BY <1>0, <1>8, <2>1, GotoMoves, ExitMoves
       DEF OwnRowOk, RowOf, Owners, OwnerPc, ClaimedPc, ParsedPc, ClaimInv,
           ClaimedRows, Unstored, WithinBudget, RetryBudget, Bound, TypeOK, rowVars,
           Visit, MarkVisited
  <2>4. QED
    BY <2>1, <2>2, <2>3 DEF LocalStep
<1>9. ASSUME RecordHash(t) PROVE LocalStep(t)
  <2>1. OnlyMoves(t)
    BY <1>0, <1>9, GotoMoves, ExitMoves
       DEF TypeInv, OnlyMoves, OwnerPc, VisitedPc, RecordHash, WorkerFrame
  <2>2. OnlyOwnRow(t)
    BY <1>0, <1>9 DEF OnlyOwnRow, Untouched, rowVars, RecordHash, MarkContentSeen
  <2>3. OwnRowOk(t)
    BY <1>0, <1>9, <2>1, GotoMoves, ExitMoves
       DEF OwnRowOk, OnlyMoves, RowOf, Owners, ClaimedPc, VisitedPc, ParsedPc,
           ClaimInv, ClaimedRows, Unstored, WithinBudget, RetryBudget, Bound, rowVars,
           RecordHash, MarkContentSeen
  <2>4. QED
    BY <2>1, <2>2, <2>3 DEF LocalStep
<1>10. ASSUME Done(t) PROVE LocalStep(t)
  <2>1. OnlyMoves(t)
    BY <1>0, <1>10, GotoMoves, ExitMoves
       DEF TypeInv, OnlyMoves, OwnerPc, VisitedPc, Done, WorkerFrame
  <2>2. OnlyOwnRow(t)
    BY <1>0, <1>10
       DEF OnlyOwnRow, Untouched, Owners, OwnerPc, VisitedPc, rowVars, Done, MarkDone
  <2>3. OwnRowOk(t)
    BY <1>0, <1>10, <2>1, GotoMoves, ExitMoves
       DEF OwnRowOk, RowOf, Owners, OwnerPc, ClaimedPc, VisitedPc, ParsedPc, ClaimInv,
           ClaimedRows, Unstored, WithinBudget, TypeOK, QueueTypeOK, rowVars, Done,
           MarkDone
  <2>4. QED
    BY <2>1, <2>2, <2>3 DEF LocalStep
<1>11. ASSUME Parse(t) PROVE LocalStep(t)
  <2>1. OnlyMoves(t)
    BY <1>0, <1>11, GotoMoves, ExitMoves
       DEF TypeInv, OnlyMoves, OwnerPc, ParsedPc, Parse, WorkerFrame
  <2>2. OnlyOwnRow(t)
    BY <1>0, <1>11 DEF OnlyOwnRow, Untouched, queueVars, Parse
  <2>3. OwnRowOk(t)
    BY <1>0, <1>11, <2>1, GotoMoves, ExitMoves
       DEF OwnRowOk, RowOf, Owners, OwnerPc, ClaimedPc, VisitedPc, ParsedPc, ClaimInv,
           ClaimedRows, Unstored, WithinBudget, RetryBudget, Bound, queueVars, Parse
  <2>4. QED
    BY <2>1, <2>2, <2>3 DEF LocalStep
<1>12. ASSUME StoreItems(t) PROVE LocalStep(t)
  <2>1. OnlyMoves(t)
    BY <1>0, <1>12, GotoMoves, ExitMoves
       DEF TypeInv, OnlyMoves, OwnerPc, ParsedPc, StoreItems, WorkerFrame
  <2>2. OnlyOwnRow(t)
    BY <1>0, <1>12
       DEF OnlyOwnRow, Untouched, Owners, OwnerPc, ParsedPc, queueVars, StoreItems
  <2>3. OwnRowOk(t)
    BY <1>0, <1>12, <2>1, GotoMoves, ExitMoves
       DEF OwnRowOk, RowOf, Owners, OwnerPc, ClaimedPc, VisitedPc, ParsedPc, ClaimInv,
           ClaimedRows, Unstored, WithinBudget, RetryBudget, Bound, queueVars,
           StoreItems
  <2>4. QED
    BY <2>1, <2>2, <2>3 DEF LocalStep
<1>13. ASSUME PushLinks(t) PROVE LocalStep(t)
  <2>1. OnlyMoves(t)
    BY <1>0, <1>13, GotoMoves, ExitMoves DEF TypeInv, OnlyMoves, PushLinks, WorkerFrame
  <2>2. OnlyOwnRow(t)
    BY <1>0, <1>13 DEF OnlyOwnRow, Untouched, PushLinks, Push
  <2>3. OwnRowOk(t)
    BY <1>0, <1>13, <2>1, GotoMoves, ExitMoves
       DEF OwnRowOk, RowOf, Owners, OwnerPc, ClaimedPc, VisitedPc, ParsedPc, ClaimInv,
           ClaimedRows, StoredOnce, RetryBudget, Bound, PushLinks, Push
  <2>4. QED
    BY <2>1, <2>2, <2>3 DEF LocalStep
<1>14. ASSUME Retry(t) PROVE LocalStep(t)
  <2>1. OnlyMoves(t)
    BY <1>0, <1>14, GotoMoves, ExitMoves
       DEF TypeInv, OnlyMoves, OwnerPc, ClaimedPc, Retry, WorkerFrame
  <2>2. OnlyOwnRow(t)
    BY <1>0, <1>14
       DEF OnlyOwnRow, Untouched, Owners, OwnerPc, ClaimedPc, Retry, IncrementRetry
  <2>3. OwnRowOk(t)
    BY <1>0, <1>14, <2>1, GotoMoves, ExitMoves
       DEF OwnRowOk, Owners, OwnerPc, ClaimedPc, VisitedPc, ParsedPc, ClaimInv,
           Unstored, StoredOnce, WithinBudget, Bound, TypeOK, QueueTypeOK, Retry,
           IncrementRetry
  <2>4. QED
    BY <2>1, <2>2, <2>3 DEF LocalStep
<1>15. ASSUME Report(t) PROVE LocalStep(t)
  <2>1. OnlyMoves(t)
    BY <1>0, <1>15, GotoMoves, ExitMoves DEF TypeInv, OnlyMoves, Report, WorkerFrame
  <2>2. OnlyOwnRow(t)
    BY <1>0, <1>15 DEF OnlyOwnRow, Untouched, queueVars, Report
  <2>3. OwnRowOk(t)
    BY <1>0, <1>15, <2>1, GotoMoves, ExitMoves
       DEF OwnRowOk, OwnerPc, ClaimedPc, VisitedPc, ParsedPc, ClaimInv, Unstored,
           StoredOnce, WithinBudget, RetryBudget, Bound, queueVars, Report
  <2>4. QED
    BY <2>1, <2>2, <2>3 DEF LocalStep
<1>16. ASSUME WorkerTimeout(t) PROVE LocalStep(t)
  <2>1. OnlyMoves(t)
    BY <1>0, <1>16, GotoMoves, ExitMoves
       DEF TypeInv, OnlyMoves, WorkerTimeout, WorkerFrame
  <2>2. OnlyOwnRow(t)
    BY <1>0, <1>16 DEF OnlyOwnRow, Untouched, queueVars, WorkerTimeout
  <2>3. OwnRowOk(t)
    BY <1>0, <1>16, <2>1, GotoMoves, ExitMoves
       DEF OwnRowOk, OwnerPc, ClaimedPc, VisitedPc, ParsedPc, ClaimInv, Unstored,
           StoredOnce, WithinBudget, RetryBudget, Bound, queueVars, WorkerTimeout
  <2>4. QED
    BY <2>1, <2>2, <2>3 DEF LocalStep
<1>17. LocalStep(t) /\ task[t].pc # "idle"
  BY <1>1, <1>2, <1>3, <1>4, <1>5, <1>6, <1>7, <1>8, <1>9, <1>10, <1>11, <1>12, <1>13,
     <1>14, <1>15, <1>16
     DEF Worker, Enter, Reject, CheckRobots, SkipDisallowed, Fetch, WriteCache,
         CheckSeen, Visit, RecordHash, Done, Parse, StoreItems, PushLinks, Retry,
         Report, WorkerTimeout
<1>18. QED
  BY <1>17, LocalStepKeeps

\* A step that touches no row and no task.
LEMMA QuietKeeps ==
    ASSUME ClaimInv, TypeInv', Solo',
           UNCHANGED <<status, retries, visited, stored, task, crawlRow>>,
           \A r \in Runs :
              /\ disp'[r] = "spawn" => disp[r] = "spawn" /\ hand'[r] = hand[r]
              /\ phase'[r] \in Live => phase[r] \in Live
              /\ phase'[r] = "final" => phase[r] = "final"
    PROVE  ClaimInv'
<1>1. ClaimedRows'
  BY DEF ClaimInv, ClaimedRows, RowOf, Owners
<1>2. ClaimExclusive'
  BY DEF ClaimInv, ClaimExclusive, InHand, Owned, Owners
<1>3. Unstored' /\ StoredOnce' /\ WithinBudget' /\ RetryBudget'
  BY DEF ClaimInv, Unstored, StoredOnce, WithinBudget, RetryBudget, Owners
<1>4. SweptLast' /\ TerminalRowIsQuiet'
  BY DEF ClaimInv, SweptLast, TerminalRowIsQuiet, Owners
<1>5. QED
  BY <1>1, <1>2, <1>3, <1>4 DEF ClaimInv, TypeInv

\* requeue_stale() while the run that calls it has no coroutine.
LEMMA SweepKeeps ==
    ASSUME ClaimInv, TypeInv', NEW r \in Runs, phase[r] \in {"recover", "closing"},
           RequeueStale, UNCHANGED <<stored, disp, hand, task, crawlRow>>,
           \E p \in Live : phase' = [phase EXCEPT ![r] = p]
    PROVE  ClaimInv'
<1>1. Solo' /\ Owners = {} /\ Owners' = {}
  BY DEF ClaimInv, TypeOK, Bound, Solo, Owners, OwnerPc, ClaimedPc, VisitedPc, ParsedPc
<1>2. ClaimedRows' /\ ClaimExclusive'
  BY <1>1 DEF ClaimInv, TypeOK, Solo, ClaimedRows, ClaimExclusive, InHand
<1>3. Unstored' /\ StoredOnce' /\ WithinBudget' /\ RetryBudget'
  BY <1>1
     DEF ClaimInv, Unstored, StoredOnce, WithinBudget, RetryBudget, RequeueStale,
         rowVars
<1>4. SweptLast' /\ TerminalRowIsQuiet'
  BY <1>1 DEF ClaimInv, TypeOK, SweptLast, TerminalRowIsQuiet, RequeueStale
<1>5. QED
  BY <1>1, <1>2, <1>3, <1>4 DEF ClaimInv, TypeInv

\* Every step keeps the invariant: one step per action, one level down per part
\* of the invariant that the action can disturb.
LEMMA ClaimStep ==
    ASSUME NoOverlap, ClaimInv, [Next]_vars
    PROVE  ClaimInv'
<1> USE QueueAssumption
<1>0. TypeInv /\ TypeInv'
  BY TypeStep DEF ClaimInv, TypeInv
<1>1. ASSUME NEW r \in Runs, Begin(r) PROVE ClaimInv'
  <2>1. Solo'
    BY <1>1 DEF ClaimInv, Solo, Begin, NoOverlap
  <2>2. ClaimedRows' /\ ClaimExclusive'
    BY <1>0, <1>1
       DEF ClaimInv, Owners, queueVars, ClaimedRows, RowOf, ClaimExclusive, Owned,
           InHand, Begin
  <2>3. Unstored' /\ StoredOnce' /\ WithinBudget' /\ RetryBudget'
    BY <1>0, <1>1
       DEF ClaimInv, Owners, queueVars, Unstored, StoredOnce, WithinBudget,
           RetryBudget, Begin
  <2>4. SweptLast' /\ TerminalRowIsQuiet'
    BY <1>0, <1>1, <2>1 DEF ClaimInv, queueVars, SweptLast, TerminalRowIsQuiet, Begin
  <2>5. QED
    BY <1>0, <2>1, <2>2, <2>3, <2>4 DEF ClaimInv, TypeInv
<1>2. ASSUME NEW r \in Runs, Recover(r) PROVE ClaimInv'
  BY <1>0, <1>2, SweepKeeps DEF Live, durableVars, Recover
<1>3. ASSUME NEW r \in Runs, NEW u \in Urls, PushSeed(r, u) PROVE ClaimInv'
  <2>1. Solo'
    BY <1>3 DEF ClaimInv, Solo, PushSeed
  <2>2. ClaimedRows' /\ ClaimExclusive'
    BY <1>0, <1>3
       DEF ClaimInv, Bound, Owners, OwnerPc, ClaimedPc, VisitedPc, ParsedPc, Solo,
           ClaimedRows, RowOf, ClaimExclusive, Owned, Live, PushSeed
  <2>3. Unstored' /\ StoredOnce' /\ WithinBudget' /\ RetryBudget'
    BY <1>0, <1>3
       DEF ClaimInv, Owners, durableVars, Unstored, StoredOnce, WithinBudget,
           RetryBudget, PushSeed, Push
  <2>4. SweptLast' /\ TerminalRowIsQuiet'
    BY <1>0, <1>3, <2>1
       DEF ClaimInv, TypeOK, Owners, OwnerPc, ClaimedPc, durableVars, Solo, SweptLast,
           TerminalRowIsQuiet, PushSeed
  <2>5. QED
    BY <1>0, <2>1, <2>2, <2>3, <2>4 DEF ClaimInv, TypeInv
<1>4. ASSUME NEW r \in Runs, Launch(r) PROVE ClaimInv'
  <2>1. Solo'
    BY <1>4 DEF ClaimInv, TypeOK, Solo, Launch
  <2>2. QED
    BY <1>0, <1>4, <2>1, QuietKeeps DEF ClaimInv, TypeOK, queueVars, durableVars, Launch
<1>5. ASSUME NEW r \in Runs, DispatchStop(r) PROVE ClaimInv'
  <2>1. Solo'
    BY <1>5 DEF ClaimInv, Solo, DispatchStop
  <2>2. QED
    BY <1>0, <1>5, <2>1, QuietKeeps DEF queueVars, durableVars, DispatchStop
<1>6. ASSUME NEW r \in Runs, DispatchClaim(r) PROVE ClaimInv'
  <2>1. Solo'
    BY <1>6 DEF ClaimInv, Solo, DispatchClaim, MayPop
  <2>2. ClaimedRows' /\ ClaimExclusive'
    BY <1>0, <1>6
       DEF ClaimInv, TypeOK, QueueTypeOK, Owners, OwnerPc, durableVars, ClaimedRows,
           RowOf, ClaimExclusive, Owned, InHand, DispatchClaim, Pop, Claimable,
           PendingRows
  <2>3. Unstored' /\ StoredOnce' /\ WithinBudget' /\ RetryBudget'
    BY <1>0, <1>6
       DEF ClaimInv, Owners, durableVars, rowVars, Unstored, StoredOnce, WithinBudget,
           RetryBudget, DispatchClaim, Pop, Claimable, PendingRows
  <2>4. SweptLast' /\ TerminalRowIsQuiet'
    BY <1>0, <1>6, <2>1
       DEF ClaimInv, TypeOK, durableVars, Solo, SweptLast, TerminalRowIsQuiet,
           DispatchClaim
  <2>5. QED
    BY <1>0, <2>1, <2>2, <2>3, <2>4 DEF ClaimInv, TypeInv
<1>7. ASSUME NEW r \in Runs, DispatchEmpty(r) PROVE ClaimInv'
  <2>1. Solo'
    BY <1>7 DEF ClaimInv, Solo, DispatchEmpty, MayPop
  <2>2. QED
    BY <1>0, <1>7, <2>1, QuietKeeps DEF queueVars, durableVars, DispatchEmpty
<1>8. ASSUME NEW r \in Runs, Spawn(r) PROVE ClaimInv'
  <2> DEFINE u == hand[r]
  <2>1. PICK t \in Tasks :
          /\ task[t].pc = "idle"
          /\ task' = [task EXCEPT ![t] = [pc |-> "gate", url |-> u, run |-> r,
                                          kind |-> "fresh"]]
    BY <1>8 DEF Spawn
  <2>2. /\ disp[r] = "spawn" /\ u \in Urls /\ disp' = [disp EXCEPT ![r] = "top"]
        /\ UNCHANGED <<status, visited, retries, stored, crawlRow, phase>>
    BY <1>8 DEF Spawn, ClaimInv, Bound, queueVars, durableVars
  <2>3. /\ task'[t].pc = "gate" /\ task'[t].url = u /\ task'[t].run = r
        /\ \A s \in Tasks \ {t} : task'[s] = task[s]
    BY <2>1 DEF ClaimInv, TypeOK
  <2>4. Solo'
    BY <2>2, <2>3 DEF ClaimInv, TypeOK, Solo
  <2>5. Owners' = Owners \cup {t}
    BY <2>1, <2>3 DEF Owners, OwnerPc, ClaimedPc
  <2>6. status[u] = "processing" /\ u \notin visited /\ ~Owned(u)
    BY <2>2 DEF ClaimInv, ClaimedRows, ClaimExclusive, InHand
  <2>7. ClaimedRows'
    <3>1. RowOf(t)'
      BY <2>2, <2>3, <2>6 DEF RowOf, VisitedPc, ParsedPc
    <3>2. ASSUME NEW s \in Owners, s # t PROVE RowOf(s)'
      BY <2>2, <2>3, <3>2 DEF ClaimInv, ClaimedRows, RowOf, Owners
    <3>3. ASSUME NEW q \in Runs, disp'[q] = "spawn" PROVE disp[q] = "spawn" /\ hand'[q] = hand[q]
      BY <1>8, <2>2, <3>3 DEF Spawn, ClaimInv, TypeOK
    <3>4. QED
      BY <2>2, <2>5, <3>1, <3>2, <3>3 DEF ClaimInv, ClaimedRows
  <2>8. ClaimExclusive'
    <3>1. \A s1, s2 \in Owners' : task'[s1].url = task'[s2].url => s1 = s2
      BY <2>3, <2>5, <2>6 DEF ClaimInv, ClaimExclusive, Owned, Owners
    <3>2. \A q \in Runs : disp'[q] # "spawn"
      BY <2>2 DEF ClaimInv, TypeOK, Solo, Live
    <3>3. QED
      BY <3>1, <3>2 DEF ClaimExclusive, InHand
  <2>9. Unstored' /\ StoredOnce' /\ WithinBudget' /\ RetryBudget'
    BY <2>2, <2>3, <2>5, <2>6
       DEF ClaimInv, Unstored, StoredOnce, WithinBudget, RetryBudget, VisitedPc,
           Owners
  <2>10. SweptLast' /\ TerminalRowIsQuiet'
    BY <2>2 DEF ClaimInv, SweptLast, TerminalRowIsQuiet, Solo, Live
  <2>11. QED
    BY <1>0, <2>4, <2>7, <2>8, <2>9, <2>10 DEF ClaimInv, TypeInv
<1>9. ASSUME NEW r \in Runs, NEW u \in Urls, ReadItem(r, u) PROVE ClaimInv'
  <2>1. Solo'
    BY <1>9 DEF ClaimInv, Solo, ReadItem
  <2>2. QED
    BY <1>0, <1>9, <2>1, QuietKeeps DEF queueVars, durableVars, ReadItem
<1>10. ASSUME NEW r \in Runs, ReadSentinel(r) PROVE ClaimInv'
  <2>1. Solo'
    BY <1>10 DEF ClaimInv, TypeOK, Solo, ReadSentinel, Drain
  <2>2. QED
    BY <1>0, <1>10, <2>1, QuietKeeps
       DEF ClaimInv, TypeOK, queueVars, durableVars, ReadSentinel, Drain
<1>11. ASSUME NEW r \in Runs, Quit(r) PROVE ClaimInv'
  <2>1. Solo'
    BY <1>11 DEF ClaimInv, TypeOK, Solo, Quit, Drain
  <2>2. QED
    BY <1>0, <1>11, <2>1, QuietKeeps
       DEF ClaimInv, TypeOK, queueVars, durableVars, Quit, Drain
<1>12. ASSUME NEW r \in Runs, DrainWorkers(r) PROVE ClaimInv'
  <2>1. Solo'
    BY <1>12 DEF ClaimInv, TypeOK, Solo, Idle, DrainWorkers, Abandoned, Busy
  <2>2. ClaimedRows' /\ ClaimExclusive'
    BY <1>0, <1>12
       DEF ClaimInv, Owners, OwnerPc, ClaimedPc, VisitedPc, ParsedPc, queueVars, Solo,
           ClaimedRows, RowOf, ClaimExclusive, InHand, Idle, Live, DrainWorkers,
           Abandoned
  <2>3. Unstored' /\ StoredOnce' /\ WithinBudget' /\ RetryBudget'
    BY <1>0, <1>12
       DEF ClaimInv, Owners, OwnerPc, ClaimedPc, VisitedPc, ParsedPc, queueVars,
           durableVars, Unstored, StoredOnce, WithinBudget, RetryBudget, Idle,
           DrainWorkers, Abandoned
  <2>4. SweptLast' /\ TerminalRowIsQuiet'
    BY <1>0, <1>12, <2>1
       DEF ClaimInv, TypeOK, queueVars, durableVars, SweptLast, TerminalRowIsQuiet,
           DrainWorkers
  <2>5. QED
    BY <1>0, <2>1, <2>2, <2>3, <2>4 DEF ClaimInv, TypeInv
<1>13. ASSUME NEW r \in Runs, FinalRequeue(r) PROVE ClaimInv'
  BY <1>0, <1>13, SweepKeeps DEF Live, durableVars, FinalRequeue
<1>14. ASSUME NEW r \in Runs, Close(r) PROVE ClaimInv'
  <2>1. Solo'
    BY <1>14 DEF ClaimInv, TypeOK, Solo, Close
  <2>2. ClaimedRows' /\ ClaimExclusive'
    BY <1>0, <1>14
       DEF ClaimInv, TypeOK, Bound, Owners, OwnerPc, ClaimedPc, VisitedPc, ParsedPc,
           queueVars, Solo, ClaimedRows, ClaimExclusive, InHand, Close
  <2>3. Unstored' /\ StoredOnce' /\ WithinBudget' /\ RetryBudget'
    BY <1>0, <1>14
       DEF ClaimInv, Owners, queueVars, Unstored, StoredOnce, WithinBudget,
           RetryBudget, Close
  <2>4. SweptLast' /\ TerminalRowIsQuiet'
    BY <1>0, <1>14, <2>1
       DEF ClaimInv, TypeOK, Bound, Owners, OwnerPc, ClaimedPc, VisitedPc, ParsedPc,
           queueVars, Solo, SweptLast, TerminalRowIsQuiet, Live, Close
  <2>5. QED
    BY <1>0, <2>1, <2>2, <2>3, <2>4 DEF ClaimInv, TypeInv
<1>15. ASSUME NEW r \in Runs, TogglePause(r) PROVE ClaimInv'
  <2>1. Solo'
    BY <1>15 DEF ClaimInv, Solo, TogglePause
  <2>2. QED
    BY <1>0, <1>15, <2>1, QuietKeeps DEF queueVars, durableVars, TogglePause
<1>16. ASSUME NEW r \in Runs, Crash(r) PROVE ClaimInv'
  <2>1. Solo'
    BY <1>16 DEF ClaimInv, TypeOK, Solo, Idle, Crash, Abandoned, Busy
  <2>2. ClaimedRows' /\ ClaimExclusive'
    BY <1>0, <1>16
       DEF ClaimInv, TypeOK, Owners, OwnerPc, ClaimedPc, VisitedPc, ParsedPc,
           queueVars, durableVars, Solo, ClaimedRows, RowOf, ClaimExclusive, InHand,
           Idle, Crash, Abandoned
  <2>3. Unstored' /\ StoredOnce' /\ WithinBudget' /\ RetryBudget'
    BY <1>0, <1>16
       DEF ClaimInv, Owners, OwnerPc, ClaimedPc, VisitedPc, ParsedPc, queueVars,
           durableVars, Unstored, StoredOnce, WithinBudget, RetryBudget, Idle, Crash,
           Abandoned
  <2>4. SweptLast' /\ TerminalRowIsQuiet'
    BY <1>0, <1>16, <2>1
       DEF ClaimInv, queueVars, durableVars, SweptLast, TerminalRowIsQuiet, Crash
  <2>5. QED
    BY <1>0, <2>1, <2>2, <2>3, <2>4 DEF ClaimInv, TypeInv
<1>17. ASSUME NEW r \in Runs, NEW how \in {"stop", "cancel"}, Halt(r, how) PROVE ClaimInv'
  <2>1. Solo'
    BY <1>17 DEF ClaimInv, Solo, Halt
  <2>2. QED
    BY <1>0, <1>17, <2>1, QuietKeeps DEF queueVars, durableVars, Halt
<1>18. ASSUME NEW t \in Tasks, Worker(t) \/ WorkerTimeout(t) PROVE ClaimInv'
  BY <1>0, <1>18, WorkerKeeps
<1>19. CASE UNCHANGED vars
  <2>1. Solo'
    BY <1>19 DEF ClaimInv, Solo, vars, runVars
  <2>2. QED
    BY <1>0, <1>19, <2>1, QuietKeeps DEF vars, runVars, queueVars, durableVars
<1>20. QED
  BY <1>1, <1>2, <1>3, <1>4, <1>5, <1>6, <1>7, <1>8, <1>9, <1>10, <1>11, <1>12, <1>13,
     <1>14, <1>15, <1>16, <1>17, <1>18, <1>19
     DEF Next, Lifecycle, Dispatcher, Consumer, Environment

-----------------------------------------------------------------------------
(* The safety properties *)

\* ClaimInv holds in every behaviour in which runs do not overlap.
THEOREM ClaimInvariant == ASSUME NoOverlap PROVE Spec => []ClaimInv
<1>1. ClaimInv /\ [Next]_vars => ClaimInv'
  BY ClaimStep
<1>2. QED
  BY <1>1, ClaimInit, PTL DEF Spec

\* A row never has two owners, whatever crashes, restarts and times out.
THEOREM ClaimIsExclusive == ASSUME NoOverlap PROVE Spec => []ClaimExclusive
<1>1. ClaimInv => ClaimExclusive
  BY DEF ClaimInv
<1>2. QED
  BY <1>1, ClaimInvariant, PTL

\* The items of a page are stored at most once, whoever takes the page again.
THEOREM StoredAtMostOnce == ASSUME NoOverlap PROVE Spec => []StoredOnce
<1>1. ClaimInv => StoredOnce
  BY DEF ClaimInv
<1>2. QED
  BY <1>1, ClaimInvariant, PTL

\* increment_retry() never charges a row beyond its budget.
THEOREM RetriesWithinBudget == ASSUME NoOverlap PROVE Spec => []RetryBudget
<1>1. ClaimInv => RetryBudget
  BY DEF ClaimInv
<1>2. QED
  BY <1>1, ClaimInvariant, PTL

\* When run() has written 'completed' or 'cancelled', none of its workers is
\* running and no row is in progress.
THEOREM TerminalIsQuiet == ASSUME NoOverlap PROVE Spec => []TerminalRowIsQuiet
<1>1. ClaimInv => TerminalRowIsQuiet
  BY DEF ClaimInv
<1>2. QED
  BY <1>1, ClaimInvariant, PTL

-----------------------------------------------------------------------------
(* The crawl implements PageLifecycle: every step of a dispatcher, worker, *)
(* consumer or sweep moves pages on as PageLifecycle allows, or leaves     *)
(* every page's stage as it was.                                           *)

PagesStep == [Pages!Next]_(Pages!vars)

\* A page whose row and visit stay as they are stays in its stage.
LEMMA StageKept ==
    ASSUME TypeOK, NEW u \in Urls, status'[u] = status[u], u \in visited' <=> u \in visited
    PROVE  Stage(u)' = Stage(u)
BY DEF TypeOK, QueueTypeOK, RowStatus, Stage, Settled

\* A step after which every page is in the stage it was in, and stored as often.
LEMMA PagesKept ==
    ASSUME \A u \in Urls : Stage(u)' = Stage(u), UNCHANGED stored
    PROVE  PagesStep
BY DEF PagesStep, Pages!vars

\* A step that leaves the rows, the visits and the items alone.
LEMMA PagesQuiet ==
    ASSUME TypeOK, UNCHANGED <<status, visited, stored>>
    PROVE  PagesStep
<1>1. \A u \in Urls : Stage(u)' = Stage(u)
  BY StageKept
<1>2. QED
  BY <1>1, PagesKept

\* requeue_stale() gives back the pages that were taken, all at once.
LEMMA SweepReleases ==
    ASSUME TypeOK, RequeueStale, UNCHANGED stored
    PROVE  PagesStep
<1> DEFINE S == {u \in Urls : Stage(u) = "taken"}
<1>1. UNCHANGED visited
  BY DEF RequeueStale
<1>2. ASSUME NEW u \in S PROVE Stage(u)' = "queued"
  <2>1. status[u] = "processing" /\ u \notin visited
    BY DEF TypeOK, QueueTypeOK, RowStatus, Stage, Settled
  <2>2. QED
    BY <1>1, <2>1 DEF RequeueStale, Stage, Settled
<1>3. ASSUME NEW u \in Urls \ S PROVE Stage(u)' = Stage(u)
  <2>1. status[u] # "processing" \/ u \in visited
    BY <1>3 DEF Stage, Settled
  <2>2. CASE status[u] # "processing"
    BY <1>1, <2>2, StageKept DEF RequeueStale
  <2>3. CASE u \in visited
    BY <1>1, <2>3 DEF Stage, Settled
  <2>4. QED
    BY <2>1, <2>2, <2>3
<1>4. Pages!Release(S)
  BY <1>2, <1>3 DEF Pages!Release, Pages!Move
<1>5. QED
  BY <1>4 DEF PagesStep, Pages!Next

\* push() and push_batch() discover the pages that have no row.
LEMMA PushDiscovers ==
    ASSUME TypeOK, NEW D, NEW d, Push(D, d), UNCHANGED stored
    PROVE  PagesStep
<1> DEFINE S == {u \in Urls : u \in D /\ Stage(u) = "unknown"}
<1>1. UNCHANGED visited
  BY DEF Push
<1>2. ASSUME NEW u \in S PROVE Stage(u)' = "queued"
  <2>1. status[u] = "absent" /\ u \notin visited
    BY DEF TypeOK, QueueTypeOK, RowStatus, Stage, Settled
  <2>2. QED
    BY <1>1, <2>1 DEF Push, Stage, Settled
<1>3. ASSUME NEW u \in Urls \ S PROVE Stage(u)' = Stage(u)
  <2>1. u \notin D \/ status[u] # "absent" \/ u \in visited
    BY <1>3 DEF Stage, Settled
  <2>2. CASE u \notin D \/ status[u] # "absent"
    BY <1>1, <2>2, StageKept DEF Push
  <2>3. CASE u \in visited
    BY <1>1, <2>3 DEF Stage, Settled
  <2>4. QED
    BY <2>1, <2>2, <2>3
<1>4. Pages!Discover(S)
  BY <1>2, <1>3 DEF Pages!Discover, Pages!Move
<1>5. QED
  BY <1>4 DEF PagesStep, Pages!Next

\* pop() takes the page of a pending row.
LEMMA PopTakes ==
    ASSUME TypeOK, NEW u \in Urls, Pop(u), UNCHANGED stored
    PROVE  PagesStep
<1>1. /\ status[u] = "pending" /\ u \notin visited
      /\ status'[u] = "processing" /\ UNCHANGED visited
      /\ \A v \in Urls \ {u} : status'[v] = status[v]
  BY DEF TypeOK, QueueTypeOK, Pop, Claimable, PendingRows
<1>2. Stage(u) = "queued" /\ Stage(u)' = "taken"
  BY <1>1 DEF Stage, Settled
<1>3. \A v \in Urls \ {u} : Stage(v)' = Stage(v)
  BY <1>1, StageKept
<1>4. Pages!Take(u)
  BY <1>2, <1>3 DEF Pages!Take, Pages!Move
<1>5. QED
  BY <1>4 DEF PagesStep, Pages!Next

\* A step that settles one page, settled before or taken.
LEMMA OneSettles ==
    ASSUME NEW u \in Urls, Stage(u) \in {"taken", "settled"}, Stage(u)' = "settled",
           \A v \in Urls \ {u} : Stage(v)' = Stage(v), UNCHANGED stored
    PROVE  PagesStep
<1>1. CASE Stage(u) = "taken"
  <2>1. Pages!Settle(u)
    BY <1>1 DEF Pages!Settle, Pages!Move
  <2>2. QED
    BY <2>1 DEF PagesStep, Pages!Next
<1>2. CASE Stage(u) = "settled"
  BY <1>2, PagesKept
<1>3. QED
  BY <1>1, <1>2

\* The worker's steps: what it knows of its row makes each of them a move of
\* PageLifecycle.
LEMMA WorkerImplements ==
    ASSUME ClaimInv, NEW t \in Tasks, Worker(t) \/ WorkerTimeout(t)
    PROVE  PagesStep
<1> PICK u : u = task[t].url
  OBVIOUS
<1>0. /\ TypeOK
      /\ task[t].pc # "idle" => u \in Urls
      /\ t \in Owners => RowOf(t)
  BY DEF ClaimInv, Bound, ClaimedRows
<1>1. CASE \/ Enter(t) \/ CheckRobots(t) \/ Fetch(t) \/ WriteCache(t) \/ CheckSeen(t)
           \/ Parse(t) \/ Report(t) \/ WorkerTimeout(t)
  BY <1>0, <1>1, PagesQuiet
     DEF Enter, CheckRobots, Fetch, WriteCache, CheckSeen, Parse, Report,
         WorkerTimeout, queueVars
<1>2. CASE RecordHash(t)
  BY <1>0, <1>2, PagesQuiet DEF RecordHash, MarkContentSeen
<1>3. CASE Reject(t) \/ SkipDisallowed(t) \/ Done(t)
  <2>1. u \in Urls /\ t \in Owners
    BY <1>0, <1>3
       DEF Reject, SkipDisallowed, Done, Owners, OwnerPc, ClaimedPc, VisitedPc
  <2>2. status[u] = "processing"
    BY <1>0, <1>3, <2>1
       DEF Reject, SkipDisallowed, Done, RowOf, ClaimedPc, VisitedPc
  <2>3. /\ status'[u] \in {"done", "failed"} /\ UNCHANGED <<visited, stored>>
        /\ \A v \in Urls \ {u} : status'[v] = status[v]
    BY <1>0, <1>3, <2>1
       DEF TypeOK, QueueTypeOK, Reject, SkipDisallowed, Done, MarkFailed, MarkDone
  <2>4. Stage(u) \in {"taken", "settled"} /\ Stage(u)' = "settled"
    BY <2>2, <2>3 DEF Stage, Settled
  <2>5. QED
    BY <1>0, <2>1, <2>3, <2>4, StageKept, OneSettles
<1>4. CASE Visit(t)
  <2>1. u \in Urls /\ status[u] = "processing"
    BY <1>0, <1>4 DEF Visit, Owners, OwnerPc, ClaimedPc, RowOf
  <2>2. visited' = visited \cup {u} /\ UNCHANGED <<status, stored>>
    BY <1>4 DEF Visit, MarkVisited
  <2>3. Stage(u) \in {"taken", "settled"} /\ Stage(u)' = "settled"
    BY <2>1, <2>2 DEF Stage, Settled
  <2>4. \A v \in Urls \ {u} : Stage(v)' = Stage(v)
    BY <1>0, <2>2, StageKept
  <2>5. QED
    BY <2>1, <2>2, <2>3, <2>4, OneSettles
<1>5. CASE StoreItems(t)
  <2>1. u \in Urls /\ u \in visited /\ stored[u] = 0
    BY <1>0, <1>5
       DEF ClaimInv, Unstored, StoreItems, Owners, OwnerPc, ParsedPc, RowOf
  <2>2. UNCHANGED <<status, visited>> /\ stored' = [stored EXCEPT ![u] = 1]
    BY <1>0, <1>5, <2>1 DEF TypeOK, StoreItems, queueVars
  <2>3. \A v \in Urls : Stage(v)' = Stage(v)
    BY <1>0, <2>2, StageKept
  <2>4. Stage(u) = "settled"
    BY <2>1 DEF Stage, Settled
  <2>5. Pages!Publish(u)
    BY <2>1, <2>2, <2>3, <2>4 DEF Pages!Publish
  <2>6. QED
    BY <2>1, <2>5 DEF PagesStep, Pages!Next
<1>6. CASE PushLinks(t)
  BY <1>0, <1>6, PushDiscovers DEF PushLinks
<1>7. CASE Retry(t)
  <2>1. u \in Urls /\ t \in Owners
    BY <1>0, <1>7 DEF Retry, Owners, OwnerPc, ClaimedPc
  <2>2. u \in visited \/ status[u] = "processing"
    BY <1>0, <1>7, <2>1 DEF Retry, RowOf, ClaimedPc
  <2>3. /\ status'[u] \in {"pending", "failed"} /\ UNCHANGED <<visited, stored>>
        /\ \A v \in Urls \ {u} : status'[v] = status[v]
    BY <1>0, <1>7, <2>1 DEF TypeOK, QueueTypeOK, Retry, IncrementRetry
  <2>4. \A v \in Urls \ {u} : Stage(v)' = Stage(v)
    BY <1>0, <2>3, StageKept
  <2>5. CASE u \in visited \/ status'[u] = "failed"
    <3>1. Stage(u) \in {"taken", "settled"} /\ Stage(u)' = "settled"
      BY <2>2, <2>3, <2>5 DEF Stage, Settled
    <3>2. QED
      BY <2>1, <2>3, <2>4, <3>1, OneSettles
  <2>6. CASE u \notin visited /\ status'[u] = "pending"
    <3>1. Stage(u) = "taken" /\ Stage(u)' = "queued"
      BY <2>2, <2>3, <2>6 DEF Stage, Settled
    <3>2. Pages!Release({u})
      BY <2>1, <2>3, <2>4, <3>1 DEF Pages!Release, Pages!Move
    <3>3. QED
      BY <2>1, <3>2 DEF PagesStep, Pages!Next
  <2>7. QED
    BY <2>3, <2>5, <2>6
<1>8. QED
  BY <1>1, <1>2, <1>3, <1>4, <1>5, <1>6, <1>7 DEF Worker

\* Every step of the crawl is a step of PageLifecycle or a stutter.
LEMMA StepImplements ==
    ASSUME ClaimInv, [Next]_vars
    PROVE  PagesStep
<1>0. TypeOK
  BY DEF ClaimInv
<1>1. ASSUME NEW r \in Runs, Lifecycle(r) PROVE PagesStep
  <2>1. CASE Begin(r) \/ Launch(r)
    BY <1>0, <2>1, PagesQuiet DEF Begin, Launch, queueVars, durableVars
  <2>2. CASE Recover(r)
    BY <1>0, <2>2, SweepReleases DEF Recover, durableVars
  <2>3. ASSUME NEW u \in Urls, PushSeed(r, u) PROVE PagesStep
    BY <1>0, <2>3, PushDiscovers DEF PushSeed, durableVars
  <2>4. QED
    BY <1>1, <2>1, <2>2, <2>3 DEF Lifecycle
<1>2. ASSUME NEW r \in Runs, Dispatcher(r) PROVE PagesStep
  <2>1. CASE DispatchStop(r) \/ DispatchEmpty(r) \/ Spawn(r)
    BY <1>0, <2>1, PagesQuiet DEF DispatchStop, DispatchEmpty, Spawn, queueVars, durableVars
  <2>2. CASE DispatchClaim(r)
    BY <1>0, <2>2, PopTakes DEF DispatchClaim, durableVars
  <2>3. QED
    BY <1>2, <2>1, <2>2 DEF Dispatcher
<1>3. ASSUME NEW r \in Runs, Consumer(r) PROVE PagesStep
  <2>1. CASE FinalRequeue(r)
    BY <1>0, <2>1, SweepReleases DEF FinalRequeue, durableVars
  <2>2. CASE ~FinalRequeue(r)
    BY <1>0, <1>3, <2>2, PagesQuiet
       DEF Consumer, ReadSentinel, Drain, DrainWorkers, Close, ReadItem, queueVars,
           durableVars
  <2>3. QED
    BY <2>1, <2>2
<1>4. ASSUME NEW r \in Runs, Environment(r) PROVE PagesStep
  BY <1>0, <1>4, PagesQuiet
     DEF Environment, Quit, Drain, TogglePause, Crash, Halt, queueVars, durableVars
<1>5. ASSUME NEW t \in Tasks, Worker(t) \/ WorkerTimeout(t) PROVE PagesStep
  BY <1>5, WorkerImplements
<1>6. CASE UNCHANGED vars
  BY <1>0, <1>6, PagesQuiet DEF vars, queueVars, durableVars
<1>7. QED
  BY <1>1, <1>2, <1>3, <1>4, <1>5, <1>6 DEF Next

\* Each page of a crawl lives the life PageLifecycle promises: it is discovered
\* once, taken by one worker at a time, given back any number of times, settled
\* for good, and published at most once, after that.
THEOREM CrawlImplementsPages == ASSUME NoOverlap PROVE Spec => ImplementsPageLifecycle
<1>1. Init => Pages!Init
  BY DEF Init, QueueInit, Pages!Init, Stage, Settled
<1>2. ClaimInv /\ [Next]_vars => [Pages!Next]_(Pages!vars)
  BY StepImplements DEF PagesStep
<1>3. QED
  BY <1>1, <1>2, ClaimInvariant, PTL DEF Spec, ImplementsPageLifecycle, Pages!Spec

-----------------------------------------------------------------------------
(* What is kept of one content (deduplicate_content): the pages that are   *)
(* recorded, and those on their way there that found none recorded, were   *)
(* all under the semaphore when the first of them was recorded.            *)

\* The workers that found no page of the content of theirs recorded.
Fresh == {t \in Tasks : task[t].pc \in {"visit", "hash"} /\ task[t].kind = "fresh"}

Alike(u) == {v \in Urls : Content[v] = Content[u]}
Keeping(u) == (hashed \cap Alike(u)) \cup ({task[t].url : t \in Fresh} \cap Alike(u))

Few(S) == IsFiniteSet(S) /\ Cardinality(S) <= Concurrency

\* A worker past the record of its page has recorded it.
Recorded(t) ==
    /\ task[t].pc = "hash" => task[t].kind = "fresh"
    /\ \/ task[t].pc \in {"parse", "store", "push"}
       \/ task[t].pc = "done" /\ task[t].kind = "fresh"
       => task[t].url \in hashed

KeptInv ==
    /\ \A r \in Runs : Few(Holding(r))
    /\ Dedup => /\ \A t \in Tasks : Recorded(t)
                /\ \A u \in Urls : stored[u] > 0 => u \in hashed
                /\ \A u \in Urls : Few(Keeping(u))

\* A part of few is few.
LEMMA FewerAreFew ==
    ASSUME NEW S, NEW T, Few(S), T \subseteq S
    PROVE  Few(T)
<1>1. IsFiniteSet(T) /\ Cardinality(T) <= Cardinality(S)
  BY FS_Subset DEF Few
<1>2. Cardinality(T) \in Nat /\ Cardinality(S) \in Nat
  BY <1>1, FS_CardinalityType DEF Few
<1>3. QED
  BY <1>1, <1>2, CrawlAssumption DEF Few

\* A worker's step leaves the other workers where they are, and the run as well.
LEMMA OneMoves ==
    ASSUME TypeOK, NEW t \in Tasks, Worker(t) \/ WorkerTimeout(t)
    PROVE  /\ task[t].pc # "idle"
           /\ \A s \in Tasks \ {t} : task'[s] = task[s]
           /\ task'[t] = Idle \/ (/\ task'[t].url = task[t].url /\ task'[t].run = task[t].run
                                  /\ task'[t].pc # "gate")
           /\ UNCHANGED <<crawlRow, phase, toSeed, disp, hand, halt, paused, read>>
<1>1. task \in [Tasks -> Job]
  BY DEF TypeOK
<1>2. task[t].pc # "idle" /\ UNCHANGED <<crawlRow, phase, toSeed, disp, hand, halt, paused, read>>
  BY DEF Worker, Enter, Reject, CheckRobots, SkipDisallowed, Fetch, WriteCache, CheckSeen,
     Visit, RecordHash, Done, Parse, StoreItems, PushLinks, Retry, Report, WorkerTimeout,
     WorkerFrame
<1>3. \/ task' = [task EXCEPT ![t] = Idle]
      \/ \E p : p # "gate" /\ task' = [task EXCEPT ![t].pc = p]
      \/ \E p, k : p # "gate" /\ task' = [task EXCEPT ![t].pc = p, ![t].kind = k]
  BY DEF Worker, Enter, Reject, CheckRobots, SkipDisallowed, Fetch, WriteCache, CheckSeen,
     Visit, RecordHash, Done, Parse, StoreItems, PushLinks, Retry, Report, WorkerTimeout,
     Goto, Exit
<1>4. \A s \in Tasks \ {t} : task'[s] = task[s]
  BY <1>1, <1>3
<1>5. CASE task' = [task EXCEPT ![t] = Idle]
  BY <1>1, <1>2, <1>4, <1>5
<1>6. ASSUME NEW p, p # "gate", task' = [task EXCEPT ![t].pc = p]
      PROVE  task'[t].url = task[t].url /\ task'[t].run = task[t].run /\ task'[t].pc # "gate"
  BY <1>1, <1>6 DEF Job
<1>7. ASSUME NEW p, NEW k, p # "gate", task' = [task EXCEPT ![t].pc = p, ![t].kind = k]
      PROVE  task'[t].url = task[t].url /\ task'[t].run = task[t].run /\ task'[t].pc # "gate"
  BY <1>1, <1>7 DEF Job
<1>8. QED
  BY <1>2, <1>3, <1>4, <1>5, <1>6, <1>7

\* A worker that moves on keeps its kind, and everything else.
LEMMA KindKept ==
    ASSUME TypeOK, NEW t \in Tasks, NEW p, Goto(t, p)
    PROVE  task'[t].pc = p /\ task'[t].kind = task[t].kind /\ task'[t].url = task[t].url
BY DEF TypeOK, Job, Goto

\* The step of any other coroutine starts a worker at the gate, or ends those of
\* a run, or leaves them all; it stores nothing and records nothing.
LEMMA OthersMove ==
    ASSUME TypeOK, [Next]_vars, \A t \in Tasks : ~Worker(t) /\ ~WorkerTimeout(t)
    PROVE  /\ UNCHANGED <<hashed, visited, stored, cache>>
           /\ \A t \in Tasks :
                 \/ task'[t] = task[t] \/ task'[t] = Idle
                 \/ \E r \in Runs : /\ disp[r] = "spawn" /\ Spawn(r) /\ task[t].pc = "idle"
                                    /\ task'[t] = [pc |-> "gate", url |-> hand[r],
                                                   run |-> r, kind |-> "fresh"]
<1>1. task \in [Tasks -> Job]
  BY DEF TypeOK
<1>2. CASE UNCHANGED vars
  BY <1>2 DEF vars, queueVars, durableVars
<1>3. ASSUME NEW r \in Runs, Lifecycle(r) \/ Consumer(r) \/ Environment(r)
      PROVE  /\ UNCHANGED <<hashed, visited, stored, cache>>
             /\ \A t \in Tasks : task'[t] = task[t] \/ task'[t] = Idle
  <2>1. task' = task \/ task' = Abandoned(r)
    BY <1>3 DEF Lifecycle, Begin, Recover, Launch, PushSeed, Consumer, ReadSentinel, Drain,
       DrainWorkers, FinalRequeue, Close, ReadItem, Environment, Quit, TogglePause, Crash, Halt
  <2>2. UNCHANGED <<hashed, visited, stored, cache>>
    BY <1>3 DEF Lifecycle, Begin, Recover, Launch, PushSeed, Consumer, ReadSentinel, Drain,
       DrainWorkers, FinalRequeue, Close, ReadItem, Environment, Quit, TogglePause, Crash, Halt,
       RequeueStale, Push, queueVars, durableVars
  <2>3. QED
    BY <1>1, <2>1, <2>2 DEF Abandoned
<1>4. ASSUME NEW r \in Runs, DispatchStop(r) \/ DispatchClaim(r) \/ DispatchEmpty(r)
      PROVE  UNCHANGED <<hashed, visited, stored, cache, task>>
  BY <1>4 DEF DispatchStop, DispatchClaim, DispatchEmpty, Pop, queueVars, durableVars
<1>5. ASSUME NEW r \in Runs, Spawn(r)
      PROVE  /\ UNCHANGED <<hashed, visited, stored, cache>>
             /\ \A t \in Tasks :
                   \/ task'[t] = task[t]
                   \/ /\ disp[r] = "spawn" /\ task[t].pc = "idle"
                      /\ task'[t] = [pc |-> "gate", url |-> hand[r], run |-> r, kind |-> "fresh"]
  BY <1>1, <1>5 DEF Spawn, queueVars, durableVars
<1>6. QED
  BY <1>2, <1>3, <1>4, <1>5 DEF Next, Dispatcher

\* The semaphore: no run has more than Concurrency workers past the gate.
LEMMA PermitsKept ==
    ASSUME ClaimInv, [Next]_vars, \A r \in Runs : Few(Holding(r))
    PROVE  \A r \in Runs : Few(Holding(r)')
<1>1. SUFFICES ASSUME NEW r \in Runs PROVE Few(Holding(r)')
  OBVIOUS
<1>2. TypeOK /\ task \in [Tasks -> Job]
  BY DEF ClaimInv, TypeOK
<1>3. CASE \A t \in Tasks : ~Worker(t) /\ ~WorkerTimeout(t)
  <2>1. ASSUME NEW t \in Tasks
        PROVE  task'[t] = task[t] \/ task'[t] = Idle \/ task'[t].pc = "gate"
    <3>1. \/ task'[t] = task[t] \/ task'[t] = Idle
          \/ \E q \in Runs : task'[t] = [pc |-> "gate", url |-> hand[q], run |-> q, kind |-> "fresh"]
      BY <1>2, <1>3, OthersMove
    <3>2. ASSUME NEW q \in Runs,
                 task'[t] = [pc |-> "gate", url |-> hand[q], run |-> q, kind |-> "fresh"]
          PROVE  task'[t].pc = "gate"
      BY <3>2
    <3>3. QED
      BY <3>1, <3>2
  <2>2. Holding(r)' \subseteq Holding(r)
    BY <2>1 DEF Holding, Busy, Idle
  <2>3. QED
    BY <2>2, FewerAreFew
<1>4. ASSUME NEW t \in Tasks, Worker(t) \/ WorkerTimeout(t)
      PROVE  Few(Holding(r)')
  <2>1. /\ \A s \in Tasks \ {t} : task'[s] = task[s]
        /\ task'[t] = Idle \/ task'[t].run = task[t].run
        /\ task[t].pc # "idle"
    BY <1>2, <1>4, OneMoves
  <2>2. CASE ~Enter(t)
    <3>1. task[t].pc = "gate" => task'[t] = Idle
      BY <1>2, <1>4, <2>2 DEF Worker, Reject, CheckRobots, SkipDisallowed, Fetch, WriteCache,
         CheckSeen, Visit, RecordHash, Done, Parse, StoreItems, PushLinks, Retry, Report,
         WorkerTimeout, Exit
    <3>2. Holding(r)' \subseteq Holding(r)
      BY <2>1, <3>1 DEF Holding, Busy, Idle
    <3>3. QED
      BY <3>2, FewerAreFew
  <2>3. CASE Enter(t)
    <3>1. Holding(r)' \subseteq Holding(r) \cup {t} /\ (task[t].run # r => Holding(r)' \subseteq Holding(r))
      BY <2>1 DEF Holding, Busy, Idle
    <3>2. CASE task[t].run # r
      BY <3>1, <3>2, FewerAreFew
    <3>3. CASE task[t].run = r
      <4> DEFINE H == Holding(r)
                 K == H \cup {t}
      <4>1. IsFiniteSet(H) /\ Cardinality(H) < Concurrency
        BY <2>3, <3>3 DEF Few, Enter
      <4> HIDE DEF H
      <4>2. IsFiniteSet(K) /\ (Cardinality(K) = Cardinality(H) \/ Cardinality(K) = Cardinality(H) + 1)
        BY <4>1, FS_AddElement
      <4>3. Few(K)
        BY <4>1, <4>2, FS_CardinalityType, CrawlAssumption DEF Few
      <4>4. Holding(r)' \subseteq K
        BY <3>1 DEF H
      <4>5. QED
        BY <4>3, <4>4, FewerAreFew
    <3>4. QED
      BY <3>2, <3>3
  <2>4. QED
    BY <2>2, <2>3
<1>5. QED
  BY <1>3, <1>4

\* A worker's step records its page only after it found none of its content.
LEMMA RecordedKept ==
    ASSUME ClaimInv, Dedup, NEW t \in Tasks, Worker(t) \/ WorkerTimeout(t), Recorded(t)
    PROVE  /\ Recorded(t)'
           /\ hashed \subseteq hashed'
           /\ \A u \in hashed' \ hashed : u = task[t].url /\ t \in Fresh
           /\ \A u \in Urls : stored'[u] > 0 => stored[u] > 0 \/ u \in hashed'
<1>1. TypeOK /\ task \in [Tasks -> Job] /\ stored \in [Urls -> Nat]
  BY DEF ClaimInv, TypeOK
<1>2. task[t].pc = "hash" => task[t].url \in visited
  BY DEF ClaimInv, ClaimedRows, RowOf, Owners, OwnerPc, VisitedPc
<1>3. CASE task'[t] = Idle /\ UNCHANGED <<hashed, stored>>
  BY <1>3 DEF Recorded, Idle
<1>4. CASE Reject(t) \/ SkipDisallowed(t) \/ PushLinks(t) \/ Report(t) \/ WorkerTimeout(t)
  <2>1. task'[t] = Idle /\ UNCHANGED <<hashed, stored>>
    BY <1>1, <1>4 DEF Reject, SkipDisallowed, PushLinks, Report, WorkerTimeout, Exit, MarkFailed,
       MarkDone, Push, queueVars
  <2>2. QED
    BY <1>3, <2>1
<1>5. CASE Enter(t) \/ CheckRobots(t) \/ WriteCache(t) \/ Retry(t)
  <2>1. UNCHANGED <<hashed, stored>>
    BY <1>5 DEF Enter, CheckRobots, WriteCache, Retry, IncrementRetry, queueVars
  <2>2. task'[t] = Idle \/ \E p \in Pc \ {"hash", "parse", "store", "push", "done"} : task'[t].pc = p
    BY <1>1, <1>5, KindKept DEF Enter, CheckRobots, WriteCache, Retry, Exit, Pc, OwnerPc, ClaimedPc
  <2>3. QED
    BY <1>3, <2>1, <2>2 DEF Recorded
<1>6. CASE Fetch(t) \/ CheckSeen(t)
  <2>1. UNCHANGED <<hashed, stored>>
    BY <1>6 DEF Fetch, CheckSeen, queueVars
  <2>2. task'[t].pc \notin {"hash", "parse", "store", "push", "done"}
    <3>1. ASSUME NEW p \in {"cache", "dedup", "visit", "rotate", "retry"}, NEW k,
                 \/ task' = [task EXCEPT ![t].pc = p]
                 \/ task' = [task EXCEPT ![t].pc = p, ![t].kind = k]
          PROVE  task'[t].pc \notin {"hash", "parse", "store", "push", "done"}
      BY <1>1, <3>1 DEF Job
    <3>2. \E p \in {"cache", "dedup", "visit", "rotate", "retry"}, k \in Kind :
             \/ task' = [task EXCEPT ![t].pc = p]
             \/ task' = [task EXCEPT ![t].pc = p, ![t].kind = k]
      BY <1>6 DEF Fetch, CheckSeen, Goto, Kind
    <3>3. QED
      BY <3>1, <3>2
  <2>3. QED
    BY <2>1, <2>2 DEF Recorded
<1>7. CASE Visit(t)
  <2>1. UNCHANGED <<hashed, stored>>
    BY <1>7 DEF Visit, MarkVisited
  <2>2. \/ task[t].kind = "fresh" /\ task'[t].pc = "hash" /\ task'[t].kind = task[t].kind
        \/ task[t].kind # "fresh" /\ task'[t].pc = "done" /\ task'[t].kind = task[t].kind
    BY <1>1, <1>7, KindKept DEF Visit
  <2>3. QED
    BY <2>1, <2>2 DEF Recorded
<1>8. CASE RecordHash(t)
  <2>1. UNCHANGED stored /\ hashed' = hashed \cup {task[t].url} /\ t \in Fresh
    BY <1>2, <1>8 DEF RecordHash, MarkContentSeen, Fresh, Recorded
  <2>2. task'[t].pc = "done" /\ task'[t].url = task[t].url
    BY <1>1, <1>8, KindKept DEF RecordHash
  <2>3. QED
    BY <2>1, <2>2 DEF Recorded
<1>9. CASE Done(t)
  <2>1. UNCHANGED <<hashed, stored>>
    BY <1>9 DEF Done, MarkDone
  <2>2. \/ task'[t] = Idle
        \/ task[t].kind = "fresh" /\ task[t].pc = "done" /\ task'[t].pc = "parse" /\ task'[t].url = task[t].url
    BY <1>1, <1>9, KindKept DEF Done, Exit
  <2>3. QED
    BY <1>3, <2>1, <2>2 DEF Recorded
<1>10. CASE Parse(t)
  <2>1. UNCHANGED <<hashed, stored>>
    BY <1>10 DEF Parse, queueVars
  <2>2. \/ task'[t] = Idle
        \/ task'[t].pc = "retry"
        \/ task[t].pc = "parse" /\ task'[t].pc = "store" /\ task'[t].url = task[t].url
    BY <1>1, <1>10, KindKept DEF Parse, Exit
  <2>3. QED
    BY <1>3, <2>1, <2>2 DEF Recorded
<1>11. CASE StoreItems(t)
  <2>1. hashed' = hashed /\ task[t].url \in hashed
    BY <1>11 DEF StoreItems, queueVars, Recorded
  <2>2. task'[t].pc = "push" /\ task'[t].url = task[t].url
    BY <1>1, <1>11, KindKept DEF StoreItems
  <2>3. \A u \in Urls : u # task[t].url => stored'[u] = stored[u]
    BY <1>1, <1>11 DEF StoreItems
  <2>4. QED
    BY <2>1, <2>2, <2>3 DEF Recorded
<1>12. QED
  BY <1>4, <1>5, <1>6, <1>7, <1>8, <1>9, <1>10, <1>11 DEF Worker

\* A worker is one that found nothing recorded because it was before, or because
\* it looks now and there is nothing.
LEMMA FreshStep ==
    ASSUME ClaimInv, Dedup, NEW t \in Tasks, Worker(t) \/ WorkerTimeout(t)
    PROVE  \A s \in Fresh' : /\ task'[s].url = task[s].url
                             /\ s \in Fresh \/ (/\ s = t /\ ~ContentSeen(task[t].url)
                                                /\ CheckSeen(t))
<1>1. TypeOK /\ task \in [Tasks -> Job]
  BY DEF ClaimInv, TypeOK
<1>2. SUFFICES ASSUME NEW s \in Fresh'
               PROVE  /\ task'[s].url = task[s].url
                      /\ s \in Fresh \/ (s = t /\ ~ContentSeen(task[t].url) /\ CheckSeen(t))
  OBVIOUS
<1>3. /\ s \in Tasks /\ task'[s].pc \in {"visit", "hash"} /\ task'[s].kind = "fresh"
      /\ task'[s] # Idle
  BY <1>2 DEF Fresh, Idle
<1>4. CASE s # t
  <2>1. task'[s] = task[s]
    BY <1>1, <1>3, <1>4, OneMoves
  <2>2. QED
    BY <1>3, <2>1 DEF Fresh
<1>5. CASE s = t
  <2>1. task'[t].url = task[t].url
    BY <1>1, <1>3, <1>5, OneMoves
  <2>2. CASE Visit(t)
    BY <1>1, <1>3, <1>5, <2>1, <2>2, KindKept DEF Visit, Fresh
  <2>3. CASE CheckSeen(t)
    BY <1>1, <1>3, <1>5, <2>1, <2>3 DEF CheckSeen, Job
  <2>4. ~Fetch(t)
    <3>1. SUFFICES ASSUME Fetch(t) PROVE FALSE
      OBVIOUS
    <3>2. \/ \E p \in {"cache", "dedup", "rotate", "retry"} : Goto(t, p)
          \/ task' = [task EXCEPT ![t].pc = "visit", ![t].kind = "unchanged"]
      BY <3>1 DEF Fetch
    <3>3. CASE \E p \in {"cache", "dedup", "rotate", "retry"} : Goto(t, p)
      BY <1>1, <1>3, <1>5, <3>3, KindKept
    <3>4. CASE task' = [task EXCEPT ![t].pc = "visit", ![t].kind = "unchanged"]
      BY <1>1, <1>3, <1>5, <3>4 DEF Job
    <3>5. QED
      BY <3>2, <3>3, <3>4
  <2>5. ~WriteCache(t)
    <3>1. SUFFICES ASSUME WriteCache(t) PROVE FALSE
      OBVIOUS
    <3>2. Goto(t, "dedup")
      BY <3>1 DEF WriteCache
    <3>3. QED
      BY <1>1, <1>3, <1>5, <3>2, KindKept
  <2>6. CASE /\ ~Visit(t) /\ ~CheckSeen(t) /\ ~Fetch(t) /\ ~WriteCache(t)
    <3>1. Exit(t) \/ \E p \in Pc \ {"visit", "hash"} : Goto(t, p)
      BY <2>6 DEF Worker, Enter, Reject, CheckRobots, SkipDisallowed, RecordHash, Done, Parse,
         StoreItems, PushLinks, Retry, Report, WorkerTimeout, Pc, OwnerPc, ClaimedPc, ParsedPc,
         VisitedPc
    <3>2. CASE Exit(t)
      BY <1>1, <1>3, <1>5, <3>2 DEF Exit
    <3>3. CASE \E p \in Pc \ {"visit", "hash"} : Goto(t, p)
      BY <1>1, <1>3, <1>5, <3>3, KindKept
    <3>4. QED
      BY <3>1, <3>2, <3>3
  <2>7. QED
    BY <2>2, <2>3, <2>4, <2>5, <2>6
<1>6. QED
  BY <1>4, <1>5

\* Few workers have few pages.
LEMMA PagesFew ==
    ASSUME NEW S, NEW j, Few(S)
    PROVE  Few({j[s].url : s \in S})
<1> DEFINE g == [s \in S |-> j[s].url]
           P == {j[s].url : s \in S}
<1>1. g \in Surjection(S, P)
  BY DEF Surjection
<1> HIDE DEF g, P
<1>2. IsFiniteSet(P) /\ Cardinality(P) <= Cardinality(S)
  BY <1>1, FS_Surjection DEF Few
<1>3. Cardinality(P) \in Nat /\ Cardinality(S) \in Nat
  BY <1>2, FS_CardinalityType DEF Few
<1>4. Few(P)
  BY <1>2, <1>3, CrawlAssumption DEF Few
<1>5. QED
  BY <1>4 DEF P

\* A worker that finds none of its content recorded is under the semaphore, as
\* are all that found none before it.
LEMMA KeepingFew ==
    ASSUME ClaimInv, ClaimInv', Dedup, KeptInv, [Next]_vars,
           \A r \in Runs : Few(Holding(r)')
    PROVE  \A u \in Urls : Few(Keeping(u)')
<1>1. SUFFICES ASSUME NEW u \in Urls PROVE Few(Keeping(u)')
  OBVIOUS
<1>2. TypeOK /\ task \in [Tasks -> Job] /\ Few(Keeping(u))
  BY DEF ClaimInv, TypeOK, KeptInv
<1>3. CASE \A t \in Tasks : ~Worker(t) /\ ~WorkerTimeout(t)
  <2>1. hashed' = hashed
    BY <1>2, <1>3, OthersMove
  <2>2. ASSUME NEW s \in Fresh' PROVE s \in Fresh /\ task'[s] = task[s]
    <3>1. s \in Tasks /\ task'[s] # Idle /\ task'[s].pc # "gate"
      BY <2>2 DEF Fresh, Idle
    <3>2. \/ task'[s] = task[s] \/ task'[s] = Idle
          \/ \E q \in Runs : task'[s] = [pc |-> "gate", url |-> hand[q], run |-> q, kind |-> "fresh"]
      BY <1>2, <1>3, <3>1, OthersMove
    <3>3. ASSUME NEW q \in Runs,
                 task'[s] = [pc |-> "gate", url |-> hand[q], run |-> q, kind |-> "fresh"]
          PROVE  FALSE
      BY <3>1, <3>3
    <3>4. QED
      BY <2>2, <3>1, <3>2, <3>3 DEF Fresh
  <2>3. Keeping(u)' \subseteq Keeping(u)
    BY <2>1, <2>2 DEF Keeping, Alike
  <2>4. QED
    BY <1>2, <2>3, FewerAreFew
<1>4. ASSUME NEW t \in Tasks, Worker(t) \/ WorkerTimeout(t)
      PROVE  Few(Keeping(u)')
  <2>1. \A s \in Fresh' : /\ task'[s].url = task[s].url
                          /\ s \in Fresh \/ (/\ s = t /\ ~ContentSeen(task[t].url)
                                             /\ CheckSeen(t))
    BY <1>4, FreshStep
  <2>2. \A v \in hashed' \ hashed : v = task[t].url /\ t \in Fresh
    BY <1>4, RecordedKept DEF KeptInv
  <2>3. CASE \A s \in Fresh' : s \in Fresh \/ Content[task[s].url] # Content[u]
    <3>1. Keeping(u)' \subseteq Keeping(u)
      BY <2>1, <2>2, <2>3 DEF Keeping, Alike
    <3>2. QED
      BY <1>2, <3>1, FewerAreFew
  <2>4. CASE ~\A s \in Fresh' : s \in Fresh \/ Content[task[s].url] # Content[u]
    <3>1. /\ t \in Fresh' /\ ~ContentSeen(task[t].url) /\ CheckSeen(t)
          /\ Content[task[t].url] = Content[u]
      BY <2>1, <2>4
    <3>2. hashed' \cap Alike(u) = {}
      BY <3>1 DEF CheckSeen, queueVars, ContentSeen, Alike
    <3>3. PICK r \in Runs : r = task'[t].run /\ phase'[r] \in Live
      BY <3>1 DEF Fresh, ClaimInv, Bound, Solo, Live
    <3>4. Fresh' \subseteq Holding(r)'
      <4>1. ASSUME NEW s \in Fresh' PROVE s \in Holding(r)'
        <5>1. /\ s \in Tasks /\ task'[s].pc \notin {"idle", "gate"}
              /\ task'[s].run \in Runs /\ phase'[task'[s].run] \in Live
          BY <4>1 DEF Fresh, ClaimInv, Bound, Solo, Live
        <5>2. task'[s].run = r
          BY <3>3, <5>1 DEF ClaimInv, Solo
        <5>3. QED
          BY <5>1, <5>2 DEF Holding, Busy
      <4>2. QED
        BY <4>1
    <3>5. PICK H : H = Holding(r)' /\ Few(H)
      OBVIOUS
    <3>6. PICK j : j = task'
      OBVIOUS
    <3>7. Few({j[s].url : s \in H})
      BY <3>5, PagesFew
    <3>9. Keeping(u)' \subseteq {j[s].url : s \in H}
      BY <3>2, <3>4, <3>5, <3>6 DEF Keeping
    <3>8. QED
      BY <3>7, <3>9, FewerAreFew
  <2>5. QED
    BY <2>3, <2>4
<1>5. QED
  BY <1>3, <1>4

\* Every step keeps it.
LEMMA KeptStep ==
    ASSUME ClaimInv, ClaimInv', KeptInv, [Next]_vars
    PROVE  KeptInv'
<1>1. \A r \in Runs : Few(Holding(r)')
  BY PermitsKept DEF KeptInv
<1>2. TypeOK /\ task \in [Tasks -> Job]
  BY DEF ClaimInv, TypeOK
<1>3. ASSUME Dedup
      PROVE  /\ \A t \in Tasks : Recorded(t)'
             /\ \A u \in Urls : stored'[u] > 0 => u \in hashed'
  <2>1. /\ \A t \in Tasks : Recorded(t)
        /\ \A u \in Urls : stored[u] > 0 => u \in hashed
    BY <1>3 DEF KeptInv
  <2>2. CASE \A t \in Tasks : ~Worker(t) /\ ~WorkerTimeout(t)
    <3>1. UNCHANGED <<hashed, stored>>
      BY <1>2, <2>2, OthersMove
    <3>2. ASSUME NEW s \in Tasks PROVE Recorded(s)'
      <4>1. \/ task'[s] = task[s] \/ task'[s] = Idle
            \/ \E q \in Runs : task'[s] = [pc |-> "gate", url |-> hand[q], run |-> q, kind |-> "fresh"]
        BY <1>2, <2>2, OthersMove
      <4>2. ASSUME NEW q \in Runs,
                   task'[s] = [pc |-> "gate", url |-> hand[q], run |-> q, kind |-> "fresh"]
            PROVE  Recorded(s)'
        BY <4>2 DEF Recorded
      <4>3. CASE task'[s] = task[s] \/ task'[s] = Idle
        BY <2>1, <3>1, <4>3 DEF Recorded, Idle
      <4>4. QED
        BY <4>1, <4>2, <4>3
    <3>3. QED
      BY <2>1, <3>1, <3>2
  <2>3. ASSUME NEW t \in Tasks, Worker(t) \/ WorkerTimeout(t)
        PROVE  /\ \A s \in Tasks : Recorded(s)'
               /\ \A u \in Urls : stored'[u] > 0 => u \in hashed'
    <3>1. /\ Recorded(t)' /\ hashed \subseteq hashed'
          /\ \A u \in Urls : stored'[u] > 0 => stored[u] > 0 \/ u \in hashed'
      BY <1>3, <2>1, <2>3, RecordedKept
    <3>2. \A s \in Tasks \ {t} : task'[s] = task[s]
      BY <1>2, <2>3, OneMoves
    <3>3. \A s \in Tasks \ {t} : Recorded(s)'
      BY <2>1, <3>1, <3>2 DEF Recorded
    <3>4. QED
      BY <2>1, <3>1, <3>3
  <2>4. QED
    BY <2>2, <2>3
<1>4. ASSUME Dedup PROVE \A u \in Urls : Few(Keeping(u)')
  BY <1>1, <1>4, KeepingFew
<1>5. \A S : Few(S)' <=> Few(S)
  BY DEF Few
<1>6. QED
  BY <1>1, <1>3, <1>4 DEF KeptInv, Few

\* deduplicate_content (crawler.py, is_content_seen, mark_content_seen): of the
\* pages of one content, no more are kept than there are permits, whatever is
\* retried, times out, crashes and is resumed: once one is recorded, only those
\* are kept that were under the semaphore already.
THEOREM ContentIsBounded == ASSUME NoOverlap PROVE Spec => []ContentBounded
<1>1. Init => KeptInv
  <2>1. SUFFICES ASSUME Init PROVE KeptInv
    OBVIOUS
  <2>2. Few({})
    BY FS_EmptySet, CrawlAssumption DEF Few
  <2>3. /\ task = [t \in Tasks |-> Idle] /\ hashed = {} /\ stored = [u \in Urls |-> 0]
    BY <2>1 DEF Init, QueueInit
  <2>4. \A r \in Runs : Holding(r) = {}
    BY <2>3 DEF Holding, Busy, Idle
  <2>5. \A u \in Urls : Keeping(u) = {}
    BY <2>3 DEF Keeping, Fresh, Idle
  <2>6. \A t \in Tasks : Recorded(t)
    BY <2>3 DEF Recorded, Idle
  <2>7. QED
    BY <2>2, <2>3, <2>4, <2>5, <2>6 DEF KeptInv
<1>2. ClaimInv /\ ClaimInv' /\ KeptInv /\ [Next]_vars => KeptInv'
  BY KeptStep
<1>3. KeptInv => ContentBounded
  <2>1. SUFFICES ASSUME KeptInv, Dedup, NEW u \in Urls
                 PROVE  Cardinality({v \in Urls : stored[v] > 0 /\ Content[v] = Content[u]}) <= Concurrency
    BY DEF ContentBounded
  <2> DEFINE K == {v \in Urls : stored[v] > 0 /\ Content[v] = Content[u]}
  <2>2. K \subseteq Keeping(u)
    BY <2>1 DEF KeptInv, Keeping, Alike
  <2>3. Few(Keeping(u))
    BY <2>1 DEF KeptInv
  <2>4. Few(K)
    BY <2>2, <2>3, FewerAreFew
  <2>5. QED
    BY <2>4 DEF Few
<1>4. QED
  BY <1>1, <1>2, <1>3, ClaimInvariant, PTL DEF Spec

-----------------------------------------------------------------------------
(* What a visited page is worth: as long as no worker is lost on its way   *)
(* (a crash, a timeout, a callback that raises or is missing), and no page *)
(* is skipped for what an earlier crawl cached, every page that is visited *)
(* is a duplicate, or is stored and followed.                              *)

NeverLost == /\ Faults \cap {"crash", "timeout", "parse_error", "no_handler"} = {}
             /\ CachedBefore = {}

Harvested(u) ==
    \/ Duplicate(u)
    \/ /\ stored[u] > 0
       /\ FollowsLinks(u) => \A v \in Links[u] : status[v] # "absent"

\* What a worker knows of its page besides its row: only a duplicate ends
\* without being stored, and no visited page is retried.
PageOf(t) ==
    LET u == task[t].url IN
    /\ task[t].kind # "unchanged"
    /\ task[t].kind = "duplicate" => task[t].pc \in {"visit", "done"} /\ Duplicate(u)
    /\ task[t].pc = "dedup" => Dedup
    /\ task[t].pc = "retry" => u \notin visited
    /\ task[t].pc = "push" => stored[u] > 0

\* A worker between the write of url_cache and the visit of its page.
Caching(t, u) == task[t].pc \in {"dedup", "visit"} /\ task[t].url = u

\* A page found unchanged would be visited and not stored; url_cache holds only
\* pages that are visited, or are about to be.
HarvestInv ==
    /\ visited \subseteq Rows
    /\ \A u \in cache : u \in visited \/ \E t \in Tasks : Caching(t, u)
    /\ \A t \in Tasks : PageOf(t)
    /\ VisitedIsHarvested

\* Rows keep their depth.
LEMMA DepthStays ==
    ASSUME QueueTypeOK, QueueStep, NEW u \in Rows
    PROVE  depth'[u] = depth[u]
<1>1. CASE UNCHANGED <<status, depth>> \/ RequeueStale
  BY <1>1 DEF RequeueStale, rowVars
<1>2. ASSUME NEW v \in Rows, MarkDone(v) \/ MarkFailed(v) \/ IncrementRetry(v) \/ Pop(v)
      PROVE  depth'[u] = depth[u]
  BY <1>2 DEF MarkDone, MarkFailed, IncrementRetry, Pop, rowVars
<1>3. ASSUME NEW S, NEW d, Push(S, d) PROVE depth'[u] = depth[u]
  BY <1>3 DEF Push, Rows
<1>4. QED
  BY <1>1, <1>2, <1>3 DEF QueueStep

\* What the step of a worker on page u does to what is known of pages.
HarvestStep(t, u) ==
    /\ PageOf(t)'
    /\ visited \subseteq visited' /\ hashed \subseteq hashed'
    /\ \A v \in visited' \ visited : v = u /\ t \in Owners /\ t \in Owners' /\ task'[t].url = u
    /\ \A v \in hashed' \ hashed : v = u /\ t \in Owners
    /\ \A v \in cache' \ cache : v = u /\ Caching(t, u)'
    /\ \A v \in Urls : stored[v] > 0 => stored'[v] > 0
    /\ task[t].pc \in {"dedup", "visit"} => Caching(t, u)' \/ u \in visited'
    /\ t \in Owners /\ u \in visited => (t \in Owners' /\ task'[t].url = u) \/ Harvested(u)'

\* A worker that visits a page goes on to store it and push its links, unless it
\* is a duplicate.
LEMMA WorkerHarvests ==
    ASSUME ClaimInv, HarvestInv, NeverLost, NEW t \in Tasks, Worker(t),
           NEW u, u = task[t].url
    PROVE  HarvestStep(t, u)
<1>1. TypeOK /\ task \in [Tasks -> Job] /\ stored \in [Urls -> Nat]
  BY DEF ClaimInv, TypeOK
<1>2. /\ task[t].pc # "idle" => u \in Urls
      /\ task[t].pc \in ClaimedPc => u \notin visited /\ t \in Owners
      /\ task[t].pc \in VisitedPc \cup ParsedPc => u \in visited /\ t \in Owners
  BY DEF ClaimInv, Bound, ClaimedRows, RowOf, Owners, OwnerPc
<1>3. PageOf(t)
  BY DEF HarvestInv
<1>4. task[t].kind = "fresh" \/ task[t].pc \in {"visit", "done"}
  BY <1>1, <1>3 DEF PageOf, Job, Kind
<1>5. CASE Enter(t) \/ CheckRobots(t)
  <2>1. PICK p \in {"robots", "reject", "retry", "fetch", "skip"} : Goto(t, p)
    BY <1>5 DEF Enter, CheckRobots
  <2>2. task'[t].pc = p /\ task'[t].kind = task[t].kind /\ task'[t].url = u
    BY <1>1, <2>1, KindKept
  <2>3. UNCHANGED <<visited, hashed, cache, stored>> /\ task[t].pc \in {"gate", "robots"}
    BY <1>5 DEF Enter, CheckRobots, queueVars
  <2>4. u \notin visited /\ task[t].kind = "fresh"
    BY <1>2, <1>4, <2>3 DEF ClaimedPc
  <2>5. QED
    BY <2>1, <2>2, <2>3, <2>4 DEF HarvestStep, PageOf
<1>6. CASE Reject(t) \/ SkipDisallowed(t)
  <2>1. task'[t] = Idle /\ UNCHANGED <<visited, hashed, cache, stored>>
    BY <1>1, <1>6 DEF Reject, SkipDisallowed, Exit, MarkFailed, MarkDone
  <2>2. task[t].pc \in {"reject", "skip"} /\ u \notin visited
    BY <1>2, <1>6 DEF Reject, SkipDisallowed, ClaimedPc
  <2>3. QED
    BY <2>1, <2>2 DEF HarvestStep, PageOf, Idle
<1>7. CASE Fetch(t)
  <2>1. UNCHANGED <<visited, hashed, cache, stored>> /\ task[t].pc = "fetch"
    BY <1>7 DEF Fetch, queueVars
  <2>2. u \notin visited /\ task[t].kind = "fresh" /\ t \in Owners /\ u \in Urls
    BY <1>2, <1>4, <2>1 DEF ClaimedPc
  <2>3. u \notin cache
    <3>1. ASSUME NEW s \in Tasks, Caching(s, u) PROVE FALSE
      <4>1. s \in Owners /\ s # t
        BY <2>1, <3>1 DEF Caching, Owners, OwnerPc, ClaimedPc
      <4>2. QED
        BY <2>2, <3>1, <4>1 DEF ClaimInv, ClaimExclusive, Caching
    <3>2. QED
      BY <2>2, <3>1 DEF HarvestInv
  <2>4. \E p : /\ Goto(t, p)
               /\ p \in {"cache", "dedup", "visit", "rotate", "retry"}
               /\ p = "dedup" => Dedup
    BY <1>7, <2>3 DEF Fetch
  <2>5. PICK p \in {"cache", "dedup", "visit", "rotate", "retry"} :
            Goto(t, p) /\ (p = "dedup" => Dedup)
    BY <2>4
  <2>6. task'[t].pc = p /\ task'[t].kind = task[t].kind /\ task'[t].url = u
    BY <1>1, <2>5, KindKept
  <2>7. QED
    BY <2>1, <2>2, <2>5, <2>6 DEF HarvestStep, PageOf
<1>8. CASE WriteCache(t)
  <2>1. UNCHANGED <<visited, hashed, stored>> /\ cache' = cache \cup {u} /\ task[t].pc = "cache"
    BY <1>8 DEF WriteCache, queueVars
  <2>2. u \notin visited /\ task[t].kind = "fresh"
    BY <1>2, <1>4, <2>1 DEF ClaimedPc
  <2>3. PICK p \in {"dedup", "visit"} : Goto(t, p) /\ (p = "dedup" => Dedup)
    BY <1>8 DEF WriteCache
  <2>4. task'[t].pc = p /\ task'[t].kind = task[t].kind /\ task'[t].url = u
    BY <1>1, <2>3, KindKept
  <2>5. QED
    BY <2>1, <2>2, <2>3, <2>4 DEF HarvestStep, PageOf, Caching
<1>9. CASE CheckSeen(t)
  <2>1. UNCHANGED <<visited, hashed, cache, stored>> /\ task[t].pc = "dedup"
    BY <1>9 DEF CheckSeen, queueVars
  <2>2. u \notin visited /\ u \notin hashed /\ Dedup
    BY <1>1, <1>2, <1>3, <2>1 DEF ClaimedPc, PageOf, TypeOK, QueueTypeOK
  <2>3. /\ task'[t].pc = "visit" /\ task'[t].url = u
        /\ task'[t].kind = IF ContentSeen(u) THEN "duplicate" ELSE "fresh"
    BY <1>1, <1>9 DEF CheckSeen, Job
  <2>4. ContentSeen(u)' <=> ContentSeen(u)
    BY <2>1 DEF ContentSeen
  <2>5. QED
    BY <2>1, <2>2, <2>3, <2>4 DEF HarvestStep, PageOf, Caching, Duplicate
<1>10. CASE Visit(t)
  <2>1. UNCHANGED <<hashed, cache, stored>> /\ visited' = visited \cup {u} /\ task[t].pc = "visit"
    BY <1>10 DEF Visit, MarkVisited
  <2>2. PICK p \in {"hash", "done"} : Goto(t, p) /\ (p = "hash" => task[t].kind = "fresh")
    BY <1>10 DEF Visit
  <2>3. task'[t].pc = p /\ task'[t].kind = task[t].kind /\ task'[t].url = u
    BY <1>1, <2>2, KindKept
  <2>4. t \in Owners' /\ t \in Owners
    BY <1>2, <2>1, <2>2, <2>3 DEF Owners, OwnerPc, VisitedPc, ClaimedPc
  <2>5. Duplicate(u)' <=> Duplicate(u)
    BY <2>1 DEF Duplicate, ContentSeen
  <2>6. PageOf(t)'
    BY <1>3, <2>1, <2>2, <2>3, <2>5 DEF PageOf
  <2>7. QED
    BY <2>1, <2>3, <2>4, <2>6 DEF HarvestStep
<1>11. CASE RecordHash(t)
  <2>1. task[t].pc = "hash" /\ task[t].kind = "fresh"
    BY <1>4, <1>11 DEF RecordHash
  <2>2. /\ UNCHANGED <<visited, cache, stored>> /\ hashed' = hashed \cup {u} /\ t \in Owners
        /\ u \in visited
    BY <1>2, <1>11, <2>1 DEF RecordHash, MarkContentSeen, VisitedPc
  <2>3. task'[t].pc = "done" /\ task'[t].kind = "fresh" /\ task'[t].url = u
    BY <1>1, <1>11, <2>1, KindKept DEF RecordHash
  <2>4. t \in Owners'
    BY <2>3 DEF Owners, OwnerPc, VisitedPc
  <2>5. QED
    BY <2>1, <2>2, <2>3, <2>4 DEF HarvestStep, PageOf
<1>12. CASE Done(t)
  <2>1. UNCHANGED <<visited, hashed, cache, stored>> /\ task[t].pc = "done"
    BY <1>12 DEF Done, MarkDone
  <2>2. CASE task[t].kind = "fresh"
    <3>1. task'[t].pc = "parse" /\ task'[t].kind = "fresh" /\ task'[t].url = u
      BY <1>1, <1>12, <2>2, KindKept DEF Done
    <3>2. t \in Owners'
      BY <3>1 DEF Owners, OwnerPc, ParsedPc
    <3>3. QED
      BY <2>1, <3>1, <3>2 DEF HarvestStep, PageOf
  <2>3. CASE task[t].kind # "fresh"
    <3>1. task'[t] = Idle
      BY <1>1, <1>12, <2>3 DEF Done, Exit
    <3>2. Duplicate(u)
      BY <1>1, <1>3, <2>3 DEF PageOf, Job, Kind
    <3>3. Duplicate(u)'
      BY <2>1, <3>2 DEF Duplicate, ContentSeen
    <3>4. QED
      BY <2>1, <3>1, <3>3 DEF HarvestStep, PageOf, Idle, Harvested
  <2>4. QED
    BY <2>2, <2>3
<1>13. CASE Parse(t)
  <2>1. UNCHANGED <<visited, hashed, cache, stored>> /\ task[t].pc = "parse" /\ Goto(t, "store")
    BY <1>13 DEF Parse, queueVars, NeverLost
  <2>2. task'[t].pc = "store" /\ task'[t].kind = "fresh" /\ task'[t].url = u
    BY <1>1, <1>4, <2>1, KindKept
  <2>3. t \in Owners'
    BY <2>2 DEF Owners, OwnerPc, ParsedPc
  <2>4. QED
    BY <2>1, <2>2, <2>3 DEF HarvestStep, PageOf
<1>14. CASE StoreItems(t)
  <2>1. UNCHANGED <<visited, hashed, cache>> /\ task[t].pc = "store" /\ Goto(t, "push")
    BY <1>14 DEF StoreItems, queueVars
  <2>2. task'[t].pc = "push" /\ task'[t].kind = "fresh" /\ task'[t].url = u
    BY <1>1, <1>4, <2>1, KindKept
  <2>3. t \in Owners' /\ u \in Urls
    BY <1>2, <2>1, <2>2 DEF Owners, OwnerPc, ParsedPc
  <2>4. stored'[u] > 0 /\ \A v \in Urls : stored[v] > 0 => stored'[v] > 0
    BY <1>1, <1>14, <2>3 DEF StoreItems
  <2>5. QED
    BY <2>1, <2>2, <2>3, <2>4 DEF HarvestStep, PageOf
<1>15. CASE PushLinks(t)
  <2>1. task[t].pc = "push" /\ task'[t] = Idle /\ UNCHANGED <<visited, hashed, cache, stored>>
    BY <1>1, <1>15 DEF PushLinks, Exit, Push
  <2>2. u \in Urls /\ u \in visited /\ stored[u] > 0
    BY <1>2, <1>3, <2>1 DEF ParsedPc, PageOf
  <2>3. u \in Rows /\ \A v \in Rows : status'[v] = status[v] /\ depth'[v] = depth[v]
    BY <1>15, <2>2 DEF HarvestInv, PushLinks, Push, Rows
  <2>4. ASSUME FollowsLinks(u), NEW v \in Links[u] PROVE status'[v] # "absent"
    BY <1>1, <1>15, <2>2, <2>4, CrawlAssumption DEF PushLinks, Push, TypeOK, QueueTypeOK
  <2>5. FollowsLinks(u)' <=> FollowsLinks(u)
    BY <2>3 DEF FollowsLinks
  <2>6. Harvested(u)'
    BY <2>1, <2>2, <2>4, <2>5 DEF Harvested
  <2>7. QED
    BY <2>1, <2>6 DEF HarvestStep, PageOf, Idle
<1>16. CASE Retry(t)
  <2>1. UNCHANGED <<visited, hashed, cache, stored>> /\ task[t].pc \in {"retry", "rotate"}
    BY <1>16 DEF Retry, IncrementRetry
  <2>2. u \notin visited /\ task[t].kind = "fresh"
    BY <1>2, <1>3, <1>4, <2>1 DEF ClaimedPc, PageOf
  <2>3. task'[t] = Idle \/ Goto(t, "report")
    BY <1>1, <1>16 DEF Retry, Exit
  <2>4. task'[t] = Idle \/ (task'[t].pc = "report" /\ task'[t].kind = "fresh")
    BY <1>1, <2>2, <2>3, KindKept
  <2>5. QED
    BY <2>1, <2>2, <2>4 DEF HarvestStep, PageOf, Idle
<1>17. CASE Report(t)
  <2>1. UNCHANGED <<visited, hashed, cache, stored>> /\ task[t].pc = "report" /\ task'[t] = Idle
    BY <1>1, <1>17 DEF Report, Exit, queueVars
  <2>2. t \notin Owners
    BY <2>1 DEF Owners, OwnerPc, ClaimedPc, VisitedPc, ParsedPc
  <2>3. QED
    BY <2>1, <2>2 DEF HarvestStep, PageOf, Idle
<1>18. QED
  BY <1>5, <1>6, <1>7, <1>8, <1>9, <1>10, <1>11, <1>12, <1>13, <1>14, <1>15, <1>16, <1>17
     DEF Worker

\* A page stays harvested: items and rows stay, and only the worker on a page
\* records its content.
LEMMA HarvestedStays ==
    ASSUME TypeOK, QueueStep, \A v \in Rows : Sound(v, depth[v]),
           NEW u \in Rows, Harvested(u), u \notin hashed' \ hashed, hashed \subseteq hashed',
           \A v \in Urls : stored[v] > 0 => stored'[v] > 0
    PROVE  Harvested(u)'
<1>1. Rows \subseteq Rows' /\ depth'[u] = depth[u]
  BY RowsStay, DepthStays DEF TypeOK
<1>2. CASE Duplicate(u)
  BY <1>2 DEF Harvested, Duplicate, ContentSeen
<1>3. CASE stored[u] > 0 /\ (FollowsLinks(u) => \A v \in Links[u] : status[v] # "absent")
  <2>1. u \in Urls /\ Links[u] \subseteq Urls /\ (FollowsLinks(u)' <=> FollowsLinks(u))
    BY <1>1, CrawlAssumption DEF Rows, FollowsLinks
  <2>2. QED
    BY <1>1, <1>3, <2>1 DEF Harvested, Rows
<1>4. QED
  BY <1>2, <1>3 DEF Harvested

\* With neither crashes nor timeouts, only a worker's own steps end it.
LEMMA NoneLost ==
    ASSUME TypeOK, Faults \cap {"crash", "timeout"} = {}, [Next]_vars,
           \A t \in Tasks : ~Worker(t),
           NEW t \in Tasks
    PROVE  \/ task'[t] = task[t]
           \/ \E r \in Runs : /\ Spawn(r) /\ task[t].pc = "idle"
                              /\ task'[t] = [pc |-> "gate", url |-> hand[r],
                                             run |-> r, kind |-> "fresh"]
<1>1. task \in [Tasks -> Job]
  BY DEF TypeOK
<1>2. CASE UNCHANGED vars
  BY <1>2 DEF vars
<1>3. ASSUME NEW r \in Runs, Lifecycle(r) \/ Consumer(r) \/ Environment(r)
      PROVE  task' = task
  <2>1. task' = task \/ (task' = Abandoned(r) /\ Busy(r) = {})
    BY <1>3 DEF Lifecycle, Begin, Recover, Launch, PushSeed, Consumer, ReadSentinel, Drain,
       DrainWorkers, FinalRequeue, Close, ReadItem, Environment, Quit, TogglePause, Crash, Halt
  <2>2. QED
    BY <1>1, <2>1 DEF Abandoned
<1>4. ASSUME NEW r \in Runs, DispatchStop(r) \/ DispatchClaim(r) \/ DispatchEmpty(r)
      PROVE  task' = task
  BY <1>4 DEF DispatchStop, DispatchClaim, DispatchEmpty
<1>5. ASSUME NEW r \in Runs, Spawn(r)
      PROVE  \/ task'[t] = task[t]
             \/ /\ task[t].pc = "idle"
                /\ task'[t] = [pc |-> "gate", url |-> hand[r], run |-> r, kind |-> "fresh"]
  BY <1>1, <1>5 DEF Spawn
<1>6. ASSUME NEW s \in Tasks PROVE ~WorkerTimeout(s)
  BY DEF WorkerTimeout
<1>7. QED
  BY <1>2, <1>3, <1>4, <1>5, <1>6 DEF Next, Dispatcher

\* Every step keeps it.
LEMMA HarvestKept ==
    ASSUME ClaimInv, DepthInv, HarvestInv, NeverLost, [Next]_vars
    PROVE  HarvestInv'
<1>1. /\ TypeOK /\ task \in [Tasks -> Job] /\ visited \subseteq Rows
      /\ QueueStep /\ Rows \subseteq Rows'
  BY StepOfQueue, RowsStay DEF ClaimInv, TypeOK, DepthInv, HarvestInv
<1>2. CASE \A t \in Tasks : ~Worker(t)
  <2>1. UNCHANGED <<hashed, visited, stored, cache>>
    BY <1>1, <1>2, OthersMove DEF NeverLost, WorkerTimeout
  <2>2. ASSUME NEW t \in Tasks
        PROVE  \/ task'[t] = task[t]
               \/ task[t].pc = "idle" /\ task'[t].pc = "gate" /\ task'[t].kind = "fresh"
    <3>1. \/ task'[t] = task[t]
          \/ \E r \in Runs : /\ Spawn(r) /\ task[t].pc = "idle"
                             /\ task'[t] = [pc |-> "gate", url |-> hand[r],
                                            run |-> r, kind |-> "fresh"]
      BY <1>1, <1>2, NoneLost DEF NeverLost
    <3>2. ASSUME NEW r \in Runs, task[t].pc = "idle",
                 task'[t] = [pc |-> "gate", url |-> hand[r], run |-> r, kind |-> "fresh"]
          PROVE  task[t].pc = "idle" /\ task'[t].pc = "gate" /\ task'[t].kind = "fresh"
      BY <3>2
    <3>3. QED
      BY <3>1, <3>2
  <2>3. ASSUME NEW t \in Tasks PROVE PageOf(t)'
    <3>1. PageOf(t)
      BY DEF HarvestInv
    <3>2. \A u : Duplicate(u)' <=> Duplicate(u)
      BY <2>1 DEF Duplicate, ContentSeen
    <3>3. QED
      BY <2>1, <2>2, <3>1, <3>2 DEF PageOf
  <2>4. \A u \in cache' : u \in visited' \/ \E t \in Tasks : Caching(t, u)'
    BY <2>1, <2>2 DEF HarvestInv, Caching
  <2>5. ASSUME NEW u \in visited', ~Owned(u)' PROVE Harvested(u)'
    <3>1. u \in visited /\ ~Owned(u)
      BY <2>1, <2>2, <2>5 DEF Owned, Owners, OwnerPc, ClaimedPc, VisitedPc, ParsedPc
    <3>2. Harvested(u)
      BY <3>1 DEF HarvestInv, VisitedIsHarvested, Harvested
    <3>3. QED
      BY <1>1, <2>1, <3>1, <3>2, HarvestedStays DEF DepthInv
  <2>6. visited' \subseteq Rows'
    BY <1>1, <2>1
  <2>7. QED
    BY <2>3, <2>4, <2>5, <2>6 DEF HarvestInv, VisitedIsHarvested, Harvested
<1>3. ASSUME NEW t \in Tasks, Worker(t) PROVE HarvestInv'
  <2> PICK w : w = task[t].url
    OBVIOUS
  <2>1. HarvestStep(t, w)
    BY <1>3, WorkerHarvests
  <2>2. /\ task[t].pc # "idle" /\ \A s \in Tasks \ {t} : task'[s] = task[s]
        /\ task[t].url \in Rows
    BY <1>1, <1>3, OneMoves DEF DepthInv
  <2>3. visited' \subseteq Rows'
    BY <1>1, <2>1, <2>2 DEF HarvestStep
  <2>4. ASSUME NEW s \in Tasks PROVE PageOf(s)'
    <3>1. CASE s = t
      BY <2>1, <3>1 DEF HarvestStep
    <3>2. CASE s # t
      <4> PICK u : u = task[s].url
        OBVIOUS
      <4>1. PageOf(s) /\ task'[s] = task[s]
        BY <2>2, <3>2 DEF HarvestInv
      <4>2. /\ task[s].pc \in {"visit", "done", "retry"} => s \in Owners
            /\ task[s].pc # "idle" => u \in Urls
        BY DEF Owners, OwnerPc, ClaimedPc, VisitedPc, ClaimInv, Bound
      <4>3. ASSUME t \in Owners, u = w
            PROVE  task[s].pc \notin {"visit", "done", "retry"}
        BY <3>2, <4>2, <4>3 DEF ClaimInv, ClaimExclusive
      <4>4. ASSUME Duplicate(u), t \notin Owners \/ u # w PROVE Duplicate(u)'
        BY <2>1, <4>4 DEF Duplicate, ContentSeen, HarvestStep
      <4>5. task[s].kind = "duplicate" => Duplicate(u)'
        <5>1. SUFFICES ASSUME task[s].kind = "duplicate" PROVE Duplicate(u)'
          OBVIOUS
        <5>2. Duplicate(u) /\ s \in Owners
          BY <4>1, <4>2, <5>1 DEF PageOf
        <5>3. t \notin Owners \/ u # w
          BY <3>2, <5>2 DEF ClaimInv, ClaimExclusive
        <5>4. QED
          BY <4>4, <5>2, <5>3
      <4>6. task[s].pc = "retry" => u \notin visited'
        BY <2>1, <4>1, <4>3 DEF PageOf, HarvestStep
      <4>7. task[s].pc = "push" => stored'[u] > 0
        BY <2>1, <4>1, <4>2 DEF PageOf, HarvestStep
      <4>8. QED
        BY <4>1, <4>5, <4>6, <4>7 DEF PageOf
    <3>3. QED
      BY <3>1, <3>2
  <2>5. ASSUME NEW u \in cache' PROVE u \in visited' \/ \E s \in Tasks : Caching(s, u)'
    <3>1. CASE u \notin cache
      BY <2>1, <3>1 DEF HarvestStep
    <3>2. CASE u \in visited
      BY <2>1, <3>2 DEF HarvestStep
    <3>3. ASSUME NEW s \in Tasks, Caching(s, u)
          PROVE  u \in visited' \/ Caching(s, u)'
      BY <2>1, <2>2, <3>3 DEF HarvestStep, Caching
    <3>4. QED
      BY <3>1, <3>2, <3>3 DEF HarvestInv
  <2>6. ASSUME NEW u \in visited', ~Owned(u)' PROVE Harvested(u)'
    <3>1. u \in visited
      BY <2>1, <2>6 DEF HarvestStep, Owned
    <3>2. CASE Owned(u)
      <4>1. PICK s \in Owners : task[s].url = u
        BY <3>2 DEF Owned
      <4>2. s = t
        BY <2>2, <2>6, <4>1 DEF Owned, Owners
      <4>3. QED
        BY <2>1, <2>6, <3>1, <4>1, <4>2 DEF HarvestStep, Owned
    <3>3. CASE ~Owned(u)
      <4>1. Harvested(u)
        BY <3>1, <3>3 DEF HarvestInv, VisitedIsHarvested, Harvested
      <4>2. u \notin hashed' \ hashed
        BY <2>1, <3>3 DEF HarvestStep, Owned
      <4>3. u \in Rows
        BY <1>1, <3>1
      <4>4. QED
        BY <1>1, <2>1, <4>1, <4>2, <4>3, HarvestedStays DEF HarvestStep, DepthInv
    <3>4. QED
      BY <3>2, <3>3
  <2>7. QED
    BY <2>3, <2>4, <2>5, <2>6 DEF HarvestInv, VisitedIsHarvested, Harvested
<1>4. QED
  BY <1>2, <1>3

\* A page that is visited (crawler.py, mark_visited) before it is parsed, stored
\* and followed is never left half done: however the workers interleave, and
\* when the caller stops the crawl, leaves it or resumes it, what its workers
\* visited they stored and followed, duplicates apart.
THEOREM VisitedAreHarvested ==
    ASSUME NoOverlap, NeverLost PROVE Spec => []VisitedIsHarvested
<1>1. Init => HarvestInv
  BY DEF Init, QueueInit, HarvestInv, PageOf, VisitedIsHarvested, Idle, NeverLost
<1>2. ClaimInv /\ DepthInv /\ HarvestInv /\ [Next]_vars => HarvestInv'
  BY HarvestKept
<1>3. HarvestInv => VisitedIsHarvested
  BY DEF HarvestInv
<1>4. QED
  BY <1>1, <1>2, <1>3, ClaimInvariant, DepthInvariant, PTL DEF Spec

-----------------------------------------------------------------------------
(* What the caller of run() gets: unless the crawl is cut short, every item *)
(* that is stored is also yielded.                                         *)

RunsToTheEnd ==
    /\ Faults \cap {"crash", "quit", "stop", "deadline"} = {}
    /\ MaxPages = 0

\* The sentinel is put when no worker is left, so that no item is streamed
\* after it: until run() yields it, an item that is stored is in the inbox.
YieldInv ==
    /\ \A r \in Runs : halt[r] = "no"
    /\ \A r \in Runs : disp[r] = "ended" \/ phase[r] = "draining" => Busy(r) = {}
    /\ \A r \in Runs : inbox[r] # {} => phase[r] = "running"
    /\ \A u \in Urls :
          stored[u] > 0 \/ (\E t \in Tasks : task[t].pc = "store" /\ task[t].url = u) =>
          u \in read \/ \E r \in Runs : u \in inbox[r]

\* A worker streams its page's item before it stores it, and its run is there
\* to take it.
LEMMA WorkerYields ==
    ASSUME ClaimInv, YieldInv, NEW t \in Tasks, Worker(t) \/ WorkerTimeout(t)
    PROVE  YieldInv'
<1> PICK u : u = task[t].url
  OBVIOUS
<1> PICK q : q = task[t].run
  OBVIOUS
<1>1. /\ TypeOK /\ task \in [Tasks -> Job] /\ stored \in [Urls -> Nat]
      /\ inbox \in [Runs -> SUBSET Urls]
  BY DEF ClaimInv, TypeOK
<1>2. /\ task[t].pc # "idle" /\ \A s \in Tasks \ {t} : task'[s] = task[s]
      /\ task'[t] = Idle \/ (task'[t].url = u /\ task'[t].run = q)
      /\ UNCHANGED <<phase, disp, halt, read>>
  BY <1>1, OneMoves
<1>3. u \in Urls /\ q \in Runs /\ t \in Busy(q) /\ phase[q] \in {"running", "draining"}
  BY <1>2 DEF ClaimInv, Bound, Solo, Busy
<1>4. phase[q] = "running" /\ disp[q] # "ended"
  BY <1>3 DEF YieldInv
<1>5. \A r \in Runs : Busy(r)' \subseteq Busy(r)
  BY <1>2 DEF Busy, Idle
<1>6. /\ inbox' = inbox \/ inbox' = [inbox EXCEPT ![q] = @ \cup {u}]
      /\ task'[t].pc = "store" => inbox' = [inbox EXCEPT ![q] = @ \cup {u}]
  <2>1. CASE Parse(t)
    <3>1. Streamed(q, u) = [inbox EXCEPT ![q] = @ \cup {u}]
      BY <1>4 DEF Streamed
    <3>2. CASE Goto(t, "store") /\ inbox' = Streamed(q, u)
      BY <3>1, <3>2
    <3>3. CASE Goto(t, "retry") /\ inbox' \in {inbox, Streamed(q, u)}
      BY <1>1, <3>1, <3>3, KindKept
    <3>4. CASE Exit(t) /\ UNCHANGED inbox
      BY <1>1, <3>4 DEF Exit, Idle
    <3>5. QED
      BY <2>1, <3>2, <3>3, <3>4 DEF Parse
  <2>2. CASE ~Parse(t)
    <3>1. inbox' = inbox
      BY <2>2 DEF Worker, Enter, Reject, CheckRobots, SkipDisallowed, Fetch, WriteCache,
         CheckSeen, Visit, RecordHash, Done, StoreItems, PushLinks, Retry, Report, WorkerTimeout
    <3>2. \/ task' = [task EXCEPT ![t] = Idle]
          \/ \E p \in Pc \ {"store"} : Goto(t, p)
          \/ \E p \in Pc \ {"store"}, k \in Kind :
                task' = [task EXCEPT ![t].pc = p, ![t].kind = k]
      BY <2>2 DEF Worker, Enter, Reject, CheckRobots, SkipDisallowed, Fetch, WriteCache,
         CheckSeen, Visit, RecordHash, Done, StoreItems, PushLinks, Retry, Report, WorkerTimeout,
         Exit, Pc, OwnerPc, ClaimedPc, VisitedPc, ParsedPc, Kind
    <3>3. CASE task' = [task EXCEPT ![t] = Idle]
      BY <1>1, <3>1, <3>3 DEF Idle
    <3>4. CASE \E p \in Pc \ {"store"} : Goto(t, p)
      BY <1>1, <3>1, <3>4, KindKept
    <3>5. ASSUME NEW p \in Pc \ {"store"}, NEW k \in Kind,
                 task' = [task EXCEPT ![t].pc = p, ![t].kind = k]
          PROVE  task'[t].pc # "store"
      BY <1>1, <3>5 DEF Job
    <3>6. QED
      BY <3>1, <3>2, <3>3, <3>4, <3>5
  <2>3. QED
    BY <2>1, <2>2
<1>7. \A v \in Urls : stored'[v] > 0 => stored[v] > 0 \/ (v = u /\ task[t].pc = "store")
  <2>1. stored' = stored \/ (task[t].pc = "store" /\ stored' = [stored EXCEPT ![u] = @ + 1])
    BY DEF Worker, Enter, Reject, CheckRobots, SkipDisallowed, Fetch, WriteCache, CheckSeen,
       Visit, RecordHash, Done, Parse, StoreItems, PushLinks, Retry, Report, WorkerTimeout
  <2>2. QED
    BY <1>1, <2>1
<1>8. \A r \in Runs : inbox[r] \subseteq inbox'[r] /\ (inbox'[r] # {} => inbox[r] # {} \/ r = q)
  BY <1>1, <1>3, <1>6
<1>9. ASSUME NEW v \in Urls,
             stored'[v] > 0 \/ \E s \in Tasks : task'[s].pc = "store" /\ task'[s].url = v
      PROVE  v \in read' \/ \E r \in Runs : v \in inbox'[r]
  <2>1. CASE task'[t].pc = "store" /\ task'[t].url = v
    BY <1>1, <1>2, <1>3, <1>6, <2>1 DEF Idle
  <2>2. CASE ~(task'[t].pc = "store" /\ task'[t].url = v)
    <3>1. stored[v] > 0 \/ \E s \in Tasks : task[s].pc = "store" /\ task[s].url = v
      BY <1>2, <1>7, <1>9, <2>2
    <3>2. QED
      BY <1>2, <1>8, <3>1 DEF YieldInv
  <2>3. QED
    BY <2>1, <2>2
<1>10. QED
  BY <1>2, <1>4, <1>5, <1>8, <1>9 DEF YieldInv

\* Every step keeps it.
LEMMA YieldKept ==
    ASSUME ClaimInv, YieldInv, RunsToTheEnd, [Next]_vars
    PROVE  YieldInv'
<1>1. TypeOK /\ task \in [Tasks -> Job] /\ inbox \in [Runs -> SUBSET Urls]
  BY DEF ClaimInv, TypeOK
<1>2. ASSUME NEW t \in Tasks, Worker(t) \/ WorkerTimeout(t) PROVE YieldInv'
  BY <1>2, WorkerYields
<1>3. CASE \A t \in Tasks : ~Worker(t) /\ ~WorkerTimeout(t)
  <2>1. stored' = stored
    BY <1>1, <1>3, OthersMove
  <2>2. ASSUME NEW t \in Tasks PROVE task'[t].pc = "store" => task'[t] = task[t]
    <3>1. \/ task'[t] = task[t] \/ task'[t] = Idle
          \/ \E r \in Runs : task'[t] = [pc |-> "gate", url |-> hand[r], run |-> r, kind |-> "fresh"]
      BY <1>1, <1>3, OthersMove
    <3>2. ASSUME NEW r \in Runs,
                 task'[t] = [pc |-> "gate", url |-> hand[r], run |-> r, kind |-> "fresh"]
          PROVE  task'[t].pc = "gate"
      BY <3>2
    <3>3. Idle.pc = "idle"
      BY DEF Idle
    <3>4. QED
      BY <3>1, <3>2, <3>3
  <2>3. ASSUME NEW r \in Runs, Busy(r)' # {}
        PROVE  Busy(r) # {} \/ (disp[r] = "spawn" /\ Spawn(r))
    <3>1. PICK t \in Tasks : task'[t].pc # "idle" /\ task'[t].run = r
      BY <2>3 DEF Busy
    <3>2. \/ task'[t] = task[t] \/ task'[t] = Idle
          \/ \E q \in Runs : /\ disp[q] = "spawn" /\ Spawn(q)
                             /\ task'[t] = [pc |-> "gate", url |-> hand[q], run |-> q, kind |-> "fresh"]
      BY <1>1, <1>3, OthersMove
    <3>3. ASSUME NEW q \in Runs,
                 task'[t] = [pc |-> "gate", url |-> hand[q], run |-> q, kind |-> "fresh"]
          PROVE  q = r
      BY <3>1, <3>3
    <3>4. Idle.pc = "idle"
      BY DEF Idle
    <3>5. QED
      BY <3>1, <3>2, <3>3, <3>4 DEF Busy
  <2>4. SUFFICES /\ \A r \in Runs : halt'[r] = "no"
                 /\ \A r \in Runs : disp'[r] = "ended" \/ phase'[r] = "draining" => Busy(r)' = {}
                 /\ \A r \in Runs : inbox'[r] # {} => phase'[r] = "running"
                 /\ read \subseteq read'
                 /\ \A r \in Runs : inbox[r] \subseteq inbox'[r] \cup read'
    BY <2>1, <2>2 DEF YieldInv
  <2>5. CASE UNCHANGED vars
    BY <2>5 DEF vars, runVars, YieldInv, Busy
  <2>6. ASSUME NEW q \in Runs, Lifecycle(q)
        PROVE  /\ \A r \in Runs : halt'[r] = "no"
               /\ \A r \in Runs : disp'[r] = "ended" \/ phase'[r] = "draining" => Busy(r)' = {}
               /\ \A r \in Runs : inbox'[r] # {} => phase'[r] = "running"
               /\ read' = read /\ inbox' = inbox
    <3>1. /\ UNCHANGED <<halt, inbox, read, task>>
          /\ \A r \in Runs \ {q} : disp'[r] = disp[r] /\ phase'[r] = phase[r]
          /\ phase[q] # "running" \/ phase'[q] = "running"
          /\ disp'[q] = "ended" => disp[q] = "ended"
          /\ phase'[q] # "draining" \/ phase[q] = "draining"
      BY <1>1, <2>6 DEF Lifecycle, Begin, Recover, Launch, PushSeed, TypeOK
    <3>2. QED
      BY <3>1 DEF YieldInv, Busy
  <2>7. ASSUME NEW q \in Runs, Dispatcher(q)
        PROVE  /\ \A r \in Runs : halt'[r] = "no"
               /\ \A r \in Runs : disp'[r] = "ended" \/ phase'[r] = "draining" => Busy(r)' = {}
               /\ \A r \in Runs : inbox'[r] # {} => phase'[r] = "running"
               /\ read' = read /\ inbox' = inbox
    <3>1. UNCHANGED <<halt, inbox, read, phase>> /\ \A r \in Runs \ {q} : disp'[r] = disp[r]
      BY <1>1, <2>7 DEF Dispatcher, DispatchStop, DispatchClaim, DispatchEmpty, Spawn, TypeOK
    <3>2. ~DispatchStop(q)
      BY DEF DispatchStop, Limited, RunsToTheEnd, YieldInv
    <3>3. disp'[q] = "ended" => Busy(q)' = {}
      BY <1>1, <2>7, <3>2 DEF Dispatcher, DispatchClaim, DispatchEmpty, Spawn, TypeOK, Busy
    <3>4. disp[q] = "spawn" => phase[q] = "running"
      BY DEF ClaimInv, Solo
    <3>5. ASSUME NEW r \in Runs, disp'[r] = "ended" \/ phase'[r] = "draining" PROVE Busy(r)' = {}
      <4>1. CASE r = q /\ disp'[r] = "ended"
        BY <3>3, <4>1
      <4>2. CASE ~(r = q /\ disp'[r] = "ended")
        <5>1. Busy(r) = {} /\ ~(disp[r] = "spawn" /\ Spawn(r))
          BY <3>1, <3>4, <3>5, <4>2 DEF YieldInv, ClaimInv, Solo, Spawn
        <5>2. QED
          BY <2>3, <5>1
      <4>3. QED
        BY <4>1, <4>2
    <3>6. QED
      BY <3>1, <3>5 DEF YieldInv
  <2>8. ASSUME NEW q \in Runs, Consumer(q)
        PROVE  /\ \A r \in Runs : halt'[r] = "no"
               /\ \A r \in Runs : disp'[r] = "ended" \/ phase'[r] = "draining" => Busy(r)' = {}
               /\ \A r \in Runs : inbox'[r] # {} => phase'[r] = "running"
               /\ read \subseteq read'
               /\ \A r \in Runs : inbox[r] \subseteq inbox'[r] \cup read'
    <3>1. CASE ReadSentinel(q)
      BY <1>1, <3>1 DEF ReadSentinel, Drain, YieldInv, TypeOK, Busy
    <3>2. CASE DrainWorkers(q)
      <4>1. /\ UNCHANGED <<halt, inbox, read, disp>> /\ phase[q] = "draining"
            /\ \A r \in Runs : phase'[r] = IF r = q THEN "closing" ELSE phase[r]
        BY <1>1, <3>2 DEF DrainWorkers, TypeOK
      <4>2. \A r \in Runs : Busy(r) = {} => Busy(r)' = {}
        BY <2>3, <3>2 DEF DrainWorkers, ClaimInv, Solo, Live
      <4>3. QED
        BY <4>1, <4>2 DEF YieldInv
    <3>3. CASE FinalRequeue(q) \/ Close(q)
      BY <1>1, <3>3 DEF FinalRequeue, Close, YieldInv, TypeOK, Busy
    <3>4. ASSUME NEW u \in Urls, ReadItem(q, u)
          PROVE  /\ UNCHANGED <<halt, disp, phase, task>>
                 /\ \A r \in Runs : inbox'[r] # {} => inbox[r] # {}
                 /\ read \subseteq read'
                 /\ \A r \in Runs : inbox[r] \subseteq inbox'[r] \cup read'
      BY <1>1, <3>4 DEF ReadItem
    <3>5. CASE \E u \in Urls : ReadItem(q, u)
      BY <3>4, <3>5 DEF YieldInv, Busy
    <3>6. QED
      BY <2>8, <3>1, <3>2, <3>3, <3>5 DEF Consumer
  <2>9. ASSUME NEW q \in Runs, Environment(q)
        PROVE  /\ \A r \in Runs : halt'[r] = "no"
               /\ \A r \in Runs : disp'[r] = "ended" \/ phase'[r] = "draining" => Busy(r)' = {}
               /\ \A r \in Runs : inbox'[r] # {} => phase'[r] = "running"
               /\ read' = read /\ inbox' = inbox
    <3>1. TogglePause(q)
      BY <2>9 DEF Environment, Quit, Crash, Halt, RunsToTheEnd
    <3>2. QED
      BY <3>1 DEF TogglePause, YieldInv, Busy
  <2>10. QED
    BY <1>3, <2>5, <2>6, <2>7, <2>8, <2>9 DEF Next
<1>4. QED
  BY <1>2, <1>3

\* The None sentinel ends the caller's iteration (crawler.py, run) when the
\* dispatcher has found the queue empty and no worker busy: by then every item
\* that is stored has been streamed, and is yielded ahead of the sentinel.
THEOREM StoredIsYielded ==
    ASSUME NoOverlap, RunsToTheEnd PROVE Spec => []ItemsAreYielded
<1>1. Init => YieldInv
  BY DEF Init, QueueInit, YieldInv, Idle, Busy
<1>2. ClaimInv /\ YieldInv /\ [Next]_vars => YieldInv'
  BY YieldKept
<1>3. ClaimInv /\ YieldInv => ItemsAreYielded
  BY DEF YieldInv, ItemsAreYielded, ClaimInv, SweptLast, Live
<1>4. QED
  BY <1>1, <1>2, <1>3, ClaimInvariant, PTL DEF Spec

-----------------------------------------------------------------------------
(* What "finished" means: under the assumptions of the two properties      *)
(* above, nothing was left to do.                                          *)

Exhausted == \A u \in Urls : status[u] \in {"absent", "done", "failed"}
Present(u) == status[u] # "absent"

\* A row in progress has somebody to work on it, a visited row is not queued
\* again, and before the crawl, from its sentinel on, and after it, no row is
\* left to do.  The start requests are in the queue once they have been pushed.
Tended ==
    /\ \A u \in Urls : status[u] = "processing" => Owned(u) \/ InHand(u)
    /\ \A u \in visited : status[u] \notin {"absent", "pending"}

Phased(r) ==
    /\ phase[r] \in {"recover", "draining", "closing", "final"} \/ disp[r] = "ended" =>
          Exhausted
    /\ phase[r] = "seed" => \A u \in Seeds \ toSeed[r] : Present(u)
    /\ phase[r] \in {"running", "draining", "closing", "final", "closed"} =>
          \A u \in Seeds : Present(u)

CompleteInv ==
    /\ Tended
    /\ \A r \in Runs : Phased(r)
    /\ (\A r \in Runs : phase[r] \notin Live) => Exhausted
    /\ crawlRow = "finished" => \E r \in Runs : phase[r] = "closed"

\* What the step of a worker on page u does to the rows: it puts none in
\* progress, queues no visited one, and leaves its own in progress only while
\* it works on it.
RowStep(t, u) ==
    /\ \A v \in Urls : status'[v] = "processing" => status[v] = "processing"
    /\ t \in Owners /\ status'[u] = "processing" => t \in Owners' /\ task'[t].url = u
    /\ \A v \in Urls : status'[v] = "pending" =>
          status[v] \in {"pending", "absent"} \/ (v = u /\ u \notin visited')
    /\ \A v \in visited' : v \in visited \/ status'[v] = "processing"

\* Every step of a worker is such a step.
LEMMA WorkerRows ==
    ASSUME ClaimInv, HarvestInv, NEW t \in Tasks, Worker(t),
           NEW u, u = task[t].url
    PROVE  RowStep(t, u)
<1>1. TypeOK /\ task \in [Tasks -> Job] /\ status \in [Urls -> RowStatus]
  BY DEF ClaimInv, TypeOK, QueueTypeOK
<1>2. /\ task[t].pc # "idle" => u \in Urls
      /\ t \in Owners => RowOf(t)
      /\ PageOf(t)
  BY DEF ClaimInv, Bound, ClaimedRows, HarvestInv
<1>3. CASE \/ Enter(t) \/ CheckRobots(t) \/ Fetch(t) \/ WriteCache(t) \/ CheckSeen(t)
           \/ RecordHash(t)
  <2>1. UNCHANGED <<status, visited>>
    BY <1>3 DEF Enter, CheckRobots, Fetch, WriteCache, CheckSeen, RecordHash, MarkContentSeen,
       queueVars
  <2>2. \E p \in OwnerPc : Goto(t, p) \/ \E k \in Kind : task' = [task EXCEPT ![t].pc = p, ![t].kind = k]
    BY <1>3 DEF Enter, CheckRobots, Fetch, WriteCache, CheckSeen, RecordHash, OwnerPc, ClaimedPc,
       VisitedPc, Kind
  <2>3. PICK p \in OwnerPc : Goto(t, p) \/ \E k \in Kind : task' = [task EXCEPT ![t].pc = p, ![t].kind = k]
    BY <2>2
  <2>4. task'[t].pc = p /\ task'[t].url = u
    <3>1. CASE Goto(t, p)
      BY <1>1, <3>1, KindKept
    <3>2. ASSUME NEW k \in Kind, task' = [task EXCEPT ![t].pc = p, ![t].kind = k]
          PROVE  task'[t].pc = p /\ task'[t].url = u
      BY <1>1, <3>2 DEF Job
    <3>3. QED
      BY <2>3, <3>1, <3>2
  <2>5. QED
    BY <2>1, <2>4 DEF RowStep, Owners
<1>4. CASE Reject(t) \/ SkipDisallowed(t) \/ Done(t)
  <2>1. u \in Urls
    BY <1>2, <1>4 DEF Reject, SkipDisallowed, Done
  <2>2. /\ UNCHANGED visited /\ status'[u] \in {"done", "failed"}
        /\ \A v \in Urls \ {u} : status'[v] = status[v]
    BY <1>1, <1>4, <2>1 DEF Reject, SkipDisallowed, Done, MarkFailed, MarkDone
  <2>3. QED
    BY <2>2 DEF RowStep
<1>5. CASE Visit(t)
  <2>1. UNCHANGED status /\ visited' = visited \cup {u} /\ task[t].pc = "visit"
    BY <1>5 DEF Visit, MarkVisited
  <2>2. status[u] = "processing"
    BY <1>2, <2>1 DEF RowOf, ClaimedPc, Owners, OwnerPc
  <2>3. PICK p \in {"hash", "done"} : Goto(t, p)
    BY <1>5 DEF Visit
  <2>4. t \in Owners' /\ task'[t].url = u
    BY <1>1, <2>3, KindKept DEF Owners, OwnerPc, VisitedPc
  <2>5. QED
    BY <2>1, <2>2, <2>4 DEF RowStep
<1>6. CASE Parse(t) \/ StoreItems(t)
  <2>1. UNCHANGED <<status, visited>> /\ task[t].pc \in {"parse", "store"}
    BY <1>6 DEF Parse, StoreItems, queueVars
  <2>2. status[u] = "done"
    BY <1>2, <2>1 DEF RowOf, ParsedPc, Owners, OwnerPc
  <2>3. QED
    BY <2>1, <2>2 DEF RowStep
<1>7. CASE PushLinks(t)
  <2>1. u \in Urls /\ status[u] = "done"
    BY <1>2, <1>7 DEF PushLinks, RowOf, ParsedPc, Owners, OwnerPc
  <2>2. /\ UNCHANGED visited
        /\ \A v \in Urls : status'[v] = status[v] \/ (status[v] = "absent" /\ status'[v] = "pending")
    BY <1>1, <1>7 DEF PushLinks, Push
  <2>3. QED
    BY <2>1, <2>2 DEF RowStep
<1>8. CASE Retry(t)
  <2>1. u \in Urls /\ u \notin visited
    BY <1>2, <1>8 DEF Retry, RowOf, PageOf, ClaimedPc, Owners, OwnerPc
  <2>2. /\ UNCHANGED visited /\ status'[u] \in {"pending", "failed"}
        /\ \A v \in Urls \ {u} : status'[v] = status[v]
    BY <1>1, <1>8, <2>1 DEF Retry, IncrementRetry
  <2>3. QED
    BY <2>1, <2>2 DEF RowStep
<1>9. CASE Report(t)
  <2>1. UNCHANGED <<status, visited>> /\ t \notin Owners
    BY <1>9 DEF Report, queueVars, Owners, OwnerPc, ClaimedPc, VisitedPc, ParsedPc
  <2>2. QED
    BY <2>1 DEF RowStep
<1>10. QED
  BY <1>3, <1>4, <1>5, <1>6, <1>7, <1>8, <1>9 DEF Worker

\* A worker's step keeps the invariant: a run with a worker at work is past its
\* start, and before its sentinel.
LEMMA WorkerCompletes ==
    ASSUME ClaimInv, HarvestInv, YieldInv, CompleteInv, Rows \subseteq Rows',
           NEW t \in Tasks, Worker(t)
    PROVE  CompleteInv'
<1> PICK u : u = task[t].url
  OBVIOUS
<1>1. RowStep(t, u)
  BY WorkerRows
<1>2. /\ TypeOK /\ task[t].pc # "idle" /\ \A s \in Tasks \ {t} : task'[s] = task[s]
      /\ UNCHANGED <<crawlRow, phase, toSeed, disp, hand>>
  BY OneMoves DEF ClaimInv
<1>3. PICK q \in Runs : q = task[t].run
  BY <1>2 DEF ClaimInv, Bound
<1>4. phase[q] = "running" /\ disp[q] # "ended"
  BY <1>2, <1>3 DEF ClaimInv, Solo, YieldInv, Busy
<1>5. \A r \in Runs : phase[r] \notin {"recover", "seed", "draining", "closing", "final"}
                      /\ disp[r] # "ended"
  BY <1>4 DEF ClaimInv, Solo, Live
<1>6. ASSUME NEW v \in Urls, status'[v] = "processing" PROVE Owned(v)' \/ InHand(v)'
  <2>1. status[v] = "processing"
    BY <1>1, <1>6 DEF RowStep
  <2>2. CASE InHand(v)
    BY <1>2, <2>2 DEF InHand
  <2>3. ASSUME NEW s \in Owners, task[s].url = v PROVE Owned(v)'
    <3>1. CASE s = t
      BY <1>1, <1>6, <2>3, <3>1 DEF RowStep, Owned
    <3>2. CASE s # t
      <4>1. task'[s] = task[s] /\ s \in Owners'
        BY <1>2, <2>3, <3>2 DEF Owners
      <4>2. QED
        BY <2>3, <4>1 DEF Owned
    <3>3. QED
      BY <3>1, <3>2
  <2>4. QED
    BY <2>1, <2>2, <2>3 DEF CompleteInv, Tended, Owned
<1>7. ASSUME NEW v \in visited' PROVE status'[v] \notin {"absent", "pending"}
  <2>1. CASE v \notin visited
    BY <1>1, <2>1 DEF RowStep
  <2>2. CASE v \in visited
    <3>1. v \in Urls /\ status[v] \notin {"absent", "pending"}
      BY <1>2, <2>2 DEF CompleteInv, Tended, TypeOK, QueueTypeOK
    <3>2. status'[v] # "absent"
      BY <3>1 DEF Rows
    <3>3. QED
      BY <1>1, <1>7, <3>1, <3>2 DEF RowStep
  <2>3. QED
    BY <2>1, <2>2
<1>8. ASSUME NEW r \in Runs, phase[r] \in {"running", "closed"}, NEW v \in Seeds
      PROVE  Present(v)'
  BY <1>8, CrawlAssumption DEF CompleteInv, Phased, Present, Rows
<1>9. ~(\A r \in Runs : phase[r] \notin Live)
  BY <1>4 DEF Live
<1>10. QED
  BY <1>2, <1>5, <1>6, <1>7, <1>8, <1>9 DEF CompleteInv, Tended, Phased

\* The other steps: a row is claimed into the dispatcher's hand, handed to a
\* worker, or inserted; a sweep finds nothing to sweep.
LEMMA OthersTend ==
    ASSUME NeverLost, RunsToTheEnd, ClaimInv, YieldInv, CompleteInv, [Next]_vars,
           \A t \in Tasks : ~Worker(t)
    PROVE  Tended'
<1>1. /\ TypeOK /\ task \in [Tasks -> Job] /\ status \in [Urls -> RowStatus]
      /\ hand \in [Runs -> Urls \cup {NoUrl}] /\ visited \subseteq Urls
      /\ disp \in [Runs -> {"off", "top", "spawn", "ended"}]
  BY DEF ClaimInv, TypeOK, QueueTypeOK
<1>2. visited' = visited
  BY <1>1, OthersMove DEF NeverLost, WorkerTimeout
<1>3. ASSUME NEW t \in Tasks, t \in Owners PROVE t \in Owners' /\ task'[t].url = task[t].url
  <2>1. task'[t] = task[t]
    BY <1>1, <1>3, NoneLost DEF NeverLost, Owners, OwnerPc, ClaimedPc, VisitedPc, ParsedPc
  <2>2. QED
    BY <1>3, <2>1 DEF Owners
<1>4. \A u \in Urls : Owned(u) => Owned(u)'
  BY <1>3 DEF Owned, Owners
<1>5. ASSUME status' = status, \A u \in Urls : InHand(u) => InHand(u)' \/ Owned(u)'
      PROVE  Tended'
  BY <1>2, <1>4, <1>5 DEF CompleteInv, Tended
<1>6. ASSUME Exhausted, RequeueStale PROVE status' = status
  BY <1>1, <1>6 DEF Exhausted, RequeueStale
<1>7. CASE UNCHANGED vars
  BY <1>5, <1>7 DEF vars, queueVars, runVars, InHand
<1>8. ASSUME NEW r \in Runs, Lifecycle(r) PROVE Tended'
  <2>1. CASE Begin(r) \/ Launch(r)
    <3>1. status' = status /\ hand' = hand
      BY <2>1 DEF Begin, Launch, queueVars
    <3>2. \A q \in Runs : disp[q] = "spawn" => disp'[q] = "spawn"
      BY <1>1, <2>1 DEF Begin, Launch, ClaimInv, Solo
    <3>3. QED
      BY <1>5, <3>1, <3>2 DEF InHand
  <2>2. CASE Recover(r)
    BY <1>5, <1>6, <2>2 DEF Recover, CompleteInv, Phased, InHand
  <2>3. ASSUME NEW u \in Urls, PushSeed(r, u) PROVE Tended'
    <3>1. \A v \in Urls : status'[v] = status[v] \/ (status[v] = "absent" /\ status'[v] = "pending")
      BY <1>1, <2>3 DEF PushSeed, Push
    <3>2. \A v \in Urls : InHand(v) => InHand(v)'
      BY <2>3 DEF PushSeed, InHand
    <3>3. QED
      BY <1>1, <1>2, <1>4, <3>1, <3>2 DEF CompleteInv, Tended
  <2>4. QED
    BY <1>8, <2>1, <2>2, <2>3 DEF Lifecycle
<1>9. ASSUME NEW r \in Runs, Dispatcher(r) PROVE Tended'
  <2>1. CASE DispatchStop(r) \/ DispatchEmpty(r)
    <3>1. status' = status /\ hand' = hand /\ disp[r] = "top" /\ disp' = [disp EXCEPT ![r] = "ended"]
      BY <2>1 DEF DispatchStop, DispatchEmpty, MayPop, queueVars
    <3>2. \A q \in Runs : disp[q] = "spawn" => disp'[q] = "spawn"
      BY <1>1, <3>1
    <3>3. QED
      BY <1>5, <3>1, <3>2 DEF InHand
  <2>2. ASSUME NEW u \in Urls, Pop(u), hand' = [hand EXCEPT ![r] = u], disp[r] = "top",
               disp' = [disp EXCEPT ![r] = "spawn"]
        PROVE  Tended'
    <3>1. /\ status'[u] = "processing" /\ u \notin visited
          /\ \A v \in Urls \ {u} : status'[v] = status[v]
      BY <1>1, <2>2 DEF Pop, Claimable, PendingRows
    <3>2. InHand(u)' /\ \A v \in Urls : InHand(v) => InHand(v)'
      BY <1>1, <2>2 DEF InHand
    <3>3. QED
      BY <1>1, <1>2, <1>4, <3>1, <3>2 DEF CompleteInv, Tended
  <2>3. CASE Spawn(r)
    <3> PICK h : h = hand[r]
      OBVIOUS
    <3>1. PICK t \in Tasks : task[t].pc = "idle" /\ task' = [task EXCEPT ![t] =
              [pc |-> "gate", url |-> h, run |-> r, kind |-> "fresh"]]
      BY <2>3 DEF Spawn
    <3>2. task'[t].pc = "gate" /\ task'[t].url = h
      BY <1>1, <3>1
    <3>3. Owned(h)'
      BY <3>2 DEF Owned, Owners, OwnerPc, ClaimedPc
    <3>4. status' = status /\ \A q \in Runs \ {r} : disp'[q] = disp[q] /\ hand'[q] = hand[q]
      BY <1>1, <2>3 DEF Spawn, queueVars
    <3>5. QED
      BY <1>5, <3>3, <3>4 DEF InHand
  <2>4. QED
    BY <1>9, <2>1, <2>2, <2>3 DEF Dispatcher, DispatchClaim, MayPop
<1>10. ASSUME NEW r \in Runs, Consumer(r) PROVE Tended'
  <2>1. CASE ReadSentinel(r)
    <3>1. status' = status /\ \A q \in Runs \ {r} : disp'[q] = disp[q] /\ hand'[q] = hand[q]
      BY <1>1, <2>1 DEF ReadSentinel, Drain, queueVars
    <3>2. QED
      BY <1>5, <2>1, <3>1 DEF ReadSentinel, InHand
  <2>2. CASE FinalRequeue(r)
    BY <1>5, <1>6, <2>2 DEF FinalRequeue, CompleteInv, Phased, InHand
  <2>3. CASE DrainWorkers(r) \/ Close(r) \/ \E u \in Urls : ReadItem(r, u)
    BY <1>5, <2>3 DEF DrainWorkers, Close, ReadItem, queueVars, InHand
  <2>4. QED
    BY <1>10, <2>1, <2>2, <2>3 DEF Consumer
<1>11. ASSUME NEW r \in Runs, Environment(r) PROVE Tended'
  <2>1. TogglePause(r)
    BY <1>11 DEF Environment, Quit, Crash, Halt, RunsToTheEnd
  <2>2. QED
    BY <1>5, <2>1 DEF TogglePause, queueVars, InHand
<1>12. QED
  BY <1>7, <1>8, <1>9, <1>10, <1>11 DEF Next, NeverLost, WorkerTimeout

\* The dispatcher that finds nothing to claim and no worker busy has found that
\* nothing is left to do: a row in progress would be a worker's, or its own.
LEMMA EmptyIsExhausted ==
    ASSUME ClaimInv, CompleteInv, NEW r \in Runs, DispatchEmpty(r)
    PROVE  Exhausted
<1>1. /\ TypeOK /\ status \in [Urls -> RowStatus] /\ disp[r] = "top"
      /\ PendingRows \ visited = {} /\ Busy(r) = {}
  BY DEF ClaimInv, TypeOK, QueueTypeOK, DispatchEmpty, MayPop, Claimable
<1>2. ASSUME NEW q \in Runs, phase[q] \in Live PROVE q = r
  BY <1>1, <1>2 DEF ClaimInv, Solo, Live
<1>3. ASSUME NEW u \in Urls PROVE status[u] \notin {"pending", "processing"}
  <2>1. status[u] # "pending"
    BY <1>1 DEF CompleteInv, Tended, PendingRows
  <2>2. ~Owned(u)
    BY <1>1, <1>2 DEF Owned, Owners, OwnerPc, ClaimedPc, VisitedPc, ParsedPc, Busy, ClaimInv,
       Bound, Solo, Live
  <2>3. ~InHand(u)
    BY <1>1, <1>2 DEF InHand, ClaimInv, Solo, Live
  <2>4. QED
    BY <2>1, <2>2, <2>3 DEF CompleteInv, Tended
<1>4. QED
  BY <1>1, <1>3 DEF Exhausted, RowStatus

\* Every step keeps it.
LEMMA CompleteKept ==
    ASSUME NoOverlap, NeverLost, RunsToTheEnd, ClaimInv, DepthInv, HarvestInv, YieldInv,
           CompleteInv, [Next]_vars
    PROVE  CompleteInv'
<1>1. /\ TypeOK /\ status \in [Urls -> RowStatus]
      /\ phase \in [Runs -> Live \cup {"new", "closed", "dead"}]
      /\ toSeed \in [Runs -> SUBSET Urls]
      /\ disp \in [Runs -> {"off", "top", "spawn", "ended"}]
      /\ Rows \subseteq Rows'
  BY StepOfQueue, RowsStay DEF ClaimInv, TypeOK, QueueTypeOK, DepthInv
<1>2. ASSUME NEW t \in Tasks, Worker(t) PROVE CompleteInv'
  BY <1>1, <1>2, WorkerCompletes
<1>3. CASE \A t \in Tasks : ~Worker(t)
  <2>1. Tended'
    BY <1>3, OthersTend
  <2>2. \A v \in Urls : Present(v) => Present(v)'
    BY <1>1 DEF Present, Rows
  <2>3. ASSUME status' = status PROVE Exhausted' <=> Exhausted
    BY <2>3 DEF Exhausted
  <2>4. ASSUME Exhausted, RequeueStale PROVE status' = status
    BY <1>1, <2>4 DEF Exhausted, RequeueStale
  <2>5. ASSUME NEW r \in Runs, NEW q \in Runs, q # r, phase[r] \in Live
        PROVE  phase[q] \notin Live /\ disp[q] = "off"
    BY <1>1, <2>5 DEF ClaimInv, Solo, Live
  <2>6. ASSUME NEW r \in Runs, phase[r] \in Live, Phased(r)',
               \A q \in Runs \ {r} : phase'[q] = phase[q] /\ disp'[q] = disp[q]
        PROVE  \A q \in Runs : Phased(q)'
    <3>1. ASSUME NEW q \in Runs, q # r PROVE Phased(q)'
      <4>1. phase'[q] \notin Live /\ disp'[q] = "off"
        BY <2>5, <2>6, <3>1
      <4>2. phase'[q] = "closed" => \A u \in Seeds : Present(u)'
        BY <2>2, <2>6, <3>1, CrawlAssumption DEF CompleteInv, Phased
      <4>3. QED
        BY <4>1, <4>2 DEF Phased, Live
    <3>2. QED
      BY <2>6, <3>1
  <2>7. CASE UNCHANGED vars
    BY <2>1, <2>7 DEF vars, queueVars, durableVars, runVars, CompleteInv, Phased, Exhausted,
       Present
  <2>8. ASSUME NEW r \in Runs, Lifecycle(r) PROVE CompleteInv'
    <3>1. CASE Begin(r)
      <4>1. /\ \A q \in Runs : phase[q] \notin Live
            /\ status' = status /\ disp' = disp /\ toSeed' = toSeed /\ crawlRow' = "running"
            /\ phase' = [phase EXCEPT ![r] = "recover"]
        BY <3>1 DEF Begin, NoOverlap, queueVars
      <4>2. Exhausted /\ Exhausted'
        BY <2>3, <4>1 DEF CompleteInv
      <4>3. Phased(r)'
        BY <1>1, <4>1, <4>2 DEF Phased
      <4>4. \A q \in Runs \ {r} : Phased(q)'
        BY <1>1, <2>2, <4>1, <4>2, CrawlAssumption DEF CompleteInv, Phased
      <4>5. QED
        BY <1>1, <2>1, <4>1, <4>2, <4>3, <4>4 DEF CompleteInv
    <3>2. CASE Recover(r)
      <4>1. Exhausted /\ status' = status
        BY <2>4, <3>2 DEF Recover, CompleteInv, Phased
      <4>2. PendingRows' = {}
        BY <4>1 DEF PendingRows, Exhausted
      <4>3. /\ phase[r] = "recover" /\ phase' = [phase EXCEPT ![r] = "seed"]
            /\ toSeed' = [toSeed EXCEPT ![r] = Seeds] /\ disp' = disp /\ crawlRow' = crawlRow
        BY <3>2, <4>2 DEF Recover, durableVars
      <4>4. Exhausted'
        BY <2>3, <4>1
      <4>5. Phased(r)'
        BY <1>1, <4>3, <4>4 DEF Phased
      <4>6. \A q \in Runs : Phased(q)'
        BY <1>1, <2>6, <4>3, <4>5 DEF Live
      <4>7. QED
        BY <1>1, <2>1, <4>3, <4>4, <4>6 DEF CompleteInv
    <3>3. ASSUME NEW u \in Urls, PushSeed(r, u) PROVE CompleteInv'
      <4>1. /\ phase[r] = "seed" /\ UNCHANGED <<phase, disp, crawlRow>>
            /\ toSeed' = [toSeed EXCEPT ![r] = @ \ {u}] /\ status'[u] # "absent"
        BY <1>1, <3>3 DEF PushSeed, Push, durableVars
      <4>2. Phased(r)'
        <5>1. disp[r] # "ended"
          BY <4>1 DEF ClaimInv, Solo
        <5>2. ASSUME NEW v \in Seeds \ toSeed'[r] PROVE Present(v)'
          <6>1. v = u \/ v \in Seeds \ toSeed[r]
            BY <1>1, <4>1, <5>2
          <6>2. QED
            BY <2>2, <4>1, <6>1, CrawlAssumption DEF CompleteInv, Phased, Present
        <5>3. QED
          BY <4>1, <5>1, <5>2 DEF Phased
      <4>3. \A q \in Runs : Phased(q)'
        BY <2>6, <4>1, <4>2 DEF Live
      <4>4. QED
        BY <2>1, <4>1, <4>3 DEF CompleteInv, Live
    <3>4. CASE Launch(r)
      <4>1. /\ phase[r] = "seed" /\ toSeed[r] = {} /\ UNCHANGED <<crawlRow, toSeed, status>>
            /\ phase' = [phase EXCEPT ![r] = "running"] /\ disp' = [disp EXCEPT ![r] = "top"]
        BY <3>4 DEF Launch, durableVars, queueVars
      <4>2. Phased(r)'
        BY <1>1, <2>2, <4>1, CrawlAssumption DEF CompleteInv, Phased
      <4>3. \A q \in Runs : Phased(q)'
        BY <1>1, <2>6, <4>1, <4>2 DEF Live
      <4>4. QED
        BY <1>1, <2>1, <4>1, <4>3 DEF CompleteInv, Live
    <3>5. QED
      BY <2>8, <3>1, <3>2, <3>3, <3>4 DEF Lifecycle
  <2>9. ASSUME NEW r \in Runs, Dispatcher(r) PROVE CompleteInv'
    <3>1. /\ UNCHANGED <<phase, crawlRow>> /\ \A q \in Runs \ {r} : disp'[q] = disp[q]
          /\ disp[r] # "off"
      BY <1>1, <2>9 DEF Dispatcher, DispatchStop, DispatchClaim, DispatchEmpty, Spawn, MayPop,
         durableVars
    <3>2. phase[r] = "running"
      BY <3>1 DEF ClaimInv, Solo
    <3>3. disp'[r] = "ended" => Exhausted'
      <4>1. ~DispatchStop(r)
        BY DEF DispatchStop, Limited, RunsToTheEnd, YieldInv
      <4>2. CASE DispatchEmpty(r)
        BY <2>3, <4>2, EmptyIsExhausted DEF DispatchEmpty, queueVars
      <4>3. CASE DispatchClaim(r) \/ Spawn(r)
        BY <1>1, <4>3 DEF DispatchClaim, Spawn
      <4>4. QED
        BY <2>9, <4>1, <4>2, <4>3 DEF Dispatcher
    <3>4. Phased(r)'
      BY <2>2, <3>1, <3>2, <3>3, CrawlAssumption DEF CompleteInv, Phased
    <3>5. \A q \in Runs : Phased(q)'
      BY <2>6, <3>1, <3>2, <3>4 DEF Live
    <3>6. QED
      BY <2>1, <3>1, <3>2, <3>5 DEF CompleteInv, Live
  <2>10. ASSUME NEW r \in Runs, Consumer(r) PROVE CompleteInv'
    <3>1. CASE \E u \in Urls : ReadItem(r, u)
      <4>1. UNCHANGED <<phase, disp, toSeed, status, crawlRow>>
        BY <3>1 DEF ReadItem, queueVars, durableVars
      <4>2. QED
        BY <2>1, <4>1 DEF CompleteInv, Phased, Exhausted, Present
    <3>2. CASE ~(\E u \in Urls : ReadItem(r, u))
      <4>1. PICK p \in {"draining", "closing", "final", "closed"} : phase' = [phase EXCEPT ![r] = p]
        BY <2>10, <3>2 DEF Consumer, ReadSentinel, Drain, DrainWorkers, FinalRequeue, Close
      <4>2. phase[r] \in {"running", "draining", "closing", "final"} /\ Exhausted
        BY <2>10, <3>2 DEF Consumer, ReadSentinel, DrainWorkers, FinalRequeue, Close, CompleteInv,
           Phased
      <4>3. status' = status
        BY <2>4, <2>10, <3>2, <4>2 DEF Consumer, ReadSentinel, Drain, DrainWorkers, FinalRequeue,
           Close, queueVars
      <4>4. Exhausted'
        BY <2>3, <4>2, <4>3
      <4>5. \A q \in Runs \ {r} : disp'[q] = disp[q]
        BY <1>1, <2>10, <3>2 DEF Consumer, ReadSentinel, Drain, DrainWorkers, FinalRequeue, Close
      <4>6. Phased(r)'
        BY <1>1, <2>2, <4>1, <4>2, <4>4, CrawlAssumption DEF CompleteInv, Phased
      <4>7. \A q \in Runs : Phased(q)'
        BY <1>1, <2>6, <4>1, <4>2, <4>5, <4>6 DEF Live
      <4>8. crawlRow' = crawlRow \/ Close(r)
        BY <2>10, <3>2 DEF Consumer, ReadSentinel, Drain, DrainWorkers, FinalRequeue, durableVars
      <4>9. crawlRow' = "finished" => \E q \in Runs : phase'[q] = "closed"
        <5>1. CASE Close(r)
          BY <1>1, <5>1 DEF Close
        <5>2. CASE crawlRow' = crawlRow
          BY <1>1, <4>1, <4>2, <5>2 DEF CompleteInv
        <5>3. QED
          BY <4>8, <5>1, <5>2
      <4>10. QED
        BY <2>1, <4>4, <4>7, <4>9 DEF CompleteInv
    <3>3. QED
      BY <3>1, <3>2
  <2>11. ASSUME NEW r \in Runs, Environment(r) PROVE CompleteInv'
    <3>1. TogglePause(r)
      BY <2>11 DEF Environment, Quit, Crash, Halt, RunsToTheEnd
    <3>2. UNCHANGED <<phase, disp, toSeed, status, crawlRow>>
      BY <3>1 DEF TogglePause, queueVars, durableVars
    <3>3. QED
      BY <2>1, <3>2 DEF CompleteInv, Phased, Exhausted, Present
  <2>12. QED
    BY <1>3, <2>7, <2>8, <2>9, <2>10, <2>11 DEF Next, NeverLost, WorkerTimeout
<1>4. QED
  BY <1>2, <1>3

\* A crawl that is shown as finished (crawler.py, run) has nothing left: every
\* row is done or failed, the start requests are among them, and so is all that
\* the pages lead to that were kept.
THEOREM FinishedHasNothingLeft ==
    ASSUME NoOverlap, NeverLost, RunsToTheEnd PROVE Spec => []FinishedIsComplete
<1>1. Init => HarvestInv
  BY DEF Init, QueueInit, HarvestInv, PageOf, VisitedIsHarvested, Idle, NeverLost
<1>2. Init => YieldInv
  BY DEF Init, QueueInit, YieldInv, Idle, Busy
<1>3. Init => CompleteInv
  BY DEF Init, QueueInit, CompleteInv, Tended, Phased, Exhausted
<1>4. ClaimInv /\ DepthInv /\ HarvestInv /\ YieldInv /\ CompleteInv /\ [Next]_vars =>
         HarvestInv' /\ YieldInv' /\ CompleteInv'
  BY HarvestKept, YieldKept, CompleteKept
<1>5. ClaimInv /\ HarvestInv /\ CompleteInv => FinishedIsComplete
  <2>1. SUFFICES ASSUME ClaimInv, HarvestInv, CompleteInv, crawlRow = "finished"
                 PROVE  FinishedIsComplete
    BY DEF FinishedIsComplete
  <2>2. Exhausted
    BY <2>1 DEF ClaimInv, SweptLast, CompleteInv
  <2>3. \A u \in Seeds : status[u] # "absent"
    BY <2>1 DEF CompleteInv, Phased, Present
  <2>4. ASSUME NEW v \in visited, FollowsLinks(v), ~Duplicate(v), NEW u \in Links[v]
        PROVE  status[u] # "absent"
    <3>1. ~Owned(v)
      BY <2>1 DEF ClaimInv, TerminalRowIsQuiet, Owned
    <3>2. QED
      BY <2>1, <2>4, <3>1 DEF HarvestInv, VisitedIsHarvested
  <2>5. QED
    BY <2>2, <2>3, <2>4 DEF FinishedIsComplete, Exhausted
<1>6. QED
  BY <1>1, <1>2, <1>3, <1>4, <1>5, ClaimInvariant, DepthInvariant, PTL DEF Spec

=============================================================================
