---------------------------- MODULE ServerProofs ----------------------------
(***************************************************************************)
(* Theorems about the two servers.  Of Dashboard, for any number of        *)
(* requests at a time, of incidents, polls and restarts; of McpRegistry,   *)
(* for any crawls and any bound on those that are active; of PageCache,    *)
(* for any callers, pages, sizes and caps.                                 *)
(***************************************************************************)
EXTENDS Dashboard, McpRegistry, PageCache,
        SequenceTheorems, WellFoundedInduction, TLAPS

-----------------------------------------------------------------------------
(* What the requests make of a state *)

\* The sequences of BoundedSeq are those of at most so many elements.
LEMMA Bounded ==
    ASSUME NEW S, NEW n \in Nat, NEW s
    PROVE  s \in BoundedSeq(S, n) <=> s \in Seq(S) /\ Len(s) <= n
<1>1. ASSUME NEW m \in 0..n, s \in [1..m -> S] PROVE s \in Seq(S) /\ Len(s) <= n
  <2>1. m \in Nat
    OBVIOUS
  <2>2. s \in Seq(S) /\ Len(s) = m
    BY <1>1, <2>1, SeqDef, LenProperties
  <2>3. QED
    BY <2>2
<1>2. ASSUME s \in Seq(S), Len(s) <= n PROVE Len(s) \in 0..n /\ s \in [1..Len(s) -> S]
  BY <1>2, LenProperties
<1>3. BoundedSeq(S, n) = UNION {[1..m -> S] : m \in 0..n}
  BY DEF BoundedSeq, SeqOf
<1>4. QED
  BY <1>1, <1>2, <1>3

\* One element more, at the end.
LEMMA Longer ==
    ASSUME NEW S, NEW q \in Seq(S), NEW e \in S, NEW n \in Nat
    PROVE  /\ Last(Append(q, e)) = e /\ Append(q, e) # <<>>
           /\ IsPrefix(q, Append(q, e))
           /\ Len(q) < n => Append(q, e) \in BoundedSeq(S, n)
<1> DEFINE b == Append(q, e)
<1>1. /\ b \in Seq(S) /\ b # <<>> /\ Len(b) = Len(q) + 1 /\ b[Len(q) + 1] = e
      /\ \A i \in 1..Len(q) : b[i] = q[i]
      /\ Len(q) \in Nat
  BY AppendProperties, LenProperties
<1> HIDE DEF b
<1>2. Last(b) = e
  BY <1>1 DEF Last
<1>3. SubSeq(q, 1, Len(q)) = SubSeq(b, 1, Len(q))
  BY <1>1
<1>4. IsPrefix(q, b)
  BY <1>1, <1>3 DEF IsPrefix
<1>5. Len(q) < n => b \in BoundedSeq(S, n)
  BY <1>1, Bounded
<1>6. QED
  BY <1>1, <1>2, <1>4, <1>5 DEF b

\* The last element another.
LEMMA Relast ==
    ASSUME NEW S, NEW n \in Nat, NEW q \in BoundedSeq(S, n), q # <<>>, NEW e \in S
    PROVE  /\ [q EXCEPT ![Len(q)] = e] \in BoundedSeq(S, n)
           /\ Last([q EXCEPT ![Len(q)] = e]) = e
<1>1. q \in Seq(S) /\ Len(q) \in Nat /\ Len(q) <= n /\ Len(q) \in 1..Len(q)
  BY Bounded, EmptySeq
<1> DEFINE b == [q EXCEPT ![Len(q)] = e]
<1>2. b \in Seq(S) /\ Len(b) = Len(q) /\ b[Len(q)] = e
  BY <1>1, ExceptSeq
<1> HIDE DEF b
<1>3. b \in BoundedSeq(S, n) /\ Last(b) = e
  BY <1>1, <1>2, Bounded DEF Last
<1>4. QED
  BY <1>3 DEF b

Edit(op, step, s) ==
    CASE op = "run" -> RunState(s)
      [] op = "break" -> BreakState(s)
      [] op = "heal" -> HealState(s, step)
      [] op = "reset" -> DEFAULT_STATE

Failing(s) == ~s.some /\ s.stale /\ ~s.fixed /\ s.incidents # <<>> /\ Last(s.incidents)
Mended(s) == s.some /\ ~s.stale /\ s.fixed /\ (s.incidents = <<>> \/ ~Last(s.incidents))
Coherent(s) == (s.status = "failed" => Failing(s)) /\ (s.status = "recovered" => Mended(s))

\* The default state hangs together.
LEMMA DefaultState == DEFAULT_STATE \in State /\ Coherent(DEFAULT_STATE)
<1>1. <<>> \in BoundedSeq(BOOLEAN, MaxIncidents)
  <2>1. \A S : <<>> \in Seq(S) /\ Len(<<>>) = 0
    BY EmptySeq
  <2>2. MaxIncidents \in Nat
    BY DashboardAssumption
  <2>3. <<>> \in Seq(BOOLEAN) /\ Len(<<>>) <= MaxIncidents
    BY <2>1, <2>2
  <2>4. QED
    BY <2>2, <2>3, Bounded
<1>2. QED
  BY <1>1 DEF DEFAULT_STATE, State, Status, Coherent

\* A run makes a healthy state of any, and leaves the prices and the incidents.
LEMMA RunEdit ==
    ASSUME NEW s \in State
    PROVE  /\ RunState(s) \in State /\ RunState(s).status = "healthy"
           /\ RunState(s).stale = s.stale /\ RunState(s).incidents = s.incidents
BY DEF RunState, State, Status

\* A break makes a failed state, with one more incident, which is open.
LEMMA BreakEdit ==
    ASSUME NEW s \in State
    PROVE  /\ Len(s.incidents) < MaxIncidents => BreakState(s) \in State
           /\ BreakState(s).status = "failed" /\ Coherent(BreakState(s))
           /\ BreakState(s).stale /\ IsPrefix(s.incidents, BreakState(s).incidents)
<1> DEFINE q == s.incidents
           b == Append(q, TRUE)
<1>1. q \in Seq(BOOLEAN)
  BY DashboardAssumption, Bounded DEF State
<1>2. TRUE \in BOOLEAN /\ MaxIncidents \in Nat
  BY DashboardAssumption
<1>3. /\ Last(b) = TRUE /\ b # <<>> /\ IsPrefix(q, b)
      /\ Len(q) < MaxIncidents => b \in BoundedSeq(BOOLEAN, MaxIncidents)
  BY <1>1, <1>2, Longer
<1> HIDE DEF b
<1>6. BreakState(s) = [status |-> "failed", some |-> FALSE, stale |-> TRUE, fixed |-> FALSE,
                       incidents |-> b]
  BY DEF BreakState, b
<1>7. Len(q) < MaxIncidents => BreakState(s) \in State
  BY <1>3, <1>6 DEF State, Status
<1>8. Coherent(BreakState(s)) /\ BreakState(s).status = "failed" /\ BreakState(s).stale
  BY <1>3, <1>6 DEF Coherent, Failing
<1>9. QED
  BY <1>3, <1>6, <1>7, <1>8

\* Each save of a heal keeps the state typed; only the last touches the prices
\* and the incidents.
LEMMA HealEdit ==
    ASSUME NEW s \in State, NEW k \in 1..5
    PROVE  /\ HealState(s, k) \in State
           /\ HealState(s, k).status = CASE k = 1 -> "healing" [] k = 5 -> "recovered"
                                         [] OTHER -> s.status
           /\ k = 3 => HealState(s, k).fixed
           /\ k \in {1, 2, 4} => HealState(s, k).fixed = s.fixed
           /\ k # 5 => HealState(s, k).stale = s.stale /\ HealState(s, k).incidents = s.incidents
           /\ k = 5 /\ s.fixed => Mended(HealState(s, k))
<1>1. CASE k = 1
  <2>1. HealState(s, k) = [s EXCEPT !.status = "healing"]
    BY <1>1 DEF HealState
  <2>2. QED
    BY <1>1, <2>1 DEF State, Status
<1>2. CASE k = 3
  <2>1. HealState(s, k) = [s EXCEPT !.fixed = TRUE]
    BY <1>2 DEF HealState
  <2>2. /\ HealState(s, k) \in State /\ HealState(s, k).fixed = TRUE
        /\ HealState(s, k).status = s.status /\ HealState(s, k).stale = s.stale
        /\ HealState(s, k).incidents = s.incidents
    BY <2>1 DEF State
  <2>3. QED
    BY <1>2, <2>2
<1>3. CASE k \in {2, 4}
  <2>1. HealState(s, k) = s
    BY <1>3 DEF HealState
  <2>2. QED
    BY <1>3, <2>1 DEF State, Status
<1>4. CASE k = 5
  <2> DEFINE q == s.incidents
             i == IF q = <<>> THEN <<>> ELSE [q EXCEPT ![Len(q)] = FALSE]
  <2>1. q \in BoundedSeq(BOOLEAN, MaxIncidents) /\ MaxIncidents \in Nat /\ FALSE \in BOOLEAN
    BY DashboardAssumption DEF State
  <2>4. i \in BoundedSeq(BOOLEAN, MaxIncidents) /\ (i = <<>> \/ Last(i) = FALSE)
    <3>1. CASE q = <<>>
      BY <2>1, <3>1
    <3>2. CASE q # <<>>
      <4>1. i = [q EXCEPT ![Len(q)] = FALSE]
        BY <3>2
      <4> HIDE DEF q, i
      <4>2. QED
        BY <2>1, <3>2, <4>1, Relast
    <3>3. QED
      BY <3>1, <3>2
  <2>5. HealState(s, k) = [s EXCEPT !.status = "recovered", !.some = TRUE, !.stale = FALSE,
                                    !.incidents = i]
    BY <1>4 DEF HealState
  <2> HIDE DEF i, q
  <2>6. /\ HealState(s, k) \in State /\ HealState(s, k).status = "recovered"
        /\ HealState(s, k).some = TRUE /\ HealState(s, k).stale = FALSE
        /\ HealState(s, k).incidents = i /\ HealState(s, k).fixed = s.fixed
    BY <2>4, <2>5 DEF State, Status
  <2>7. s.fixed => Mended(HealState(s, k))
    BY <2>4, <2>6 DEF Mended
  <2>8. QED
    BY <1>4, <2>6, <2>7
<1>5. QED
  BY <1>1, <1>2, <1>3, <1>4

-----------------------------------------------------------------------------
(* The inductive invariant *)

\* The requests whose page is waiting for the state, or has an answer to render.
Waiting == {op \in Ops : At(op, {"load", "answer"})}

\* A request in the middle of its work has a typed state in hand.  What it is
\* about to write hangs together: a heal has gone through its saves in order.
Made(op, j) ==
    /\ j \in Job /\ op \in Buttons
    /\ op # "heal" => j.step = 1
    /\ op = "break" /\ j.stage = "work" => Len(j.mem.incidents) < MaxIncidents
    /\ j.stage = "write" => Coherent(j.mem)
    /\ j.stage = "write" /\ op # "heal" => j.mem.status \in {"healthy", "failed"}
    /\ op = "heal" =>
          /\ j.step > 1 /\ j.stage = "work" => j.mem.status = "healing"
          /\ j.stage = "write" => j.mem.status = IF j.step = 5 THEN "recovered" ELSE "healing"
          /\ j.step > 3 \/ (j.step = 3 /\ j.stage = "write") => j.mem.fixed

\* A request alone with the file s, which is now f: no other has written since it
\* has emptied the file, and if it found the file whole it has of it what it
\* loaded, or what its work makes of it.
Undisturbed(op, j, s, f) ==
    /\ j.stage = "write" => f = "empty"
    /\ j.whole => /\ j.stage \in {"poll", "work"} => f = "whole" /\ (op = "reset" \/ j.mem = s)
                  /\ j.stage = "write" => j.mem = Edit(op, j.step, s)

\* A request j that the server works on, with those of sv.
Working(op, j, sv, s, f) == Made(op, j) /\ (j.alone => sv = {op} /\ Undisturbed(op, j, s, f))

\* A page that waits, alone, will be told, or has been told, what is on file.
Told(j, sv, s, f) ==
    /\ j \in Asking \cup Answer
    /\ j.alone => sv = {} /\ (j.stage = "answer" /\ f = "whole" => j.status = s.status)

\* "healing" is on file only while a heal goes on; once another request has
\* written over it, the heal that ends cannot leave it there.
Healing ==
    saved.status = "healing" /\ crashes = 0 =>
        At("heal", {"work"}) \/ (At("heal", {"write"}) /\ form = "empty")

\* While a request goes on that nobody hears, the page shows what overlaps it, or
\* has yet to be loaded.
Unheard == (\E op \in Serving : ~job[op].heard) => blurred \/ ~At("load", {"idle"})

DashInv ==
    /\ TypeOK
    /\ Coherent(saved)
    /\ Healing
    /\ ViewIsCurrent
    /\ Unheard
    /\ \A op \in Serving : Working(op, job[op], Serving, saved, form)
    /\ \A op \in Waiting : Told(job[op], Serving, saved, form)

Jobs == Job \cup Asking \cup Answer \cup {Idle, Stuck}

\* The placeholders are under no way.
LEMMA Placeholders == Idle.stage = "idle" /\ Stuck.stage = "stuck"
BY DEF Idle, Stuck

\* A request is in the server, or its page waits, or neither.
LEMMA Stages ==
    ASSUME TypeOK, NEW op \in Ops
    PROVE  /\ op \in Serving <=> job[op] \in Job
           /\ op \in Waiting <=> job[op] \in Asking \cup Answer
           /\ op \in UnderWay <=> op \in Serving \cup Waiting
           /\ op \notin UnderWay <=> job[op] \in {Idle, Stuck}
<1>1. job[op] \in Jobs
  BY DEF TypeOK, Jobs
<1>2. CASE job[op] \in Job
  <2>1. job[op].stage \in {"poll", "work", "write"}
    BY <1>2 DEF Job
  <2>2. job[op] \notin Asking \cup Answer /\ job[op] \notin {Idle, Stuck}
    BY <2>1, Placeholders DEF Asking, Answer
  <2>3. QED
    BY <1>2, <2>1, <2>2 DEF Serving, Waiting, UnderWay, At
<1>3. CASE job[op] \in Asking \cup Answer
  <2>1. job[op].stage \in {"load", "answer"}
    BY <1>3 DEF Asking, Answer
  <2>2. job[op] \notin Job /\ job[op] \notin {Idle, Stuck}
    BY <2>1, Placeholders DEF Job
  <2>3. QED
    BY <1>3, <2>1, <2>2 DEF Serving, Waiting, UnderWay, At
<1>4. CASE job[op] \in {Idle, Stuck}
  <2>1. job[op].stage \in {"idle", "stuck"}
    BY <1>4, Placeholders
  <2>2. job[op] \notin Job /\ job[op] \notin Asking \cup Answer
    BY <2>1 DEF Job, Asking, Answer
  <2>3. QED
    BY <1>4, <2>1, <2>2 DEF Serving, Waiting, UnderWay, At
<1>5. QED
  BY <1>1, <1>2, <1>3, <1>4 DEF Jobs

\* A new dashboard satisfies the invariant.
LEMMA DashInit == Init => DashInv
<1> SUFFICES ASSUME Init PROVE DashInv
  OBVIOUS
<1> DEFINE n == [stage |-> "load", alone |-> TRUE]
<1>1. n \in Asking /\ n.stage = "load"
  BY DEF Asking
<1>2. job = [op \in Ops |-> IF op = "load" THEN n ELSE Idle]
  BY DEF Init
<1> HIDE DEF n
<1>3. "load" \in Ops
  BY DEF Ops
<1>4. \A op \in Ops : (job[op] = n /\ op = "load") \/ job[op] = Idle
  BY <1>2
<1>5. Serving = {} /\ Waiting \subseteq {"load"} /\ job["load"] = n /\ ~At("load", {"idle"})
  BY <1>1, <1>2, <1>3, <1>4, Placeholders DEF Serving, Waiting, At
<1>6. TypeOK
  <2>1. Idle \in Jobs /\ n \in Jobs
    BY <1>1 DEF Jobs
  <2>2. job \in [Ops -> Jobs]
    BY <1>2, <2>1
  <2>3. saved \in State /\ crashes \in 0..MaxCrashes
    BY DefaultState, DashboardAssumption DEF Init
  <2>4. QED
    BY <2>2, <2>3 DEF Init, TypeOK, Jobs
<1>7. Coherent(saved) /\ saved.status = "healthy"
  BY DefaultState DEF Init, DEFAULT_STATE
<1>8. Told(n, {}, saved, form)
  BY <1>1 DEF Told
<1>9. QED
  BY <1>3, <1>5, <1>6, <1>7, <1>8 DEF DashInv, Healing, ViewIsCurrent, Unheard

\* What a request is about to write, it has made of what it had.
LEMMA EditMade ==
    ASSUME NEW op \in Ops, NEW j, Made(op, j), j.stage = "work"
    PROVE  Made(op, [j EXCEPT !.mem = Edit(op, j.step, j.mem), !.stage = "write"])
<1> DEFINE m == Edit(op, j.step, j.mem)
           k == [j EXCEPT !.mem = m, !.stage = "write"]
<1>1. j \in Job /\ j.mem \in State /\ j.step \in 1..5
  BY DEF Made, Job
<1>2. /\ m \in State /\ Coherent(m)
      /\ op # "heal" => m.status \in {"healthy", "failed"}
      /\ op = "heal" => /\ m.status = IF j.step = 5 THEN "recovered" ELSE "healing"
                        /\ j.step >= 3 => m.fixed
  <2>1. CASE op = "run"
    <3>1. m = RunState(j.mem)
      BY <2>1 DEF Edit
    <3>2. m \in State /\ m.status = "healthy"
      BY <1>1, <3>1, RunEdit
    <3>3. QED
      BY <2>1, <3>2 DEF Coherent
  <2>2. CASE op = "break"
    <3>1. m = BreakState(j.mem) /\ Len(j.mem.incidents) < MaxIncidents
      BY <2>2 DEF Edit, Made
    <3>2. m \in State /\ m.status = "failed" /\ Coherent(m)
      BY <1>1, <3>1, BreakEdit
    <3>3. QED
      BY <2>2, <3>2
  <2>3. CASE op = "reset"
    <3>1. m = DEFAULT_STATE
      BY <2>3 DEF Edit
    <3>2. QED
      BY <2>3, <3>1, DefaultState DEF DEFAULT_STATE
  <2>4. CASE op = "heal"
    <3>1. m = HealState(j.mem, j.step)
      BY <2>4 DEF Edit
    <3>2. /\ j.step > 1 => j.mem.status = "healing"
          /\ j.step > 3 => j.mem.fixed
      BY <2>4 DEF Made
    <3>3. /\ m \in State
          /\ m.status = CASE j.step = 1 -> "healing" [] j.step = 5 -> "recovered"
                          [] OTHER -> j.mem.status
          /\ j.step = 3 => m.fixed
          /\ j.step \in {1, 2, 4} => m.fixed = j.mem.fixed
          /\ j.step = 5 /\ j.mem.fixed => Mended(m)
      BY <1>1, <3>1, HealEdit
    <3> HIDE DEF m
    <3>4. m.status = IF j.step = 5 THEN "recovered" ELSE "healing"
      BY <1>1, <3>2, <3>3
    <3>5. j.step = 5 => Mended(m)
      BY <3>2, <3>3
    <3>6. j.step >= 3 => m.fixed
      <4>1. CASE j.step = 3
        BY <3>3, <4>1
      <4>2. CASE j.step = 4
        BY <3>2, <3>3, <4>2
      <4>3. CASE j.step = 5
        BY <3>5, <4>3 DEF Mended
      <4>4. QED
        BY <1>1, <4>1, <4>2, <4>3
    <3>7. Coherent(m)
      BY <3>4, <3>5 DEF Coherent
    <3>8. QED
      BY <2>4, <3>3, <3>4, <3>6, <3>7
  <2>5. QED
    BY <2>1, <2>2, <2>3, <2>4 DEF Made, Buttons
<1> HIDE DEF m
<1>3. k \in Job /\ k.stage = "write" /\ k.mem = m /\ k.step = j.step
  BY <1>1, <1>2 DEF Job
<1> HIDE DEF k
<1>4. op # "heal" => k.step = 1
  BY <1>3 DEF Made
<1>5. Made(op, k)
  BY <1>1, <1>2, <1>3, <1>4 DEF Made
<1>6. QED
  BY <1>5 DEF k, m

\* What the others have in hand is theirs, and none of them is alone while op is
\* in the server.
LEMMA OthersKept ==
    ASSUME DashInv, NEW op \in Serving, Serving' \subseteq Serving,
           NEW o \in Ops, o # op, job'[o] = job[o]
    PROVE  /\ o \in Serving' => Working(o, job'[o], Serving', saved', form')
           /\ o \in Waiting' => Told(job'[o], Serving', saved', form')
<1>1. CASE o \in Serving'
  <2>1. o \in Serving /\ Working(o, job[o], Serving, saved, form)
    BY <1>1 DEF DashInv
  <2>2. Made(o, job[o]) /\ ~job[o].alone
    BY <2>1 DEF Working
  <2>3. o \notin Waiting'
    BY <1>1 DEF Serving, Waiting, At
  <2>4. QED
    BY <2>2, <2>3 DEF Working
<1>2. CASE o \in Waiting'
  <2>1. o \in Waiting /\ Told(job[o], Serving, saved, form)
    BY <1>2 DEF DashInv, Waiting, At
  <2>2. job[o] \in Asking \cup Answer /\ ~job[o].alone
    BY <2>1 DEF Told
  <2>3. o \notin Serving'
    BY <1>2 DEF Serving, Waiting, At
  <2>4. QED
    BY <2>2, <2>3 DEF Told
<1>3. QED
  BY <1>1, <1>2

\* A step of the server at the request op keeps the invariant if it leaves op
\* sound and a sound file: op works on, or its page has its answer or asks for the
\* state, or it has died, or it is over and nobody hears.
LEMMA ServedKeeps ==
    ASSUME DashInv, NEW op \in Serving,
           job' \in [Ops -> Jobs], \A o \in Ops \ {op} : job'[o] = job[o],
           UNCHANGED <<shown, crashes, blurred>>,
           saved' \in State, form' \in {"whole", "empty", "garbled"}, Coherent(saved'), Healing',
           \/ /\ job'[op].stage \in {"poll", "work", "write"} /\ job'[op].heard = job[op].heard
              /\ Working(op, job'[op], Serving, saved', form')
           \/ Told(job'[op], Serving \ {op}, saved', form')
           \/ job'[op] = Stuck
           \/ job'[op] = Idle /\ ~job[op].heard
    PROVE  DashInv'
<1>1. op \in Ops /\ op # "load" /\ "load" \in Ops
  BY DEF DashInv, Working, Made, Serving, Buttons, Ops
<1>2. /\ Serving' \subseteq Serving
      /\ job'[op].stage \in {"poll", "work", "write"} => Serving' = Serving
      /\ job'[op].stage \notin {"poll", "work", "write"} => Serving' = Serving \ {op}
  BY <1>1 DEF Serving, At
<1>3. TypeOK'
  BY DEF DashInv, TypeOK, Jobs
<1>4. ViewIsCurrent'
  <2>1. CASE job'[op].stage # "idle"
    BY <1>1, <2>1 DEF ViewIsCurrent, At
  <2>2. CASE job'[op] = Idle /\ ~job[op].heard
    <3>1. blurred \/ ~At("load", {"idle"})
      BY <2>2 DEF DashInv, Unheard
    <3>2. job'["load"] = job["load"] /\ blurred' = blurred
      BY <1>1
    <3>3. QED
      BY <1>1, <3>1, <3>2 DEF ViewIsCurrent, At
  <2>3. Told(job'[op], Serving \ {op}, saved', form') => job'[op].stage # "idle"
    BY DEF Told, Asking, Answer
  <2>4. QED
    BY <2>1, <2>2, <2>3, Placeholders
<1>5. Unheard'
  <2>1. ASSUME NEW o \in Serving', ~job'[o].heard
        PROVE  o \in Serving /\ ~job[o].heard
    <3>1. o \in Serving /\ o \in Ops
      BY <1>2 DEF Serving
    <3>2. CASE o # op
      BY <2>1, <3>1, <3>2
    <3>3. CASE o = op
      <4>1. job'[op].stage \in {"poll", "work", "write"}
        BY <2>1, <3>3 DEF Serving, At
      <4>2. job'[op].heard = job[op].heard
        BY <4>1, Placeholders DEF Told, Asking, Answer
      <4>3. QED
        BY <2>1, <3>1, <3>3, <4>2
    <3>4. QED
      BY <3>2, <3>3
  <2>2. job'["load"] = job["load"] /\ blurred' = blurred
    BY <1>1
  <2>3. QED
    BY <2>1, <2>2 DEF DashInv, Unheard, At
<1>6. ASSUME NEW o \in Ops
      PROVE  /\ o \in Serving' => Working(o, job'[o], Serving', saved', form')
             /\ o \in Waiting' => Told(job'[o], Serving', saved', form')
  <2>1. CASE o # op
    BY <1>2, <2>1, OthersKept
  <2>2. CASE o = op /\ job'[op].stage \in {"poll", "work", "write"}
    <3>1. Working(op, job'[op], Serving, saved', form')
      BY <2>2, Placeholders DEF Told, Asking, Answer
    <3>2. op \notin Waiting'
      BY <2>2 DEF Waiting, At
    <3>3. QED
      BY <1>2, <2>2, <3>1, <3>2
  <2>3. CASE o = op /\ job'[op].stage \notin {"poll", "work", "write"}
    <3>1. op \notin Serving'
      BY <2>3 DEF Serving, At
    <3>2. op \in Waiting' => Told(job'[op], Serving \ {op}, saved', form')
      BY <2>3, Placeholders DEF Waiting, At
    <3>3. QED
      BY <1>2, <2>3, <3>1, <3>2
  <2>4. QED
    BY <2>1, <2>2, <2>3
<1>7. Coherent(saved)'
  BY DEF Coherent, Failing, Mended
<1>8. Serving' \subseteq Ops /\ Waiting' \subseteq Ops
  BY DEF Serving, Waiting
<1>9. QED
  BY <1>3, <1>4, <1>5, <1>6, <1>7, <1>8 DEF DashInv

-----------------------------------------------------------------------------
(* Every step keeps it. *)

\* A button is pressed: the request has what is on file, or the default.
LEMMA BeginKeeps ==
    ASSUME DashInv, NEW op \in Ops, Begin(op)
    PROVE  DashInv'
<1> DEFINE n == [stage |-> IF op = "run" THEN "poll" ELSE "work", step |-> 1, polls |-> 0,
                 heard |-> TRUE, mem |-> IF op = "reset" THEN DEFAULT_STATE ELSE _load_state,
                 whole |-> form = "whole", alone |-> Serving = {}]
<1>1. /\ TypeOK /\ Coherent(saved) /\ job[op].stage = "idle" /\ op \in Buttons
      /\ UNCHANGED <<saved, form, shown, crashes, blurred>>
      /\ job' = [o \in Ops |-> IF o = op THEN n ELSE IF o \in UnderWay THEN [job[o] EXCEPT !.alone = FALSE]
                               ELSE job[o]]
  BY DEF DashInv, Begin, At
<1>2. n \in Job
  <2>1. _load_state \in State /\ DEFAULT_STATE \in State /\ MaxPolls \in Nat
    BY <1>1, DefaultState, DashboardAssumption DEF _load_state, TypeOK
  <2>2. (Serving = {}) \in BOOLEAN /\ (form = "whole") \in BOOLEAN
    OBVIOUS
  <2>3. QED
    BY <2>1, <2>2 DEF Job
<1>3. Made(op, n)
  <2>1. op = "break" => Len(_load_state.incidents) < MaxIncidents
    BY DEF Begin
  <2>2. QED
    BY <1>1, <1>2, <2>1 DEF Made
<1>4. /\ n.alone => Serving = {}
      /\ n.whole => form = "whole" /\ (op = "reset" \/ n.mem = saved)
  BY DEF _load_state
<1>5. n.stage \in {"poll", "work"} /\ n.heard
  OBVIOUS
<1>6. op = "heal" => n.stage = "work"
  OBVIOUS
<1> HIDE DEF n
<1>7. op \notin UnderWay /\ job'[op] = n
  BY <1>1 DEF UnderWay, At
<1>8. ASSUME NEW o \in Ops, o # op
      PROVE  /\ job'[o] \in Jobs /\ job'[o].stage = job[o].stage
             /\ o \in Serving => job'[o] \in Job /\ Made(o, job'[o]) /\ ~job'[o].alone
                                 /\ job'[o].heard = job[o].heard
             /\ o \in Waiting => job'[o] \in Asking \cup Answer /\ ~job'[o].alone
  <2>1. CASE o \in Serving
    <3>1. Made(o, job[o]) /\ job[o] \in Job /\ o \in UnderWay
      BY <1>1, <1>8, <2>1, Stages DEF DashInv, Working
    <3>2. job'[o] = [job[o] EXCEPT !.alone = FALSE]
      BY <1>1, <1>8, <3>1
    <3>3. /\ job'[o] \in Job /\ job'[o].alone = FALSE /\ job'[o].stage = job[o].stage
          /\ job'[o].step = job[o].step /\ job'[o].mem = job[o].mem /\ job'[o].heard = job[o].heard
      BY <3>1, <3>2 DEF Job
    <3>4. Made(o, job'[o])
      BY <3>1, <3>3 DEF Made
    <3>5. o \notin Waiting
      BY <1>1, <1>8, <2>1 DEF Serving, Waiting, At
    <3>6. QED
      BY <3>3, <3>4, <3>5 DEF Jobs
  <2>2. CASE o \in Waiting
    <3>1. job[o] \in Asking \cup Answer /\ o \in UnderWay /\ o \notin Serving
      BY <1>1, <1>8, <2>2, Stages DEF Serving, Waiting, At
    <3>2. job'[o] = [job[o] EXCEPT !.alone = FALSE]
      BY <1>1, <1>8, <3>1
    <3>3. job'[o] \in Asking \cup Answer /\ job'[o].alone = FALSE /\ job'[o].stage = job[o].stage
      BY <3>1, <3>2 DEF Asking, Answer
    <3>4. QED
      BY <3>1, <3>3 DEF Jobs
  <2>3. CASE o \notin Serving /\ o \notin Waiting
    <3>1. o \notin UnderWay
      BY <1>1, <1>8, <2>3, Stages
    <3>2. job'[o] = job[o]
      BY <1>1, <1>8, <3>1
    <3>3. QED
      BY <1>1, <1>8, <2>3, <3>2 DEF TypeOK, Jobs
  <2>4. QED
    BY <2>1, <2>2, <2>3
<1>9. op \notin Serving /\ op \notin Waiting /\ op \notin Waiting'
  BY <1>1, <1>5, <1>7 DEF Serving, Waiting, At
<1>10. Serving' = Serving \cup {op} /\ Waiting' = Waiting
  BY <1>5, <1>7, <1>8, <1>9 DEF Serving, Waiting, At
<1>11. TypeOK'
  <2>1. \A o \in Ops : job'[o] \in Jobs
    BY <1>2, <1>7, <1>8 DEF Jobs
  <2>2. job' \in [Ops -> Jobs]
    BY <1>1, <2>1
  <2>3. QED
    BY <1>1, <2>2 DEF TypeOK, Jobs
<1>12. Healing'
  <2>1. op # "heal" => job'["heal"].stage = job["heal"].stage
    BY <1>8 DEF Ops, Buttons
  <2>2. op = "heal" => job["heal"].stage = "idle" /\ job'["heal"].stage = "work"
    BY <1>1, <1>6, <1>7
  <2>3. QED
    BY <1>1, <2>1, <2>2 DEF DashInv, Healing, At
<1>13. ViewIsCurrent'
  BY <1>5, <1>7 DEF ViewIsCurrent, At
<1>14. Unheard'
  <2>1. ASSUME NEW o \in Serving', ~job'[o].heard
        PROVE  o \in Serving /\ ~job[o].heard
    <3>1. o # op
      BY <1>5, <1>7, <2>1
    <3>2. o \in Serving /\ o \in Ops
      BY <1>10, <3>1 DEF Serving
    <3>3. QED
      BY <1>8, <2>1, <3>1, <3>2
  <2>2. op # "load" /\ "load" \in Ops
    BY <1>1 DEF Buttons, Ops
  <2>3. job'["load"].stage = job["load"].stage
    BY <1>8, <2>2
  <2>4. QED
    BY <1>1, <2>1, <2>3 DEF DashInv, Unheard, At
<1>15. ASSUME NEW o \in Serving'
       PROVE  Working(o, job'[o], Serving', saved', form')
  <2>1. CASE o = op
    BY <1>1, <1>3, <1>4, <1>5, <1>7, <1>10, <2>1 DEF Working, Undisturbed
  <2>2. CASE o # op
    <3>1. o \in Serving /\ o \in Ops
      BY <1>10, <1>15, <2>2 DEF Serving
    <3>2. QED
      BY <1>8, <2>2, <3>1 DEF Working
  <2>3. QED
    BY <2>1, <2>2
<1>16. ASSUME NEW o \in Waiting'
       PROVE  Told(job'[o], Serving', saved', form')
  <2>1. o \in Waiting /\ o \in Ops /\ o # op
    BY <1>9, <1>10, <1>16 DEF Waiting
  <2>2. QED
    BY <1>8, <2>1 DEF Told
<1>17. Coherent(saved)'
  BY <1>1 DEF Coherent, Failing, Mended
<1>18. QED
  BY <1>11, <1>12, <1>13, <1>14, <1>15, <1>16, <1>17 DEF DashInv

\* A run polls, and gets its rows, or something else is raised.
LEMMA PollKeeps ==
    ASSUME DashInv, Pending \/ Collected \/ RunRaises
    PROVE  DashInv'
<1>1. /\ TypeOK /\ job["run"].stage = "poll" /\ "run" \in Ops
      /\ job \in [Ops -> Jobs]
      /\ UNCHANGED <<saved, form, shown, crashes, blurred>>
  BY DEF DashInv, Pending, Collected, RunRaises, At, TypeOK, Ops, Buttons, Jobs
<1>2. /\ "run" \in Serving /\ Made("run", job["run"]) /\ job["run"] \in Job
      /\ job["run"].alone => Serving = {"run"} /\ Undisturbed("run", job["run"], saved, form)
  BY <1>1 DEF DashInv, Serving, At, Working, Made
<1>3. \A o \in Ops \ {"run"} : job'[o] = job[o]
  BY <1>1 DEF Pending, Collected, RunRaises
<1>4. /\ saved' \in State /\ form' \in {"whole", "empty", "garbled"}
      /\ Coherent(saved')
  BY <1>1 DEF DashInv, TypeOK, Coherent, Failing, Mended
<1>5. Healing'
  <2>1. job'["heal"] = job["heal"]
    BY <1>3 DEF Ops, Buttons
  <2>2. QED
    BY <1>1, <2>1 DEF DashInv, Healing, At
<1>6. CASE RunRaises
  <2>1. job' = [job EXCEPT !["run"] = Dead(job["run"])]
    BY <1>6 DEF RunRaises
  <2>2. \/ job["run"].heard /\ Dead(job["run"]) = Stuck
        \/ ~job["run"].heard /\ Dead(job["run"]) = Idle
    <3>1. job["run"].heard \in BOOLEAN
      BY <1>2 DEF Job
    <3>2. job["run"].stage \notin {"load", "answer"}
      BY <1>1 DEF RunRaises, At
    <3>3. QED
      BY <3>1, <3>2 DEF Dead
  <2>3. Dead(job["run"]) \in Jobs
    BY <2>2 DEF Jobs
  <2>4. /\ job' \in [Ops -> Jobs]
        /\ job'["run"] = Stuck \/ (job'["run"] = Idle /\ ~job["run"].heard)
    BY <1>1, <2>1, <2>2, <2>3
  <2>5. QED
    BY <1>1, <1>2, <1>3, <1>4, <1>5, <2>4, ServedKeeps
<1>7. CASE Pending \/ Collected
  <2> DEFINE k == job'["run"]
  <2>1. /\ job' \in [Ops -> Jobs] /\ k \in Job /\ k.stage \in {"poll", "work"}
        /\ k.step = job["run"].step /\ k.mem = job["run"].mem /\ k.whole = job["run"].whole
        /\ k.alone = job["run"].alone /\ k.heard = job["run"].heard
    <3>1. CASE Pending
      <4>1. /\ job' = [job EXCEPT !["run"].polls = job["run"].polls + 1]
            /\ job["run"].polls + 1 \in 0..MaxPolls
        BY <1>2, <3>1, DashboardAssumption DEF Pending, Job
      <4>2. k = [job["run"] EXCEPT !.polls = job["run"].polls + 1]
        BY <1>1, <4>1
      <4> HIDE DEF k
      <4>3. /\ k \in Job /\ k.stage = job["run"].stage
            /\ k.step = job["run"].step /\ k.mem = job["run"].mem /\ k.whole = job["run"].whole
            /\ k.alone = job["run"].alone /\ k.heard = job["run"].heard
        BY <1>2, <4>1, <4>2 DEF Job
      <4>4. job' \in [Ops -> Jobs]
        BY <1>1, <1>3, <4>1, <4>3 DEF k, Jobs
      <4>5. QED
        BY <1>1, <4>3, <4>4
    <3>2. CASE Collected
      <4>1. job' = [job EXCEPT !["run"].stage = "work"]
        BY <3>2 DEF Collected
      <4>2. k = [job["run"] EXCEPT !.stage = "work"]
        BY <1>1, <4>1
      <4> HIDE DEF k
      <4>3. /\ k \in Job /\ k.stage = "work"
            /\ k.step = job["run"].step /\ k.mem = job["run"].mem /\ k.whole = job["run"].whole
            /\ k.alone = job["run"].alone /\ k.heard = job["run"].heard
        BY <1>2, <4>2 DEF Job
      <4>4. job' \in [Ops -> Jobs]
        BY <1>1, <1>3, <4>1, <4>3 DEF k, Jobs
      <4>5. QED
        BY <4>3, <4>4
    <3>3. QED
      BY <1>7, <3>1, <3>2
  <2> HIDE DEF k
  <2>2. Made("run", k)
    BY <1>2, <2>1 DEF Made
  <2>3. k.alone => Serving = {"run"} /\ Undisturbed("run", k, saved', form')
    BY <1>1, <1>2, <2>1 DEF Undisturbed
  <2>4. Working("run", k, Serving, saved', form')
    BY <2>2, <2>3 DEF Working
  <2>5. /\ job'["run"].stage \in {"poll", "work", "write"} /\ job'["run"].heard = job["run"].heard
        /\ Working("run", job'["run"], Serving, saved', form')
    BY <2>1, <2>4 DEF k
  <2>6. QED
    BY <1>1, <1>2, <1>3, <1>4, <1>5, <2>1, <2>5, ServedKeeps
<1>8. QED
  BY <1>6, <1>7

\* A request empties the file.
LEMMA TruncateKeeps ==
    ASSUME DashInv, NEW op \in Ops, Truncate(op)
    PROVE  DashInv'
<1> DEFINE k == [job[op] EXCEPT !.mem = Edit(op, job[op].step, job[op].mem), !.stage = "write"]
<1>1. /\ TypeOK /\ job[op].stage = "work" /\ job \in [Ops -> Jobs]
      /\ UNCHANGED <<saved, shown, crashes, blurred>> /\ form' = "empty"
  BY DEF DashInv, Truncate, At, TypeOK, Jobs
<1>2. /\ op \in Serving /\ Made(op, job[op]) /\ job[op] \in Job
      /\ job[op].alone => Serving = {op} /\ Undisturbed(op, job[op], saved, form)
  BY <1>1 DEF DashInv, Serving, At, Working, Made
<1>3. job' = [job EXCEPT ![op] = k]
  <2>1. Edited(op) = Edit(op, job[op].step, job[op].mem)
    BY DEF Edited, Edit
  <2>2. QED
    BY <1>1, <2>1 DEF Truncate
<1>4. Made(op, k)
  BY <1>1, <1>2, EditMade
<1>5. /\ k.stage = "write" /\ k.alone = job[op].alone /\ k.step = job[op].step
      /\ k.heard = job[op].heard /\ k.whole = job[op].whole
      /\ k.mem = Edit(op, job[op].step, job[op].mem) /\ k \in Job
  BY <1>2, <1>4 DEF Job, Made
<1> HIDE DEF k
<1>6. job'[op] = k /\ \A o \in Ops \ {op} : job'[o] = job[o]
  BY <1>1, <1>3
<1>7. job' \in [Ops -> Jobs]
  BY <1>1, <1>3, <1>5 DEF Jobs
<1>8. saved' \in State /\ Coherent(saved')
  BY <1>1 DEF DashInv, TypeOK, Coherent, Failing, Mended
<1>9. Healing'
  <2>1. job'["heal"] = job["heal"] \/ job'["heal"].stage = "write"
    BY <1>5, <1>6 DEF Ops, Buttons
  <2>2. QED
    BY <1>1, <2>1 DEF DashInv, Healing, At
<1>10. k.alone => Serving = {op} /\ Undisturbed(op, k, saved', form')
  <2>1. SUFFICES ASSUME k.alone PROVE Serving = {op} /\ Undisturbed(op, k, saved', form')
    OBVIOUS
  <2>2. Serving = {op} /\ (k.whole => op = "reset" \/ job[op].mem = saved)
    BY <1>1, <1>2, <1>5, <2>1 DEF Undisturbed
  <2>3. op = "reset" => Edit(op, k.step, saved) = k.mem
    BY <1>5 DEF Edit
  <2>4. QED
    BY <1>1, <1>5, <2>2, <2>3 DEF Undisturbed
<1>11. Working(op, k, Serving, saved', form')
  BY <1>4, <1>10 DEF Working
<1>12. QED
  BY <1>1, <1>2, <1>5, <1>6, <1>7, <1>8, <1>9, <1>11, ServedKeeps

\* A request writes the file it has emptied: its next save begins, its page has
\* the answer or asks for the state, or it is over.
LEMMA WriteKeeps ==
    ASSUME DashInv, NEW op \in Ops, Write(op)
    PROVE  DashInv'
<1> DEFINE j == job[op]
           k == NextSave(j)
           r == [stage |-> "load", alone |-> j.alone]
           a == [stage |-> "answer", status |-> j.mem.status, alone |-> j.alone]
<1>1. /\ TypeOK /\ j.stage = "write" /\ job \in [Ops -> Jobs]
      /\ UNCHANGED <<shown, crashes, blurred>> /\ job' = [job EXCEPT ![op] = Answers(op)]
  BY DEF DashInv, Write, At, TypeOK, Jobs
<1>2. /\ op \in Serving /\ Made(op, j) /\ j \in Job
      /\ j.alone => Serving = {op} /\ Undisturbed(op, j, saved, form)
  BY <1>1 DEF DashInv, Serving, At, Working, Made
<1>3. j.step \in 1..5 /\ j.mem \in State /\ Coherent(j.mem) /\ j.alone \in BOOLEAN /\ op \in Buttons
  BY <1>1, <1>2 DEF Job, Made
<1>4. \/ form' = "whole" /\ saved' = j.mem
      \/ form # "empty" /\ form' = "garbled" /\ saved' = saved
  BY DEF Write
<1>6. \/ op = "heal" /\ j.step < 5 /\ job' = [job EXCEPT ![op] = k]
      \/ /\ op = "heal" => j.step = 5
         /\ \/ ~j.heard /\ job' = [job EXCEPT ![op] = Idle]
            \/ op = "reset" /\ job' = [job EXCEPT ![op] = r]
            \/ job' = [job EXCEPT ![op] = a]
  <2>1. CASE op = "heal" /\ j.step < 5
    <3>1. Saves(op) = 5 /\ j.step < Saves(op)
      BY <2>1 DEF Saves
    <3>2. j.step \in Int /\ Saves(op) \in Int
      BY <1>3, <3>1
    <3> HIDE DEF k, r, a
    <3>3. Answers(op) = k
      BY <3>1, <3>2 DEF Answers, k
    <3>4. QED
      BY <1>1, <2>1, <3>3
  <2>2. CASE ~(op = "heal" /\ j.step < 5)
    <3>1. j.step >= Saves(op) /\ ~(j.step < Saves(op)) /\ (op = "heal" => j.step = 5)
      <4>1. op # "heal" => j.step = 1
        BY <1>2 DEF Made
      <4>2. QED
        BY <1>3, <2>2, <4>1 DEF Saves
    <3>2. CASE ~j.heard
      BY <1>1, <3>1, <3>2 DEF Answers
    <3>3. CASE j.heard /\ op = "reset"
      BY <1>1, <3>1, <3>3 DEF Answers
    <3>4. CASE j.heard /\ op # "reset"
      BY <1>1, <3>1, <3>4 DEF Answers
    <3>5. QED
      BY <3>1, <3>2, <3>3, <3>4
  <2>3. QED
    BY <2>1, <2>2
<1>7. /\ k.stage = "work" /\ k.step = j.step + 1 /\ k.mem = j.mem /\ k.alone = j.alone
      /\ k.heard = j.heard /\ k.whole = j.whole
      /\ j.step < 5 => k \in Job
  <2>1. j.step < 5 => j.step + 1 \in 1..5
    BY <1>3
  <2>2. QED
    BY <1>2, <2>1 DEF Job, NextSave
<1>8. /\ r \in Asking /\ r.stage = "load" /\ r.alone = j.alone
      /\ a \in Answer /\ a.stage = "answer" /\ a.alone = j.alone /\ a.status = j.mem.status
  BY <1>3 DEF Asking, Answer, State
<1> HIDE DEF k, r, a
<1>9. job' \in [Ops -> Jobs] /\ \A o \in Ops \ {op} : job'[o] = job[o]
  <2>1. PICK x \in Jobs : job' = [job EXCEPT ![op] = x]
    BY <1>6, <1>7, <1>8 DEF Jobs
  <2>2. QED
    BY <1>1, <2>1
<1>10. saved' \in State /\ form' \in {"whole", "empty", "garbled"} /\ Coherent(saved')
  BY <1>1, <1>3, <1>4 DEF TypeOK, DashInv
<1>11. Healing'
  <2>1. CASE op = "heal"
    <3>1. CASE j.step < 5
      <4>1. job'["heal"] = k
        BY <1>1, <1>6, <2>1, <3>1
      <4>2. QED
        BY <1>7, <4>1 DEF Healing, At
    <3>2. CASE j.step = 5
      <4>1. j.mem.status = "recovered"
        BY <1>1, <1>2, <2>1, <3>2 DEF Made
      <4>2. form # "empty" => ~(saved.status = "healing" /\ crashes = 0)
        BY <1>1, <2>1 DEF DashInv, Healing, At
      <4>3. QED
        BY <1>1, <1>4, <4>1, <4>2 DEF Healing
    <3>3. QED
      BY <1>3, <3>1, <3>2
  <2>2. CASE op # "heal"
    <3>1. j.mem.status \in {"healthy", "failed"}
      BY <1>1, <1>2, <2>2 DEF Made
    <3>2. job'["heal"] = job["heal"]
      BY <1>9, <2>2 DEF Ops, Buttons
    <3>3. QED
      BY <1>1, <1>4, <3>1, <3>2 DEF DashInv, Healing, At
  <2>3. QED
    BY <2>1, <2>2
<1>12. j.alone => Serving = {op} /\ form' = "whole" /\ saved' = j.mem
  BY <1>1, <1>2, <1>4 DEF Undisturbed
<1>13. CASE op = "heal" /\ j.step < 5 /\ job' = [job EXCEPT ![op] = k]
  <2>1. j.mem.status = "healing" /\ (j.step >= 3 => j.mem.fixed)
    BY <1>1, <1>2, <1>3, <1>13 DEF Made
  <2>2. Made(op, k)
    BY <1>3, <1>7, <1>13, <2>1 DEF Made
  <2>3. k.alone => Serving = {op} /\ Undisturbed(op, k, saved', form')
    BY <1>7, <1>12 DEF Undisturbed
  <2>4. job'[op] = k /\ Working(op, k, Serving, saved', form')
    BY <1>1, <1>13, <2>2, <2>3 DEF Working
  <2>5. QED
    BY <1>1, <1>2, <1>7, <1>9, <1>10, <1>11, <2>4, ServedKeeps
<1>14. CASE ~j.heard /\ job' = [job EXCEPT ![op] = Idle]
  <2>1. job'[op] = Idle
    BY <1>1, <1>14
  <2>2. QED
    BY <1>1, <1>2, <1>9, <1>10, <1>11, <1>14, <2>1, ServedKeeps
<1>15. CASE job' = [job EXCEPT ![op] = r]
  <2>1. job'[op] = r
    BY <1>1, <1>15
  <2>2. r.alone => Serving \ {op} = {}
    BY <1>8, <1>12
  <2>3. Told(r, Serving \ {op}, saved', form')
    BY <1>8, <2>2 DEF Told
  <2>4. QED
    BY <1>1, <1>2, <1>9, <1>10, <1>11, <2>1, <2>3, ServedKeeps
<1>16. CASE job' = [job EXCEPT ![op] = a]
  <2>1. job'[op] = a
    BY <1>1, <1>16
  <2>2. a.alone => Serving \ {op} = {} /\ a.status = saved'.status
    BY <1>8, <1>12
  <2>3. Told(a, Serving \ {op}, saved', form')
    BY <1>8, <2>2 DEF Told
  <2>4. QED
    BY <1>1, <1>2, <1>9, <1>10, <1>11, <2>1, <2>3, ServedKeeps
<1>17. QED
  BY <1>6, <1>13, <1>14, <1>15, <1>16

\* The page gets the state it has asked for.
LEMMA GetStateKeeps ==
    ASSUME DashInv, NEW op \in Ops, GetState(op)
    PROVE  DashInv'
<1> DEFINE a == [stage |-> "answer", status |-> _load_state.status, alone |-> job[op].alone]
<1>1. /\ TypeOK /\ job[op].stage = "load" /\ job \in [Ops -> Jobs]
      /\ UNCHANGED <<saved, form, shown, crashes, blurred>> /\ job' = [job EXCEPT ![op] = a]
  BY DEF DashInv, GetState, At, TypeOK, Jobs
<1>2. op \in Waiting /\ op \notin Serving /\ Told(job[op], Serving, saved, form)
  BY <1>1 DEF DashInv, Waiting, Serving, At
<1>3. a \in Answer /\ a.stage = "answer" /\ a.alone = job[op].alone /\ a.status = _load_state.status
  <2>1. _load_state \in State
    BY <1>1, DefaultState DEF _load_state, TypeOK
  <2>2. job[op].alone \in BOOLEAN
    BY <1>2 DEF Told, Asking, Answer
  <2>3. QED
    BY <2>1, <2>2 DEF Answer, State
<1>4. Told(a, Serving, saved, form)
  BY <1>2, <1>3 DEF Told, _load_state
<1> HIDE DEF a
<1>5. job'[op] = a /\ \A o \in Ops \ {op} : job'[o] = job[o]
  BY <1>1
<1>6. Serving' = Serving /\ Waiting' = Waiting
  BY <1>1, <1>3, <1>5 DEF Serving, Waiting, At
<1>7. TypeOK'
  <2>1. job' \in [Ops -> Jobs]
    BY <1>1, <1>3 DEF Jobs
  <2>2. QED
    BY <1>1, <2>1 DEF TypeOK, Jobs
<1>8. Healing'
  <2>1. At("heal", {"work"}) => job'["heal"] = job["heal"]
    BY <1>1, <1>5 DEF At, Ops, Buttons
  <2>2. At("heal", {"write"}) => job'["heal"] = job["heal"]
    BY <1>1, <1>5 DEF At, Ops, Buttons
  <2>3. QED
    BY <1>1, <2>1, <2>2 DEF DashInv, Healing, At
<1>9. ViewIsCurrent'
  BY <1>3, <1>5 DEF ViewIsCurrent, At
<1>10. Unheard'
  <2>1. \A o \in Serving : o \in Ops \ {op}
    BY <1>2 DEF Serving
  <2>2. \A o \in Serving' : o \in Serving /\ job'[o] = job[o]
    BY <1>5, <1>6, <2>1
  <2>3. ~At("load", {"idle"}) => ~At("load", {"idle"})'
    <3>1. "load" \in Ops
      BY DEF Ops
    <3>2. QED
      BY <1>3, <1>5, <3>1 DEF At
  <2>4. QED
    BY <1>1, <2>2, <2>3 DEF DashInv, Unheard
<1>11. ASSUME NEW o \in Serving'
       PROVE  Working(o, job'[o], Serving', saved', form')
  BY <1>1, <1>2, <1>5, <1>6, <1>11 DEF DashInv, Serving
<1>12. ASSUME NEW o \in Waiting'
       PROVE  Told(job'[o], Serving', saved', form')
  BY <1>1, <1>4, <1>5, <1>6, <1>12 DEF DashInv, Waiting
<1>13. Coherent(saved)'
  BY <1>1 DEF DashInv, Coherent, Failing, Mended
<1>14. QED
  BY <1>7, <1>8, <1>9, <1>10, <1>11, <1>12, <1>13 DEF DashInv

\* The page renders an answer: that of a request which was alone is on file.
LEMMA RenderKeeps ==
    ASSUME DashInv, NEW op \in Ops, Render(op)
    PROVE  DashInv'
<1>1. /\ TypeOK /\ job[op].stage = "answer" /\ job \in [Ops -> Jobs]
      /\ UNCHANGED <<saved, form, crashes>> /\ job' = [job EXCEPT ![op] = Idle]
      /\ shown' = job[op].status /\ blurred' = ~job[op].alone
  BY DEF DashInv, Render, At, TypeOK, Jobs
<1>2. op \in Waiting /\ op \notin Serving /\ Told(job[op], Serving, saved, form)
  BY <1>1 DEF DashInv, Waiting, Serving, At
<1>3. job[op].status \in Status /\ job[op].alone \in BOOLEAN
  BY <1>1, <1>2 DEF Told, Asking, Answer
<1>4. job'[op] = Idle /\ \A o \in Ops \ {op} : job'[o] = job[o]
  BY <1>1
<1>5. Serving' = Serving /\ Waiting' = Waiting \ {op}
  BY <1>1, <1>4, Placeholders DEF Serving, Waiting, At
<1>6. TypeOK'
  <2>1. job' \in [Ops -> Jobs]
    BY <1>1 DEF Jobs
  <2>2. QED
    BY <1>1, <1>3, <2>1 DEF TypeOK, Jobs
<1>7. Healing'
  <2>1. At("heal", {"work"}) => job'["heal"] = job["heal"]
    BY <1>1, <1>4 DEF At, Ops, Buttons
  <2>2. At("heal", {"write"}) => job'["heal"] = job["heal"]
    BY <1>1, <1>4 DEF At, Ops, Buttons
  <2>3. QED
    BY <1>1, <2>1, <2>2 DEF DashInv, Healing, At
<1>8. ViewIsCurrent'
  <2>1. job[op].alone /\ form = "whole" => job[op].status = saved.status
    BY <1>1, <1>2 DEF Told
  <2>2. QED
    BY <1>1, <2>1 DEF ViewIsCurrent
<1>9. Unheard'
  <2>1. Serving # {} => blurred'
    BY <1>1, <1>2 DEF Told
  <2>2. QED
    BY <1>5, <2>1 DEF Unheard
<1>10. ASSUME NEW o \in Serving'
       PROVE  Working(o, job'[o], Serving', saved', form')
  BY <1>1, <1>2, <1>4, <1>5, <1>10 DEF DashInv, Serving
<1>11. ASSUME NEW o \in Waiting'
       PROVE  Told(job'[o], Serving', saved', form')
  BY <1>1, <1>4, <1>5, <1>11 DEF DashInv, Waiting
<1>12. Coherent(saved)'
  BY <1>1 DEF DashInv, Coherent, Failing, Mended
<1>13. QED
  BY <1>6, <1>7, <1>8, <1>9, <1>10, <1>11, <1>12 DEF DashInv

\* The page is loaded anew: what goes on in the server goes on unheard.
LEMMA ReloadKeeps ==
    ASSUME DashInv, Reload
    PROVE  DashInv'
<1> DEFINE n == [stage |-> "load", alone |-> Serving = {}]
<1>1. /\ TypeOK /\ UNCHANGED <<saved, form, crashes>> /\ shown' = "none" /\ blurred' = FALSE
      /\ job' = [op \in Ops |-> CASE op = "load" -> n
                                  [] op \in Serving -> [job[op] EXCEPT !.heard = FALSE]
                                  [] OTHER -> Idle]
  BY DEF DashInv, Reload
<1>2. n \in Asking /\ n.stage = "load" /\ (n.alone => Serving = {})
  BY DEF Asking
<1> HIDE DEF n
<1>3. "load" \in Ops /\ "load" \notin Serving /\ "load" \notin Buttons
  BY DEF DashInv, Working, Made, Ops, Buttons
<1>4. job'["load"] = n
  BY <1>1, <1>3
<1>5. ASSUME NEW o \in Serving
      PROVE  /\ job'[o] \in Job /\ job'[o].stage = job[o].stage /\ job'[o].alone = job[o].alone
             /\ job'[o].mem = job[o].mem /\ job'[o].step = job[o].step /\ job'[o].whole = job[o].whole
             /\ job[o] \in Job /\ o \in Ops /\ o # "load"
  <2>1. o \in Ops /\ o # "load" /\ job[o] \in Job
    BY <1>1, <1>3, <1>5, Stages DEF Serving
  <2>2. job'[o] = [job[o] EXCEPT !.heard = FALSE]
    BY <1>1, <1>5, <2>1
  <2>3. QED
    BY <2>1, <2>2 DEF Job
<1>6. ASSUME NEW o \in Ops, o \notin Serving, o # "load"
      PROVE  job'[o] = Idle
  BY <1>1, <1>6
<1>7. Serving' = Serving
  <2>1. \A o \in Ops : o \in Serving' <=> o \in Serving
    BY <1>2, <1>3, <1>4, <1>5, <1>6, Placeholders DEF Serving, At
  <2>2. QED
    BY <2>1 DEF Serving
<1>8. Waiting' = {"load"}
  <2>1. \A o \in Ops : o \in Waiting' <=> o = "load"
    BY <1>2, <1>3, <1>4, <1>5, <1>6, Placeholders DEF Serving, Waiting, At
  <2>2. QED
    BY <1>3, <2>1 DEF Waiting
<1>9. TypeOK'
  <2>1. \A o \in Ops : job'[o] \in Jobs
    BY <1>2, <1>4, <1>5, <1>6 DEF Jobs
  <2>2. job' \in [Ops -> Jobs]
    BY <1>1, <2>1
  <2>3. QED
    BY <1>1, <2>2 DEF TypeOK, Jobs
<1>10. Healing'
  <2>1. "heal" \in Ops
    BY DEF Ops, Buttons
  <2>2. At("heal", {"work"}) => At("heal", {"work"})'
    BY <1>5, <2>1 DEF Serving, At
  <2>3. At("heal", {"write"}) => At("heal", {"write"})'
    BY <1>5, <2>1 DEF Serving, At
  <2>4. QED
    BY <1>1, <2>2, <2>3 DEF DashInv, Healing
<1>11. ~At("load", {"idle"})'
  BY <1>2, <1>4 DEF At
<1>12. ViewIsCurrent' /\ Unheard'
  BY <1>3, <1>11 DEF ViewIsCurrent, Unheard
<1>13. ASSUME NEW o \in Serving'
       PROVE  Working(o, job'[o], Serving', saved', form')
  <2>1. o \in Serving /\ Working(o, job[o], Serving, saved, form)
    BY <1>7, <1>13 DEF DashInv
  <2>2. Made(o, job'[o])
    BY <1>5, <2>1 DEF Working, Made
  <2>3. job'[o].alone => Serving = {o} /\ Undisturbed(o, job'[o], saved, form)
    BY <1>5, <2>1 DEF Working, Undisturbed
  <2>4. QED
    BY <1>1, <1>7, <2>2, <2>3 DEF Working
<1>14. Told(n, Serving, saved, form)
  BY <1>2 DEF Told
<1>15. ASSUME NEW o \in Waiting'
       PROVE  Told(job'[o], Serving', saved', form')
  BY <1>1, <1>4, <1>7, <1>8, <1>14, <1>15
<1>16. Coherent(saved)'
  BY <1>1 DEF DashInv, Coherent, Failing, Mended
<1>17. QED
  BY <1>9, <1>10, <1>12, <1>13, <1>15, <1>16 DEF DashInv

\* The server stops: no request is under way on the file it finds.
LEMMA CrashKeeps ==
    ASSUME DashInv, Crash
    PROVE  DashInv'
<1>1. /\ TypeOK /\ UNCHANGED <<saved, form, shown, blurred>>
      /\ crashes' = crashes + 1 /\ crashes < MaxCrashes
  BY DEF DashInv, Crash
<1>2. PICK kept \in SUBSET {op \in Ops : At(op, {"answer"})} :
         job' = [op \in Ops |-> IF op \in UnderWay \ kept THEN Dead(job[op]) ELSE job[op]]
  BY DEF Crash
<1>3. ASSUME NEW o \in Ops
      PROVE  \/ o \in Waiting /\ job'[o] = job[o] /\ job[o].stage = "answer"
             \/ o \in Waiting /\ job'[o] = Stuck
             \/ o \in Serving /\ job[o].heard /\ job'[o] = Stuck
             \/ o \in Serving /\ ~job[o].heard /\ job'[o] = Idle
             \/ job[o] \in {Idle, Stuck} /\ job'[o] = job[o]
  <2>1. CASE o \in kept
    BY <1>2, <2>1 DEF Waiting, At
  <2>2. CASE o \in UnderWay \ kept
    <3>1. job'[o] = Dead(job[o])
      BY <1>2, <2>2
    <3>2. o \in Serving \/ o \in Waiting
      BY <1>1, <2>2, Stages
    <3>3. o \in Waiting => Dead(job[o]) = Stuck
      BY DEF Dead, Waiting, At
    <3>4. o \in Serving => Dead(job[o]) = IF job[o].heard THEN Stuck ELSE Idle
      BY DEF Dead, Serving, At
    <3>5. QED
      BY <3>1, <3>2, <3>3, <3>4
  <2>3. CASE o \notin UnderWay /\ o \notin kept
    BY <1>1, <1>2, <2>3, Stages
  <2>4. QED
    BY <2>1, <2>2, <2>3
<1>4. Serving' = {}
  BY <1>3, Placeholders DEF Serving, At
<1>5. Waiting' \subseteq Waiting /\ \A o \in Waiting' : job'[o] = job[o]
  BY <1>3, Placeholders DEF Waiting, At
<1>6. crashes' \in 0..MaxCrashes /\ crashes' > 0
  BY <1>1, DashboardAssumption DEF TypeOK
<1>7. TypeOK'
  <2>1. \A o \in Ops : job[o] \in Jobs
    BY <1>1 DEF TypeOK, Jobs
  <2>2. \A o \in Ops : job'[o] \in Jobs
    BY <1>3, <2>1 DEF Jobs
  <2>3. job' \in [Ops -> Jobs]
    BY <1>2, <2>2
  <2>4. QED
    BY <1>1, <1>6, <2>3 DEF TypeOK, Jobs
<1>8. Healing'
  BY <1>6 DEF Healing
<1>9. ViewIsCurrent'
  <2>1. SUFFICES ASSUME \A o \in Ops : job'[o].stage = "idle", form = "whole", ~blurred
                 PROVE  shown = saved.status
    BY <1>1 DEF ViewIsCurrent, At
  <2>2. ASSUME NEW o \in Ops
        PROVE  (o \in Serving /\ ~job[o].heard) \/ job[o].stage = "idle"
    BY <1>3, <2>1, Placeholders DEF Waiting, At
  <2>3. CASE \E o \in Ops : o \in Serving /\ ~job[o].heard
    <3>1. ~At("load", {"idle"})
      BY <2>1, <2>3 DEF DashInv, Unheard
    <3>2. "load" \in Ops /\ "load" \notin Serving
      BY DEF DashInv, Working, Made, Ops, Buttons
    <3>3. QED
      BY <2>2, <3>1, <3>2 DEF At
  <2>4. CASE ~\E o \in Ops : o \in Serving /\ ~job[o].heard
    BY <2>1, <2>2, <2>4 DEF DashInv, ViewIsCurrent, At
  <2>5. QED
    BY <2>3, <2>4
<1>10. Unheard'
  BY <1>4 DEF Unheard
<1>11. ASSUME NEW o \in Waiting'
       PROVE  Told(job'[o], Serving', saved', form')
  <2>1. Told(job[o], Serving, saved, form) /\ job'[o] = job[o]
    BY <1>5, <1>11 DEF DashInv
  <2>2. QED
    BY <1>1, <1>4, <2>1 DEF Told
<1>12. Coherent(saved)'
  BY <1>1 DEF DashInv, Coherent, Failing, Mended
<1>13. QED
  BY <1>4, <1>7, <1>8, <1>9, <1>10, <1>11, <1>12 DEF DashInv

\* Every step, or none, keeps the invariant.
LEMMA DashStep == DashInv /\ [Next]_vars => DashInv'
<1> SUFFICES ASSUME DashInv, [Next]_vars PROVE DashInv'
  OBVIOUS
<1>1. ASSUME NEW op \in Ops, Begin(op) PROVE DashInv'
  BY <1>1, BeginKeeps
<1>2. ASSUME NEW op \in Ops, Truncate(op) PROVE DashInv'
  BY <1>2, TruncateKeeps
<1>3. ASSUME NEW op \in Ops, Write(op) PROVE DashInv'
  BY <1>3, WriteKeeps
<1>4. CASE Pending \/ Collected \/ RunRaises
  BY <1>4, PollKeeps
<1>5. ASSUME NEW op \in Ops, GetState(op) PROVE DashInv'
  BY <1>5, GetStateKeeps
<1>6. ASSUME NEW op \in Ops, Render(op) PROVE DashInv'
  BY <1>6, RenderKeeps
<1>7. CASE Reload
  BY <1>7, ReloadKeeps
<1>8. CASE Crash
  BY <1>8, CrashKeeps
<1>9. CASE UNCHANGED vars
  <2>1. Serving' = Serving /\ Waiting' = Waiting
    BY <1>9 DEF vars, Serving, Waiting, At
  <2>2. TypeOK' /\ Healing' /\ ViewIsCurrent' /\ Unheard' /\ Coherent(saved)'
    BY <1>9, <2>1 DEF vars, DashInv, TypeOK, Coherent, Failing, Mended, Healing, ViewIsCurrent,
       Unheard, At
  <2>3. QED
    BY <1>9, <2>1, <2>2 DEF vars, DashInv
<1>10. QED
  BY <1>1, <1>2, <1>3, <1>4, <1>5, <1>6, <1>7, <1>8, <1>9 DEF Next, Serve

\* The invariant holds in every reachable state.
LEMMA DashInvariant == Spec => []DashInv
BY DashInit, DashStep, PTL DEF Spec

-----------------------------------------------------------------------------
(* Theorems *)

\* What the file says hangs together, whichever requests overwrite each other,
\* and "healing" does not outlive the heal but through a crash.
THEOREM StatusCoherent == Spec => []StatusIsCoherent
<1>1. DashInv => StatusIsCoherent
  BY DEF DashInv, StatusIsCoherent, Coherent, Failing, Mended, Healing, At, TypeOK
<1>2. QED
  BY <1>1, DashInvariant, PTL

\* A page at rest shows the status on file, unless what it rendered last overlapped
\* another request (dashboard/app.py, the functions of the page).
THEOREM ViewCurrent == Spec => []ViewIsCurrent
<1>1. DashInv => ViewIsCurrent
  BY DEF DashInv
<1>2. QED
  BY <1>1, DashInvariant, PTL

\* A sequence is a prefix of itself.
LEMMA SamePrefix ==
    ASSUME NEW S, NEW q \in Seq(S)
    PROVE  IsPrefix(q, q)
BY LenProperties DEF IsPrefix

\* Only the last save of a heal and a reset make the prices fresh, or close or
\* drop an incident, when one request is under way.
LEMMA EditKeeps ==
    ASSUME NEW op \in Buttons, NEW s \in State, NEW k \in 1..5, op # "reset", ~(op = "heal" /\ k = 5)
    PROVE  /\ s.stale => Edit(op, k, s).stale
           /\ IsPrefix(s.incidents, Edit(op, k, s).incidents)
<1>1. s.incidents \in Seq(BOOLEAN)
  BY DashboardAssumption, Bounded DEF State
<1>2. IsPrefix(s.incidents, s.incidents)
  BY <1>1, SamePrefix
<1>3. CASE op = "run"
  BY <1>2, <1>3, RunEdit DEF Edit
<1>4. CASE op = "break"
  BY <1>4, BreakEdit DEF Edit
<1>5. CASE op = "heal"
  BY <1>2, <1>5, HealEdit DEF Edit
<1>6. QED
  BY <1>3, <1>4, <1>5 DEF Buttons

\* Stale prices become fresh and incidents are closed or dropped only by the last
\* save of a heal and by a reset, as long as requests do not overlap.
THEOREM NothingForgotten == Spec => NothingIsForgotten
<1> DEFINE Learns(op) ==
             \/ op = "reset" \/ (op = "heal" /\ job[op].step = 5)
             \/ /\ saved.stale => saved'.stale
                /\ IsPrefix(saved.incidents, saved'.incidents)
           Kept == \A op \in Ops :
                     (At(op, {"write"}) /\ saved' # saved /\ job[op].alone /\ job[op].whole)
                        => Learns(op)
<1>1. DashInv /\ [Next]_vars => Kept
  <2> SUFFICES ASSUME DashInv, [Next]_vars, NEW op \in Ops,
                      At(op, {"write"}), saved' # saved, job[op].alone, job[op].whole
               PROVE  Learns(op)
    OBVIOUS
  <2>1. /\ Made(op, job[op]) /\ Serving = {op} /\ job[op].stage = "write" /\ op \in Buttons
        /\ job[op].mem = Edit(op, job[op].step, saved)
    BY DEF DashInv, Serving, At, Working, Made, Undisturbed
  <2>2. PICK o \in Ops : Write(o)
    BY DEF Next, Serve, vars, Begin, Truncate, Pending, Collected, RunRaises, GetState, Render, Reload, Crash
  <2>3. saved' = job[o].mem /\ o \in Serving
    BY <2>2 DEF Write, Serving, At
  <2>4. o = op /\ saved' = Edit(op, job[op].step, saved)
    BY <2>1, <2>3
  <2>5. job[op].step \in 1..5 /\ saved \in State
    BY <2>1 DEF Made, Job, DashInv, TypeOK
  <2>6. QED
    BY <2>1, <2>4, <2>5, EditKeeps
<1>2. QED
  BY <1>1, DashInvariant, PTL DEF Spec, NothingIsForgotten

-----------------------------------------------------------------------------
(* The registry of the MCP server *)

\* The registry is exact; a crawl that cancel_crawl has answered for was once
\* started, CancelledError comes only from cancel_crawl, and an entry that was left
\* behind is of a task that has ended.
RegistryInv ==
    /\ phase \in [Crawls -> Alive \cup {"new", "gone"}]
    /\ raised \in [Crawls -> BOOLEAN]
    /\ told \subseteq Crawls
    /\ leaked \subseteq {c \in Crawls : phase[c] = "gone"}
    /\ RegistryIsExact
    /\ \A c \in told : phase[c] # "new"
    /\ \A c \in Crawls : raised[c] => c \in told

\* An empty registry satisfies the invariant.
LEMMA RegistryBegins == RegistryInit => RegistryInv
BY DEF RegistryInit, RegistryInv, RegistryIsExact, Alive

\* A crawl enters the registry as its task starts, and leaves it as its task
\* ends or is cancelled, whatever else its task has been through.
LEMMA RegistryStep == RegistryInv /\ [RegistryNext]_(registryVars) => RegistryInv'
<1> SUFFICES ASSUME RegistryInv, [RegistryNext]_(registryVars) PROVE RegistryInv'
  OBVIOUS
<1> USE DEF RegistryInv, RegistryIsExact, Alive, Goto
<1>1. CASE Restart
  BY <1>1 DEF Restart
<1>2. ASSUME NEW c \in Crawls, CrawlSite(c) PROVE RegistryInv'
  BY <1>2 DEF CrawlSite
<1>3. ASSUME NEW c \in Crawls, PauseCrawl(c) \/ ResumeCrawl(c) PROVE RegistryInv'
  BY <1>3 DEF PauseCrawl, ResumeCrawl, SetPause
<1>4. ASSUME NEW c \in Crawls, CancelCrawl(c) PROVE RegistryInv'
  BY <1>4 DEF CancelCrawl
<1>5. ASSUME NEW c \in Crawls, BeginRun(c) \/ Seed(c) \/ Leave(c)
             \/ Drain(c) \/ Close(c) \/ Raise(c)
      PROVE RegistryInv'
  BY <1>5 DEF BeginRun, Seed, Leave, Drain, Close,
              Raise
<1>6. ASSUME NEW c \in Crawls, Interrupt(c) PROVE RegistryInv'
  BY <1>6 DEF Interrupt
<1>7. ASSUME NEW c \in Crawls, Cleanup(c) \/ CleanupFails(c) PROVE RegistryInv'
  BY <1>7 DEF Cleanup, CleanupFails
<1>8. ASSUME NEW c \in Crawls, Dispatch(c) \/ Work(c) PROVE RegistryInv'
  BY <1>8 DEF Dispatch, Work
<1>9. CASE UNCHANGED registryVars
  BY <1>9 DEF registryVars
<1>10. QED
  BY <1>1, <1>2, <1>3, <1>4, <1>5, <1>6, <1>7, <1>8, <1>9
     DEF RegistryNext, Task, Tool

\* The registry holds a crawl exactly as long as its task runs and it is not
\* cancelled; only one whose closing failed stays until it is.
THEOREM RegistryExact == RegistrySpec => []RegistryIsExact
<1>1. RegistryInv => RegistryIsExact
  BY DEF RegistryInv
<1>2. QED
  BY <1>1, RegistryBegins, RegistryStep, PTL DEF RegistrySpec

-----------------------------------------------------------------------------
(* Recursion over sequences.  A set of numbers, or of sequences, that      *)
(* contains the first and with each the next contains them all.            *)

\* Every set of naturals but the empty one has its least.
LEMMA LeastIsThere ==
    ASSUME NEW S \in SUBSET Nat, S # {}
    PROVE  Min(S) \in S /\ \A n \in S : Min(S) <= n
<1>1. PICK x \in S : \A y \in S : ~(<<y, x>> \in OpToRel(<, Nat))
  BY NatLessThanWellFounded, WFMin
<1>2. \A y \in S : x <= y
  <2>1. SUFFICES ASSUME NEW y \in S, y < x PROVE FALSE
    OBVIOUS
  <2>2. <<y, x>> \in OpToRel(<, Nat)
    BY <2>1 DEF OpToRel
  <2>3. QED
    BY <1>1, <2>2
<1>3. QED
  BY <1>2 DEF Min

\* Induction over the naturals.
LEMMA EveryNatural ==
    ASSUME NEW P, 0 \in P, \A n \in Nat : n \in P => n + 1 \in P
    PROVE  Nat \subseteq P
<1> DEFINE S == Nat \ P
<1>1. SUFFICES ASSUME S # {} PROVE FALSE
  OBVIOUS
<1>2. Min(S) \in S /\ \A n \in S : Min(S) <= n
  BY <1>1, LeastIsThere
<1> DEFINE m == Min(S)
<1> HIDE DEF m
<1>3. m \in Nat /\ m \notin P /\ \A n \in Nat \ P : m <= n
  BY <1>2 DEF m
<1>4. m # 0
  BY <1>3
<1>5. m - 1 \in Nat /\ m = (m - 1) + 1
  BY <1>3, <1>4
<1>6. m - 1 \in P
  BY <1>3, <1>5
<1>7. QED
  BY <1>3, <1>5, <1>6

\* Induction over the sequences, by their last elements.
LEMMA EverySequence ==
    ASSUME NEW S, NEW P, <<>> \in P,
           \A q \in Seq(S) : \A e \in S : q \in P => Append(q, e) \in P
    PROVE  Seq(S) \subseteq P
<1> DEFINE N == {n \in Nat : \A q \in Seq(S) : Len(q) = n => q \in P}
<1>1. 0 \in N
  BY EmptySeq
<1>2. ASSUME NEW n \in Nat, n \in N PROVE n + 1 \in N
  <2>1. SUFFICES ASSUME NEW q \in Seq(S), Len(q) = n + 1 PROVE q \in P
    OBVIOUS
  <2>2. q # <<>>
    BY <2>1, EmptySeq
  <2> DEFINE r == SubSeq(q, 1, Len(q) - 1)
             e == q[Len(q)]
  <2>3. r \in Seq(S) /\ Len(r) = n /\ e \in S /\ q = Append(r, e)
    <3>1. Len(q) - 1 = n /\ 1 \in 1..Len(q) /\ Len(q) \in 1..Len(q)
      BY <2>1
    <3>2. e \in S
      BY <3>1, ElementOfSeq
    <3>3. r \in Seq(S) /\ Len(r) = n /\ \A i \in 1..n : r[i] = q[i]
      BY <2>1, <3>1, SubSeqProperties
    <3> HIDE DEF r, e
    <3>4. /\ Append(r, e) \in Seq(S) /\ Len(Append(r, e)) = n + 1
          /\ \A i \in 1..n : Append(r, e)[i] = r[i]
          /\ Append(r, e)[n + 1] = e
      BY <3>2, <3>3, AppendProperties
    <3>5. \A i \in 1..n+1 : Append(r, e)[i] = q[i]
      BY <2>1, <3>3, <3>4 DEF e
    <3>6. q = Append(r, e)
      BY <2>1, <3>4, <3>5, SeqEqual
    <3>7. QED
      BY <3>2, <3>3, <3>6
  <2> HIDE DEF r, e
  <2>4. r \in P
    BY <1>2, <2>3
  <2>5. QED
    BY <2>3, <2>4
<1>3. Nat \subseteq N
  <2> HIDE DEF N
  <2>1. QED
    BY <1>1, <1>2, EveryNatural
<1>4. QED
  BY <1>3, LenProperties

\* f and g agree on 0..n when they begin alike and go on alike.
LEMMA SameRecursion ==
    ASSUME NEW n \in Nat, NEW f, NEW g, f[0] = g[0],
           \A i \in 1..n : f[i - 1] = g[i - 1] => f[i] = g[i]
    PROVE  f[n] = g[n]
<1> DEFINE P == {i \in Nat : i <= n => f[i] = g[i]}
<1>1. 0 \in P
  OBVIOUS
<1>2. ASSUME NEW i \in Nat, i \in P PROVE i + 1 \in P
  <2>1. SUFFICES ASSUME i + 1 <= n PROVE f[i + 1] = g[i + 1]
    OBVIOUS
  <2>2. f[i] = g[i] /\ i + 1 \in 1..n /\ (i + 1) - 1 = i
    BY <1>2, <2>1
  <2>3. QED
    BY <2>2
<1>3. Nat \subseteq P
  <2> HIDE DEF P
  <2>1. QED
    BY <1>1, <1>2, EveryNatural
<1>4. QED
  BY <1>3

Summing(f, q) == f = [n \in 0..Len(q) |-> IF n = 0 THEN 0 ELSE f[n - 1] + q[n].size]

\* There is a function that sums up any sequence.
LEMMA SumExists ==
    ASSUME NEW S, NEW q \in Seq(S)
    PROVE  \E f : Summing(f, q)
<1> DEFINE P == {r \in Seq(S) : \E f : Summing(f, r)}
<1>1. <<>> \in P
  <2>1. <<>> \in Seq(S) /\ Len(<<>>) = 0 /\ 0..0 = {0}
    BY EmptySeq
  <2> DEFINE f == [n \in {0} |-> 0]
  <2>2. f = [n \in 0..Len(<<>>) |-> IF n = 0 THEN 0 ELSE f[n - 1] + <<>>[n].size]
    BY <2>1
  <2> HIDE DEF f
  <2>3. QED
    BY <2>1, <2>2 DEF Summing
<1>2. ASSUME NEW r \in Seq(S), NEW e \in S, r \in P PROVE Append(r, e) \in P
  <2> DEFINE a == Append(r, e)
             m == Len(r)
  <2>1. PICK f : Summing(f, r)
    BY <1>2
  <2>2. /\ a \in Seq(S) /\ Len(a) = m + 1 /\ m \in Nat /\ a[m + 1] = e
        /\ \A i \in 1..m : a[i] = r[i]
    BY AppendProperties, LenProperties
  <2> HIDE DEF a, m
  <2> DEFINE g == [n \in 0..m+1 |-> IF n = m + 1 THEN f[m] + e.size ELSE f[n]]
  <2>3. \A n \in 0..m : f[n] = IF n = 0 THEN 0 ELSE f[n - 1] + r[n].size
    BY <2>1 DEF Summing, m
  <2>4. ASSUME NEW n \in 0..m+1 PROVE g[n] = IF n = 0 THEN 0 ELSE g[n - 1] + a[n].size
    <3>1. CASE n = m + 1
      BY <2>2, <3>1
    <3>2. CASE n \in 1..m
      <4>1. g[n] = f[n] /\ g[n - 1] = f[n - 1] /\ a[n] = r[n] /\ n # 0 /\ n \in 0..m
        BY <2>2, <3>2
      <4>2. QED
        BY <2>3, <4>1
    <3>3. CASE n = 0
      <4>1. g[0] = f[0]
        BY <2>2
      <4>2. QED
        BY <2>2, <2>3, <3>3, <4>1
    <3>4. QED
      BY <2>2, <3>1, <3>2, <3>3
  <2>5. g = [n \in 0..m+1 |-> IF n = 0 THEN 0 ELSE g[n - 1] + a[n].size]
    BY <2>4
  <2> HIDE DEF g
  <2>6. Summing(g, a)
    BY <2>2, <2>5 DEF Summing
  <2>7. QED
    BY <2>2, <2>6 DEF a
<1>3. Seq(S) \subseteq P
  <2> HIDE DEF P
  <2>1. QED
    BY <1>1, <1>2, EverySequence
<1>4. QED
  BY <1>3

\* The bytes of no entry, and of one entry more.
LEMMA TotalOf ==
    ASSUME NEW S
    PROVE  /\ Total(<<>>) = 0
           /\ \A q \in Seq(S) : \A e \in S : Total(Append(q, e)) = Total(q) + e.size
<1> DEFINE F(q) == CHOOSE f : Summing(f, q)
<1>1. ASSUME NEW q \in Seq(S) PROVE Total(q) = F(q)[Len(q)] /\ Summing(F(q), q)
  <2>1. Summing(F(q), q)
    BY SumExists
  <2>2. QED
    BY <2>1 DEF Total, Summing
<1> HIDE DEF F
<1>2. Total(<<>>) = 0
  <2>1. <<>> \in Seq(S) /\ Len(<<>>) = 0
    BY EmptySeq
  <2> DEFINE f == F(<<>>)
  <2>2. Summing(f, <<>>) /\ Total(<<>>) = f[0]
    BY <1>1, <2>1
  <2> HIDE DEF f
  <2>3. f[0] = 0
    BY <2>1, <2>2 DEF Summing
  <2>4. QED
    BY <2>2, <2>3
<1>3. ASSUME NEW q \in Seq(S), NEW e \in S
      PROVE  Total(Append(q, e)) = Total(q) + e.size
  <2> DEFINE a == Append(q, e)
             m == Len(q)
             f == F(q)
             g == F(a)
  <2>1. /\ a \in Seq(S) /\ Len(a) = m + 1 /\ m \in Nat /\ a[m + 1] = e
        /\ \A i \in 1..m : a[i] = q[i]
    BY AppendProperties, LenProperties
  <2>2. Summing(f, q) /\ Summing(g, a) /\ Total(q) = f[m] /\ Total(a) = g[m + 1]
    BY <1>1, <2>1
  <2> HIDE DEF a, f, g
  <2>3. /\ \A n \in 0..m : f[n] = IF n = 0 THEN 0 ELSE f[n - 1] + q[n].size
        /\ \A n \in 0..m+1 : g[n] = IF n = 0 THEN 0 ELSE g[n - 1] + a[n].size
    BY <2>1, <2>2 DEF Summing
  <2> HIDE DEF m
  <2>4. f[0] = g[0] /\ \A i \in 1..m : f[i - 1] = g[i - 1] => f[i] = g[i]
    <3>1. f[0] = 0 /\ g[0] = 0
      <4>1. 0 \in 0..m /\ 0 \in 0..m+1
        BY <2>1
      <4>2. QED
        BY <2>3, <4>1
    <3>2. ASSUME NEW i \in 1..m, f[i - 1] = g[i - 1] PROVE f[i] = g[i]
      <4>1. i \in 0..m /\ i \in 0..m+1 /\ i # 0
        BY <2>1
      <4>2. f[i] = f[i - 1] + q[i].size /\ g[i] = g[i - 1] + a[i].size
        BY <2>3, <4>1
      <4>3. QED
        BY <2>1, <3>2, <4>2
    <3>3. QED
      BY <3>1, <3>2
  <2>5. f[m] = g[m]
    BY <2>1, <2>4, SameRecursion
  <2>6. g[m + 1] = g[m] + e.size
    BY <2>1, <2>3
  <2>7. QED
    BY <2>2, <2>5, <2>6 DEF a
<1>4. QED
  BY <1>2, <1>3

Resting(f, q, keys) ==
    f = [n \in 0..Len(q) |->
           IF n = 0 THEN <<>>
           ELSE IF q[n].key \in keys THEN f[n - 1] ELSE Append(f[n - 1], q[n])]

\* There is a function that filters any sequence.
LEMMA RestExists ==
    ASSUME NEW S, NEW keys, NEW q \in Seq(S)
    PROVE  \E f : Resting(f, q, keys)
<1> DEFINE P == {r \in Seq(S) : \E f : Resting(f, r, keys)}
<1>1. <<>> \in P
  <2>1. <<>> \in Seq(S) /\ Len(<<>>) = 0 /\ 0..0 = {0}
    BY EmptySeq
  <2> DEFINE f == [n \in {0} |-> <<>>]
             s == <<>>
  <2>2. f = [n \in 0..0 |-> IF n = 0 THEN <<>>
                            ELSE IF s[n].key \in keys THEN f[n - 1] ELSE Append(f[n - 1], s[n])]
    BY <2>1
  <2> HIDE DEF f
  <2>3. QED
    BY <2>1, <2>2 DEF Resting
<1>2. ASSUME NEW r \in Seq(S), NEW e \in S, r \in P PROVE Append(r, e) \in P
  <2> DEFINE a == Append(r, e)
             m == Len(r)
  <2>1. PICK f : Resting(f, r, keys)
    BY <1>2
  <2>2. /\ a \in Seq(S) /\ Len(a) = m + 1 /\ m \in Nat /\ a[m + 1] = e
        /\ \A i \in 1..m : a[i] = r[i]
    BY AppendProperties, LenProperties
  <2> HIDE DEF a, m
  <2> DEFINE l == IF e.key \in keys THEN f[m] ELSE Append(f[m], e)
             g == [n \in 0..m+1 |-> IF n = m + 1 THEN l ELSE f[n]]
  <2>3. \A n \in 0..m : f[n] = IF n = 0 THEN <<>>
                               ELSE IF r[n].key \in keys THEN f[n - 1] ELSE Append(f[n - 1], r[n])
    BY <2>1 DEF Resting, m
  <2>4. ASSUME NEW n \in 0..m+1
        PROVE  g[n] = IF n = 0 THEN <<>>
                      ELSE IF a[n].key \in keys THEN g[n - 1] ELSE Append(g[n - 1], a[n])
    <3>1. CASE n = m + 1
      <4>1. g[n] = l /\ g[n - 1] = f[m] /\ a[n] = e /\ n # 0
        BY <2>2, <3>1
      <4>2. QED
        BY <4>1
    <3>2. CASE n \in 1..m
      <4>1. g[n] = f[n] /\ g[n - 1] = f[n - 1] /\ a[n] = r[n] /\ n # 0 /\ n \in 0..m
        BY <2>2, <3>2
      <4>2. QED
        BY <2>3, <4>1
    <3>3. CASE n = 0
      <4>1. g[0] = f[0]
        BY <2>2
      <4>2. QED
        BY <2>2, <2>3, <3>3, <4>1
    <3>4. QED
      BY <2>2, <3>1, <3>2, <3>3
  <2>5. g = [n \in 0..m+1 |-> IF n = 0 THEN <<>>
                              ELSE IF a[n].key \in keys THEN g[n - 1] ELSE Append(g[n - 1], a[n])]
    BY <2>4
  <2> HIDE DEF g
  <2>6. Resting(g, a, keys)
    BY <2>2, <2>5, Zenon DEF Resting
  <2>7. QED
    BY <2>2, <2>6 DEF a
<1>3. Seq(S) \subseteq P
  <2> HIDE DEF P
  <2>1. QED
    BY <1>1, <1>2, EverySequence
<1>4. QED
  BY <1>3

\* What is left of no entry, and of one entry more.
LEMMA WithoutOf ==
    ASSUME NEW S, NEW keys
    PROVE  /\ Without(<<>>, keys) = <<>>
           /\ \A q \in Seq(S) : \A e \in S :
                 /\ e.key \in keys => Without(Append(q, e), keys) = Without(q, keys)
                 /\ e.key \notin keys =>
                       Without(Append(q, e), keys) = Append(Without(q, keys), e)
<1> DEFINE F(q) == CHOOSE f : Resting(f, q, keys)
<1>1. ASSUME NEW q \in Seq(S) PROVE Without(q, keys) = F(q)[Len(q)] /\ Resting(F(q), q, keys)
  <2>1. Resting(F(q), q, keys)
    BY RestExists
  <2>2. QED
    BY <2>1, Zenon DEF Without, Resting
<1> HIDE DEF F
<1>2. Without(<<>>, keys) = <<>>
  <2>1. <<>> \in Seq(S) /\ Len(<<>>) = 0
    BY EmptySeq
  <2> DEFINE f == F(<<>>)
  <2>2. Resting(f, <<>>, keys) /\ Without(<<>>, keys) = f[0]
    BY <1>1, <2>1
  <2> HIDE DEF f
  <2>3. f[0] = <<>>
    BY <2>1, <2>2 DEF Resting
  <2>4. QED
    BY <2>2, <2>3
<1>3. ASSUME NEW q \in Seq(S), NEW e \in S
      PROVE  /\ e.key \in keys => Without(Append(q, e), keys) = Without(q, keys)
             /\ e.key \notin keys =>
                   Without(Append(q, e), keys) = Append(Without(q, keys), e)
  <2> DEFINE a == Append(q, e)
             m == Len(q)
             f == F(q)
             g == F(a)
  <2>1. /\ a \in Seq(S) /\ Len(a) = m + 1 /\ m \in Nat /\ a[m + 1] = e
        /\ \A i \in 1..m : a[i] = q[i]
    BY AppendProperties, LenProperties
  <2>2. /\ Resting(f, q, keys) /\ Resting(g, a, keys)
        /\ Without(q, keys) = f[m] /\ Without(a, keys) = g[m + 1]
    BY <1>1, <2>1
  <2> HIDE DEF a, f, g
  <2>3. /\ \A n \in 0..m : f[n] = IF n = 0 THEN <<>>
                                  ELSE IF q[n].key \in keys THEN f[n - 1] ELSE Append(f[n - 1], q[n])
        /\ \A n \in 0..m+1 : g[n] = IF n = 0 THEN <<>>
                                    ELSE IF a[n].key \in keys THEN g[n - 1] ELSE Append(g[n - 1], a[n])
    BY <2>1, <2>2 DEF Resting
  <2> HIDE DEF m
  <2>4. f[0] = g[0] /\ \A i \in 1..m : f[i - 1] = g[i - 1] => f[i] = g[i]
    <3>1. f[0] = <<>> /\ g[0] = <<>>
      <4>1. 0 \in 0..m /\ 0 \in 0..m+1
        BY <2>1
      <4>2. QED
        BY <2>3, <4>1
    <3>2. ASSUME NEW i \in 1..m, f[i - 1] = g[i - 1] PROVE f[i] = g[i]
      <4>1. i \in 0..m /\ i \in 0..m+1 /\ i # 0 /\ a[i] = q[i]
        BY <2>1
      <4>2. /\ f[i] = IF q[i].key \in keys THEN f[i - 1] ELSE Append(f[i - 1], q[i])
            /\ g[i] = IF q[i].key \in keys THEN g[i - 1] ELSE Append(g[i - 1], q[i])
        BY <2>3, <4>1
      <4>3. QED
        BY <3>2, <4>2
    <3>3. QED
      BY <3>1, <3>2
  <2>5. f[m] = g[m]
    BY <2>1, <2>4, SameRecursion
  <2>6. g[m + 1] = IF e.key \in keys THEN g[m] ELSE Append(g[m], e)
    <3>1. m + 1 \in 0..m+1 /\ m + 1 # 0 /\ (m + 1) - 1 = m
      BY <2>1
    <3>2. QED
      BY <2>1, <2>3, <3>1
  <2>7. QED
    BY <2>2, <2>5, <2>6 DEF a
<1>4. QED
  BY <1>2, <1>3

-----------------------------------------------------------------------------
(* The entries of the page cache *)

Distinct(q) == \A i, j \in 1..Len(q) : q[i].key = q[j].key => i = j
Within(w, q) == \A i \in 1..Len(w) : \E j \in 1..Len(q) : w[i] = q[j]

\* Bytes are natural numbers.
LEMMA TotalIsNat ==
    ASSUME Sizes \subseteq Nat, NEW q \in Seq(Entry)
    PROVE  Total(q) \in Nat
<1> DEFINE P == {r \in Seq(Entry) : Total(r) \in Nat}
<1>1. <<>> \in P
  BY EmptySeq, TotalOf
<1>2. ASSUME NEW r \in Seq(Entry), NEW e \in Entry, r \in P PROVE Append(r, e) \in P
  <2>1. e.size \in Nat
    BY DEF Entry
  <2>2. Total(Append(r, e)) = Total(r) + e.size
    BY TotalOf
  <2>3. Append(r, e) \in Seq(Entry)
    BY AppendProperties
  <2>4. QED
    BY <1>2, <2>1, <2>2, <2>3
<1>3. Seq(Entry) \subseteq P
  <2> HIDE DEF P
  <2>1. QED
    BY <1>1, <1>2, EverySequence
<1>4. QED
  BY <1>3

\* The bytes of the first entries, and of the others, are the bytes of all.
LEMMA TotalSplits ==
    ASSUME Sizes \subseteq Nat, NEW q \in Seq(Entry), NEW d \in 0..Len(q)
    PROVE  Total(q) = Total(SubSeq(q, 1, d)) + Total(SubSeq(q, d + 1, Len(q)))
<1> DEFINE T(r) == Total(r)
           P == {r \in Seq(Entry) : \A c \in 0..Len(r) :
                    T(r) = T(SubSeq(r, 1, c)) + T(SubSeq(r, c + 1, Len(r)))}
<1>1. <<>> \in P
  <2>1. <<>> \in Seq(Entry) /\ Len(<<>>) = 0 /\ T(<<>>) = 0
    BY EmptySeq, TotalOf
  <2> DEFINE s == <<>>
             z == SubSeq(s, 1, 0)
  <2>2. z = <<>>
    BY <2>1, SubSeqEmpty
  <2> HIDE DEF T, z
  <2>3. T(z) = 0 /\ T(s) = T(z) + T(z)
    BY <2>1, <2>2
  <2>4. ASSUME NEW c \in 0..Len(s) PROVE T(s) = T(SubSeq(s, 1, c)) + T(SubSeq(s, c + 1, Len(s)))
    <3>1. c = 0 /\ c + 1 = 1 /\ Len(s) = 0
      BY <2>1
    <3> HIDE DEF s
    <3>2. QED
      BY <2>3, <3>1 DEF z
  <2>5. QED
    BY <2>1, <2>4
<1>2. ASSUME NEW r \in Seq(Entry), NEW e \in Entry, r \in P PROVE Append(r, e) \in P
  <2> DEFINE a == Append(r, e)
             m == Len(r)
  <2>1. /\ a \in Seq(Entry) /\ Len(a) = m + 1 /\ m \in Nat /\ a[m + 1] = e
        /\ \A i \in 1..m : a[i] = r[i]
    BY AppendProperties, LenProperties
  <2>2. T(a) = T(r) + e.size /\ T(r) \in Nat /\ T(a) \in Nat /\ e.size \in Nat
    BY <2>1, TotalIsNat, TotalOf DEF Entry
  <2> HIDE DEF a
  <2>3. ASSUME NEW c \in 0..m+1 PROVE T(a) = T(SubSeq(a, 1, c)) + T(SubSeq(a, c + 1, m + 1))
    <3>1. CASE c = m + 1
      <4> DEFINE u == SubSeq(a, c + 1, m + 1)
                 w == SubSeq(a, 1, c)
      <4>1. w = a
        BY <2>1, <3>1, SubSeqFull
      <4>2. u = <<>>
        BY <2>1, <3>1, SubSeqEmpty
      <4>3. T(u) = 0
        BY <4>2, TotalOf
      <4> HIDE DEF T, u, w
      <4>4. T(a) = T(w) + T(u)
        BY <2>2, <4>1, <4>3
      <4>5. QED
        BY <4>4 DEF u, w
    <3>2. CASE c \in 0..m
      <4> DEFINE s == SubSeq(r, c + 1, m)
                 u == SubSeq(a, c + 1, m + 1)
                 v == SubSeq(r, 1, c)
                 w == SubSeq(a, 1, c)
      <4>1. /\ v \in Seq(Entry) /\ Len(v) = c /\ \A i \in 1..c : v[i] = r[i]
            /\ w \in Seq(Entry) /\ Len(w) = c /\ \A i \in 1..c : w[i] = a[i]
        BY <2>1, <3>2
      <4>2. v = w
        <5> HIDE DEF v, w
        <5>1. \A i \in 1..c : v[i] = w[i]
          BY <2>1, <3>2, <4>1
        <5>2. QED
          BY <4>1, <5>1, SeqEqual
      <4>3. s \in Seq(Entry) /\ Len(s) = m - c /\ \A i \in 1..m-c : s[i] = r[c + i]
        BY <2>1, <3>2
      <4>4. u \in Seq(Entry) /\ Len(u) = m - c + 1 /\ \A i \in 1..m-c+1 : u[i] = a[c + i]
        BY <2>1, <3>2
      <4> HIDE DEF s, u, v, w
      <4>5. u = Append(s, e)
        <5>1. /\ Append(s, e) \in Seq(Entry) /\ Len(Append(s, e)) = m - c + 1
              /\ \A i \in 1..m-c : Append(s, e)[i] = s[i]
              /\ Append(s, e)[m - c + 1] = e
          BY <4>3, AppendProperties
        <5>2. ASSUME NEW i \in 1..m-c PROVE u[i] = s[i]
          <6>1. c + i \in 1..m /\ i \in 1..m-c+1
            BY <2>1, <3>2
          <6>2. u[i] = a[c + i] /\ s[i] = r[c + i] /\ a[c + i] = r[c + i]
            BY <2>1, <4>3, <4>4, <6>1
          <6>3. QED
            BY <6>2
        <5>3. u[m - c + 1] = e
          <6>1. m - c + 1 \in 1..m-c+1 /\ c + (m - c + 1) = m + 1
            BY <2>1, <3>2
          <6>2. QED
            BY <2>1, <4>4, <6>1, SMTT(30)
        <5>4. ASSUME NEW i \in 1..m-c+1 PROVE u[i] = Append(s, e)[i]
          <6>1. i = m - c + 1 \/ i \in 1..m-c
            BY <2>1, <3>2
          <6>2. QED
            BY <5>1, <5>2, <5>3, <6>1
        <5>5. QED
          BY <4>4, <5>1, <5>4, SeqEqual
      <4>6. T(u) = T(s) + e.size
        BY <4>3, <4>5, TotalOf
      <4>7. T(r) = T(v) + T(s)
        BY <1>2, <3>2 DEF v, s
      <4>8. T(v) \in Nat /\ T(s) \in Nat
        BY <4>1, <4>3, TotalIsNat
      <4> HIDE DEF T
      <4>9. T(a) = T(w) + T(u)
        BY <2>2, <4>2, <4>6, <4>7, <4>8
      <4>10. QED
        BY <4>9 DEF w, u
    <3>3. QED
      BY <2>1, <3>1, <3>2
  <2>4. QED
    BY <2>1, <2>3 DEF a
<1>3. Seq(Entry) \subseteq P
  <2> HIDE DEF P
  <2>1. QED
    BY <1>1, <1>2, EverySequence
<1>4. QED
  BY <1>3

\* Entries are left out: what stays is of those there were, without the keys, and
\* weighs no more.
LEMMA WithoutIsLess ==
    ASSUME Sizes \subseteq Nat, NEW keys, NEW q \in Seq(Entry)
    PROVE  /\ Without(q, keys) \in Seq(Entry)
           /\ Len(Without(q, keys)) <= Len(q)
           /\ Total(Without(q, keys)) <= Total(q)
           /\ Within(Without(q, keys), q)
           /\ \A i \in 1..Len(Without(q, keys)) : Without(q, keys)[i].key \notin keys
           /\ Distinct(q) => Distinct(Without(q, keys))
<1> DEFINE W(r) == Without(r, keys)
           Less(r) == /\ W(r) \in Seq(Entry) /\ Len(W(r)) <= Len(r)
                      /\ Total(W(r)) <= Total(r)
                      /\ Within(W(r), r)
                      /\ \A i \in 1..Len(W(r)) : W(r)[i].key \notin keys
                      /\ Distinct(r) => Distinct(W(r))
           P == {r \in Seq(Entry) : Less(r)}
<1>1. <<>> \in P
  <2> DEFINE s == <<>>
  <2>1. s \in Seq(Entry) /\ Len(s) = 0 /\ Total(s) = 0 /\ W(s) = s
    BY EmptySeq, TotalOf, WithoutOf
  <2> HIDE DEF W, s
  <2>2. 1..Len(s) = {}
    BY <2>1
  <2>3. Len(s) <= Len(s) /\ Total(s) <= Total(s)
    BY <2>1
  <2>4. Less(s)
    BY <2>1, <2>2, <2>3 DEF Within, Distinct
  <2>5. QED
    BY <2>1, <2>4 DEF s
<1>2. ASSUME NEW r \in Seq(Entry), NEW e \in Entry, r \in P PROVE Append(r, e) \in P
  <2> DEFINE a == Append(r, e)
             m == Len(r)
             v == W(r)
             w == W(a)
  <2>1. /\ a \in Seq(Entry) /\ Len(a) = m + 1 /\ m \in Nat /\ a[m + 1] = e
        /\ \A i \in 1..m : a[i] = r[i]
    BY AppendProperties, LenProperties
  <2>2. /\ Total(a) = Total(r) + e.size /\ Total(r) \in Nat /\ e.size \in Nat
    BY TotalIsNat, TotalOf DEF Entry
  <2>3. /\ v \in Seq(Entry) /\ Len(v) <= m /\ Total(v) <= Total(r)
        /\ Within(v, r) /\ \A i \in 1..Len(v) : v[i].key \notin keys
        /\ Distinct(r) => Distinct(v)
    BY <1>2
  <2>4. Total(v) \in Nat /\ Len(v) \in Nat
    BY <2>3, TotalIsNat, LenProperties
  <2>5. /\ e.key \in keys => w = v
        /\ e.key \notin keys => w = Append(v, e)
    BY WithoutOf, ZenonT(40)
  <2> HIDE DEF a, v, w, W
  <2>6. Distinct(a) => Distinct(r) /\ \A i \in 1..m : r[i].key # e.key
    <3>1. SUFFICES ASSUME Distinct(a) PROVE Distinct(r) /\ \A i \in 1..m : r[i].key # e.key
      OBVIOUS
    <3>2. ASSUME NEW i \in 1..m, NEW j \in 1..m, r[i].key = r[j].key PROVE i = j
      <4>1. i \in 1..m+1 /\ j \in 1..m+1 /\ a[i] = r[i] /\ a[j] = r[j]
        BY <2>1
      <4>2. QED
        BY <2>1, <3>1, <3>2, <4>1 DEF Distinct
    <3>3. ASSUME NEW i \in 1..m, r[i].key = e.key PROVE FALSE
      <4>1. i \in 1..m+1 /\ m + 1 \in 1..m+1 /\ a[i] = r[i] /\ i # m + 1
        BY <2>1
      <4>2. QED
        BY <2>1, <3>1, <3>3, <4>1 DEF Distinct
    <3>4. QED
      BY <3>2, <3>3 DEF Distinct
  <2>7. ASSUME NEW i \in 1..Len(v)
        PROVE  \E j \in 1..m : v[i] = r[j] /\ v[i] = a[j] /\ j \in 1..m+1
    <3>1. PICK j \in 1..m : v[i] = r[j]
      BY <2>3 DEF Within
    <3>2. v[i] = a[j] /\ j \in 1..m+1
      BY <2>1, <3>1
    <3>3. QED
      BY <3>1, <3>2
  <2>8. CASE e.key \in keys
    <3>1. w = v
      BY <2>5, <2>8
    <3>2. Len(w) <= Len(a) /\ Total(w) <= Total(a)
      BY <2>1, <2>2, <2>3, <2>4, <3>1
    <3>3. Within(w, a)
      BY <2>1, <2>7, <3>1 DEF Within
    <3>4. Distinct(a) => Distinct(w)
      BY <2>3, <2>6, <3>1
    <3>5. w \in Seq(Entry) /\ \A i \in 1..Len(w) : w[i].key \notin keys
      BY <2>3, <3>1
    <3>6. QED
      BY <2>1, <3>2, <3>3, <3>4, <3>5 DEF a, w
  <2>9. CASE e.key \notin keys
    <3> DEFINE n == Len(v)
    <3>1. /\ w = Append(v, e) /\ w \in Seq(Entry) /\ Len(w) = n + 1 /\ w[n + 1] = e
          /\ \A i \in 1..n : w[i] = v[i]
      <4>1. w = Append(v, e)
        BY <2>5, <2>9
      <4>2. v \in Seq(Entry)
        BY <2>3
      <4>3. QED
        BY <4>1, <4>2, AppendProperties
    <3>2. Total(w) = Total(v) + e.size
      BY <2>3, <3>1, TotalOf
    <3>3. Len(w) <= Len(a) /\ Total(w) <= Total(a)
      BY <2>1, <2>2, <2>3, <2>4, <3>1, <3>2
    <3>4. \A i \in 1..n+1 : i \in 1..n \/ i = n + 1
      BY <2>4
    <3>5. Within(w, a)
      <4>1. ASSUME NEW i \in 1..n+1 PROVE \E j \in 1..m+1 : w[i] = a[j]
        <5>1. CASE i \in 1..n
          BY <2>7, <3>1, <5>1
        <5>2. CASE i = n + 1
          BY <2>1, <3>1, <5>2
        <5>3. QED
          BY <3>4, <5>1, <5>2
      <4>2. QED
        BY <2>1, <3>1, <4>1 DEF Within
    <3>6. Distinct(a) => Distinct(w)
      <4>1. SUFFICES ASSUME Distinct(a), NEW i \in 1..n+1, NEW j \in 1..n+1, w[i].key = w[j].key
                     PROVE  i = j
        BY <3>1 DEF Distinct
      <4>2. \A k \in 1..n : v[k].key # e.key
        BY <2>6, <2>7, <4>1
      <4>3. CASE i \in 1..n /\ j \in 1..n
        BY <2>3, <2>6, <3>1, <4>1, <4>3 DEF Distinct
      <4>4. QED
        BY <3>1, <3>4, <4>1, <4>2, <4>3
    <3>7. \A i \in 1..Len(w) : w[i].key \notin keys
      BY <2>3, <2>9, <3>1, <3>4
    <3>8. QED
      BY <2>1, <3>1, <3>3, <3>5, <3>6, <3>7 DEF a, w
  <2>10. QED
    BY <2>8, <2>9
<1>3. Seq(Entry) \subseteq P
  <2> HIDE DEF P
  <2>1. QED
    BY <1>1, <1>2, EverySequence
<1>4. QED
  BY <1>3

\* Entries of which none has the key all stay; of entries that are one to a key
\* the one of the key is left out.
LEMMA WithoutKey ==
    ASSUME Sizes \subseteq Nat, NEW k, NEW q \in Seq(Entry)
    PROVE  /\ (\A i \in 1..Len(q) : q[i].key # k) => Without(q, {k}) = q
           /\ \A i \in 1..Len(q) : Distinct(q) /\ q[i].key = k =>
                 /\ Len(Without(q, {k})) = Len(q) - 1
                 /\ Total(Without(q, {k})) = Total(q) - q[i].size
<1> DEFINE W(r) == Without(r, {k})
           T(r) == Total(r)
           None(r) == \A i \in 1..Len(r) : r[i].key # k
           One(r) == \A i \in 1..Len(r) : Distinct(r) /\ r[i].key = k =>
                        Len(W(r)) = Len(r) - 1 /\ T(W(r)) = T(r) - r[i].size
           P == {r \in Seq(Entry) : (None(r) => W(r) = r) /\ One(r)}
<1>1. <<>> \in P
  <2> DEFINE s == <<>>
  <2>1. s \in Seq(Entry) /\ Len(s) = 0 /\ W(s) = s
    BY EmptySeq, WithoutOf
  <2> HIDE DEF W, s, T
  <2>2. 1..Len(s) = {}
    BY <2>1
  <2>3. QED
    BY <2>1, <2>2 DEF s
<1>2. ASSUME NEW r \in Seq(Entry), NEW e \in Entry, r \in P PROVE Append(r, e) \in P
  <2> DEFINE a == Append(r, e)
             m == Len(r)
             v == W(r)
             w == W(a)
  <2>1. /\ a \in Seq(Entry) /\ Len(a) = m + 1 /\ m \in Nat /\ a[m + 1] = e
        /\ \A i \in 1..m : a[i] = r[i]
    BY AppendProperties, LenProperties
  <2>2. T(a) = T(r) + e.size /\ T(r) \in Nat /\ e.size \in Nat
    BY TotalIsNat, TotalOf DEF Entry
  <2>3. v \in Seq(Entry)
    BY WithoutIsLess
  <2>4. T(v) \in Nat /\ Len(v) \in Nat
    BY <2>3, TotalIsNat, LenProperties
  <2>5. (e.key = k => w = v) /\ (e.key # k => w = Append(v, e))
    BY WithoutOf, ZenonT(40)
  <2>6. (None(r) => v = r) /\ One(r)
    BY <1>2
  <2>7. a = Append(r, e)
    OBVIOUS
  <2> HIDE DEF a, v, w, W
  <2>8. /\ \A i \in 1..m : i \in 1..m+1
        /\ m + 1 \in 1..m+1
        /\ \A i \in 1..m+1 : i \in 1..m \/ i = m + 1
        /\ \A i \in 1..m : i # m + 1
    BY <2>1
  <2>9. None(a) => w = a
    <3>1. SUFFICES ASSUME None(a) PROVE w = a
      OBVIOUS
    <3>2. e.key # k /\ None(r)
      BY <2>1, <2>8, <3>1
    <3>3. QED
      BY <2>5, <2>6, <2>7, <3>2
  <2>10. ASSUME NEW i \in 1..m+1, Distinct(a), a[i].key = k
         PROVE  Len(w) = m /\ T(w) = T(a) - a[i].size
    <3>1. Distinct(r)
      <4>1. ASSUME NEW j \in 1..m, NEW l \in 1..m, r[j].key = r[l].key PROVE j = l
        <5>1. a[j].key = a[l].key /\ j \in 1..Len(a) /\ l \in 1..Len(a)
          BY <2>1, <2>8, <4>1
        <5>2. QED
          BY <2>10, <5>1 DEF Distinct
      <4>2. QED
        BY <4>1 DEF Distinct
    <3>2. CASE i = m + 1
      <4>1. e.key = k
        BY <2>1, <2>10, <3>2
      <4>2. None(r)
        <5>1. SUFFICES ASSUME NEW j \in 1..m, r[j].key = k PROVE FALSE
          OBVIOUS
        <5>2. a[j].key = a[m + 1].key /\ j \in 1..Len(a) /\ m + 1 \in 1..Len(a) /\ j # m + 1
          BY <2>1, <2>8, <4>1, <5>1
        <5>3. QED
          BY <2>10, <5>2 DEF Distinct
      <4>3. w = r
        BY <2>5, <2>6, <4>1, <4>2
      <4> HIDE DEF T
      <4>4. QED
        BY <2>1, <2>2, <3>2, <4>3
    <3>3. CASE i \in 1..m
      <4>1. r[i].key = k /\ a[i] = r[i]
        BY <2>1, <2>10, <3>3
      <4>2. e.key # k
        <5>1. SUFFICES ASSUME e.key = k PROVE FALSE
          OBVIOUS
        <5>2. a[i].key = a[m + 1].key /\ i \in 1..Len(a) /\ m + 1 \in 1..Len(a) /\ i # m + 1
          BY <2>1, <2>8, <2>10, <3>3, <5>1
        <5>3. QED
          BY <2>10, <5>2 DEF Distinct
      <4>3. w = Append(v, e)
        BY <2>5, <4>2
      <4>4. Len(w) = Len(v) + 1 /\ T(w) = T(v) + e.size
        BY <2>3, <4>3, AppendProperties, TotalOf
      <4>5. Len(v) = m - 1 /\ T(v) = T(r) - r[i].size
        BY <2>6, <3>1, <3>3, <4>1 DEF v
      <4>6. r[i].size \in Nat
        <5>1. r[i] \in Entry
          BY <3>3, ElementOfSeq
        <5>2. QED
          BY <5>1 DEF Entry
      <4> HIDE DEF T
      <4>7. QED
        BY <2>1, <2>2, <2>4, <4>1, <4>4, <4>5, <4>6
    <3>4. QED
      BY <2>8, <3>2, <3>3
  <2>11. One(a)
    BY <2>1, <2>10 DEF w
  <2>12. QED
    BY <2>1, <2>9, <2>11 DEF a, w
<1>3. Seq(Entry) \subseteq P
  <2> HIDE DEF P
  <2>1. QED
    BY <1>1, <1>2, EverySequence
<1>4. QED
  BY <1>3

-----------------------------------------------------------------------------
(* The page cache *)

\* What the cache holds, b being the count of its bytes: one entry to a key, each
\* with its time to live, within the caps; what the count says is there at least.
Sound(q, b) ==
    /\ q \in Seq(Entry)
    /\ Distinct(q)
    /\ \A i \in 1..Len(q) : q[i].expires = q[i].since + Ttl
    /\ Total(q) <= b
    /\ Len(q) <= MaxEntries /\ Total(q) <= MaxBytes

CacheInv == CacheTypeOK /\ Sound(cache, bytes) /\ ServedIsFresh

\* An empty cache satisfies the invariant.
LEMMA CacheBegins == CacheInit => CacheInv
<1> SUFFICES ASSUME CacheInit PROVE CacheInv
  OBVIOUS
<1>1. <<>> \in Seq(Entry) /\ Len(<<>>) = 0 /\ Total(<<>>) = 0
  BY EmptySeq, TotalOf
<1>2. /\ cache \in Seq(Entry) /\ Len(cache) = 0 /\ Total(cache) = 0
      /\ bytes = 0 /\ now = 0 /\ served = Nothing /\ call = [c \in Callers |-> Nothing]
  BY <1>1 DEF CacheInit
<1>3. CacheTypeOK
  BY <1>2 DEF CacheTypeOK
<1>4. 1..Len(cache) = {} /\ Len(cache) <= MaxEntries /\ Total(cache) <= MaxBytes
      /\ Total(cache) <= bytes
  BY <1>2, CacheAssumption
<1>5. Sound(cache, bytes)
  BY <1>2, <1>4 DEF Sound, Distinct
<1>6. QED
  BY <1>2, <1>3, <1>5 DEF CacheInv, ServedIsFresh

\* Entries that stay are as sound as they were.
LEMMA LessIsSound ==
    ASSUME NEW q, NEW b \in Int, Sound(q, b), NEW keys
    PROVE  Sound(Without(q, keys), b)
<1> DEFINE w == Without(q, keys)
<1>1. Sizes \subseteq Nat /\ MaxBytes \in Nat /\ MaxEntries \in Nat
  BY CacheAssumption
<1>2. q \in Seq(Entry) /\ Distinct(q)
  BY DEF Sound
<1>3. /\ w \in Seq(Entry) /\ Len(w) <= Len(q) /\ Total(w) <= Total(q)
      /\ Within(w, q) /\ Distinct(w)
  BY <1>1, <1>2, WithoutIsLess
<1>4. /\ Total(w) \in Nat /\ Total(q) \in Nat /\ Len(w) \in Nat /\ Len(q) \in Nat
  BY <1>1, <1>2, <1>3, TotalIsNat, LenProperties
<1> HIDE DEF w
<1>5. Total(w) <= b /\ Len(w) <= MaxEntries /\ Total(w) <= MaxBytes
  BY <1>1, <1>3, <1>4 DEF Sound
<1>6. \A i \in 1..Len(w) : w[i].expires = w[i].since + Ttl
  BY <1>3 DEF Within, Sound
<1>7. Sound(w, b)
  BY <1>3, <1>5, <1>6 DEF Sound
<1>8. QED
  BY <1>7 DEF w

\* What the entry that is replaced weighs, and what is left without it.
LEMMA ReplacedWeighs ==
    ASSUME Sound(cache, bytes), NEW k
    PROVE  Total(Without(cache, {k})) = Total(cache) - Replaced(k)
<1>1. Sizes \subseteq Nat /\ cache \in Seq(Entry) /\ Distinct(cache)
  BY CacheAssumption DEF Sound
<1>2. DOMAIN cache = 1..Len(cache) /\ Total(cache) \in Nat
  BY <1>1, TotalIsNat, LenProperties
<1>3. CASE Of(k) = {}
  <2>1. \A i \in 1..Len(cache) : cache[i].key # k
    BY <1>2, <1>3 DEF Of, ToSet
  <2>2. Without(cache, {k}) = cache
    BY <1>1, <2>1, WithoutKey
  <2>3. QED
    BY <1>2, <1>3, <2>2 DEF Replaced
<1>4. CASE Of(k) # {}
  <2> DEFINE e == CHOOSE x \in Of(k) : TRUE
  <2>1. e \in Of(k)
    BY <1>4
  <2>2. Replaced(k) = e.size
    BY <1>4 DEF Replaced
  <2> HIDE DEF e
  <2>3. PICK i \in 1..Len(cache) : cache[i] = e /\ e.key = k
    BY <1>2, <2>1 DEF Of, ToSet
  <2>4. Total(Without(cache, {k})) = Total(cache) - cache[i].size
    BY <1>1, <2>3, WithoutKey
  <2>5. QED
    BY <2>2, <2>3, <2>4
<1>5. QED
  BY <1>3, <1>4

\* One entry more, of a key of its own.
LEMMA OneMore ==
    ASSUME NEW q \in Seq(Entry), NEW e \in Entry,
           Distinct(q), \A i \in 1..Len(q) : q[i].key # e.key,
           \A i \in 1..Len(q) : q[i].expires = q[i].since + Ttl, e.expires = e.since + Ttl
    PROVE  /\ Append(q, e) \in Seq(Entry) /\ Len(Append(q, e)) = Len(q) + 1
           /\ Distinct(Append(q, e))
           /\ \A i \in 1..Len(q)+1 : Append(q, e)[i].expires = Append(q, e)[i].since + Ttl
           /\ Total(Append(q, e)) = Total(q) + e.size
<1> DEFINE a == Append(q, e)
           m == Len(q)
<1>1. /\ a \in Seq(Entry) /\ Len(a) = m + 1 /\ m \in Nat /\ a[m + 1] = e
      /\ \A i \in 1..m : a[i] = q[i]
  BY AppendProperties, LenProperties
<1>2. Total(a) = Total(q) + e.size
  BY TotalOf
<1> HIDE DEF a
<1>3. \A i \in 1..m+1 : i \in 1..m \/ i = m + 1
  BY <1>1
<1>4. \A i \in 1..m+1 : a[i].expires = a[i].since + Ttl
  BY <1>1, <1>3
<1>5. Distinct(a)
  <2>1. SUFFICES ASSUME NEW i \in 1..m+1, NEW j \in 1..m+1, a[i].key = a[j].key PROVE i = j
    BY <1>1 DEF Distinct
  <2>2. CASE i \in 1..m /\ j \in 1..m
    BY <1>1, <2>1, <2>2 DEF Distinct
  <2>3. QED
    BY <1>1, <1>3, <2>1, <2>2
<1>6. QED
  BY <1>1, <1>2, <1>4, <1>5 DEF a

\* A hit moves its entry to the end.
LEMMA ServeKeeps ==
    ASSUME CacheInv, NEW c \in Callers, NEW k \in Key, ServePage(c, k)
    PROVE  CacheInv' /\ Drift' = Drift
<1>1. /\ CacheTypeOK /\ Sound(cache, bytes) /\ Sizes \subseteq Nat /\ Ttl \in Nat
      /\ cache \in Seq(Entry) /\ Distinct(cache) /\ DOMAIN cache = 1..Len(cache)
  BY LenProperties, CacheAssumption DEF CacheInv, Sound
<1>2. PICK e \in Hits(k) : cache' = Append(Without(cache, {k}), e) /\ served' = e
  BY DEF ServePage
<1>3. PICK i \in 1..Len(cache) : cache[i] = e /\ e.key = k /\ now < e.expires
  BY <1>1, <1>2 DEF Hits, Of, ToSet
<1>4. e \in Entry /\ e.expires = e.since + Ttl
  BY <1>1, <1>3, ElementOfSeq DEF Sound
<1> DEFINE w == Without(cache, {k})
<1>5. /\ w \in Seq(Entry) /\ Distinct(w)
      /\ \A j \in 1..Len(w) : w[j].key # e.key
      /\ \A j \in 1..Len(w) : w[j].expires = w[j].since + Ttl
  <2>1. /\ w \in Seq(Entry) /\ Distinct(w) /\ Within(w, cache)
        /\ \A j \in 1..Len(w) : w[j].key \notin {k}
    BY <1>1, WithoutIsLess
  <2> HIDE DEF w
  <2>2. \A j \in 1..Len(w) : w[j].expires = w[j].since + Ttl
    BY <1>1, <2>1, SMTT(30) DEF Within, Sound
  <2>3. QED
    BY <1>3, <2>1, <2>2
<1>6. Len(w) = Len(cache) - 1 /\ Total(w) = Total(cache) - e.size
  BY <1>1, <1>3, WithoutKey
<1>7. cache' = Append(w, e)
  BY <1>2
<1> HIDE DEF w
<1>8. /\ cache' \in Seq(Entry) /\ Len(cache') = Len(w) + 1 /\ Distinct(cache')
      /\ \A j \in 1..Len(w)+1 : cache'[j].expires = cache'[j].since + Ttl
      /\ Total(cache') = Total(w) + e.size
  BY <1>4, <1>5, <1>7, OneMore
<1>9. Len(cache) \in Nat /\ Total(cache) \in Nat /\ e.size \in Nat
  BY <1>1, <1>4, TotalIsNat, LenProperties DEF Entry
<1>10. Len(cache') = Len(cache) /\ Total(cache') = Total(cache)
  BY <1>6, <1>8, <1>9
<1>11. bytes' = bytes /\ now' = now /\ call' = call
  BY DEF ServePage
<1>12. Sound(cache', bytes')
  BY <1>1, <1>8, <1>10, <1>11 DEF Sound
<1>13. CacheTypeOK'
  BY <1>1, <1>2, <1>4, <1>8, <1>11 DEF CacheTypeOK
<1>14. ServedIsFresh'
  <2>1. now \in Nat /\ e.since \in Nat
    BY <1>1, <1>4 DEF CacheTypeOK, Entry
  <2>2. now - e.since < Ttl
    BY <1>1, <1>3, <1>4, <2>1
  <2>3. QED
    BY <1>2, <1>11, <2>2 DEF ServedIsFresh
<1>15. CacheInv'
  BY <1>12, <1>13, <1>14 DEF CacheInv
<1>16. QED
  BY <1>10, <1>11, <1>15 DEF Drift

\* A fetch begins or fails, or time passes: the cache stays.
LEMMA IdleKeeps ==
    ASSUME CacheInv,
           \/ Tick \/ UNCHANGED cacheVars
           \/ \E c \in Callers : Fail(c)
           \/ \E c \in Callers, k \in Key, bypass \in BOOLEAN : Miss(c, k, bypass)
    PROVE  CacheInv' /\ Drift' = Drift
<1>1. cache' = cache /\ bytes' = bytes
  BY DEF Tick, cacheVars, Fail, Miss
<1>2. (served' = Nothing) \/ (served' = served /\ now' = now)
  BY DEF Tick, cacheVars, Fail, Miss
<1>3. CacheTypeOK /\ Sound(cache, bytes) /\ ServedIsFresh
  BY DEF CacheInv
<1>4. Sound(cache', bytes') /\ ServedIsFresh'
  BY <1>1, <1>2, <1>3 DEF ServedIsFresh
<1>5. CacheTypeOK'
  <2>1. CASE Tick
    BY <1>3, <2>1 DEF Tick, CacheTypeOK
  <2>2. CASE UNCHANGED cacheVars
    BY <1>3, <2>2 DEF cacheVars, CacheTypeOK
  <2>3. ASSUME NEW c \in Callers, Fail(c) PROVE CacheTypeOK'
    BY <1>3, <2>3 DEF Fail, CacheTypeOK
  <2>4. ASSUME NEW c \in Callers, NEW k \in Key, NEW b \in BOOLEAN, Miss(c, k, b)
        PROVE  CacheTypeOK'
    <3>1. [key |-> k, since |-> now] \in Fetch
      BY <1>3 DEF Fetch, CacheTypeOK
    <3>2. QED
      BY <1>3, <2>4, <3>1 DEF Miss, CacheTypeOK
  <2>5. QED
    BY <2>1, <2>2, <2>3, <2>4
<1>6. CacheInv'
  BY <1>4, <1>5 DEF CacheInv
<1>7. QED
  BY <1>1, <1>6 DEF Drift

\* clear_cache() leaves entries out.
LEMMA ClearKeeps ==
    ASSUME CacheInv, NEW us, Clear(us)
    PROVE  CacheInv'
<1>1. /\ CacheTypeOK /\ Sound(cache, bytes) /\ bytes \in Int
      /\ UNCHANGED <<now, bytes, call>> /\ served' = Nothing
      /\ cache' = Without(cache, us \X Formats)
  BY DEF CacheInv, Clear, CacheTypeOK
<1>2. Sound(cache', bytes')
  BY <1>1, LessIsSound
<1>3. CacheTypeOK' /\ ServedIsFresh'
  BY <1>1, <1>2 DEF CacheTypeOK, Sound, ServedIsFresh
<1>4. QED
  BY <1>2, <1>3 DEF CacheInv

\* The first entries go until both caps hold, or all are gone.
LEMMA EvictedHolds ==
    ASSUME NEW q, NEW n, Len(q) \in Nat
    PROVE  /\ Evicted(q, n) \in 0..Len(q)
           /\ \/ Evicted(q, n) = Len(q)
              \/ /\ Len(q) - Evicted(q, n) <= MaxEntries
                 /\ n - Total(SubSeq(q, 1, Evicted(q, n))) <= MaxBytes
<1> DEFINE D == {d \in 0..Len(q) :
                    \/ d = Len(q)
                    \/ /\ Len(q) - d <= MaxEntries
                       /\ n - Total(SubSeq(q, 1, d)) <= MaxBytes}
<1>1. Len(q) \in D /\ D \subseteq Nat
  OBVIOUS
<1>2. Evicted(q, n) = Min(D)
  BY DEF Evicted, Min
<1>3. Min(D) \in D
  <2> HIDE DEF D
  <2>1. D \in SUBSET Nat /\ D # {}
    BY <1>1
  <2>2. QED
    BY <2>1, LeastIsThere
<1>4. QED
  BY <1>2, <1>3

\* The last entries of a sequence are entries of it.
LEMMA LastOnes ==
    ASSUME NEW q \in Seq(Entry), NEW d \in 0..Len(q), Distinct(q),
           \A i \in 1..Len(q) : q[i].expires = q[i].since + Ttl
    PROVE  /\ SubSeq(q, d + 1, Len(q)) \in Seq(Entry)
           /\ Len(SubSeq(q, d + 1, Len(q))) = Len(q) - d
           /\ Distinct(SubSeq(q, d + 1, Len(q)))
           /\ \A i \in 1..Len(q)-d :
                 SubSeq(q, d + 1, Len(q))[i].expires = SubSeq(q, d + 1, Len(q))[i].since + Ttl
<1> DEFINE m == Len(q)
           s == SubSeq(q, d + 1, m)
<1>1. s \in Seq(Entry) /\ Len(s) = m - d /\ (\A i \in 1..m-d : s[i] = q[d + i]) /\ m \in Nat
  BY LenProperties
<1> HIDE DEF s
<1>2. \A i \in 1..m-d : d + i \in 1..m
  BY <1>1
<1>3. \A i \in 1..m-d : s[i].expires = s[i].since + Ttl
  BY <1>1, <1>2
<1>4. Distinct(s)
  <2>1. SUFFICES ASSUME NEW i \in 1..m-d, NEW j \in 1..m-d, s[i].key = s[j].key PROVE i = j
    BY <1>1 DEF Distinct
  <2>2. q[d + i].key = q[d + j].key /\ d + i \in 1..m /\ d + j \in 1..m
    BY <1>1, <1>2, <2>1
  <2>3. d + i = d + j
    BY <2>2 DEF Distinct
  <2>4. QED
    BY <1>1, <2>3
<1>5. QED
  BY <1>1, <1>3, <1>4 DEF s

\* A page is stored: it replaces the entry of its key, and others make room.
LEMMA StoreKeeps ==
    ASSUME CacheInv, NEW c \in Callers, Store(c)
    PROVE  CacheInv' /\ Drift' = Drift
<1>1. /\ CacheTypeOK /\ Sound(cache, bytes) /\ Sizes \subseteq Nat /\ Ttl \in Nat
      /\ MaxEntries \in Nat /\ MaxBytes \in Nat /\ bytes \in Int
      /\ cache \in Seq(Entry) /\ Distinct(cache)
  BY CacheAssumption DEF CacheInv, Sound, CacheTypeOK
<1>2. call[c] \in Fetch /\ call[c].key \in Key /\ call[c].since \in Nat
  BY <1>1 DEF Store, CacheTypeOK, Fetch
<1> DEFINE f == call[c]
           k == f.key
           w == Without(cache, {k})
<1>3. PICK s \in Sizes :
        LET e == [key |-> k, since |-> f.since, size |-> s, expires |-> Expiry(f)]
            q == Append(w, e)
            n == bytes - Replaced(k) + s
            d == Evicted(q, n)
        IN /\ cache' = SubSeq(q, d + 1, Len(q))
           /\ bytes' = n - Total(SubSeq(q, 1, d))
  BY DEF Store
<1> DEFINE e == [key |-> k, since |-> f.since, size |-> s, expires |-> Expiry(f)]
           q == Append(w, e)
           n == bytes - Replaced(k) + s
           d == Evicted(q, n)
           p == SubSeq(q, 1, d)
           r == SubSeq(q, d + 1, Len(q))
<1>4. cache' = r /\ bytes' = n - Total(p)
  BY <1>3
<1>5. e \in Entry /\ e.key = k /\ e.size = s /\ s \in Nat /\ e.expires = e.since + Ttl
  BY <1>1, <1>2 DEF Entry, Expiry
<1>6. /\ w \in Seq(Entry) /\ Distinct(w)
      /\ \A j \in 1..Len(w) : w[j].key # e.key
      /\ \A j \in 1..Len(w) : w[j].expires = w[j].since + Ttl
  <2>1. /\ w \in Seq(Entry) /\ Distinct(w) /\ Within(w, cache)
        /\ \A j \in 1..Len(w) : w[j].key \notin {k}
    BY <1>1, WithoutIsLess
  <2> HIDE DEF w
  <2>2. \A j \in 1..Len(w) : w[j].expires = w[j].since + Ttl
    BY <1>1, <2>1 DEF Within, Sound
  <2>3. QED
    BY <1>5, <2>1, <2>2
<1>7. Total(w) = Total(cache) - Replaced(k)
  BY <1>1, ReplacedWeighs
<1> HIDE DEF w, e
<1>8. /\ q \in Seq(Entry) /\ Distinct(q)
      /\ \A i \in 1..Len(q) : q[i].expires = q[i].since + Ttl
      /\ Total(q) = Total(w) + s
  BY <1>5, <1>6, OneMore
<1> HIDE DEF q, n
<1>9. d \in 0..Len(q) /\ (d = Len(q) \/ (Len(q) - d <= MaxEntries /\ n - Total(p) <= MaxBytes))
  BY <1>8, EvictedHolds, LenProperties
<1> HIDE DEF d
<1>10. /\ r \in Seq(Entry) /\ Len(r) = Len(q) - d /\ Distinct(r)
       /\ \A i \in 1..Len(r) : r[i].expires = r[i].since + Ttl
  BY <1>8, <1>9, LastOnes
<1>11. p \in Seq(Entry) /\ Len(q) \in Nat
  BY <1>8, <1>9, LenProperties
<1>12. Total(q) = Total(p) + Total(r)
  BY <1>1, <1>8, <1>9, TotalSplits
<1> HIDE DEF p, r
<1>13. /\ Total(p) \in Nat /\ Total(r) \in Nat /\ Total(w) \in Nat
       /\ Total(cache) \in Nat /\ Total(q) \in Nat
  BY <1>1, <1>6, <1>8, <1>10, <1>11, TotalIsNat
<1>14. n = bytes - (Total(cache) - Total(w)) + s /\ n \in Int
  <2> DEFINE x == Replaced(k)
             y == Total(cache)
             z == Total(w)
  <2>1. z = y - x /\ y \in Nat /\ z \in Nat /\ n = bytes - x + s
    BY <1>7, <1>13 DEF n
  <2>2. x \in Int
    <3>1. CASE Of(k) = {}
      BY <3>1 DEF Replaced
    <3>2. CASE Of(k) # {}
      <4>1. PICK o : o = CHOOSE x_1 \in Of(k) : TRUE
        OBVIOUS
      <4>2. o \in Of(k)
        BY <3>2, <4>1
      <4>3. o \in Entry
        <5>1. DOMAIN cache = 1..Len(cache)
          BY <1>1, LenProperties
        <5>2. PICK i \in 1..Len(cache) : o = cache[i]
          BY <4>2, <5>1 DEF Of, ToSet
        <5>3. QED
          BY <1>1, <5>2, ElementOfSeq
      <4>4. x = o.size
        BY <3>2, <4>1 DEF Replaced
      <4>5. o.size \in Sizes
        BY <4>3 DEF Entry
      <4>6. Sizes \subseteq Nat /\ \A i \in Nat : i \in Int
        BY <1>1
      <4>7. o.size \in Int
        BY <4>5, <4>6
      <4> HIDE DEF x
      <4>8. QED
        BY <4>4, <4>7
    <3>3. QED
      BY <3>1, <3>2
  <2> HIDE DEF x, y, z
  <2>3. n = bytes - (y - z) + s /\ n \in Int
    BY <1>1, <1>5, <2>1, <2>2
  <2>4. QED
    BY <2>3 DEF y, z
<1>15. bytes' - Total(r) = bytes - Total(cache) /\ bytes' \in Int
  <2> DEFINE x == Total(cache)
             y == Total(w)
             z == Total(q)
             t == Total(p)
             u == Total(r)
  <2>1. bytes' = n - t
    BY <1>4
  <2>2. n = bytes - (x - y) + s /\ z = y + s /\ z = t + u
    BY <1>8, <1>12, <1>14
  <2>3. x \in Nat /\ y \in Nat /\ t \in Nat /\ u \in Nat /\ s \in Nat /\ bytes \in Int
    BY <1>1, <1>5, <1>13
  <2> HIDE DEF x, y, z, t, u
  <2>4. bytes' - u = bytes - x /\ bytes' \in Int
    BY <2>1, <2>2, <2>3
  <2>5. QED
    BY <2>4 DEF x, u
<1>16. Total(r) <= bytes'
  BY <1>1, <1>13, <1>15 DEF Sound
<1>17. Len(r) <= MaxEntries /\ Total(r) <= MaxBytes
  <2>1. CASE d = Len(q)
    <3>1. Len(r) = 0
      BY <1>10, <1>11, <2>1
    <3>2. r = <<>>
      BY <1>10, <3>1, EmptySeq
    <3>3. Total(r) = 0
      BY <3>2, TotalOf
    <3>4. QED
      BY <1>1, <3>1, <3>3
  <2>2. CASE Len(q) - d <= MaxEntries /\ n - Total(p) <= MaxBytes
    BY <1>1, <1>4, <1>10, <1>13, <1>15, <1>16, <2>2
  <2>3. QED
    BY <1>9, <2>1, <2>2
<1>18. Sound(cache', bytes')
  BY <1>4, <1>10, <1>16, <1>17 DEF Sound
<1>19. served' = Nothing /\ now' = now /\ call' = [call EXCEPT ![c] = Nothing]
  BY DEF Store
<1>20. CacheTypeOK' /\ ServedIsFresh'
  BY <1>1, <1>4, <1>10, <1>15, <1>19 DEF CacheTypeOK, ServedIsFresh
<1>21. CacheInv'
  BY <1>18, <1>20 DEF CacheInv
<1>22. QED
  BY <1>4, <1>15, <1>21 DEF Drift

\* Every step keeps the invariant; no step but clear_cache() takes the count off.
LEMMA CacheStep ==
    ASSUME CacheInv, [CacheNext]_cacheVars
    PROVE  /\ CacheInv'
           /\ Drift' # Drift => \E us \in SUBSET Urls : Clear(us)
<1>1. ASSUME NEW c \in Callers, NEW k \in Key, ServePage(c, k)
      PROVE  CacheInv' /\ Drift' = Drift
  BY <1>1, ServeKeeps
<1>2. ASSUME NEW c \in Callers, Store(c)
      PROVE  CacheInv' /\ Drift' = Drift
  BY <1>2, StoreKeeps
<1>3. CASE \/ Tick \/ UNCHANGED cacheVars
           \/ \E c \in Callers : Fail(c)
           \/ \E c \in Callers, k \in Key, bypass \in BOOLEAN : Miss(c, k, bypass)
  BY <1>3, IdleKeeps
<1>4. CASE ClearAll \/ \E u \in Urls : ClearUrl(u)
  <2>1. PICK us \in SUBSET Urls : Clear(us)
    BY <1>4 DEF ClearAll, ClearUrl
  <2>2. QED
    BY <2>1, ClearKeeps
<1>5. QED
  BY <1>1, <1>2, <1>3, <1>4 DEF CacheNext

\* The caps hold for what is really in the cache, whatever its count of bytes has
\* become by clear_cache() and by concurrent fetches of a page.
THEOREM CapsAreKept == CacheSpec => []CapsHold
<1>1. CacheInv => CapsHold
  BY DEF CacheInv, Sound, CapsHold
<1>2. CacheInv /\ [CacheNext]_cacheVars => CacheInv'
  BY CacheStep
<1>3. QED
  BY <1>1, <1>2, CacheBegins, PTL DEF CacheSpec

\* A page served from the cache was asked of the site less than the time to live
\* ago, for any callers and any time that fetches take.
THEOREM ServedFresh == CacheSpec => []ServedIsFresh
<1>1. CacheInv => ServedIsFresh
  BY DEF CacheInv
<1>2. CacheInv /\ [CacheNext]_cacheVars => CacheInv'
  BY CacheStep
<1>3. QED
  BY <1>1, <1>2, CacheBegins, PTL DEF CacheSpec

\* Stores and evictions keep the count of bytes as far from the sum as it was:
\* only clear_cache() takes it off.
THEOREM ClearDrifts == CacheSpec => OnlyClearDrifts
<1>1. CacheInv /\ [CacheNext]_cacheVars =>
          CacheInv' /\ (Drift' # Drift => \E us \in SUBSET Urls : Clear(us))
  BY CacheStep
<1>2. QED
  BY <1>1, CacheBegins, PTL DEF CacheSpec, OnlyClearDrifts

=============================================================================
