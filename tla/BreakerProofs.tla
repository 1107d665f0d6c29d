---------------------------- MODULE BreakerProofs ----------------------------
(***************************************************************************)
(* BreakerInv is inductive, for any number of workers and any thresholds.  *)
(***************************************************************************)
EXTENDS CircuitBreaker, FiniteSetTheorems, TLAPS

\* The workers whose probe is under way are finitely many.
LEMMA ProbingFinite == IsFiniteSet(Probing) /\ Cardinality(Probing) \in Nat
BY BreakerAssumption, FS_Subset, FS_CardinalityType DEF Probing

\* Fewer probes under way are still few.
LEMMA FewerProbes ==
    ASSUME TypeOK, NEW S \in SUBSET Probing
    PROVE  /\ Cardinality(S) \in Nat
           /\ Cardinality(S) <= Cardinality(Probing)
BY ProbingFinite, FS_Subset, FS_CardinalityType

\* A worker with no request under way is a typed one.
LEMMA IdleFlight == Idle \in Flight
BY BreakerAssumption DEF Idle, Flight

\* A new breaker satisfies the invariant.
LEMMA BreakerInit == Init => BreakerInv /\ PagesAreHeld
<1> SUFFICES ASSUME Init PROVE BreakerInv /\ PagesAreHeld
  OBVIOUS
<1>1. TypeOK
  <2>1. opened \in BOOLEAN
    BY Zenon DEF Init
  <2>2. QED
    BY <2>1, BreakerAssumption, IdleFlight DEF Init, TypeOK
<1>2. Probing = {}
  BY DEF Init, Probing, Idle
<1>3. Cardinality(Probing) = 0
  BY <1>2, FS_EmptySet
<1>4. PagesAreHeld
  BY DEF Init, PagesAreHeld, Idle
<1>5. QED
  BY <1>1, <1>2, <1>3, <1>4, BreakerAssumption
     DEF Init, BreakerInv, OpenMeansFailing, ProbesAreFew, OpeningIsFresh

\* No step takes a page of a worker, or charges it behind the worker's back.
LEMMA HeldStep == TypeOK /\ PagesAreHeld /\ [Next]_vars => PagesAreHeld'
<1> SUFFICES ASSUME TypeOK, PagesAreHeld, [Next]_vars PROVE PagesAreHeld'
  OBVIOUS
<1> USE BreakerAssumption
<1>1. ASSUME NEW w \in Workers, NEW p \in Pages, NEW probing \in BOOLEAN,
             Depart(w, p, probing)
      PROVE  PagesAreHeld'
  BY <1>1 DEF TypeOK, PagesAreHeld, Depart, Waiting, Flight
<1>2. ASSUME NEW w \in Workers, flight[w].pc # "idle", Arrive(w) \/ GiveBack(w) \/ Leave(w)
      PROVE  PagesAreHeld'
  <2>1. flight[w].page \in Pages
    BY <1>2 DEF TypeOK, PagesAreHeld, Flight
  <2>2. \A v \in Workers \ {w} :
          /\ flight'[v] = flight[v]
          /\ flight[v].pc = "fetch" =>
               flight[v].page \in Pages /\ left'[flight[v].page] = left[flight[v].page]
    BY <1>2, <2>1 DEF TypeOK, PagesAreHeld, Arrive, GiveBack, Leave, Flight
  <2>3. \/ flight'[w] = Idle
        \/ flight'[w].pc = "parse" /\ flight'[w].page = flight[w].page
    BY <1>2, <2>1 DEF TypeOK, Arrive, GiveBack, Leave, Flight
  <2>4. QED
    BY <2>1, <2>2, <2>3 DEF TypeOK, PagesAreHeld, Idle, Flight
<1>3. ASSUME NEW p \in Pages, Waiting(p), UNCHANGED flight,
             \A q \in Pages \ {p} : left'[q] = left[q]
      PROVE  PagesAreHeld'
  BY <1>3 DEF TypeOK, PagesAreHeld, Waiting, Flight
<1>4. CASE Tick
  <2>1. \A w \in Workers : flight'[w].pc = flight[w].pc /\ flight'[w].page = flight[w].page
    BY <1>4 DEF TypeOK, Tick, Flight
  <2>2. QED
    BY <1>4, <2>1 DEF PagesAreHeld, Tick
<1>5. CASE Turn \/ UNCHANGED vars
  BY <1>5 DEF PagesAreHeld, Turn, vars
<1>6. ASSUME NEW w \in Workers, NEW p \in Pages, Ask(w, p) PROVE PagesAreHeld'
  BY <1>1, <1>3, <1>6 DEF Ask, Admit, Probe, Skip, TypeOK
<1>7. ASSUME NEW w \in Workers, Answer(w) PROVE PagesAreHeld'
  BY <1>2, <1>7 DEF Answer, Succeed, Fail, Neutral, ParseRaises, Finish, Cancel
<1>8. ASSUME NEW p \in Pages, Expire(p) PROVE PagesAreHeld'
  BY <1>3, <1>8 DEF Expire, TypeOK
<1>9. QED
  BY <1>4, <1>5, <1>6, <1>7, <1>8 DEF Next

\* Every step keeps the invariant: an admission, a probe, a skip, a report, a
\* timeout, a tick and a turn of the domain.
LEMMA BreakerStep == PagesAreHeld /\ BreakerInv /\ [Next]_vars => BreakerInv'
<1> SUFFICES ASSUME PagesAreHeld, BreakerInv, [Next]_vars PROVE BreakerInv'
  OBVIOUS
<1> USE BreakerAssumption
<1>0. TypeOK /\ IsFiniteSet(Probing) /\ Cardinality(Probing) \in Nat
  BY ProbingFinite DEF BreakerInv
<1>1. ASSUME NEW w \in Workers, NEW p \in Pages, Admit(w, p) PROVE BreakerInv'
  <2>1. TypeOK'
    BY <1>0, <1>1 DEF TypeOK, Admit, Depart, Flight, breaker
  <2>2. Probing' = Probing
    BY <1>0, <1>1 DEF TypeOK, Admit, Depart, Flight, Probing
  <2>3. QED
    BY <1>1, <2>1, <2>2
       DEF BreakerInv, Admit, breaker, OpenMeansFailing, ProbesAreFew, OpeningIsFresh
<1>2. ASSUME NEW w \in Workers, NEW p \in Pages, Probe(w, p) PROVE BreakerInv'
  <2>1. TypeOK'
    BY <1>0, <1>2 DEF TypeOK, Probe, Depart, Flight
  <2>2. Probing' = Probing \cup {w} /\ w \notin Probing
    BY <1>0, <1>2 DEF TypeOK, Probe, Depart, Flight, Probing
  <2>3. Cardinality(Probing') = Cardinality(Probing) + 1
    BY <1>0, <2>2, FS_AddElement
  <2>4. age > FlightTicks
    BY <1>0, <1>2 DEF TypeOK, Probe
  <2>5. QED
    BY <1>0, <1>2, <2>1, <2>3, <2>4
       DEF BreakerInv, TypeOK, Probe, OpenMeansFailing, ProbesAreFew, OpeningIsFresh
<1>3. ASSUME NEW w \in Workers, Answer(w) PROVE BreakerInv'
  <2>0. /\ flight[w].pc # "idle"
        /\ up' = up
        /\ Arrive(w) \/ (flight[w].pc = "fetch" /\ GiveBack(w)) \/ Leave(w)
        /\ RecordSuccess \/ RecordFailure \/ UNCHANGED breaker
    BY <1>3 DEF Answer, Succeed, Fail, Neutral, ParseRaises, Finish, Cancel
  <2>1. TypeOK'
    <3>1. flight' \in [Workers -> Flight]
      <4>1. CASE flight' = [flight EXCEPT ![w] = Idle]
        BY <1>0, <4>1, IdleFlight DEF TypeOK
      <4>2. CASE Arrive(w)
        BY <1>0, <4>2 DEF TypeOK, Arrive, Flight
      <4>3. QED
        BY <2>0, <4>1, <4>2 DEF GiveBack, Leave
    <3>2. left' \in [Pages -> 0..Budget]
      <4>0. flight[w].page \in Pages
        BY <1>0, <2>0 DEF TypeOK, PagesAreHeld, Flight
      <4>1. CASE left' = [left EXCEPT ![flight[w].page] = 0]
        BY <1>0, <4>0, <4>1 DEF TypeOK
      <4>2. CASE flight[w].pc = "fetch" /\ GiveBack(w)
        <5>1. left[flight[w].page] > 0
          BY <4>2 DEF PagesAreHeld
        <5>2. QED
          BY <1>0, <4>0, <4>2, <5>1 DEF TypeOK, GiveBack
      <4>3. QED
        BY <2>0, <4>1, <4>2 DEF Arrive, Leave
    <3>3. CASE RecordSuccess
      <4>1. opened' \in BOOLEAN
        BY <3>3, Zenon DEF RecordSuccess
      <4>2. QED
        BY <1>0, <2>0, <3>1, <3>2, <3>3, <4>1 DEF TypeOK, RecordSuccess
    <3>4. CASE RecordFailure
      BY <1>0, <2>0, <3>1, <3>2, <3>4 DEF TypeOK, RecordFailure
    <3>5. CASE UNCHANGED breaker
      BY <1>0, <2>0, <3>1, <3>2, <3>5 DEF TypeOK, breaker
    <3>6. QED
      BY <2>0, <3>3, <3>4, <3>5
  <2>2. /\ Probing' \in SUBSET Probing
        /\ \A v \in Probing' : flight'[v].age = flight[v].age
    BY <1>0, <2>0 DEF TypeOK, Arrive, GiveBack, Leave, Flight, Idle, Probing
  <2>3. Cardinality(Probing') \in Nat /\ Cardinality(Probing') <= Cardinality(Probing)
    BY <1>0, <2>2, FewerProbes
  <2>4. CASE RecordSuccess
    BY <1>0, <2>1, <2>3, <2>4
       DEF BreakerInv, TypeOK, RecordSuccess, OpenMeansFailing, ProbesAreFew, OpeningIsFresh
  <2>5. CASE RecordFailure
    <3>1. streak' = streak + 1 /\ (streak >= FailThreshold => streak + 1 >= FailThreshold)
      BY <1>0, <2>5 DEF TypeOK, RecordFailure
    <3>2. OpenMeansFailing'
      BY <2>5, <3>1, Zenon DEF BreakerInv, RecordFailure, OpenMeansFailing
    <3>3. opened => opened'
      BY <2>5, Zenon DEF RecordFailure
    <3>4. UNCHANGED <<age, probes>>
      BY <2>5 DEF RecordFailure
    <3>5. opened' /\ ~opened => age' = 0
      BY <3>4 DEF BreakerInv
    <3>6. ASSUME opened', probes' = 0, NEW v \in Probing' PROVE flight'[v].age >= age'
      <4>1. v \in Workers /\ flight'[v].age \in Nat
        BY <2>1 DEF TypeOK, Flight, Probing
      <4>2. QED
        BY <2>2, <3>4, <3>5, <3>6, <4>1 DEF BreakerInv
    <3>7. ~opened' => age' = 0
      BY <3>3, <3>4 DEF BreakerInv
    <3>8. OpeningIsFresh'
      BY <3>4 DEF BreakerInv, OpeningIsFresh
    <3>9. age' > FlightTicks => Cardinality(Probing') <= probes'
      BY <1>0, <2>3, <3>4 DEF BreakerInv, TypeOK
    <3>10. Cardinality(Probing') <= HalfOpenProbe
      BY <1>0, <2>3 DEF BreakerInv, ProbesAreFew
    <3>11. QED
      BY <2>1, <3>2, <3>4, <3>6, <3>7, <3>8, <3>9, <3>10 DEF BreakerInv, ProbesAreFew
  <2>6. CASE UNCHANGED breaker
    BY <1>0, <2>1, <2>2, <2>3, <2>6
       DEF BreakerInv, TypeOK, breaker, OpenMeansFailing, ProbesAreFew, OpeningIsFresh
  <2>7. QED
    BY <2>0, <2>4, <2>5, <2>6
<1>4. ASSUME Tick PROVE BreakerInv'
  <2>1. TypeOK'
    BY <1>0, <1>4 DEF TypeOK, Tick, Flight
  <2>2. /\ Probing' = Probing
        /\ \A w \in Probing : flight'[w].age = flight[w].age + 1
    BY <1>0, <1>4 DEF TypeOK, Tick, Flight, Probing
  <2>3. CASE opened /\ probes = 0
    <3>1. age' > FlightTicks => Probing' = {}
      BY <1>0, <1>4, <2>1, <2>2, <2>3 DEF BreakerInv, TypeOK, Tick, Flight, Probing
    <3>2. age' > FlightTicks => Cardinality(Probing') = 0
      BY <3>1, FS_EmptySet
    <3>3. ASSUME NEW v \in Probing' PROVE flight'[v].age >= age'
      <4>1. flight[v].age \in Nat /\ flight[v].age >= age
        BY <1>0, <2>2, <2>3 DEF BreakerInv, TypeOK, Flight, Probing
      <4>2. flight'[v].age = flight[v].age + 1
        BY <2>2
      <4>3. age' \in {age, age + 1} /\ age \in Int
        BY <1>0, <1>4 DEF TypeOK, Tick
      <4>4. QED
        BY <4>1, <4>2, <4>3
    <3>4. QED
      BY <1>0, <1>4, <2>1, <2>2, <2>3, <3>2, <3>3
         DEF BreakerInv, TypeOK, Tick, OpenMeansFailing, ProbesAreFew, OpeningIsFresh
  <2>4. CASE ~(opened /\ probes = 0)
    BY <1>0, <1>4, <2>1, <2>2, <2>4
       DEF BreakerInv, TypeOK, Tick, OpenMeansFailing, ProbesAreFew, OpeningIsFresh
  <2>5. QED
    BY <2>3, <2>4
<1>5. CASE Turn \/ UNCHANGED vars
  <2>1. TypeOK' /\ UNCHANGED <<breaker, flight>>
    BY <1>0, <1>5 DEF TypeOK, Turn, vars, breaker
  <2>2. QED
    BY <2>1 DEF BreakerInv, OpenMeansFailing, ProbesAreFew, OpeningIsFresh, Probing, breaker
<1>6. ASSUME UNCHANGED <<breaker, flight, up>>, left' \in [Pages -> 0..Budget]
      PROVE  BreakerInv'
  <2>1. TypeOK'
    BY <1>0, <1>6 DEF TypeOK, breaker
  <2>2. QED
    BY <1>6, <2>1
       DEF BreakerInv, OpenMeansFailing, ProbesAreFew, OpeningIsFresh, Probing, breaker
<1>7. ASSUME NEW w \in Workers, NEW p \in Pages, Skip(w, p) PROVE BreakerInv'
  BY <1>0, <1>6, <1>7 DEF TypeOK, Skip, Waiting
<1>8. ASSUME NEW p \in Pages, Expire(p) PROVE BreakerInv'
  BY <1>0, <1>6, <1>8 DEF TypeOK, Expire
<1>9. QED
  BY <1>1, <1>2, <1>3, <1>4, <1>5, <1>7, <1>8 DEF Next, Ask

\* The breaker is open exactly while its streak is at the threshold, it lets few
\* probes through, because a worker does not outlive the cooldown, and the probes of
\* an earlier opening do not count in this one.
THEOREM BreakerSafe == Spec => [](OpenMeansFailing /\ ProbesAreFew /\ OpeningIsFresh)
<1>1. BreakerInv => OpenMeansFailing /\ ProbesAreFew /\ OpeningIsFresh
  BY DEF BreakerInv
<1>2. BreakerInv => TypeOK
  BY DEF BreakerInv
<1>3. QED
  BY <1>1, <1>2, BreakerInit, HeldStep, BreakerStep, PTL DEF Spec

=============================================================================
