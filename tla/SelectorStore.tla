---------------------------- MODULE SelectorStore ----------------------------
(***************************************************************************)
(* The selectors the adaptive parser (parser/adaptive.py) keeps for one    *)
(* field of one kind of page, and its tasks: extractions of the field and  *)
(* the calls that teach it.  An extraction loads the selectors known best, *)
(* tries them on the page, heals if none matches, and writes what came of  *)
(* it under the lock of its parser; each tool call has a parser of its     *)
(* own, all share the connection to the database (Connections).            *)
(*                                                                         *)
(* Pages are as the site makes them, with a selector that matches, until   *)
(* it is redesigned.  A confidence is kept by its interval: 0, between 0   *)
(* and 1, and 1.  A statement and its commit are one step, which a task    *)
(* that is cancelled has done or not.                                      *)
(***************************************************************************)
EXTENDS Connections

CONSTANTS
    Parsers, ParserOf,  \* ParserOf[t]: the parser of task t
    Primary,            \* the selector the callers ask for
    Repaired,           \* the one that healing derives after the redesign
    Limit,              \* selectors loaded at most
    None

ASSUME StoreAssumption ==
    /\ ParserOf \in [Tasks -> Parsers]
    /\ Limit \in Nat
    /\ None \notin 0..2

VARIABLES
    confidence,     \* confidence[s]: of the row of s, or None
    redesigned,
    job,            \* job[t]: what t is at
    heals           \* history: how often healing has stored the selector, or None once
                    \* Limit has kept a matching selector from being loaded

svars == <<confidence, redesigned, job, heals>>
vars == <<cvars, svars>>

Sels == {Primary, Repaired}
Levels == 0..2      \* 0, between 0 and 1, 1

\* A task loads ("load"), waits for the lock of its parser ("lock"), or holds it
\* to make the change how to the row of sel ("write").
Job == [stage : {"load", "lock", "write"}, sel : Sels \cup {None},
        how : {"success", "failure", "heal", "train", "none"}]
Idle == [stage |-> "idle"]

TypeOK ==
    /\ ConnTypeOK
    /\ confidence \in [Sels -> Levels \cup {None}]
    /\ redesigned \in BOOLEAN
    /\ job \in [Tasks -> Job \cup {Idle}]
    /\ heals \in (0..(Cardinality(Tasks) + 1)) \cup {None}

Init ==
    /\ ConnInit
    /\ confidence = [s \in Sels |-> None]
    /\ redesigned = FALSE
    /\ job = [t \in Tasks |-> Idle]
    /\ heals = 0

At(t, stages) == job[t].stage \in stages

Stored == {s \in Sels : confidence[s] # None}
Matching == IF redesigned THEN Repaired ELSE Primary

-----------------------------------------------------------------------------
(* What becomes of a confidence *)

\* MIN(1.0, c * 1.05 + 0.02), of a new row 1.0
Raised(c) == CASE c \in {None, 2} -> {2} [] c = 1 -> {1, 2} [] c = 0 -> {1}

\* MAX(0.0, c * 0.85 - 0.05), of a new row 0.5
Lowered(c) == CASE c \in {None, 2} -> {1} [] c = 1 -> {0, 1} [] c = 0 -> {0}

\* c * 0.99, if it is long unused
Decayed(c) == IF c = 2 THEN {1, 2} ELSE {c}

Changed(how, c) ==
    CASE how = "success" -> Raised(c)
      [] how = "failure" -> Lowered(c)
      [] how = "heal" -> {1, 2}
      [] how = "train" -> {2}

-----------------------------------------------------------------------------
(* Tasks *)

\* Mutant of Loads: what healing has stored is not looked up.
LoadsTaught(l) == l = Stored \ {Repaired}

\* The best known selectors, Limit of them.
Loads(l) ==
    /\ l \subseteq Stored
    /\ Cardinality(l) = IF Cardinality(Stored) < Limit THEN Cardinality(Stored) ELSE Limit
    /\ \A s \in l, r \in Stored \ l : confidence[s] >= confidence[r]

\* extract() starts a task for the field, which no metadata of the page answers.
ExtractBegins(t) ==
    /\ At(t, {"idle"})
    /\ job' = [job EXCEPT ![t] = [stage |-> "load", sel |-> None, how |-> "none"]]
    /\ conn' = [conn EXCEPT ![t] = Asked]
    /\ UNCHANGED <<registered, generation, open, ready, closer, closes, failures, cancels,
                   confidence, redesigned, heals>>

\* train() teaches the selector that will match.
TrainBegins(t) ==
    /\ At(t, {"idle"})
    /\ job' = [job EXCEPT ![t] = [stage |-> "lock", sel |-> Repaired, how |-> "train"]]
    /\ UNCHANGED <<cvars, confidence, redesigned, heals>>

\* Loaded, tried and, if nothing matched, healed: the first that matches is the
\* selector of the configuration or a loaded one; healing may find nothing.
Extract(t) ==
    /\ At(t, {"load"}) /\ Conns(t, {"has"}) /\ Works(t)
    /\ \E l \in SUBSET Sels, how \in {"success", "failure", "heal"} :
          /\ Loads(l)
          /\ (how = "success") = (Matching \in l \cup {Primary})
          /\ job' = [job EXCEPT ![t] = [stage |-> "lock", how |-> how,
                                        sel |-> IF how = "failure" THEN Primary ELSE Matching]]
          /\ heals' = IF Matching \in Stored \ l /\ Cardinality(l) = Limit THEN None ELSE heals
    /\ conn' = [conn EXCEPT ![t] = NoConn]
    /\ UNCHANGED <<registered, generation, open, ready, closer, closes, failures, cancels,
                   confidence, redesigned>>

TakeParserLock(t) ==
    /\ At(t, {"lock"})
    /\ \A u \in Tasks : At(u, {"write"}) => ParserOf[u] # ParserOf[t]
    /\ job' = [job EXCEPT ![t].stage = "write"]
    /\ conn' = [conn EXCEPT ![t] = Asked]
    /\ UNCHANGED <<registered, generation, open, ready, closer, closes, failures, cancels,
                   confidence, redesigned, heals>>

\* Mutant of Write: the lock of the parser is kept.
WriteKeeping(t) ==
    /\ At(t, {"write"}) /\ Conns(t, {"has"}) /\ Works(t)
    /\ \E c \in Changed(job[t].how, confidence[job[t].sel]) :
          confidence' = [confidence EXCEPT ![job[t].sel] = c]
    /\ conn' = [conn EXCEPT ![t] = NoConn]
    /\ UNCHANGED <<registered, generation, open, ready, closer, closes, failures, cancels,
                   job, redesigned, heals>>

Write(t) ==
    /\ At(t, {"write"}) /\ Conns(t, {"has"}) /\ Works(t)
    /\ \E c \in Changed(job[t].how, confidence[job[t].sel]) :
          confidence' = [confidence EXCEPT ![job[t].sel] = c]
    /\ heals' = IF heals # None /\ job[t].how = "heal" /\ heals <= Cardinality(Tasks)
                THEN heals + 1 ELSE heals
    /\ job' = [job EXCEPT ![t] = Idle]
    /\ conn' = [conn EXCEPT ![t] = NoConn]
    /\ UNCHANGED <<registered, generation, open, ready, closer, closes, failures, cancels,
                   redesigned>>

Failing(t) ==
    At(t, {"load", "write"}) /\ (Conns(t, {"error"}) \/ (Conns(t, {"has"}) /\ ~Works(t)))

\* The connection failed or was closed: the exception releases the lock and is
\* the field's result, None, even if a value was found.
Fails(t) ==
    /\ Failing(t)
    /\ job' = [job EXCEPT ![t] = Idle]
    /\ conn' = [conn EXCEPT ![t] = NoConn]
    /\ UNCHANGED <<registered, generation, open, ready, closer, closes, failures, cancels,
                   confidence, redesigned, heals>>

\* t is cancelled at one of its awaits, by worker_timeout or with the tool call
\* it serves: it gives up the locks and writes nothing more.
Cancelled(t) ==
    /\ ~At(t, {"idle"})
    /\ Abandoned(t)
    /\ job' = [job EXCEPT ![t] = Idle]
    /\ UNCHANGED <<confidence, redesigned, heals>>

\* decay_stale_selectors(), on some of the rows, takes no lock.
Decay ==
    /\ registered \in ready
    /\ \E s \in Stored, c \in Levels :
          /\ c \in Decayed(confidence[s])
          /\ confidence' = [confidence EXCEPT ![s] = c]
    /\ UNCHANGED <<cvars, redesigned, job, heals>>

Redesign ==
    /\ ~redesigned
    /\ redesigned' = TRUE
    /\ UNCHANGED <<cvars, confidence, job, heals>>

-----------------------------------------------------------------------------
(* Specification *)

Proceed(t) == (Connecting(t) /\ UNCHANGED svars) \/ Extract(t) \/ Write(t) \/ Fails(t)

Next ==
    \/ \E t \in Tasks :
          \/ ExtractBegins(t) \/ TrainBegins(t) \/ Proceed(t) \/ TakeParserLock(t)
          \/ Cancelled(t)
    \/ Closing /\ UNCHANGED svars
    \/ Decay \/ Redesign

Spec == Init /\ [][Next]_vars

\* aiosqlite answers, and asyncio's locks serve their waiters in order.
Fairness ==
    \A t \in Tasks : WF_vars(Proceed(t)) /\ SF_vars(TakeParserLock(t))

FairSpec == Spec /\ Fairness

-----------------------------------------------------------------------------
(* Properties *)

\* The tasks of all parsers have one connection open between them, but for those
\* that closes, failures and cancellations leave behind, and every number, lock
\* and connection they go by is one there is.
ConnectionsAreFew == TypeOK /\ OpenIsBounded

\* A task never meets a connection without the schema, nor a closed one before
\* anybody has closed: it fails only after a close or a creation that failed, and
\* not because the creation it waits for is cancelled.
ErrorIsExcused == (\E t \in Tasks : Failing(t)) => closes > 0 \/ failures > 0

\* After a redesign the selector is healed once, by all the tasks that looked
\* before it was stored, and found in the store from then on; unless the
\* selectors loaded leave it out.
HealingIsLearnt == heals # None => heals <= Cardinality(Tasks)

\* Every task ends, whichever locks were dropped and connections closed: the
\* lock of a parser is held while that of the loop is waited for, never the
\* other way round.
TaskEnds == \A t \in Tasks : ~At(t, {"idle"}) ~> At(t, {"idle"})

=============================================================================
