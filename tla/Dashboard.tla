------------------------------ MODULE Dashboard ------------------------------
(***************************************************************************)
(* The dashboard (dashboard/app.py): a page with four buttons, each a      *)
(* request of a threaded server.  A request loads the state file when it   *)
(* begins, works on what it loaded while others do the same, and saves the *)
(* whole of it, heal five times over.  Saving truncates the file and then  *)
(* writes it; a file that cannot be parsed is read as the default state.   *)
(* A run calls the collector (collectors/brightdata.py), which triggers a  *)
(* job elsewhere and polls for its rows.                                   *)
(*                                                                         *)
(* What a request answers is rendered later, and not in the order of the   *)
(* saves: an answer travels, heal's is held back half a second for the     *)
(* animation, and after a reset the page asks for the state first.  The    *)
(* page may be reloaded at any time: it then asks for the state, and hears *)
(* no more of the requests that go on in the server.                       *)
(*                                                                         *)
(* Of the state file the model keeps what the products collector and its   *)
(* incidents say; timelines, histories, evidence and amounts are left out. *)
(* There is one page, and one request of a kind at a time, also after a    *)
(* reload.                                                                 *)
(***************************************************************************)
EXTENDS Integers, FiniteSets, SequencesExt

CONSTANTS
    MaxRequests,    \* bound on the requests under way at a time
    MaxIncidents,   \* bound on the incidents on record
    MaxPolls,       \* poll_timeout / poll_interval
    MaxCrashes,     \* bound on the restarts of the server
    Faults          \* subset of {"exception"}

ASSUME DashboardAssumption ==
    /\ {MaxRequests, MaxPolls} \subseteq Nat \ {0}
    /\ {MaxIncidents, MaxCrashes} \subseteq Nat

Buttons == {"run", "break", "heal", "reset"}
Ops == Buttons \cup {"load"}

VARIABLES
    saved,      \* what was last written to the state file in whole
    form,       \* whether the file is "whole", "empty" or "garbled" now
    job,        \* job[op]: the request of a button, or that of a page being loaded
    shown,      \* the status the page shows
    crashes,
    blurred     \* (history) did what is shown overlap another request?

vars == <<saved, form, job, shown, crashes, blurred>>

\* some is records > 0, stale the prices' flag, fixed whether there is an
\* after_selector, incidents whether each is open.
Status == {"healthy", "failed", "healing", "recovered"}
State == [status : Status, some : BOOLEAN, stale : BOOLEAN, fixed : BOOLEAN,
          incidents : BoundedSeq(BOOLEAN, MaxIncidents)]

DEFAULT_STATE ==
    [status |-> "healthy", some |-> TRUE, stale |-> FALSE, fixed |-> FALSE, incidents |-> <<>>]

\* A request works ("work", or "poll" on the collector) or writes the file it has
\* emptied.  step counts its saves, polls its polls; heard is whether the page that
\* made it is there still; whole (history) is whether it found the file whole, and
\* alone (history) whether no other that saves was under way with it, or began later.
Job == [stage : {"work", "poll", "write"}, step : 1..5, polls : 0..MaxPolls, mem : State,
        heard : BOOLEAN, whole : BOOLEAN, alone : BOOLEAN]
\* The page asks for the state ...
Asking == [stage : {"load"}, alone : BOOLEAN]
\* ... and has an answer to render.
Answer == [stage : {"answer"}, status : Status, alone : BOOLEAN]
Idle == [stage |-> "idle"]
\* The page waits for a request that has died: its button stays disabled.
Stuck == [stage |-> "stuck"]

TypeOK ==
    /\ saved \in State
    /\ form \in {"whole", "empty", "garbled"}
    /\ job \in [Ops -> Job \cup Asking \cup Answer \cup {Idle, Stuck}]
    /\ shown \in Status \cup {"none"}
    /\ crashes \in 0..MaxCrashes
    /\ blurred \in BOOLEAN

\* The page is being loaded.
Init ==
    /\ saved = DEFAULT_STATE
    /\ form = "whole"
    /\ job = [op \in Ops |-> IF op = "load" THEN [stage |-> "load", alone |-> TRUE] ELSE Idle]
    /\ shown = "none"
    /\ crashes = 0
    /\ blurred = FALSE

At(op, stages) == job[op].stage \in stages
UnderWay == {op \in Ops : ~At(op, {"idle", "stuck"})}
Serving == {op \in Ops : At(op, {"poll", "work", "write"})}

_load_state == IF form = "whole" THEN saved ELSE DEFAULT_STATE

-----------------------------------------------------------------------------
(* What the requests make of the state they loaded *)

\* Mutant of RunState: a run makes the prices fresh again.
RunStateFresh(s) == [s EXCEPT !.status = "healthy", !.some = TRUE, !.stale = FALSE]

RunState(s) == [s EXCEPT !.status = "healthy", !.some = TRUE]

\* Mutant of BreakState: the repaired selector is kept.
BreakStateFixed(s) ==
    [s EXCEPT !.status = "failed", !.some = FALSE, !.stale = TRUE,
              !.incidents = Append(@, TRUE)]

BreakState(s) ==
    [status |-> "failed", some |-> FALSE, stale |-> TRUE, fixed |-> FALSE,
     incidents |-> Append(s.incidents, TRUE)]

\* The five saves of heal: healing, the diagnosis, the repaired selector, an
\* event, and the recovery, which closes the last incident.
HealState(s, step) ==
    CASE step = 1 -> [s EXCEPT !.status = "healing"]
      [] step = 3 -> [s EXCEPT !.fixed = TRUE]
      [] step = 5 -> [s EXCEPT !.status = "recovered", !.some = TRUE, !.stale = FALSE,
                               !.incidents = IF @ = <<>> THEN <<>>
                                             ELSE [@ EXCEPT ![Len(@)] = FALSE]]
      [] OTHER -> s

Edited(op) ==
    LET j == job[op]
    IN CASE op = "run" -> RunState(j.mem)
         [] op = "break" -> BreakState(j.mem)
         [] op = "heal" -> HealState(j.mem, j.step)
         [] op = "reset" -> DEFAULT_STATE

Saves(op) == IF op = "heal" THEN 5 ELSE 1

-----------------------------------------------------------------------------
(* Actions *)

\* A button is pressed; that of heal is there only while the page shows a
\* failure.  The request loads the file, but for a reset.
Begin(op) ==
    /\ op \in Buttons /\ At(op, {"idle"})
    /\ Cardinality(UnderWay) < MaxRequests
    /\ op = "heal" => shown = "failed"
    /\ op = "break" => Len(_load_state.incidents) < MaxIncidents
    /\ job' = [o \in Ops |->
                 IF o = op THEN [stage |-> IF op = "run" THEN "poll" ELSE "work", step |-> 1,
                                 polls |-> 0, heard |-> TRUE,
                                 mem |-> IF op = "reset" THEN DEFAULT_STATE ELSE _load_state,
                                 whole |-> form = "whole", alone |-> Serving = {}]
                 ELSE IF o \in UnderWay THEN [job[o] EXCEPT !.alone = FALSE] ELSE job[o]]
    /\ UNCHANGED <<saved, form, shown, crashes, blurred>>

\* Mutant of Pending: "running" starts the clock again.
PendingAnew ==
    /\ At("run", {"poll"})
    /\ job["run"].polls < MaxPolls
    /\ \E n \in {job["run"].polls + 1, 0} : job' = [job EXCEPT !["run"].polls = n]
    /\ UNCHANGED <<saved, form, shown, crashes, blurred>>

\* get_result says 202, or "running".
Pending ==
    /\ At("run", {"poll"})
    /\ job["run"].polls < MaxPolls
    /\ job' = [job EXCEPT !["run"].polls = @ + 1]
    /\ UNCHANGED <<saved, form, shown, crashes, blurred>>

\* Rows, no rows, no target, no key or a BrightDataCollectorError, for time is
\* up or the API refuses: the number of records shown is above 0 after each.
Collected ==
    /\ At("run", {"poll"})
    /\ job' = [job EXCEPT !["run"].stage = "work"]
    /\ UNCHANGED <<saved, form, shown, crashes, blurred>>

\* What is left of a request that dies in the server.
Dead(j) == IF j.stage \in {"load", "answer"} \/ j.heard THEN Stuck ELSE Idle

\* Anything else that is raised, by the transport, an answer that is no JSON or
\* save_items(), is an error page to the browser, which fails to parse it.
RunRaises ==
    /\ At("run", {"poll"})
    /\ "exception" \in Faults
    /\ job' = [job EXCEPT !["run"] = Dead(@)]
    /\ UNCHANGED <<saved, form, shown, crashes, blurred>>

\* _save_state() empties the file ...
Truncate(op) ==
    /\ At(op, {"work"})
    /\ form' = "empty"
    /\ job' = [job EXCEPT ![op].mem = Edited(op), ![op].stage = "write"]
    /\ UNCHANGED <<saved, shown, crashes, blurred>>

\* A heal goes on to its next save.
NextSave(j) == [j EXCEPT !.stage = "work", !.step = j.step + 1]

\* Mutant of Answers: the page does not ask for the state after a reset.
AnswersOnly(op) ==
    LET j == job[op]
    IN CASE j.step < Saves(op) -> NextSave(j)
         [] j.step >= Saves(op) /\ (op = "reset" \/ ~j.heard) -> Idle
         [] OTHER -> [stage |-> "answer", status |-> j.mem.status, alone |-> j.alone]

\* What becomes of a request that has written.
Answers(op) ==
    LET j == job[op]
    IN CASE j.step < Saves(op) -> NextSave(j)
         [] j.step >= Saves(op) /\ ~j.heard -> Idle
         [] j.step >= Saves(op) /\ j.heard /\ op = "reset" ->
                [stage |-> "load", alone |-> j.alone]
         [] OTHER -> [stage |-> "answer", status |-> j.mem.status, alone |-> j.alone]

\* ... and writes it; over what another has written since, the shorter of the
\* two texts leaves the end of the longer.
Write(op) ==
    /\ At(op, {"write"})
    /\ \/ form' = "whole" /\ saved' = job[op].mem
       \/ form # "empty" /\ form' = "garbled" /\ UNCHANGED saved
    /\ job' = [job EXCEPT ![op] = Answers(op)]
    /\ UNCHANGED <<shown, crashes, blurred>>

\* GET /api/state
GetState(op) ==
    /\ At(op, {"load"})
    /\ job' = [job EXCEPT ![op] = [stage |-> "answer", status |-> _load_state.status,
                                   alone |-> @.alone]]
    /\ UNCHANGED <<saved, form, shown, crashes, blurred>>

\* The page renders an answer it has got.
Render(op) ==
    /\ At(op, {"answer"})
    /\ shown' = job[op].status
    /\ blurred' = ~job[op].alone
    /\ job' = [job EXCEPT ![op] = Idle]
    /\ UNCHANGED <<saved, form, crashes>>

\* The page is loaded anew, at any time.
Reload ==
    /\ shown' = "none"
    /\ job' = [op \in Ops |->
                 CASE op = "load" -> [stage |-> "load", alone |-> Serving = {}]
                   [] op \in Serving -> [job[op] EXCEPT !.heard = FALSE]
                   [] OTHER -> Idle]
    /\ blurred' = FALSE
    /\ UNCHANGED <<saved, form, crashes>>

\* The server stops, and starts again on the file as it is; answers on their way
\* may be lost.
Crash ==
    /\ crashes < MaxCrashes
    /\ crashes' = crashes + 1
    /\ \E kept \in SUBSET {op \in Ops : At(op, {"answer"})} :
          job' = [op \in Ops |-> IF op \in UnderWay \ kept THEN Dead(job[op]) ELSE job[op]]
    /\ UNCHANGED <<saved, form, shown, blurred>>

-----------------------------------------------------------------------------
(* Specification *)

Serve(op) ==
    \/ Truncate(op) \/ Write(op) \/ GetState(op) \/ Render(op)
    \/ op = "run" /\ (Pending \/ Collected \/ RunRaises)

Next ==
    \/ \E op \in Ops : Begin(op) \/ Serve(op)
    \/ Reload \/ Crash

Spec == Init /\ [][Next]_vars

\* A thread goes on after its sleep or its call, and the page after its request
\* or its animation.
FairSpec == Spec /\ \A op \in Ops : WF_vars(Serve(op))

-----------------------------------------------------------------------------
(* Properties *)

\* What the file says hangs together, whichever requests have overwritten each
\* other: a failure with nothing collected, stale prices and an open incident,
\* a recovery with records, fresh prices and the last incident closed, and healing
\* only while a heal is under way, except after a crash.
StatusIsCoherent ==
    LET s == saved
    IN /\ TypeOK
       /\ s.status = "healing" => At("heal", {"work", "write"}) \/ crashes > 0
       /\ s.status = "failed" =>
              ~s.some /\ s.stale /\ ~s.fixed /\ s.incidents # <<>> /\ Last(s.incidents)
       /\ s.status = "recovered" =>
              s.some /\ ~s.stale /\ s.fixed /\ (s.incidents = <<>> \/ ~Last(s.incidents))

\* When all is quiet the page shows the status that is on file, so that heal is
\* offered for a failure: answers are rendered as they come, and the last to be
\* rendered tells the file's state unless another request was under way with it or
\* began before it was rendered.  (A request that died has a disabled button: all
\* is quiet again once the page is reloaded.)
ViewIsCurrent ==
    (\A op \in Ops : At(op, {"idle"})) /\ form = "whole" /\ ~blurred => shown = saved.status

\* Stale prices become fresh and incidents are closed or dropped only by the
\* last save of a heal and by a reset; a run in between does neither.  A request
\* that overlaps another may, and one that finds the file empty or garbled.
NothingIsForgotten ==
    [][\A op \in Ops :
          (At(op, {"write"}) /\ saved' # saved /\ job[op].alone /\ job[op].whole) =>
              \/ op = "reset" \/ (op = "heal" /\ job[op].step = 5)
              \/ /\ saved.stale => saved'.stale
                 /\ IsPrefix(saved.incidents, saved'.incidents)]_vars

\* Every request of a button ends, the run within its polls.
RequestEnds == \A op \in Buttons : op \in UnderWay ~> op \notin UnderWay

=============================================================================
