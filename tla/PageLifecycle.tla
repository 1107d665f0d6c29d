--------------------------- MODULE PageLifecycle ---------------------------
(***************************************************************************)
(* What a crawl promises about each page, whatever the order of its        *)
(* workers, its failures and its restarts: a page is discovered once,      *)
(* taken by one worker at a time, given back any number of times, settled  *)
(* for good, and its items are published at most once, after that.         *)
(***************************************************************************)
EXTENDS Integers

CONSTANT Urls

VARIABLES
    stage,      \* stage[u]: where u is in its life
    published   \* published[u]: how often u's items have been stored

vars == <<stage, published>>

Stages == {"unknown", "queued", "taken", "settled"}

Init ==
    /\ stage = [u \in Urls |-> "unknown"]
    /\ published = [u \in Urls |-> 0]

\* Move a set of pages on, together, from one stage to the next.
Move(S, from, to) ==
    /\ \A u \in S : stage[u] = from
    /\ stage' = [u \in Urls |-> IF u \in S THEN to ELSE stage[u]]
    /\ UNCHANGED published

Discover(S) == Move(S, "unknown", "queued")
Take(u) == Move({u}, "queued", "taken")
Release(S) == Move(S, "taken", "queued")
Settle(u) == Move({u}, "taken", "settled")

Publish(u) ==
    /\ stage[u] = "settled"
    /\ published[u] = 0
    /\ published' = [published EXCEPT ![u] = 1]
    /\ UNCHANGED stage

Next ==
    \/ \E S \in SUBSET Urls : Discover(S) \/ Release(S)
    \/ \E u \in Urls : Take(u) \/ Settle(u) \/ Publish(u)

Spec == Init /\ [][Next]_vars

=============================================================================
