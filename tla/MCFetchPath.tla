----------------------------- MODULE MCFetchPath -----------------------------
(***************************************************************************)
(* Small instances of FetchPath.                                           *)
(***************************************************************************)
EXTENDS FetchPath

CONSTANTS w1, w2, shop, blog, p1, p2

Page == [status |-> 200, signals |-> {}]
Shell == [status |-> 200, signals |-> {"shell"}]
Broken == [status |-> 500, signals |-> {}]
Blocked == [status |-> 403, signals |-> {"akamai"}]
Challenged == [status |-> 403, signals |-> {"cf_challenge"}]
Banned == [status |-> 403, signals |-> {"cf_block", "captcha"}]

SomeAnswers == {Page, Shell, Broken, Blocked, Challenged, Banned}

\* One proxy is listed twice, and the other once.
RepeatingList == <<p1, p2, p1>>

\* Bound: two pages are under way, or two fetchers tracked, only while p1 is the
\* only proxy in use, in one place.
PagesAreFew ==
    Cardinality(InFlight) > 1 \/ Len(tracked) > 1 =>
        /\ Len(queue) < 2 /\ p2 \notin Members /\ checks[p2] = "none"
        /\ \A w \in InFlight : job[w].proxy # p2

\* Workers and hosts are alike.
Symmetry == Permutations({w1, w2}) \cup Permutations({shop, blog})

=============================================================================
