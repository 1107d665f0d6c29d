------------------------------ MODULE MCCrawl ------------------------------
(***************************************************************************)
(* Small sites and fault sets for checking Crawl.                          *)
(***************************************************************************)
EXTENDS CrawlProps, TLC

CONSTANTS a, b, c, d, e, r1, r2, t1, t2, t3, t4

Site == {a, b, c}

\* The start page leads to b and c, which lead to each other and back.
SiteLinks == a :> {b, c} @@ b :> {a, c} @@ c :> {b}

\* A larger site with two start pages, where e is out of reach at depth 1.
DeepSite == {a, b, c, d, e}
DeepLinks == a :> {c} @@ b :> {c, d} @@ c :> {e} @@ d :> {a} @@ e :> {a}

FlatPriority == [u \in Urls |-> 0]
\* c is a paginated "next" link, pushed with a higher priority.
SkewedPriority == a :> 0 @@ b :> 0 @@ c :> 1
OwnContent == a :> 1 @@ b :> 2 @@ c :> 3
\* Three pages of one content, two of them start pages.
SharedContent == a :> 1 @@ b :> 1 @@ c :> 2 @@ d :> 1 @@ e :> 3

TaskSymmetry == Permutations(Tasks)
Symmetry == Permutations(Tasks) \cup Permutations(Runs)

=============================================================================
