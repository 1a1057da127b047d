--------------------------- MODULE MCCrawlQueue ---------------------------
(* Small instances of CrawlQueue for TLC.  The SurtOf of a run is one of the *)
(* three below: one URL, two for one resource, two for one resource each.    *)
EXTENDS CrawlQueue, TLC

CONSTANTS w1, w2, c1, c2, u1, u2, s1, s2

OneUrl == u1 :> s1
OneSurt == (u1 :> s1) @@ (u2 :> s1)
TwoSurts == (u1 :> s1) @@ (u2 :> s2)

(* The fibers are alike; URLs and normalised URLs are not swapped, since     *)
(* SurtOf relates them.                                                      *)
Fibers == Permutations(Workers) \cup Permutations(Clients)

(* When both URLs stand for one resource they are alike too.                 *)
FibersAndUrls == Fibers \cup Permutations(Urls)

Bounds(requests, crashes, errors, imports) ==
  [requests |-> requests, crashes |-> crashes, errors |-> errors,
   imports |-> imports]

ArchiveBudget == Bounds(2, 1, 0, 1)
DrainBudget == Bounds(2, 1, 1, 0)
CalmBudget == Bounds(2, 0, 0, 0)
OrderBudget == Bounds(2, 0, 0, 0)
=============================================================================
