---------------------------- MODULE CrawlArchive ----------------------------
(* What the crawl queue of the Hash Archive promises, with no worker, lock,  *)
(* condition variable or table in sight: a URL waits in the queue at most    *)
(* once, it is queued only when its newest response is older than the crawl  *)
(* delay, it leaves the queue only together with the response of its crawl,  *)
(* and a response, once archived, stays.                                     *)
EXTENDS Naturals

CONSTANTS Surts,  \* normalised URLs, the identity under which a URL is queued
          Delay,  \* the crawl delay
          Times,  \* the seconds a clock may show
          Ids     \* the ids that tell responses of one second apart

VARIABLES queued,  \* the waiting requests: [surt, since]
          archive  \* the responses: [surt, time, id, by]

vars == <<queued, archive>>

Request == [surt : Surts, since : Times]
Response == [surt : Surts, time : Times, id : Ids, by : {"crawl", "import"}]

Init == queued = {} /\ archive = {}

(* No response has the key (time, id): two responses never share one.        *)
Unused(t, i) == \A r \in archive : ~(r.time = t /\ r.id = i)

(* A request is accepted when nothing waits for the URL and every response   *)
(* it has is older than the delay.                                           *)
Enqueue(s, t) ==
  /\ \A q \in queued : q.surt # s
  /\ \A r \in archive : r.surt = s => r.time + Delay < t
  /\ queued' = queued \cup {[surt |-> s, since |-> t]}
  /\ UNCHANGED archive

(* The crawl of a waiting request ends: the response, not older than the     *)
(* request, replaces it in one step.                                         *)
Record(q, t, i) ==
  /\ q.since <= t
  /\ Unused(t, i)
  /\ queued' = queued \ {q}
  /\ archive' = archive \cup
                  {[surt |-> q.surt, time |-> t, id |-> i, by |-> "crawl"]}

(* A response made by another archive arrives through the importer.          *)
Deposit(s, t, i) ==
  /\ Unused(t, i)
  /\ archive' = archive \cup
                  {[surt |-> s, time |-> t, id |-> i, by |-> "import"]}
  /\ UNCHANGED queued

Next ==
  \/ \E s \in Surts, t \in Times : Enqueue(s, t)
  \/ \E q \in queued, t \in Times, i \in Ids : Record(q, t, i)
  \/ \E s \in Surts, t \in Times, i \in Ids : Deposit(s, t, i)

Spec == Init /\ [][Next]_vars

TypeOK == queued \subseteq Request /\ archive \subseteq Response

(* Two crawls of one URL are more than the delay apart, however requests,    *)
(* crawls and imports interleave: CONFIG_CRAWL_DELAY_SECONDS is kept.        *)
CrawlSpacing ==
  \A r1, r2 \in archive :
     (r1.surt = r2.surt /\ r1.by = "crawl" /\ r2.by = "crawl" /\ r1 # r2)
       => (r1.time + Delay < r2.time \/ r2.time + Delay < r1.time)

(* A URL waits at most once, and only when every crawl of it is over the     *)
(* delay before the request: what makes CrawlSpacing inductive.              *)
WaitingIsDue ==
  /\ \A p, q \in queued : p.surt = q.surt => p = q
  /\ \A q \in queued, r \in archive :
       (r.surt = q.surt /\ r.by = "crawl") => r.time + Delay < q.since
=============================================================================
