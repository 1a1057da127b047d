------------------------- MODULE CrawlArchiveProofs -------------------------
(* Proofs about the abstract archive, for every delay, set of URLs, of times *)
(* and of ids.                                                               *)
EXTENDS CrawlArchive, TLAPS

(* The state of the archive has its type.                                    *)
THEOREM TypeCorrect == Spec => []TypeOK
<1>1. Init => TypeOK
  BY DEF Init, TypeOK
<1>2. TypeOK /\ [Next]_vars => TypeOK'
  <2> SUFFICES ASSUME TypeOK, [Next]_vars PROVE TypeOK'
    OBVIOUS
  <2>1. ASSUME NEW s \in Surts, NEW t \in Times, Enqueue(s, t) PROVE TypeOK'
    BY <2>1 DEF TypeOK, Enqueue, Request
  <2>2. ASSUME NEW q \in queued, NEW t \in Times, NEW i \in Ids, Record(q, t, i)
        PROVE TypeOK'
    BY <2>2 DEF TypeOK, Record, Request, Response
  <2>3. ASSUME NEW s \in Surts, NEW t \in Times, NEW i \in Ids, Deposit(s, t, i)
        PROVE TypeOK'
    BY <2>3 DEF TypeOK, Deposit, Response
  <2>4. CASE UNCHANGED vars
    BY <2>4 DEF TypeOK, vars
  <2> QED
    BY <2>1, <2>2, <2>3, <2>4 DEF Next
<1>3. QED
  BY <1>1, <1>2, PTL DEF Spec

(* A request waits only when it is due, one at a time, and its response is   *)
(* not older than it: so no step brings two crawls too close.                *)
Spaced == CrawlSpacing /\ WaitingIsDue

LEMMA SpacedInit == Init => Spaced
BY DEF Init, Spaced, CrawlSpacing, WaitingIsDue

LEMMA SpacedStep ==
  ASSUME Delay \in Nat, Times \subseteq Nat, TypeOK, Spaced, [Next]_vars
  PROVE  Spaced'
<1> USE DEF Spaced, CrawlSpacing, WaitingIsDue
<1>1. ASSUME NEW s \in Surts, NEW t \in Times, Enqueue(s, t)  PROVE Spaced'
  BY <1>1 DEF Enqueue
<1>2. ASSUME NEW q \in queued, NEW t \in Times, NEW i \in Ids, Record(q, t, i)
      PROVE Spaced'
  <2> DEFINE new == [surt |-> q.surt, time |-> t, id |-> i, by |-> "crawl"]
  <2>1. \A r \in archive :
          r.surt = q.surt /\ r.by = "crawl" => r.time + Delay < new.time
    <3> SUFFICES ASSUME NEW r \in archive, r.surt = q.surt, r.by = "crawl"
                 PROVE r.time + Delay < t
      OBVIOUS
    <3>1. r.time \in Nat /\ q.since \in Nat /\ t \in Nat /\ Delay \in Nat
      BY DEF TypeOK, Request, Response
    <3>2. r.time + Delay < q.since /\ q.since <= t
      BY <1>2 DEF Record
    <3> QED
      BY <3>1, <3>2
  <2>2. CrawlSpacing'
    BY <1>2, <2>1 DEF Record
  <2>3. WaitingIsDue'
    BY <1>2 DEF Record
  <2> QED
    BY <2>2, <2>3
<1>3. ASSUME NEW s \in Surts, NEW t \in Times, NEW i \in Ids, Deposit(s, t, i)
      PROVE Spaced'
  BY <1>3 DEF Deposit
<1>4. CASE UNCHANGED vars
  BY <1>4 DEF vars
<1> QED
  BY <1>1, <1>2, <1>3, <1>4 DEF Next

(* Two crawls of a URL are more than the delay apart.                        *)
THEOREM SpacingCorrect ==
  ASSUME Delay \in Nat, Times \subseteq Nat
  PROVE  Spec => []CrawlSpacing
<1>1. Spaced => CrawlSpacing
  BY DEF Spaced
<1>2. TypeOK /\ Spaced /\ [Next]_vars => Spaced'
  BY SpacedStep
<1> QED
  BY <1>1, <1>2, SpacedInit, TypeCorrect, PTL DEF Spec
=============================================================================
