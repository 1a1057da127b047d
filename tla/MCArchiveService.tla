-------------------------- MODULE MCArchiveService --------------------------
(* A small instance for TLC: two connections whose responses have colliding  *)
(* keys, a worker whose ids collide with both, and a dump of a part of it.   *)
EXTENDS ArchiveService, TLC

CONSTANTS u1, u2, s1, c1, c2

OneSurt == (u1 :> s1) @@ (u2 :> s1)
NoQueries == {}

Success(body, byte) ==
  [ok |-> TRUE, body |-> body, digests |-> "sha" :> <<1, byte>>]

First == Success("first", 0)
Second == Success("second", 1)
ByWorker == Success("crawled", 2)
Few == {First, Second, ByWorker}

Response(t, u, outcome) == [time |-> t, url |-> u, outcome |-> outcome]

Streams ==
  (c1 :> <<Response(1, u1, First), Response(1, u2, First), Response(3, u1, First)>>)
  @@ (c2 :> <<Response(2, u2, Second), Response(1, u1, Second),
             Response(1, u2, Second), Response(3, u1, Second)>>)

Crawls == {r \in Responses : r.outcome = ByWorker /\ r.id = 0 /\ r.url = u1}

(* In the last interval the sum overflows.                                   *)
Asked == {[start |-> 1, duration |-> 2], [start |-> 1, duration |-> 3],
          [start |-> 2, duration |-> 1], [start |-> 2, duration |-> 6]}
=============================================================================
