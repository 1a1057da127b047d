-------------------------------- MODULE Dump --------------------------------
(* api_dump (api.c:174-225): the responses of an interval of time, read in   *)
(* batches, each from a snapshot of its own, while others are committed.  A  *)
(* batch is a set; what is written is the sequence of the batches, and       *)
(* within one the cursor's order is the order of the keys.                   *)
EXTENDS ResponseStore

CONSTANTS Intervals,  \* what may be asked for, [start, duration]
          BatchSize,  \* CONFIG_API_BATCH_SIZE, 50
          Word,       \* 2^64, the width of start + duration
          MaxBatches  \* bound: a dump gets stuck after so many full batches

(* server.c:154 wants both numbers to be positive; they are words.           *)
ASSUME DumpAssumption ==
  /\ BatchSize \in Nat \ {0}
  /\ Word \in Nat /\ MaxTime < Word
  /\ Intervals \subseteq [start : 1..Word - 1, duration : 1..Word - 1]

VARIABLES
  phase,     \* "idle", "reading", "ended", or "cut" after a failed read,
             \* which the client cannot tell from "ended"
  interval,  \* start and duration
  position,  \* time and id, where the next batch begins
  written,   \* the batches written so far, a sequence of sets of responses
  present    \* what was stored when the dump began, for the properties

dumpVars == <<phase, interval, position, written, present>>
allVars == <<vars, dumpVars>>

NoInterval == [start |-> 0, duration |-> 0]

Limit == (interval.start + interval.duration) % Word

(* ------------------------------------------------------------------------ *)

AtOrAfter(p) == {r \in byTime : NotOlder(r, p)}

(* Mutant: the cursor runs from the newest.                                  *)
IsBatchNewest(batch) ==
  LET rest == AtOrAfter(position)
  IN /\ \A r \in batch, x \in rest \ batch : Newer(r, x)
     /\ \/ Cardinality(batch) = BatchSize
        \/ Cardinality(batch) < BatchSize /\ batch = rest

(* hx_get_times from the position on, +1: the oldest BatchSize of them.      *)
IsBatch(batch) ==
  LET rest == AtOrAfter(position)
  IN /\ \A r \in batch, x \in rest \ batch : Newer(x, r)
     /\ \/ Cardinality(batch) = BatchSize
        \/ Cardinality(batch) < BatchSize /\ batch = rest

(* Mutant: the next batch begins with the next second.                       *)
AdvanceSecond(last) == [time |-> last.time + 1, id |-> 0]

(* Mutant: the next batch begins with the last response.                     *)
AdvanceNot(last) == [time |-> last.time, id |-> last.id]

(* Mutant: the next batch begins with the second of the last response.       *)
AdvanceTime(last) == [time |-> last.time, id |-> 0]

Advance(last) == [time |-> last.time, id |-> last.id + 1]

DumpInit ==
  /\ Init
  /\ phase = "idle" /\ interval = NoInterval
  /\ position = [time |-> 0, id |-> 0]
  /\ written = <<>> /\ present = {}

Begin(asked) ==
  /\ phase = "idle" /\ phase' = "reading"
  /\ interval' = asked
  /\ position' = [time |-> asked.start, id |-> 0]
  /\ present' = byTime
  /\ UNCHANGED <<written, vars>>

Write(batch) == written' = Append(written, {r \in batch : r.time < Limit})

(* A short batch, or one that reaches the end of the interval.               *)
LastBatch(batch) ==
  /\ phase = "reading" /\ phase' = "ended"
  /\ IsBatch(batch)
  /\ Cardinality(batch) < BatchSize \/ \E r \in batch : r.time >= Limit
  /\ Write(batch)
  /\ UNCHANGED <<interval, position, present, vars>>

FullBatch(batch) ==
  /\ phase = "reading" /\ Len(written) < MaxBatches
  /\ IsBatch(batch)
  /\ Cardinality(batch) = BatchSize /\ \A r \in batch : r.time < Limit
  /\ Write(batch)
  /\ \E last \in batch : /\ \A r \in batch : NotOlder(last, r)
                         /\ position' = Advance(last)
  /\ UNCHANGED <<phase, interval, present, vars>>

(* hx_get_times fails: the array is closed as if it were complete            *)
(* (api.c:201, 215).                                                         *)
ReadFails ==
  /\ phase = "reading" /\ phase' = "cut"
  /\ UNCHANGED <<interval, position, written, present, vars>>

(* A worker or an import commits a batch, with any keys that are not in use. *)
OthersWrite ==
  /\ \E batch \in SUBSET Responses : Commit(batch)
  /\ UNCHANGED dumpVars

ReadBatch == \E batch \in SUBSET AtOrAfter(position) : LastBatch(batch) \/ FullBatch(batch)

DumpStep == (\E asked \in Intervals : Begin(asked)) \/ ReadBatch \/ ReadFails

DumpNext == DumpStep \/ OthersWrite

DumpSpec == DumpInit /\ [][DumpNext]_allVars

(* ------------------------------------------------------------------------ *)
(* Properties.                                                               *)

Positions == [time : Nat, id : Nat]

(* The type invariant.                                                       *)
DumpTypeOK ==
  /\ byTime \subseteq Responses
  /\ phase \in {"idle", "reading", "ended", "cut"}
  /\ interval \in Intervals \cup {NoInterval}
  /\ position \in Positions
  /\ written \in Seq(SUBSET Responses)
  /\ present \subseteq Responses

(* A dump shows the responses of its interval in the order of their keys and *)
(* none twice, whatever is committed between its batches (api.c:212-213).    *)
DumpInOrder ==
  /\ \A i, j \in DOMAIN written :
       i < j => \A r \in written[i], x \in written[j] : Newer(x, r)
  /\ \A i \in DOMAIN written : \A r \in written[i] :
       r \in byTime /\ interval.start <= r.time /\ r.time < Limit

(* A dump whose reads succeed has every response of the interval that was    *)
(* stored when it began, as long as start + duration does not overflow: no   *)
(* batch skips the rest of a second or stops before the end of the interval. *)
DumpIsComplete ==
  phase = "ended" /\ interval.start + interval.duration < Word =>
    \A r \in present :
      interval.start <= r.time /\ r.time < interval.start + interval.duration =>
        \E i \in DOMAIN written : r \in written[i]

(* A dump that a failed read has cut looks like one that is complete         *)
(* (api.c:201, 215).  What it lacks is no older than the last it shows, so a *)
(* client that asks again from there (tools/import-from-dump-api.js) misses  *)
(* nothing.                                                                  *)
CutDumpResumes ==
  phase = "cut" /\ interval.start + interval.duration < Word =>
    \A r \in present :
      interval.start <= r.time /\ r.time < interval.start + interval.duration =>
        \/ \E i \in DOMAIN written : r \in written[i]
        \/ \A i \in DOMAIN written : \A x \in written[i] : x.time <= r.time

(* A dump ends although responses are committed ahead of it.                 *)
DumpEnds == phase = "reading" ~> phase # "reading"
=============================================================================
