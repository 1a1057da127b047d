------------------------ MODULE ArchiveServiceProofs ------------------------
(* A dump is in order and complete for every size of batch, every interval   *)
(* and any number of responses committed while it runs.  Imports are stored  *)
(* in whole batches from the beginning, for any number of connections, any   *)
(* streams, and any size of batch.  And a dump that runs beside them is the  *)
(* dump of Dump, so what is proved of it holds here.                         *)
EXTENDS ArchiveService, TLAPS, SequenceTheorems

(* ------------------------------------------------------------------------ *)
(* The dump.                                                                 *)

(* Written responses are behind the position.                                *)
Behind ==
  phase \in {"reading", "cut"} =>
    \A i \in DOMAIN written : \A r \in written[i] : Newer(position, r)

Shown(r) == \E i \in DOMAIN written : r \in written[i]

Wanted(r) == r \in present /\ interval.start <= r.time /\ r.time < Limit

(* What the dump has passed of what it wants is written; in the end, all.    *)
NothingSkipped ==
  /\ phase \in {"reading", "cut"} =>
       \A r \in present : Wanted(r) => Shown(r) \/ NotOlder(r, position)
  /\ phase = "ended" => \A r \in present : Wanted(r) => Shown(r)

Bookkeeping ==
  /\ phase = "idle" => written = <<>>
  /\ phase # "idle" => interval \in Intervals
  /\ phase = "reading" => interval.start <= position.time
  /\ present \subseteq byTime

(* What is written is stored and of the interval.                            *)
Sound ==
  \A i \in DOMAIN written : \A r \in written[i] :
    r \in byTime /\ interval.start <= r.time /\ r.time < Limit

Ordered ==
  \A i, j \in DOMAIN written :
    i < j => \A r \in written[i], x \in written[j] : Newer(x, r)

DumpInv == DumpTypeOK /\ Bookkeeping /\ Behind /\ NothingSkipped /\ Sound /\ Ordered

(* ------------------------------------------------------------------------ *)

(* Append, index by index.                                                   *)
LEMMA Appended ==
  ASSUME NEW S, NEW s \in Seq(S), NEW e \in S
  PROVE  /\ Append(s, e) \in Seq(S)
         /\ DOMAIN s \subseteq DOMAIN Append(s, e)
         /\ \A i \in DOMAIN s : Append(s, e)[i] = s[i] /\ i \in Nat /\ i < Len(s) + 1
         /\ \A i \in DOMAIN Append(s, e) : i \in DOMAIN s \/ i = Len(s) + 1
         /\ Append(s, e)[Len(s) + 1] = e
         /\ Len(s) + 1 \in DOMAIN Append(s, e)
         /\ Len(s) \in Nat
BY AppendProperties, LenProperties

(* What a batch that is written adds to the dump.                            *)
LEMMA Written ==
  ASSUME DumpTypeOK, NEW batch \in SUBSET byTime, Write(batch)
  PROVE  /\ written' \in Seq(SUBSET Responses)
         /\ DOMAIN written \subseteq DOMAIN written'
         /\ \A i \in DOMAIN written : written'[i] = written[i] /\ i \in Nat
                                      /\ i < Len(written) + 1
         /\ \A i \in DOMAIN written' : i \in DOMAIN written \/ i = Len(written) + 1
         /\ written'[Len(written) + 1] = {r \in batch : r.time < Limit}
         /\ Len(written) + 1 \in DOMAIN written'
         /\ Len(written) \in Nat
<1> DEFINE e == {r \in batch : r.time < Limit}
<1>1. e \in SUBSET Responses
  BY DEF DumpTypeOK
<1>2. written \in Seq(SUBSET Responses)
  BY DEF DumpTypeOK
<1>3. written' = Append(written, e)
  BY DEF Write
<1> HIDE DEF e
<1>4. /\ Append(written, e) \in Seq(SUBSET Responses)
      /\ DOMAIN written \subseteq DOMAIN Append(written, e)
      /\ \A i \in DOMAIN written : Append(written, e)[i] = written[i] /\ i \in Nat
                                   /\ i < Len(written) + 1
      /\ \A i \in DOMAIN Append(written, e) : i \in DOMAIN written \/ i = Len(written) + 1
      /\ Append(written, e)[Len(written) + 1] = e
      /\ Len(written) + 1 \in DOMAIN Append(written, e)
      /\ Len(written) \in Nat
  BY <1>1, <1>2, Appended
<1> QED BY <1>3, <1>4 DEF e

(* Keys are pairs of naturals.                                               *)
LEMMA KeyTypes ==
  ASSUME NEW r \in Responses, StoreAssumption
  PROVE  r.time \in Nat /\ r.id \in Nat
BY DEF Responses, StoreAssumption

LEMMA LimitType ==
  ASSUME StoreAssumption, DumpAssumption, DumpTypeOK
  PROVE  /\ Limit \in Nat
         /\ interval.start \in Nat /\ interval.duration \in Nat
         /\ interval.start + interval.duration < Word =>
              Limit = interval.start + interval.duration
<1>1. interval.start \in Nat /\ interval.duration \in Nat
  BY DEF DumpTypeOK, NoInterval, DumpAssumption
<1>2. Word \in Nat /\ Word > 0
  BY DEF DumpAssumption, StoreAssumption
<1> DEFINE n == interval.start + interval.duration
<1>3. n \in Nat
  BY <1>1
<1> HIDE DEF n
<1>4. n % Word \in Nat /\ (n < Word => n % Word = n)
  BY <1>2, <1>3
<1> QED BY <1>1, <1>4 DEF Limit, n

(* A batch that is read leaves the dump ordered and sound.                   *)
LEMMA WriteKeepsOrder ==
  ASSUME StoreAssumption, DumpAssumption, DumpInv, phase = "reading",
         NEW batch \in SUBSET AtOrAfter(position), Write(batch),
         byTime' = byTime, interval' = interval
  PROVE  Ordered' /\ Sound'
<1>0. DumpTypeOK /\ batch \in SUBSET byTime
  BY DEF DumpInv, AtOrAfter
<1>1. /\ \A i \in DOMAIN written : written'[i] = written[i] /\ i \in Nat
                                   /\ i < Len(written) + 1
      /\ \A i \in DOMAIN written' : i \in DOMAIN written \/ i = Len(written) + 1
      /\ written'[Len(written) + 1] = {r \in batch : r.time < Limit}
      /\ Len(written) \in Nat
  BY <1>0, Written
<1>2. \A r \in batch : NotOlder(r, position) /\ r \in byTime /\ r.time \in Nat /\ r.id \in Nat
  BY KeyTypes DEF AtOrAfter, DumpInv, DumpTypeOK
<1>3. position.time \in Nat /\ position.id \in Nat
  BY DEF DumpInv, DumpTypeOK, Positions
<1>4. ASSUME NEW i \in DOMAIN written', NEW j \in DOMAIN written', i < j,
             NEW r \in written'[i], NEW x \in written'[j]
      PROVE  Newer(x, r)
  <2>1. CASE i \in DOMAIN written /\ j \in DOMAIN written
    BY <2>1, <1>1, <1>4 DEF DumpInv, Ordered
  <2>2. CASE i \in DOMAIN written /\ j = Len(written) + 1
    <3>1. Newer(position, r) /\ r \in Responses /\ x \in batch
      BY <2>2, <1>1 DEF DumpInv, Behind, Sound, DumpTypeOK
    <3> QED BY <3>1, <1>2, <1>3, KeyTypes DEF Newer, NotOlder, SameKey
  <2>3. CASE i = Len(written) + 1
    BY <2>3, <1>1, <1>4
  <2> QED BY <2>1, <2>2, <2>3, <1>1
<1>5. interval.start \in Nat /\ Limit' = Limit
  BY LimitType DEF DumpInv, Limit
<1>6. ASSUME NEW i \in DOMAIN written', NEW r \in written'[i]
      PROVE  r \in byTime' /\ interval'.start <= r.time /\ r.time < Limit'
  <2>1. CASE i \in DOMAIN written
    BY <2>1, <1>1, <1>5 DEF DumpInv, Sound
  <2>2. CASE i = Len(written) + 1
    <3>1. r \in batch /\ r.time < Limit
      BY <2>2, <1>1
    <3>2. interval.start <= position.time
      BY DEF DumpInv, Bookkeeping
    <3> QED BY <3>1, <3>2, <1>2, <1>3, <1>5 DEF NotOlder
  <2> QED BY <2>1, <2>2, <1>1
<1>7. Ordered'
  BY <1>4 DEF Ordered
<1>8. Sound'
  BY <1>6 DEF Sound
<1> QED BY <1>7, <1>8

(* What was shown stays shown, and so is what a batch adds.                  *)
LEMMA WriteShows ==
  ASSUME DumpTypeOK, NEW batch \in SUBSET byTime, Write(batch)
  PROVE  /\ \A r : Shown(r) => Shown(r)'
         /\ \A r \in batch : r.time < Limit => Shown(r)'
BY Written DEF Shown

(* The invariant holds at first.                                             *)
LEMMA DumpInvInit == StoreAssumption /\ DumpAssumption /\ DumpInit => DumpInv
BY DEF DumpInit, Init, DumpInv, DumpTypeOK, Bookkeeping, Behind, NothingSkipped,
       Sound, Ordered, Positions

(* Every step keeps the invariant.                                           *)
LEMMA DumpInvStep ==
  ASSUME StoreAssumption, DumpAssumption, DumpInv, [DumpNext]_allVars
  PROVE  DumpInv'
<1>1. ASSUME NEW asked \in Intervals, Begin(asked) PROVE DumpInv'
  <2>1. written = <<>> /\ written' = <<>> /\ byTime' = byTime /\ present' = byTime
    BY <1>1 DEF Begin, vars, DumpInv, Bookkeeping
  <2>2. asked.start \in Nat
    BY DEF DumpAssumption
  <2>3. DumpTypeOK'
    BY <1>1, <2>1, <2>2 DEF DumpInv, DumpTypeOK, Begin, Positions
  <2>4. Bookkeeping'
    BY <1>1, <2>1, <2>2 DEF Begin, Bookkeeping
  <2>5. \A r \in present' : r.time \in Nat /\ r.id \in Nat
    BY <2>1, KeyTypes DEF DumpInv, DumpTypeOK
  <2>6. NothingSkipped'
    <3>1. ASSUME NEW r \in present', Wanted(r)' PROVE NotOlder(r, position')
      BY <3>1, <2>2, <2>5, <1>1 DEF Wanted, Begin, NotOlder
    <3> QED BY <3>1, <1>1 DEF NothingSkipped, Begin
  <2>7. Behind' /\ Sound' /\ Ordered'
    BY <2>1 DEF Behind, Sound, Ordered
  <2> QED BY <2>3, <2>4, <2>6, <2>7 DEF DumpInv
<1>2. ASSUME NEW batch \in SUBSET AtOrAfter(position), LastBatch(batch) PROVE DumpInv'
  <2>0. /\ phase = "reading" /\ phase' = "ended" /\ Write(batch) /\ IsBatch(batch)
        /\ byTime' = byTime /\ interval' = interval /\ position' = position
        /\ present' = present
    BY <1>2 DEF LastBatch, vars
  <2>1. batch \in SUBSET byTime /\ DumpTypeOK
    BY DEF AtOrAfter, DumpInv
  <2>2. DumpTypeOK'
    BY <2>0, <2>1, Written DEF DumpTypeOK
  <2>3. Bookkeeping' /\ Behind'
    BY <2>0 DEF DumpInv, Bookkeeping, Behind
  <2>4. Ordered' /\ Sound'
    BY <2>0, WriteKeepsOrder
  <2>5. NothingSkipped'
    <3>1. ASSUME NEW r \in present, Wanted(r)' PROVE Shown(r)'
      <4>1. Wanted(r)
        BY <3>1, <2>0 DEF Wanted, Limit
      <4>2. CASE Shown(r)
        BY <4>2, <2>0, <2>1, WriteShows
      <4>3. CASE NotOlder(r, position)
        <5>1. r \in AtOrAfter(position)
          BY <4>3 DEF AtOrAfter, DumpInv, Bookkeeping
        <5>2. CASE r \in batch
          BY <5>2, <4>1, <2>0, <2>1, WriteShows DEF Wanted
        <5>3. CASE r \notin batch
          <6>1. \A x \in batch : Newer(r, x)
            BY <5>1, <5>3, <2>0 DEF IsBatch
          <6>2. batch # AtOrAfter(position)
            BY <5>1, <5>3
          <6>3. Cardinality(batch) = BatchSize
            BY <6>2, <2>0 DEF IsBatch
          <6>4. BatchSize \in Nat
            BY DEF DumpAssumption
          <6>5. PICK x \in batch : x.time >= Limit
            BY <6>3, <6>4, <1>2 DEF LastBatch
          <6>6. r \in Responses /\ x \in Responses
            BY <2>1 DEF DumpTypeOK, DumpInv, Bookkeeping
          <6>7. Limit \in Nat
            BY <2>1, LimitType
          <6>8. r.time >= x.time
            BY <6>1, <6>6, KeyTypes DEF Newer, NotOlder
          <6> QED BY <6>5, <6>6, <6>7, <6>8, <4>1, KeyTypes DEF Wanted
        <5> QED BY <5>2, <5>3
      <4> QED BY <4>1, <4>2, <4>3, <2>0 DEF DumpInv, NothingSkipped
    <3> QED BY <3>1, <2>0 DEF NothingSkipped
  <2> QED BY <2>2, <2>3, <2>4, <2>5 DEF DumpInv
<1>3. ASSUME NEW batch \in SUBSET AtOrAfter(position), FullBatch(batch) PROVE DumpInv'
  <2>0. /\ phase = "reading" /\ phase' = "reading" /\ Write(batch) /\ IsBatch(batch)
        /\ byTime' = byTime /\ interval' = interval /\ present' = present
        /\ \A r \in batch : r.time < Limit
    BY <1>3 DEF FullBatch, vars
  <2>1. batch \in SUBSET byTime /\ DumpTypeOK
    BY DEF AtOrAfter, DumpInv
  <2>2. PICK last \in batch : /\ \A r \in batch : NotOlder(last, r)
                              /\ position' = Advance(last)
    BY <1>3 DEF FullBatch
  <2>3. last \in Responses /\ last.time \in Nat /\ last.id \in Nat
    BY <2>1, KeyTypes DEF DumpTypeOK
  <2>4. position' \in Positions /\ position'.time = last.time /\ position'.id = last.id + 1
    BY <2>2, <2>3 DEF Advance, Positions
  <2>5. NotOlder(last, position) /\ position.time \in Nat /\ position.id \in Nat
    BY <2>1 DEF AtOrAfter, DumpTypeOK, Positions
  <2>6. DumpTypeOK'
    BY <2>0, <2>1, <2>4, Written DEF DumpTypeOK
  <2>7. Bookkeeping'
    <3>1. interval.start \in Nat /\ interval.start <= position.time
      BY <2>0, <2>1, LimitType DEF DumpInv, Bookkeeping
    <3>2. interval.start <= position'.time
      BY <3>1, <2>3, <2>4, <2>5 DEF NotOlder
    <3> QED BY <3>2, <2>0 DEF DumpInv, Bookkeeping
  <2>8. Behind'
    <3>1. ASSUME NEW i \in DOMAIN written', NEW r \in written'[i] PROVE Newer(position', r)
      <4>1. CASE i \in DOMAIN written
        <5>1. written'[i] = written[i]
          BY <4>1, <2>0, <2>1, Written
        <5>2. Newer(position, r) /\ r \in Responses
          BY <5>1, <4>1, <2>0, <2>1 DEF DumpInv, Behind, Sound, DumpTypeOK
        <5> QED BY <5>2, <2>3, <2>4, <2>5, KeyTypes DEF Newer, NotOlder, SameKey
      <4>2. CASE i = Len(written) + 1
        <5>1. r \in batch
          BY <4>2, <2>0, <2>1, Written
        <5>2. NotOlder(last, r) /\ r \in Responses
          BY <5>1, <2>1, <2>2 DEF DumpTypeOK
        <5> QED BY <5>2, <2>3, <2>4, KeyTypes DEF Newer, NotOlder, SameKey
      <4> QED BY <4>1, <4>2, <2>0, <2>1, Written
    <3> QED BY <3>1 DEF Behind
  <2>9. Ordered' /\ Sound'
    BY <2>0, WriteKeepsOrder
  <2>10. NothingSkipped'
    <3>1. ASSUME NEW r \in present, Wanted(r)' PROVE Shown(r)' \/ NotOlder(r, position')
      <4>1. Wanted(r)
        BY <3>1, <2>0 DEF Wanted, Limit
      <4>2. CASE Shown(r)
        BY <4>2, <2>0, <2>1, WriteShows
      <4>3. CASE NotOlder(r, position)
        <5>1. r \in AtOrAfter(position) /\ r \in Responses
          BY <4>3, <2>1 DEF AtOrAfter, DumpInv, Bookkeeping, DumpTypeOK
        <5>2. CASE r \in batch
          BY <5>2, <2>0, <2>1, WriteShows
        <5>3. CASE r \notin batch
          <6>1. Newer(r, last)
            BY <5>1, <5>3, <2>0 DEF IsBatch
          <6> QED BY <6>1, <5>1, <2>3, <2>4, KeyTypes DEF Newer, NotOlder, SameKey
        <5> QED BY <5>2, <5>3
      <4> QED BY <4>1, <4>2, <4>3, <2>0 DEF DumpInv, NothingSkipped
    <3> QED BY <3>1, <2>0 DEF NothingSkipped
  <2> QED BY <2>6, <2>7, <2>8, <2>9, <2>10 DEF DumpInv
<1>4. CASE ReadFails
  <2>1. /\ phase' = "cut" /\ byTime' = byTime /\ interval' = interval
        /\ position' = position /\ written' = written /\ present' = present
        /\ phase = "reading"
    BY <1>4 DEF ReadFails, vars
  <2> QED BY <2>1 DEF DumpInv, DumpTypeOK, Bookkeeping, Behind, NothingSkipped,
                      Sound, Ordered, Limit, Shown, Wanted
<1>5. CASE OthersWrite
  <2>1. PICK batch \in SUBSET Responses : Commit(batch)
    BY <1>5 DEF OthersWrite
  <2>2. byTime' = byTime \cup batch /\ UNCHANGED dumpVars
    BY <1>5, <2>1 DEF OthersWrite, Commit
  <2> QED BY <2>2 DEF dumpVars, DumpInv, DumpTypeOK, Bookkeeping, Behind,
                      NothingSkipped, Sound, Ordered, Limit, Shown, Wanted
<1>6. CASE UNCHANGED allVars
  BY <1>6 DEF allVars, vars, dumpVars, DumpInv, DumpTypeOK, Bookkeeping, Behind,
              NothingSkipped, Sound, Ordered, Limit, Shown, Wanted
<1> QED BY <1>1, <1>2, <1>3, <1>4, <1>5, <1>6 DEF DumpNext, DumpStep, ReadBatch

(* ------------------------------------------------------------------------ *)

(* The invariant holds in every state of a dump.                             *)
LEMMA DumpInvCorrect == DumpSpec => []DumpInv
<1>1. DumpInit => DumpInv
  BY StoreAssumption, DumpAssumption, DumpInvInit
<1>2. DumpInv /\ [DumpNext]_allVars => DumpInv'
  BY StoreAssumption, DumpAssumption, DumpInvStep
<1> QED BY <1>1, <1>2, PTL DEF DumpSpec

(* A dump is in order, without repetition, and of its interval only.         *)
THEOREM DumpOrderCorrect == DumpSpec => []DumpInOrder
<1>1. DumpInv => DumpInOrder
  BY DEF DumpInv, Ordered, Sound, DumpInOrder
<1> QED BY <1>1, DumpInvCorrect, PTL

(* A dump that ends without a failed read has all that was there.            *)
THEOREM DumpCompleteCorrect == DumpSpec => []DumpIsComplete
<1>1. DumpInv => DumpIsComplete
  <2> SUFFICES ASSUME DumpInv, phase = "ended",
                      interval.start + interval.duration < Word, NEW r \in present,
                      interval.start <= r.time,
                      r.time < interval.start + interval.duration
               PROVE  \E i \in DOMAIN written : r \in written[i]
    BY DEF DumpIsComplete
  <2>1. Limit = interval.start + interval.duration
    BY StoreAssumption, DumpAssumption, LimitType DEF DumpInv
  <2>2. Wanted(r)
    BY <2>1 DEF Wanted
  <2> QED BY <2>2 DEF DumpInv, NothingSkipped, Shown
<1> QED BY <1>1, DumpInvCorrect, PTL

(* What a cut dump lacks is no older than what it has.                       *)
THEOREM CutDumpCorrect == DumpSpec => []CutDumpResumes
<1>1. DumpInv => CutDumpResumes
  <2> SUFFICES ASSUME DumpInv, phase = "cut",
                      interval.start + interval.duration < Word, NEW r \in present,
                      interval.start <= r.time,
                      r.time < interval.start + interval.duration,
                      ~Shown(r),
                      NEW i \in DOMAIN written, NEW x \in written[i]
               PROVE  x.time <= r.time
    BY DEF CutDumpResumes, Shown
  <2>1. Limit = interval.start + interval.duration
    BY StoreAssumption, DumpAssumption, LimitType DEF DumpInv
  <2>2. NotOlder(r, position)
    BY <2>1 DEF Wanted, DumpInv, NothingSkipped
  <2>3. Newer(position, x)
    BY DEF DumpInv, Behind
  <2>4. r \in Responses /\ x \in Responses /\ position \in Positions
    BY DEF DumpInv, DumpTypeOK, Bookkeeping, Sound
  <2>5. /\ r.time \in Nat /\ x.time \in Nat
        /\ position.time \in Nat /\ position.id \in Nat /\ x.id \in Nat /\ r.id \in Nat
    BY <2>4, StoreAssumption, KeyTypes DEF Positions
  <2> QED BY <2>2, <2>3, <2>5 DEF Newer, NotOlder, SameKey
<1> QED BY <1>1, DumpInvCorrect, PTL

(* ------------------------------------------------------------------------ *)
(* The importer.                                                             *)

Counters ==
  /\ state \in [Conns -> {"open", "ending", "closed"}]
  /\ received \in [Conns -> Nat]
  /\ id \in [Conns -> Nat]
  /\ failures \in Nat
  /\ \A c \in Conns : /\ id[c] <= received[c]
                      /\ received[c] <= id[c] + ImportBatch
                      /\ received[c] <= Len(Sent[c])

ImportInv == Counters /\ ImportedIsPrefix

(* One batch more.                                                           *)
LEMMA OneMore ==
  ASSUME ImportAssumption, NEW n \in Nat, WholeBatches(n)
  PROVE  WholeBatches(n + ImportBatch)
<1>1. PICK m \in 0..n : n = m * ImportBatch
  BY DEF WholeBatches
<1>2. ImportBatch \in Nat \ {0}
  BY DEF ImportAssumption
<1>3. m + 1 \in 0..n + ImportBatch
  BY <1>2
<1>4. n + ImportBatch = (m + 1) * ImportBatch
  BY <1>1, <1>2
<1> QED BY <1>3, <1>4 DEF WholeBatches

(* A batch has the responses of its own connection that are not stored yet.  *)
LEMMA InBatch ==
  ASSUME ImportAssumption, Counters, NEW c \in Conns, NEW d \in Conns,
         NEW k \in DOMAIN Sent[d]
  PROVE  Stored(d, k) \in Batch(c) <=> d = c /\ id[c] < k /\ k <= received[c]
<1>1. k \in Nat /\ k >= 1
  BY DEF ImportAssumption
<1>2. id[c] \in Nat /\ received[c] \in Nat /\ received[c] <= Len(Sent[c])
  BY DEF Counters
<1>3. ASSUME NEW n \in id[c] + 1..received[c] PROVE n \in DOMAIN Sent[c]
  BY <1>2, <1>3 DEF ImportAssumption
<1>4. ASSUME Stored(d, k) \in Batch(c) PROVE d = c /\ id[c] < k /\ k <= received[c]
  <2>1. PICK n \in id[c] + 1..received[c] : Stored(d, k) = Stored(c, n)
    BY <1>4 DEF Batch
  <2>2. n \in DOMAIN Sent[c] /\ n \in Nat
    BY <1>2, <1>3
  <2>3. d = c
    BY <2>1, <2>2 DEF ImportAssumption
  <2>4. k - 1 = n - 1
    BY <2>1 DEF Stored
  <2> QED BY <2>2, <2>3, <2>4, <1>1, <1>2
<1>5. ASSUME d = c, id[c] < k, k <= received[c] PROVE Stored(d, k) \in Batch(c)
  <2>1. k \in id[c] + 1..received[c]
    BY <1>1, <1>2, <1>5
  <2> QED BY <2>1, <1>5 DEF Batch
<1> QED BY <1>4, <1>5

(* At the beginning nothing is stored.                                       *)
LEMMA ImportInvInit == ASSUME ImportAssumption, ImportInit PROVE ImportInv
<1>1. \A c \in Conns : Len(Sent[c]) \in Nat /\ \A k \in DOMAIN Sent[c] : k \in Nat /\ k >= 1
  BY DEF ImportAssumption
<1>2. Counters
  BY <1>1 DEF ImportInit, Counters, ImportAssumption
<1>3. WholeBatches(0)
  BY DEF WholeBatches, ImportAssumption
<1>4. ImportedIsPrefix
  BY <1>1, <1>3 DEF ImportInit, Init, ImportedIsPrefix
<1> QED BY <1>2, <1>4 DEF ImportInv

(* Every step keeps the invariant.                                           *)
LEMMA ImportInvStep ==
  ASSUME ImportAssumption, ImportInv, [ImportNext]_importerVars
  PROVE  ImportInv'
<1> USE DEF ImportInv
<1>0. ImportBatch \in Nat \ {0} /\ \A c \in Conns : Len(Sent[c]) \in Nat
  BY DEF ImportAssumption
<1>1. ASSUME NEW c \in Conns, ReadResponse(c) PROVE ImportInv'
  <2>1. Counters'
    BY <1>0, <1>1 DEF ReadResponse, Counters, Pending
  <2>2. ImportedIsPrefix'
    BY <1>1 DEF ReadResponse, ImportedIsPrefix, vars
  <2> QED BY <2>1, <2>2
<1>2. ASSUME NEW c \in Conns, StreamFails(c) PROVE ImportInv'
  <2>1. Counters'
    BY <1>2 DEF StreamFails, Counters
  <2>2. ImportedIsPrefix'
    BY <1>2 DEF StreamFails, ImportedIsPrefix, vars, Counters
  <2> QED BY <2>1, <2>2
<1>3. ASSUME NEW c \in Conns, CommitBatch(c) PROVE ImportInv'
  <2>1. /\ byTime' = byTime \cup Batch(c)
        /\ id' = [id EXCEPT ![c] = received[c]]
        /\ received' = received /\ failures' = failures
    BY <1>3 DEF CommitBatch, Commit
  <2>2. state' = state \/ state' = [state EXCEPT ![c] = "closed"]
    BY <1>3 DEF CommitBatch, Close
  <2>3. Counters'
    <3>1. /\ id' \in [Conns -> Nat] /\ received' \in [Conns -> Nat] /\ failures' \in Nat
          /\ state' \in [Conns -> {"open", "ending", "closed"}]
      BY <2>1, <2>2 DEF Counters
    <3>2. ASSUME NEW d \in Conns
          PROVE  /\ id'[d] <= received'[d]
                 /\ received'[d] <= id'[d] + ImportBatch
                 /\ received'[d] <= Len(Sent[d])
      <4>1. /\ received[d] \in Nat /\ id[d] <= received[d]
            /\ received[d] <= id[d] + ImportBatch /\ received[d] <= Len(Sent[d])
        BY DEF Counters
      <4>2. received'[d] = received[d]
        BY <2>1
      <4>3. id'[d] = IF d = c THEN received[c] ELSE id[d]
        BY <2>1 DEF Counters
      <4> QED BY <4>1, <4>2, <4>3, <1>0
    <3> QED BY <3>1, <3>2 DEF Counters
  <2>4. ASSUME NEW d \in Conns, NEW k \in DOMAIN Sent[d]
        PROVE  Stored(d, k) \in byTime' <=> k <= id'[d]
    <3>1. k \in Nat /\ id[d] \in Nat /\ received[d] \in Nat /\ id[d] <= received[d]
      BY DEF ImportAssumption, Counters
    <3>2. Stored(d, k) \in byTime <=> k <= id[d]
      BY DEF ImportedIsPrefix
    <3>3. Stored(d, k) \in Batch(c) <=> d = c /\ id[c] < k /\ k <= received[c]
      BY InBatch
    <3>4. id'[d] = IF d = c THEN received[c] ELSE id[d]
      BY <2>1 DEF Counters
    <3> QED BY <2>1, <3>1, <3>2, <3>3, <3>4
  <2>5. ASSUME NEW d \in Conns, state'[d] = "open" PROVE WholeBatches(id'[d])
    <3>1. state[d] = "open"
      BY <2>2, <2>5 DEF Counters
    <3>2. WholeBatches(id[d])
      BY <3>1 DEF ImportedIsPrefix
    <3>3. CASE d = c
      <4>1. ~(Pending(c) < ImportBatch)
        BY <1>3, <2>5, <3>3 DEF CommitBatch, Close, Counters
      <4> DEFINE got == received[c]
                 next == id[c]
      <4>a. got \in Nat /\ next \in Nat /\ ImportBatch \in Nat /\ got <= next + ImportBatch
        BY <1>0 DEF Counters
      <4>b. ~(got - next < ImportBatch)
        BY <4>1 DEF Pending
      <4> HIDE DEF got, next
      <4>c. got = next + ImportBatch
        BY <4>a, <4>b
      <4>2. received[c] = id[c] + ImportBatch
        BY <4>c DEF got, next
      <4>3. id'[c] = id[c] + ImportBatch /\ id[c] \in Nat
        BY <4>2, <2>1 DEF Counters
      <4> QED BY <4>3, <3>2, <3>3, OneMore
    <3>4. CASE d # c
      BY <3>4, <3>2, <2>1 DEF Counters
    <3> QED BY <3>3, <3>4
  <2> QED BY <2>3, <2>4, <2>5 DEF ImportedIsPrefix, WholeBatches
<1>4. ASSUME NEW c \in Conns, BatchConflicts(c) \/ BatchFails(c) PROVE ImportInv'
  <2>1. /\ byTime' = byTime /\ id' = id /\ received' = received
        /\ failures' \in Nat
        /\ state' = [state EXCEPT ![c] = "closed"]
    BY <1>4 DEF BatchConflicts, BatchFails, Close, vars, Counters
  <2>2. Counters'
    BY <2>1 DEF Counters
  <2>3. ImportedIsPrefix'
    BY <2>1 DEF ImportedIsPrefix, Counters
  <2> QED BY <2>2, <2>3
<1>5. CASE Crash
  <2>1. /\ byTime' = byTime /\ id' = id /\ received' = received
        /\ failures' \in Nat
        /\ state' = [c \in Conns |-> "closed"]
    BY <1>5 DEF Crash, vars, Counters
  <2>2. Counters'
    BY <2>1 DEF Counters
  <2>3. ImportedIsPrefix'
    BY <2>1 DEF ImportedIsPrefix
  <2> QED BY <2>2, <2>3
<1>6. ASSUME NEW r \in Crawled, Crawl(r) PROVE ImportInv'
  <2>1. byTime' = byTime \cup {r} /\ UNCHANGED importVars
    BY <1>6 DEF Crawl, Commit
  <2>2. \A c \in Conns : \A k \in DOMAIN Sent[c] : Stored(c, k) # r
    BY DEF ImportAssumption
  <2>3. Counters'
    BY <2>1 DEF Counters, importVars
  <2>4. ImportedIsPrefix'
    BY <2>1, <2>2 DEF ImportedIsPrefix, importVars
  <2> QED BY <2>3, <2>4
<1>7. CASE UNCHANGED importerVars
  BY <1>7 DEF importerVars, vars, importVars, Counters, ImportedIsPrefix
<1> QED BY <1>1, <1>2, <1>3, <1>4, <1>5, <1>6, <1>7 DEF ImportNext

(* What is stored of an import is a beginning of it, in whole batches.       *)
THEOREM PrefixCorrect == ImportSpec => []ImportedIsPrefix
<1>1. ImportInit => ImportInv
  BY ImportAssumption, ImportInvInit
<1>2. ImportInv /\ [ImportNext]_importerVars => ImportInv'
  BY ImportAssumption, ImportInvStep
<1>3. ImportInv => ImportedIsPrefix
  BY DEF ImportInv
<1> QED BY <1>1, <1>2, <1>3, PTL DEF ImportSpec

(* No step of an import, a crawl or a crash removes a stored response.       *)
THEOREM GrowthCorrect == ImportSpec => ArchiveGrows
<1>1. [ImportNext]_importerVars => [byTime \subseteq byTime']_importerVars
  <2> SUFFICES ASSUME ImportNext PROVE byTime \subseteq byTime'
    OBVIOUS
  <2>1. ASSUME NEW c \in Conns, CommitBatch(c) PROVE byTime \subseteq byTime'
    BY <2>1 DEF CommitBatch, Commit
  <2>2. ASSUME NEW r \in Crawled, Crawl(r) PROVE byTime \subseteq byTime'
    BY <2>2 DEF Crawl, Commit
  <2> QED BY <2>1, <2>2 DEF ImportNext, ReadResponse, StreamFails, BatchConflicts,
                            BatchFails, Crash, vars
<1> QED BY <1>1, PTL DEF ImportSpec, ArchiveGrows

(* ------------------------------------------------------------------------ *)
(* Both in one archive.                                                      *)

(* A step of the dump leaves the archive as it is.                           *)
LEMMA DumpStepReads == DumpStep => UNCHANGED vars
  BY DEF DumpStep, Begin, ReadBatch, LastBatch, FullBatch, ReadFails

(* Every step is one of the importer or leaves it alone.                     *)
LEMMA StepIsImportStep == [ServiceNext]_serviceVars => [ImportNext]_importerVars
  BY DumpStepReads DEF ServiceNext, serviceVars, importerVars

(* What the importer and the workers commit is a batch of responses.         *)
LEMMA ImportIsCommit ==
  ASSUME ImportAssumption, Counters, ImportNext
  PROVE  UNCHANGED vars \/ \E batch \in SUBSET Responses : Commit(batch)
<1>1. ASSUME NEW c \in Conns, CommitBatch(c)
      PROVE  \E batch \in SUBSET Responses : Commit(batch)
  <2>1. ASSUME NEW k \in id[c] + 1..received[c] PROVE Stored(c, k) \in Responses
    <3>1. /\ id[c] \in Nat /\ received[c] \in Nat /\ received[c] <= Len(Sent[c])
          /\ Len(Sent[c]) \in Nat /\ DOMAIN Sent[c] = 1..Len(Sent[c])
      BY DEF Counters, ImportAssumption
    <3>2. k \in DOMAIN Sent[c] BY <3>1, <2>1
    <3> QED BY <3>2 DEF ImportAssumption
  <2>2. Batch(c) \in SUBSET Responses BY <2>1 DEF Batch
  <2> QED BY <1>1, <2>2 DEF CommitBatch
<1>2. ASSUME NEW r \in Crawled, Crawl(r)
      PROVE  \E batch \in SUBSET Responses : Commit(batch)
  <2>1. {r} \in SUBSET Responses BY DEF ImportAssumption
  <2> QED BY <1>2, <2>1 DEF Crawl
<1> QED BY <1>1, <1>2 DEF ImportNext, ReadResponse, StreamFails, BatchConflicts,
                          BatchFails, Crash

(* Every step is one of the dump among others' commits, or leaves it alone.  *)
LEMMA StepIsDumpStep ==
  ASSUME ImportAssumption, Counters, [ServiceNext]_serviceVars
  PROVE  [DumpNext]_allVars
<1>1. CASE DumpStep BY <1>1 DEF DumpNext
<1>2. CASE ImportNext /\ UNCHANGED dumpVars
  BY <1>2, ImportIsCommit DEF DumpNext, OthersWrite, allVars
<1>3. CASE UNCHANGED serviceVars BY <1>3 DEF serviceVars, allVars
<1> QED BY <1>1, <1>2, <1>3 DEF ServiceNext

LEMMA ServiceIsImport == ServiceSpec => ImportSpec
<1>1. ServiceInit => ImportInit BY DEF ServiceInit
<1> QED BY <1>1, StepIsImportStep, PTL DEF ServiceSpec, ImportSpec

LEMMA ServiceCounts == ServiceSpec => []ImportInv
<1>1. ImportInit => ImportInv
  BY ImportAssumption, ImportInvInit
<1>2. ImportInv /\ [ImportNext]_importerVars => ImportInv'
  BY ImportAssumption, ImportInvStep
<1> QED BY <1>1, <1>2, ServiceIsImport, PTL DEF ImportSpec

(* A dump beside imports is a dump among commits of batches of any size.     *)
THEOREM ServiceImplementsDump == ServiceSpec => DumpSpec
<1>1. ServiceInit => DumpInit BY DEF ServiceInit
<1>2. ImportInv /\ [ServiceNext]_serviceVars => [DumpNext]_allVars
  BY ImportAssumption, StepIsDumpStep DEF ImportInv
<1> QED BY <1>1, <1>2, ServiceCounts, PTL DEF ServiceSpec, DumpSpec

(* So imports neither disorder a dump nor hide from it what was there, and   *)
(* a dump does not disturb the imports.                                      *)
THEOREM ServiceCorrect ==
  ServiceSpec => /\ []DumpInOrder /\ []DumpIsComplete /\ []CutDumpResumes
                 /\ []ImportedIsPrefix
<1> QED BY ServiceImplementsDump, ServiceIsImport, DumpOrderCorrect, DumpCompleteCorrect,
           CutDumpCorrect, PrefixCorrect, PTL
=============================================================================
