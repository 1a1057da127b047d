-------------------------- MODULE CrawlQueueProofs --------------------------
(* Proofs about the crawl queue, for any two or more workers, any clients,   *)
(* URLs, normalisation, delay and bounds.                                    *)
EXTENDS CrawlQueue, TLAPS

(* The budget only shrinks.                                                  *)
LEMMA SpendType ==
  ASSUME budget \in [Kinds -> Nat], NEW k \in Kinds, Spend(k)
  PROVE  budget' \in [Kinds -> Nat]
BY DEF Spend

(* What a fiber needs of its locals at each label: a request whose clock was *)
(* read and whose id was taken has them, and a fetch has a time.             *)
Dated(c) == cpc[c] \in {"outdated", "adding", "bcast", "check", "missed",
                        "asleep", "answer"}

Locals ==
  /\ \A w \in Workers : wpc[w] = "fetching" => stamp[w].time \in Times
  /\ \A c \in Clients : cpc[c] # "idle" => req[c] \in Requests
  /\ \A c \in Clients : Dated(c) => req[c].now \in Times
  /\ \A c \in Clients :
       Dated(c) /\ cpc[c] # "outdated" => req[c].id \in 1..MaxId

Typed == TypeOK /\ Locals

LEMMA TypeInit == Init => Typed
BY QueueAssumption DEF Init, Typed, TypeOK, Locals, Dated, Times, Ids, Key,
   NoKey, WorkerLabels, ClientLabels, Entry, Requests

(* A worker's steps keep the types.                                          *)
LEMMA TypeWorker ==
  ASSUME Typed, NEW w \in Workers, WorkerNext(w)  PROVE Typed'
<1> USE QueueAssumption
    DEF Typed, TypeOK, Locals, Dated, WorkerLabels, tables, memory, clientVars,
        NoKey, Key, Ids
<1>1. ASSUME NEW e \in fwd, PeekHit(w, e)  PROVE Typed'
  BY <1>1 DEF PeekHit, Entry, Times
<1>2. CASE PeekMiss(w)
  BY <1>2 DEF PeekMiss
<1>3. CASE AwaitWork(w)
  BY <1>3 DEF AwaitWork
<1>4. CASE TakeJob(w)
  BY <1>4 DEF TakeJob
<1>5. CASE BeginFetch(w)
  BY <1>5 DEF BeginFetch, Times
<1>6. CASE CommitFetch(w)
  <2>1. job[w] \in Entry /\ Crawled(w).surt \in Surts
    BY <1>6 DEF CommitFetch, Entry, Crawled
  <2>2. stamp[w].time \in Times /\ stamp[w].id \in Ids
    BY <1>6 DEF CommitFetch
  <2>3. resp' \subseteq [surt : Surts, time : Times, id : Ids,
                        by : {"crawl", "import"}]
    BY <1>6, <2>1, <2>2 DEF CommitFetch, Crawled
  <2> QED
    BY <1>6, <2>3 DEF CommitFetch, Forget
<1>7. CASE FetchConflict(w)
  BY <1>7 DEF FetchConflict, Forget
<1>8. CASE WorkerError(w)
  BY <1>8, SpendType DEF WorkerError, Forget, Kinds
<1>9. CASE NotifyWaiters(w)
  BY <1>9 DEF NotifyWaiters, ClientLabels
<1> QED
  BY <1>1, <1>2, <1>3, <1>4, <1>5, <1>6, <1>7, <1>8, <1>9 DEF WorkerNext

(* A client's steps keep the types.                                          *)
LEMMA TypeClient ==
  ASSUME Typed, NEW c \in Clients, ClientNext(c)  PROVE Typed'
<1> USE QueueAssumption
    DEF Typed, TypeOK, Locals, Dated, ClientLabels, tables, memory, workerVars
<1>1. ASSUME NEW u \in Urls, ApiEnqueue(c, u)  PROVE Typed'
  <2>1. curId + 1 \in 1..MaxId /\ clock \in Times /\ 0 \in 0..MaxTime
    BY <1>1 DEF ApiEnqueue, Ids
  <2>2. req'[c] \in Requests /\ req'[c].now \in Times /\ req'[c].id \in 1..MaxId
    BY <1>1, <2>1 DEF ApiEnqueue, Requests, Ids, Times
  <2>3. budget' \in [Kinds -> Nat]
    BY <1>1, SpendType DEF ApiEnqueue, Kinds
  <2> QED
    BY <1>1, <2>1, <2>2, <2>3 DEF ApiEnqueue, Ids
<1>2. ASSUME NEW u \in Urls, PageHistory(c, u)  PROVE Typed'
  <2>1. req'[c] \in Requests /\ req' \in [Clients -> Requests \cup {None}]
    BY <1>2 DEF PageHistory, Requests, Ids
  <2>2. budget' \in [Kinds -> Nat]
    BY <1>2, SpendType DEF PageHistory, Kinds
  <2>3. \A d \in Clients : d # c => req'[d] = req[d]
    BY <1>2 DEF PageHistory
  <2> QED
    BY <1>2, <2>1, <2>2, <2>3 DEF PageHistory
<1>3. CASE PageOutdated(c)
  <2>1. req[c] \in Requests
    BY <1>3 DEF PageOutdated
  <2>2. req'[c] \in Requests /\ req'[c].now \in Times
    BY <1>3, <2>1 DEF PageOutdated, Requests, Times
  <2> QED
    BY <1>3, <2>2 DEF PageOutdated
<1>4. CASE PageCurrent(c)
  BY <1>4 DEF PageCurrent
<1>5. CASE PageEnqueue(c)
  <2>1. curId + 1 \in 1..MaxId /\ req[c] \in Requests
    BY <1>5 DEF PageEnqueue, Ids
  <2>2. req'[c] \in Requests /\ req'[c].now \in Times /\ req'[c].id \in 1..MaxId
    BY <1>5, <2>1 DEF PageEnqueue, Requests, Ids
  <2> QED
    BY <1>5, <2>1, <2>2 DEF PageEnqueue, Ids
<1>6. CASE AddAlreadyQueued(c)
  BY <1>6 DEF AddAlreadyQueued, Continue
<1>7. CASE AddTooRecent(c)
  BY <1>7 DEF AddTooRecent, Continue
<1>8. CASE AddCommit(c)
  <2>1. req[c] \in Requests /\ req[c].now \in Times /\ req[c].id \in 1..MaxId
    BY <1>8 DEF AddCommit
  <2>2. EntryOf(c) \in [time : Times, id : 1..MaxId, url : Urls]
    BY <2>1 DEF EntryOf, Requests
  <2>3. RevOf(EntryOf(c)) \in [surt : Surts, time : Times, id : 1..MaxId]
    BY <2>2 DEF RevOf
  <2> QED
    BY <1>8, <2>2, <2>3 DEF AddCommit
<1>9. CASE BroadcastWork(c)
  BY <1>9 DEF BroadcastWork, Continue, WorkerLabels
<1>10. CASE TimedwaitHit(c)
  BY <1>10 DEF TimedwaitHit
<1>11. CASE TimedwaitMiss(c)
  BY <1>11 DEF TimedwaitMiss
<1>12. CASE TimedwaitSleep(c)
  BY <1>12 DEF TimedwaitSleep
<1>13. CASE Timeout(c)
  BY <1>13 DEF Timeout
<1>14. CASE WriteAnswer(c)
  BY <1>14 DEF WriteAnswer
<1>15. CASE ClientError(c)
  BY <1>15, SpendType DEF ClientError, Kinds
<1> QED
  BY <1>1, <1>2, <1>3, <1>4, <1>5, <1>6, <1>7, <1>8, <1>9, <1>10, <1>11,
     <1>12, <1>13, <1>14, <1>15 DEF ClientNext

(* The steps of the surroundings keep the types.                             *)
LEMMA TypeSurroundings ==
  ASSUME Typed,
         \/ Tick \/ Crash \/ UNCHANGED vars
         \/ \E s \in Surts, t \in Times, i \in ImportIds : Import(s, t, i)
  PROVE  Typed'
<1> USE QueueAssumption DEF Typed, TypeOK, Locals, Dated, tables, memory,
        workerVars, clientVars
<1>1. CASE Tick
  BY <1>1 DEF Tick, Times
<1>2. CASE Crash
  BY <1>2, SpendType DEF Crash, Kinds, WorkerLabels, ClientLabels, NoKey, Key,
     Ids
<1>3. CASE UNCHANGED vars
  BY <1>3 DEF vars
<1>4. ASSUME NEW s \in Surts, NEW t \in Times, NEW i \in ImportIds,
             Import(s, t, i)
      PROVE  Typed'
  BY <1>4, SpendType DEF Import, Kinds
<1> QED
  BY <1>1, <1>2, <1>3, <1>4

LEMMA TypeStep == Typed /\ [Next]_vars => Typed'
BY TypeWorker, TypeClient, TypeSurroundings DEF Next

(* Every variable keeps its type; in particular no entry of the queue has a  *)
(* zero time or id, which queue_remove asserts.                              *)
THEOREM TypeCorrect == Spec => []TypeOK
<1>1. Typed => TypeOK
  BY DEF Typed
<1>2. QED
  BY <1>1, TypeInit, TypeStep, PTL DEF Spec
-----------------------------------------------------------------------------
(* The two queue tables.                                                     *)

(* Only a handler that adds and a worker that commits write the queue; the   *)
(* responses only grow.                                                      *)
LEMMA QueueWriters ==
  ASSUME Next,
         \A c \in Clients : ~AddCommit(c),
         \A w \in Workers : ~CommitFetch(w)
  PROVE  UNCHANGED <<fwd, rev>>
<1> USE DEF tables
<1>1. ASSUME NEW w \in Workers, WorkerNext(w)  PROVE UNCHANGED <<fwd, rev>>
  BY <1>1 DEF WorkerNext, PeekHit, PeekMiss, AwaitWork, TakeJob, BeginFetch,
     FetchConflict, WorkerError, NotifyWaiters
<1>2. ASSUME NEW c \in Clients, ClientNext(c)  PROVE UNCHANGED <<fwd, rev>>
  BY <1>2 DEF ClientNext, ApiEnqueue, PageHistory, PageOutdated, PageCurrent,
     PageEnqueue, AddAlreadyQueued, AddTooRecent, BroadcastWork, TimedwaitHit,
     TimedwaitMiss, TimedwaitSleep, Timeout, WriteAnswer, ClientError
<1> QED
  BY <1>1, <1>2 DEF Next, Tick, Import, Crash

LEMMA ResponsesStay == Next => resp \subseteq resp'
<1> USE DEF tables
<1>1. ASSUME NEW w \in Workers, WorkerNext(w)  PROVE resp \subseteq resp'
  BY <1>1 DEF WorkerNext, PeekHit, PeekMiss, AwaitWork, TakeJob, BeginFetch,
     CommitFetch, FetchConflict, WorkerError, NotifyWaiters
<1>2. ASSUME NEW c \in Clients, ClientNext(c)  PROVE resp \subseteq resp'
  BY <1>2 DEF ClientNext, ApiEnqueue, PageHistory, PageOutdated, PageCurrent,
     PageEnqueue, AddAlreadyQueued, AddTooRecent, AddCommit, BroadcastWork,
     TimedwaitHit, TimedwaitMiss, TimedwaitSleep, Timeout, WriteAnswer,
     ClientError
<1> QED
  BY <1>1, <1>2 DEF Next, Tick, Import, Crash

(* A handler adds the URL only when the table by URL does not have it, and a *)
(* worker removes an entry from both.                                        *)
LEMMA TablesStep == OneEntryPerUrl /\ [Next]_vars => OneEntryPerUrl'
<1> SUFFICES ASSUME OneEntryPerUrl, [Next]_vars  PROVE OneEntryPerUrl'
  OBVIOUS
<1> USE DEF OneEntryPerUrl
<1>1. ASSUME NEW c \in Clients, AddCommit(c)  PROVE OneEntryPerUrl'
  <2>1. \A e \in fwd : SurtOf[e.url] # SurtOf[EntryOf(c).url]
    <3>1. \A e \in fwd : RevOf(e) \in rev /\ RevOf(e).surt = SurtOf[e.url]
      BY DEF RevOf
    <3>2. EntryOf(c).url = req[c].url
      BY DEF EntryOf
    <3> QED
      BY <1>1, <3>1, <3>2 DEF AddCommit, AlreadyQueued, SurtOfReq
  <2> QED
    BY <1>1, <2>1 DEF AddCommit
<1>2. ASSUME NEW w \in Workers, CommitFetch(w)  PROVE OneEntryPerUrl'
  <2>1. job[w] \in fwd
    BY <1>2 DEF CommitFetch
  <2>2. \A e \in fwd : RevOf(e) = RevOf(job[w]) => e = job[w]
    BY <2>1 DEF RevOf
  <2>3. fwd' = fwd \ {job[w]} /\ rev' = rev \ {RevOf(job[w])}
    BY <1>2 DEF CommitFetch
  <2>4. rev' = {RevOf(e) : e \in fwd'}
    BY <2>2, <2>3
  <2> QED
    BY <2>3, <2>4
<1>3. CASE UNCHANGED <<fwd, rev>>
  BY <1>3 DEF RevOf
<1> QED
  BY <1>1, <1>2, <1>3, QueueWriters DEF vars, tables

-----------------------------------------------------------------------------
(* The jobs.                                                                 *)

(* A step that takes no job, does not move the cursor and removes no entry   *)
(* leaves the jobs as they are.                                              *)
LEMMA JobsFrame ==
  ASSUME JobsAreExclusive,
         \A w \in Workers : Holding(w)' => Holding(w) /\ job'[w] = job[w],
         cursor' = cursor, fwd \subseteq fwd'
  PROVE  JobsAreExclusive'
BY DEF JobsAreExclusive, Ahead

(* Which steps those are.                                                    *)
LEMMA JobsKept ==
  ASSUME Typed, [Next]_vars,
         \A w \in Workers, e \in fwd : ~PeekHit(w, e),
         \A w \in Workers : ~CommitFetch(w),
         ~Crash
  PROVE  /\ \A w \in Workers : Holding(w)' => Holding(w) /\ job'[w] = job[w]
         /\ cursor' = cursor /\ fwd \subseteq fwd'
<1> DEFINE Kept ==
      /\ \A w \in Workers : Holding(w)' => Holding(w) /\ job'[w] = job[w]
      /\ cursor' = cursor /\ fwd \subseteq fwd'
<1> USE DEF Holding, tables, memory, workerVars, clientVars, Typed, TypeOK
<1>1. ASSUME NEW w \in Workers, WorkerNext(w)  PROVE Kept
  BY <1>1 DEF WorkerNext, PeekMiss, AwaitWork, TakeJob, BeginFetch,
     FetchConflict, WorkerError, NotifyWaiters, Forget
<1>2. ASSUME NEW c \in Clients, ClientNext(c)  PROVE Kept
  BY <1>2 DEF ClientNext, ApiEnqueue, PageHistory, PageOutdated, PageCurrent,
     PageEnqueue, AddAlreadyQueued, AddTooRecent, AddCommit, BroadcastWork,
     TimedwaitHit, TimedwaitMiss, TimedwaitSleep, Timeout, WriteAnswer,
     ClientError
<1>3. CASE UNCHANGED vars
  BY <1>3 DEF vars
<1> QED
  BY <1>1, <1>2, <1>3 DEF Next, Tick, Import

(* The entry a peek finds is ahead of the cursor, so nobody holds it; the    *)
(* cursor then reaches it and passes no job it had not passed.  A commit     *)
(* removes the job of the worker that commits and of no other.               *)
LEMMA JobsStep ==
  Typed /\ OneEntryPerUrl /\ JobsAreExclusive /\ [Next]_vars => JobsAreExclusive'
<1> SUFFICES ASSUME Typed, OneEntryPerUrl, JobsAreExclusive, [Next]_vars
             PROVE  JobsAreExclusive'
  OBVIOUS
<1>1. ASSUME NEW w \in Workers, NEW e \in fwd, PeekHit(w, e)
      PROVE  JobsAreExclusive'
  <2>1. /\ Ahead(e) /\ fwd' = fwd
        /\ cursor' = [time |-> e.time, id |-> e.id]
        /\ job'[w] = e
        /\ \A v \in Workers : v # w => job'[v] = job[v] /\ wpc'[v] = wpc[v]
    BY <1>1 DEF PeekHit, NextUp, Typed, TypeOK, tables
  <2>2. \A v \in Workers : v # w => (Holding(v)' <=> Holding(v))
    BY <2>1 DEF Holding
  <2>3. /\ cursor.time \in Nat /\ cursor.id \in Nat
        /\ \A f \in fwd : f.time \in Nat /\ f.id \in Nat
    BY DEF Typed, TypeOK, Key, Times, Ids
  <2>4. ~Ahead(e)'
    BY <2>1, <2>3 DEF Ahead
  <2>5. \A f \in fwd : ~Ahead(f) => ~Ahead(f)'
    BY <2>1, <2>3 DEF Ahead
  <2>6. \A v \in Workers : Holding(v) =>
          job[v] \in fwd /\ ~Ahead(job[v]) /\ SurtOf[job[v].url] # SurtOf[e.url]
    BY <2>1 DEF JobsAreExclusive, OneEntryPerUrl
  <2>7. ASSUME NEW v \in Workers, Holding(v)'
        PROVE  /\ job'[v] \in fwd' /\ ~Ahead(job[v])'
               /\ \A x \in Workers :
                    Holding(x)' /\ SurtOf[job'[x].url] = SurtOf[job'[v].url]
                      => x = v
    <3>1. CASE v = w
      BY <2>1, <2>2, <2>4, <2>6, <2>7, <3>1 DEF Ahead
    <3>2. CASE v # w
      <4>1. Holding(v) /\ job'[v] = job[v]
        BY <2>1, <2>2, <2>7, <3>2
      <4>2. ~Ahead(job[v])'
        BY <2>5, <2>6, <4>1 DEF Ahead
      <4> QED
        BY <2>1, <2>2, <2>6, <4>1, <4>2 DEF JobsAreExclusive
    <3> QED
      BY <3>1, <3>2
  <2> QED
    BY <2>7 DEF JobsAreExclusive
<1>2. ASSUME NEW w \in Workers, CommitFetch(w)  PROVE JobsAreExclusive'
  <2>1. /\ Holding(w) /\ ~Holding(w)' /\ cursor' = cursor
        /\ fwd' = fwd \ {job[w]}
        /\ \A v \in Workers : v # w => job'[v] = job[v] /\ wpc'[v] = wpc[v]
    BY <1>2 DEF CommitFetch, Forget, Holding, Typed, TypeOK, memory
  <2>2. \A v \in Workers : Holding(v)' =>
          v # w /\ Holding(v) /\ job'[v] = job[v] /\ job[v] # job[w]
    BY <2>1 DEF Holding, JobsAreExclusive
  <2> QED
    BY <2>1, <2>2 DEF JobsAreExclusive, Ahead
<1>3. CASE Crash
  <2>1. \A w \in Workers : ~Holding(w)'
    BY <1>3 DEF Crash, Holding
  <2> QED
    BY <2>1 DEF JobsAreExclusive
<1> QED
  BY <1>1, <1>2, <1>3, JobsKept, JobsFrame
-----------------------------------------------------------------------------
(* The wakeups of the workers.                                               *)

(* A worker between its peek and its wait holds work_lock; and when an entry *)
(* is ahead of the cursor, a handler is about to broadcast or a worker is    *)
(* neither waiting nor about to wait.                                        *)
Wakeups ==
  /\ \A w \in Workers : wpc[w] \in {"empty", "found"} => workLock = w
  /\ (\E e \in fwd : Ahead(e)) =>
       \/ \E c \in Clients : cpc[c] = "bcast"
       \/ \E w \in Workers : wpc[w] \notin {"waiting", "empty"}

(* The broadcast misses at most the one worker that holds the lock, so with  *)
(* two workers one hears it or is at work.                                   *)
LEMMA WakeupsStep == Typed /\ Wakeups /\ [Next]_vars => Wakeups'
<1> SUFFICES ASSUME Typed, Wakeups, [Next]_vars  PROVE Wakeups'
  OBVIOUS
<1> USE QueueAssumption
    DEF Wakeups, Ahead, Typed, TypeOK, tables, memory, workerVars, clientVars
<1>1. ASSUME NEW w \in Workers, WorkerNext(w)  PROVE Wakeups'
  <2>1. ASSUME NEW e \in fwd, PeekHit(w, e)  PROVE Wakeups'
    BY <2>1 DEF PeekHit
  <2>2. CASE PeekMiss(w)
    BY <2>2 DEF PeekMiss
  <2>3. CASE AwaitWork(w)
    BY <2>3 DEF AwaitWork
  <2>4. CASE TakeJob(w)
    BY <2>4 DEF TakeJob
  <2>5. CASE BeginFetch(w)
    BY <2>5 DEF BeginFetch
  <2>6. CASE CommitFetch(w)
    BY <2>6 DEF CommitFetch
  <2>7. CASE FetchConflict(w)
    BY <2>7 DEF FetchConflict
  <2>8. CASE WorkerError(w)
    BY <2>8 DEF WorkerError
  <2>9. CASE NotifyWaiters(w)
    BY <2>9 DEF NotifyWaiters
  <2> QED
    BY <1>1, <2>1, <2>2, <2>3, <2>4, <2>5, <2>6, <2>7, <2>8, <2>9
    DEF WorkerNext
<1>2. ASSUME NEW c \in Clients, ClientNext(c)  PROVE Wakeups'
  <2>1. CASE AddCommit(c)
    BY <2>1 DEF AddCommit
  <2>2. CASE BroadcastWork(c)
    <3>1. \A w \in Workers : wpc'[w] \in {"empty", "found"} => wpc'[w] = wpc[w]
      BY <2>2 DEF BroadcastWork
    <3>2. \E w \in Workers : wpc[w] # "empty"
      OBVIOUS
    <3>3. \E w \in Workers : wpc'[w] \notin {"waiting", "empty"}
      BY <2>2, <3>2 DEF BroadcastWork
    <3> QED
      BY <2>2, <3>1, <3>3 DEF BroadcastWork
  <2>3. CASE ~AddCommit(c) /\ ~BroadcastWork(c)
    <3>1. /\ UNCHANGED <<fwd, cursor, wpc, workLock>>
          /\ \A d \in Clients : cpc[d] = "bcast" => cpc'[d] = "bcast"
      BY <1>2, <2>3 DEF ClientNext, ApiEnqueue, PageHistory, PageOutdated,
         PageCurrent, PageEnqueue, AddAlreadyQueued, AddTooRecent, Continue,
         TimedwaitHit, TimedwaitMiss, TimedwaitSleep, Timeout, WriteAnswer,
         ClientError
    <3> QED
      BY <3>1
  <2> QED
    BY <2>1, <2>2, <2>3
<1>3. CASE Crash
  BY <1>3 DEF Crash
<1>4. CASE UNCHANGED <<fwd, cursor, workerVars, clientVars>>
  BY <1>4
<1> QED
  BY <1>1, <1>2, <1>3, <1>4 DEF Next, Tick, Import, vars

-----------------------------------------------------------------------------
(* The answers.                                                              *)

(* A response recent enough stays in the table, and the request of a client  *)
(* does not change before it is answered.                                    *)
LEMMA AnswersStep ==
  Typed /\ AnswersAreFresh /\ [Next]_vars => AnswersAreFresh'
<1> SUFFICES ASSUME Typed, AnswersAreFresh, [Next]_vars,
                    NEW d \in Clients, cpc'[d] = "answer"
             PROVE  Fresh(SurtOfReq(d), req[d].now)'
  BY DEF AnswersAreFresh
<1>1. resp \subseteq resp'
  BY ResponsesStay DEF vars, tables
<1>2. req'[d] = req[d] /\ Fresh(SurtOfReq(d), req[d].now)
  <2> USE DEF Typed, TypeOK, AnswersAreFresh, clientVars
  <2>1. ASSUME NEW w \in Workers, WorkerNext(w)
        PROVE  req'[d] = req[d] /\ cpc[d] = "answer"
    BY <2>1 DEF WorkerNext, PeekHit, PeekMiss, AwaitWork, TakeJob, BeginFetch,
       CommitFetch, FetchConflict, WorkerError, NotifyWaiters
  <2>2. ASSUME NEW c \in Clients, ClientNext(c)
        PROVE  req'[d] = req[d] /\ Fresh(SurtOfReq(d), req[d].now)
    <3>1. CASE AddTooRecent(c)
      BY <3>1 DEF AddTooRecent, Continue
    <3>2. CASE TimedwaitHit(c)
      BY <3>2 DEF TimedwaitHit
    <3>3. CASE ~AddTooRecent(c) /\ ~TimedwaitHit(c)
      <4>1. req'[d] = req[d] /\ cpc[d] = "answer"
        BY <2>2, <3>3 DEF ClientNext, ApiEnqueue, PageHistory, PageOutdated,
           PageCurrent, PageEnqueue, AddAlreadyQueued, AddCommit, Continue,
           BroadcastWork, TimedwaitMiss, TimedwaitSleep, Timeout, WriteAnswer,
           ClientError
      <4> QED
        BY <4>1
    <3> QED
      BY <3>1, <3>2, <3>3
  <2> QED
    BY <2>1, <2>2 DEF Next, Tick, Import, Crash, vars
<1> QED
  BY <1>1, <1>2 DEF Fresh, SurtOfReq
-----------------------------------------------------------------------------
(* The times.                                                                *)

(* No request and no entry is younger than the clock, and the response of a  *)
(* fetch is not older than the entry it is for.                              *)
TimesInOrder ==
  /\ \A c \in Clients : Dated(c) => req[c].now <= clock
  /\ \A e \in fwd : e.time <= clock
  /\ \A w \in Workers : wpc[w] = "fetching" => job[w].time <= stamp[w].time

LEMMA TimesStep ==
  Typed /\ JobsAreExclusive /\ TimesInOrder /\ [Next]_vars => TimesInOrder'
<1> SUFFICES ASSUME Typed, JobsAreExclusive, TimesInOrder, [Next]_vars
             PROVE  TimesInOrder'
  OBVIOUS
<1> USE QueueAssumption
    DEF Typed, TypeOK, Locals, TimesInOrder, Dated, tables, memory, workerVars,
        clientVars
<1>1. ASSUME NEW w \in Workers, WorkerNext(w)  PROVE TimesInOrder'
  <2>1. /\ UNCHANGED <<clock, req>> /\ fwd' \subseteq fwd
        /\ \A c \in Clients : Dated(c)' => Dated(c)
    BY <1>1 DEF WorkerNext, PeekHit, PeekMiss, AwaitWork, TakeJob, BeginFetch,
       CommitFetch, FetchConflict, WorkerError, NotifyWaiters
  <2>2. CASE BeginFetch(w)
    <3>1. job[w] \in fwd /\ job' = job /\ stamp'[w].time = clock
      BY <2>2 DEF BeginFetch, JobsAreExclusive, Holding
    <3>2. \A v \in Workers : v # w => wpc'[v] = wpc[v] /\ stamp'[v] = stamp[v]
      BY <2>2 DEF BeginFetch
    <3> QED
      BY <2>1, <3>1, <3>2
  <2>3. CASE ~BeginFetch(w)
    <3>1. \A v \in Workers : wpc'[v] = "fetching" =>
            wpc[v] = "fetching" /\ job'[v] = job[v] /\ stamp'[v] = stamp[v]
      BY <1>1, <2>3 DEF WorkerNext, PeekHit, PeekMiss, AwaitWork, TakeJob,
         CommitFetch, FetchConflict, WorkerError, NotifyWaiters, Forget
    <3> QED
      BY <2>1, <3>1
  <2> QED
    BY <2>2, <2>3
<1>2. ASSUME NEW c \in Clients, ClientNext(c)  PROVE TimesInOrder'
  <2>1. /\ UNCHANGED <<clock, job, stamp>>
        /\ \A w \in Workers : wpc'[w] = "fetching" => wpc[w] = "fetching"
    BY <1>2 DEF ClientNext, ApiEnqueue, PageHistory, PageOutdated, PageCurrent,
       PageEnqueue, AddAlreadyQueued, AddTooRecent, AddCommit, BroadcastWork,
       TimedwaitHit, TimedwaitMiss, TimedwaitSleep, Timeout, WriteAnswer,
       ClientError
  <2>2. \A e \in fwd' : e \in fwd \/ (Dated(c) /\ e.time = req[c].now)
    BY <1>2 DEF ClientNext, ApiEnqueue, PageHistory, PageOutdated, PageCurrent,
       PageEnqueue, AddAlreadyQueued, AddTooRecent, AddCommit, BroadcastWork,
       TimedwaitHit, TimedwaitMiss, TimedwaitSleep, Timeout, WriteAnswer,
       ClientError, EntryOf
  <2>3. clock \in Nat /\ clock <= clock
    BY DEF Times
  <2>4. \A d \in Clients : Dated(d)' =>
          (Dated(d) /\ req'[d].now = req[d].now) \/ req'[d].now = clock
    <3>1. CASE PageOutdated(c)
      <4>1. req[c] \in Requests
        BY <3>1 DEF PageOutdated
      <4>2. req'[c].now = clock
        BY <3>1, <4>1 DEF PageOutdated, Requests
      <4> QED
        BY <3>1, <4>2 DEF PageOutdated
    <3>2. CASE PageEnqueue(c)
      <4>1. req[c] \in Requests
        BY <3>2 DEF PageEnqueue
      <4>2. req'[c].now = req[c].now
        BY <3>2, <4>1 DEF PageEnqueue, Requests
      <4> QED
        BY <3>2, <4>2 DEF PageEnqueue
    <3>3. CASE ~PageOutdated(c) /\ ~PageEnqueue(c)
      BY <1>2, <3>3 DEF ClientNext, ApiEnqueue, PageHistory, PageCurrent,
         AddAlreadyQueued, AddTooRecent, AddCommit, Continue, BroadcastWork,
         TimedwaitHit, TimedwaitMiss, TimedwaitSleep, Timeout, WriteAnswer,
         ClientError
    <3> QED
      BY <3>1, <3>2, <3>3
  <2> QED
    BY <2>1, <2>2, <2>3, <2>4
<1>3. CASE Tick
  BY <1>3 DEF Tick, Times, Requests
<1>4. CASE Crash
  BY <1>4 DEF Crash
<1>5. CASE UNCHANGED <<clock, fwd, workerVars, clientVars>>
  BY <1>5
<1> QED
  BY <1>1, <1>2, <1>3, <1>4, <1>5 DEF Next, Import, vars

-----------------------------------------------------------------------------
(* The inductive invariant.                                                  *)

IInv == /\ Typed /\ OneEntryPerUrl /\ JobsAreExclusive
        /\ Wakeups /\ AnswersAreFresh /\ TimesInOrder

LEMMA InvInit == Init => IInv
<1> SUFFICES ASSUME Init  PROVE IInv
  OBVIOUS
<1>1. Typed
  BY TypeInit
<1>2. OneEntryPerUrl /\ JobsAreExclusive /\ AnswersAreFresh /\ TimesInOrder
  BY DEF Init, OneEntryPerUrl, JobsAreExclusive, Holding, AnswersAreFresh,
     TimesInOrder, Dated
<1>3. Wakeups
  BY DEF Init, Wakeups
<1> QED
  BY <1>1, <1>2, <1>3 DEF IInv

LEMMA InvStep == IInv /\ [Next]_vars => IInv'
BY TypeStep, TablesStep, JobsStep, WakeupsStep, AnswersStep, TimesStep DEF IInv

LEMMA InvCorrect == Spec => []IInv
BY InvInit, InvStep, PTL DEF Spec

(* The two queue tables agree and a URL is queued at most once, whatever     *)
(* handlers and workers do in between the check and the commit of another.   *)
THEOREM OneEntryCorrect == Spec => []OneEntryPerUrl
BY InvCorrect, PTL DEF IInv

(* No two workers fetch one URL at the same time, and the entry of a fetch   *)
(* is in the queue, behind the cursor, until its worker commits.             *)
THEOREM JobsCorrect == Spec => []JobsAreExclusive
BY InvCorrect, PTL DEF IInv

(* When all workers wait and nobody is about to wake them, the queue holds   *)
(* nothing ahead of the cursor.                                              *)
THEOREM IdleCorrect == Spec => []IdleMeansDrained
<1>1. IInv => IdleMeansDrained
  BY DEF IInv, Wakeups, IdleMeansDrained
<1>2. QED
  BY <1>1, InvCorrect, PTL

(* A client is answered only with a response within the delay of its request.*)
THEOREM AnswersCorrect == Spec => []AnswersAreFresh
BY InvCorrect, PTL DEF IInv
-----------------------------------------------------------------------------
(* The queue implements the abstract archive.                                *)

Queued == {[surt |-> SurtOf[e.url], since |-> e.time] : e \in fwd}

(* A handler's commit is the abstract Enqueue.                               *)
LEMMA AddIsEnqueue ==
  ASSUME IInv, NEW c \in Clients, AddCommit(c)
  PROVE  Archive!Next
<1> DEFINE s == SurtOfReq(c)
           t == req[c].now
<1>1. s \in Surts /\ t \in Times
  BY QueueAssumption DEF IInv, Typed, Locals, Dated, AddCommit, SurtOfReq,
     Requests
<1>2. \A q \in Queued : q.surt # s
  <2>1. \A e \in fwd : RevOf(e) \in rev /\ RevOf(e).surt = SurtOf[e.url]
    BY DEF IInv, OneEntryPerUrl, RevOf
  <2> QED
    BY <2>1 DEF AddCommit, AlreadyQueued, Queued
<1>3. \A r \in resp : r.surt = s => r.time + Delay < t
  <2> SUFFICES ASSUME NEW r \in resp, r.surt = s  PROVE r.time + Delay < t
    OBVIOUS
  <2>1. ~(r.time + Delay >= t)
    BY DEF AddCommit, Fresh
  <2>2. r.time \in Nat /\ Delay \in Nat /\ t \in Nat
    BY <1>1, QueueAssumption DEF IInv, Typed, TypeOK, Times
  <2> QED
    BY <2>1, <2>2
<1>4. Queued' = Queued \cup {[surt |-> s, since |-> t]} /\ resp' = resp
  <2>1. SurtOf[EntryOf(c).url] = s /\ EntryOf(c).time = t
    BY DEF EntryOf, SurtOfReq
  <2> QED
    BY <2>1 DEF AddCommit, Queued
<1>5. Archive!Enqueue(s, t)
  BY <1>2, <1>3, <1>4 DEF Archive!Enqueue, Queued
<1> QED
  BY <1>1, <1>5 DEF Archive!Next, Archive!Enqueue

(* A worker's commit is the abstract Record.                                 *)
LEMMA CommitIsRecord ==
  ASSUME IInv, NEW w \in Workers, CommitFetch(w)
  PROVE  Archive!Next
<1> DEFINE j == job[w]
           q == [surt |-> SurtOf[j.url], since |-> j.time]
           t == stamp[w].time
           i == stamp[w].id
<1>1. t \in Times /\ i \in Ids /\ j \in fwd /\ q \in Queued
  BY DEF IInv, Typed, TypeOK, Locals, Key, CommitFetch, Queued
<1>2. q.since <= t
  BY DEF IInv, TimesInOrder, CommitFetch
<1>3. Archive!Unused(t, i)
  BY DEF CommitFetch, KeyInUse, Archive!Unused
<1>4. Queued' = Queued \ {q}
  <2>1. fwd' = fwd \ {j}
    BY DEF CommitFetch
  <2>2. \A e \in fwd :
          [surt |-> SurtOf[e.url], since |-> e.time] = q => e = j
    BY <1>1 DEF IInv, OneEntryPerUrl
  <2> QED
    BY <2>1, <2>2 DEF Queued
<1>5. resp' = resp \cup
        {[surt |-> q.surt, time |-> t, id |-> i, by |-> "crawl"]}
  BY DEF CommitFetch, Crawled
<1>6. Archive!Record(q, t, i)
  BY <1>2, <1>3, <1>4, <1>5 DEF Archive!Record, Queued
<1> QED
  BY <1>1, <1>6 DEF Archive!Next, Archive!Record, Queued

(* An import is a Deposit, and no other step is seen.                        *)
LEMMA StepIsArchiveStep ==
  IInv /\ [Next]_vars => [Archive!Next]_(Archive!vars)
<1> SUFFICES ASSUME IInv, [Next]_vars
             PROVE  Archive!Next \/ UNCHANGED <<fwd, resp>>
  BY DEF Archive!vars
<1>1. ASSUME NEW s \in Surts, NEW t \in Times, NEW i \in ImportIds,
             Import(s, t, i)
      PROVE  Archive!Next
  <2>1. i \in Ids
    BY QueueAssumption
  <2>2. Archive!Deposit(s, t, i)
    BY <1>1 DEF Import, KeyInUse, Archive!Deposit, Archive!Unused
  <2> QED
    BY <2>1, <2>2 DEF Archive!Next
<1>2. ASSUME NEW w \in Workers, WorkerNext(w), ~CommitFetch(w)
      PROVE  UNCHANGED <<fwd, resp>>
  BY <1>2 DEF WorkerNext, PeekHit, PeekMiss, AwaitWork, TakeJob, BeginFetch,
     FetchConflict, WorkerError, NotifyWaiters, tables
<1>3. ASSUME NEW c \in Clients, ClientNext(c), ~AddCommit(c)
      PROVE  UNCHANGED <<fwd, resp>>
  BY <1>3 DEF ClientNext, ApiEnqueue, PageHistory, PageOutdated, PageCurrent,
     PageEnqueue, AddAlreadyQueued, AddTooRecent, BroadcastWork, TimedwaitHit,
     TimedwaitMiss, TimedwaitSleep, Timeout, WriteAnswer, ClientError, tables
<1>4. CASE Tick \/ Crash \/ UNCHANGED vars
  BY <1>4 DEF Tick, Crash, vars, tables
<1> QED
  BY <1>1, <1>2, <1>3, <1>4, AddIsEnqueue, CommitIsRecord DEF Next

(* The queue with its workers, locks and tables does only what the abstract  *)
(* archive allows: an entry leaves only with its response, responses stay,   *)
(* and a URL is queued only when it is due.                                  *)
THEOREM Implementation == Spec => ImplementsArchive
<1>1. Init => Archive!Init
  BY DEF Init, Archive!Init
<1>2. QED
  BY <1>1, StepIsArchiveStep, InvCorrect, PTL DEF Spec, ImplementsArchive

(* What is proved of the abstract archive, at the state the queue maps to.   *)
Abstract == INSTANCE CrawlArchiveProofs WITH
  Times <- Times, Ids <- Ids, queued <- Queued, archive <- resp

LEMMA SpacedInit == Init => Abstract!Spaced
BY DEF Init, Abstract!Spaced, Abstract!CrawlSpacing, Abstract!WaitingIsDue,
   Queued

LEMMA SpacedStep == IInv /\ Abstract!Spaced /\ [Next]_vars => Abstract!Spaced'
<1> SUFFICES ASSUME IInv, Abstract!Spaced, [Next]_vars
             PROVE  Abstract!Spaced'
  OBVIOUS
<1>1. Delay \in Nat /\ Times \subseteq Nat
  BY QueueAssumption DEF Times
<1>2. Abstract!TypeOK
  BY QueueAssumption DEF IInv, Typed, TypeOK, Abstract!TypeOK,
     Abstract!Request, Abstract!Response, Queued
<1>3. [Abstract!Next]_(Abstract!vars)
  BY StepIsArchiveStep
  DEF Queued, Archive!Next, Archive!vars, Archive!Enqueue, Archive!Record,
      Archive!Deposit, Archive!Unused, Abstract!Next, Abstract!vars,
      Abstract!Enqueue, Abstract!Record, Abstract!Deposit, Abstract!Unused
<1> QED
  BY <1>1, <1>2, <1>3, Abstract!SpacedStep

(* Two crawls of one URL are more than the crawl delay apart, however many   *)
(* handlers, workers, failures, restarts and imports there are: inherited    *)
(* from the abstract archive.                                                *)
THEOREM SpacingCorrect == Spec => []CrawlSpacing
<1>1. Abstract!Spaced => CrawlSpacing
  BY DEF Abstract!Spaced, Abstract!CrawlSpacing, CrawlSpacing
<1>2. QED
  BY <1>1, SpacedInit, SpacedStep, InvCorrect, PTL DEF Spec
=============================================================================
