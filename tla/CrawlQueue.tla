----------------------------- MODULE CrawlQueue -----------------------------
(* The crawl queue of the Hash Archive: queue.c with its callers, the API    *)
(* handler that waits for the crawl (api.c), the history page that only      *)
(* requests it (page_history.c), the worker's use of fetch.c and db.c, and   *)
(* the importer as another writer of the response table.                     *)
(*                                                                           *)
(* Workers and clients are fibers: they switch at every lock, condition      *)
(* variable and database call, so each stretch between two of those is one   *)
(* action.  A read-only transaction reads one snapshot, a read-write one     *)
(* takes effect at its commit, alone (libkvstore); a transaction that fails  *)
(* changes nothing.                                                          *)
EXTENDS Naturals

CONSTANTS Workers,    \* the fibers that run queue_work_loop
          Clients,    \* the connections of api_enqueue and page_history
          Urls,       \* the URLs clients ask for
          Surts,      \* normalised URLs
          SurtOf,     \* url_normalize_surt, a function from Urls to Surts
          Delay,      \* CONFIG_CRAWL_DELAY_SECONDS
          MaxTime,    \* bound: the last second of the clock
          MaxId,      \* bound: the last id (2^64-1 in the code)
          ImportIds,  \* the ids the importer gives to responses
          Budget,     \* bounds: how many requests, crashes, errors, imports
          None        \* no job, no request, nobody

Times == 1..MaxTime
Ids == 0..MaxId
Kinds == {"requests", "crashes", "errors", "imports"}
Entry == [time : Times, id : Ids, url : Urls]
Key == [time : 0..MaxTime, id : Ids]
NoKey == [time |-> 0, id |-> 0]

ASSUME QueueAssumption ==
  /\ Workers # {} /\ \A w \in Workers : Workers \ {w} # {}  \* two or more
  /\ SurtOf \in [Urls -> Surts]
  /\ Delay \in Nat
  /\ MaxTime \in Nat \ {0}
  /\ MaxId \in Nat
  /\ ImportIds \subseteq Ids
  /\ Budget \in [Kinds -> Nat]
  /\ None \notin Workers \cup Clients
  /\ None \notin Entry

VARIABLES
  clock,      \* time(NULL)
  (* the database: what a crash leaves                                       *)
  fwd,        \* TimeIDQueuedURLAndClient: the queue in order, [time, id, url]
  rev,        \* QueuedURLSurtAndTimeID: the queue by URL, [surt, time, id]
  resp,       \* TimeIDToResponse and its indexes: [surt, time, id, by]
  (* the memory of the process                                               *)
  curId,      \* current_id
  cursor,     \* work_time and work_id
  wpc, job, stamp,   \* per worker: where it is, its entry, and the key
                     \* (time, new_id) of its response
  workLock,          \* the holder of work_lock
  cpc, req,          \* per client: where it is, and its request
  waitLock,          \* the holder of wait_lock
  budget             \* what is left of Budget

tables == <<fwd, rev, resp>>
workerVars == <<wpc, job, stamp, workLock>>
clientVars == <<cpc, req, waitLock>>
memory == <<curId, cursor>>
vars == <<clock, tables, memory, workerVars, clientVars, budget>>

Spend(k) == budget[k] > 0 /\ budget' = [budget EXCEPT ![k] = @ - 1]

(* ------------------------------------------------------------------------ *)
(* What the transactions read.                                               *)

(* queue_add's range over the queue by URL is not empty.                     *)
AlreadyQueued(s) == \E e \in rev : e.surt = s

(* Mutant: the comparison is strict.                                         *)
FreshStrict(s, t) == \E r \in resp : r.surt = s /\ r.time + Delay > t

(* The newest response of s is within the delay of t.  Times of responses    *)
(* only matter through their maximum, so some response is as good as the     *)
(* newest.                                                                   *)
Fresh(s, t) == \E r \in resp : r.surt = s /\ r.time + Delay >= t

(* The time of the newest response of s is t; 0 when there is none.          *)
NewestIs(s, t) ==
  /\ \A r \in resp : r.surt = s => r.time <= t
  /\ t = 0 \/ \E r \in resp : r.surt = s /\ r.time = t

(* queue_peek seeks the first key at or after (work_time, work_id + 1).      *)
Ahead(e) == \/ e.time > cursor.time
            \/ e.time = cursor.time /\ e.id >= cursor.id + 1

Before(e, f) == e.time < f.time \/ (e.time = f.time /\ e.id <= f.id)

NextUp(e) == e \in fwd /\ Ahead(e) /\ \A f \in fwd : Ahead(f) => Before(e, f)

(* hx_response_add finds its key (time, id) in use: KVS_KEYEXIST.            *)
KeyInUse(k) == \E r \in resp : r.time = k.time /\ r.id = k.id

Crawled(w) == [surt |-> SurtOf[job[w].url], time |-> stamp[w].time,
               id |-> stamp[w].id, by |-> "crawl"]

RevOf(e) == [surt |-> SurtOf[e.url], time |-> e.time, id |-> e.id]
EntryOf(c) == [time |-> req[c].now, id |-> req[c].id, url |-> req[c].url]
SurtOfReq(c) == SurtOf[req[c].url]

Init ==
  /\ clock = 1
  /\ fwd = {} /\ rev = {} /\ resp = {}
  /\ curId = 0 /\ cursor = NoKey
  /\ wpc = [w \in Workers |-> "ready"]
  /\ job = [w \in Workers |-> None]
  /\ stamp = [w \in Workers |-> NoKey]
  /\ workLock = None
  /\ cpc = [c \in Clients |-> "idle"]
  /\ req = [c \in Clients |-> None]
  /\ waitLock = None
  /\ budget = Budget

(* ------------------------------------------------------------------------ *)
(* A worker: queue_work, again and again.  The sleep after an error is part  *)
(* of "ready": a ready worker may take any time to come back.                *)

(* queue_peek, under work_lock, finds an entry ahead and moves the cursor.   *)
PeekHit(w, e) ==
  /\ wpc[w] = "ready" /\ workLock = None
  /\ NextUp(e)
  /\ job' = [job EXCEPT ![w] = e]
  /\ cursor' = [time |-> e.time, id |-> e.id]
  /\ wpc' = [wpc EXCEPT ![w] = "found"]
  /\ workLock' = w
  /\ UNCHANGED <<clock, tables, curId, stamp, clientVars, budget>>

(* Mutant: the lock is dropped before the wait.                              *)
PeekMissUnlocked(w) ==
  /\ wpc[w] = "ready" /\ workLock = None
  /\ \A e \in fwd : ~Ahead(e)
  /\ wpc' = [wpc EXCEPT ![w] = "empty"]
  /\ UNCHANGED <<clock, tables, memory, job, stamp, workLock, clientVars,
                 budget>>

(* Its snapshot holds nothing ahead.  The worker leaves the thread pool with *)
(* that answer, the lock held, before it waits.                              *)
PeekMiss(w) ==
  /\ wpc[w] = "ready" /\ workLock = None
  /\ \A e \in fwd : ~Ahead(e)
  /\ wpc' = [wpc EXCEPT ![w] = "empty"]
  /\ workLock' = w
  /\ UNCHANGED <<clock, tables, memory, job, stamp, clientVars, budget>>

(* async_cond_wait(work_cond, work_lock).                                    *)
AwaitWork(w) ==
  /\ wpc[w] = "empty"
  /\ wpc' = [wpc EXCEPT ![w] = "waiting"]
  /\ workLock' = None
  /\ UNCHANGED <<clock, tables, memory, job, stamp, clientVars, budget>>

(* async_mutex_unlock(work_lock), with the job.                              *)
TakeJob(w) ==
  /\ wpc[w] = "found"
  /\ wpc' = [wpc EXCEPT ![w] = "taken"]
  /\ workLock' = None
  /\ UNCHANGED <<clock, tables, memory, job, stamp, clientVars, budget>>

(* new_id = current_id++, and url_fetch reads the time before it connects.   *)
BeginFetch(w) ==
  /\ wpc[w] = "taken" /\ curId < MaxId
  /\ stamp' = [stamp EXCEPT ![w] = [time |-> clock, id |-> curId]]
  /\ curId' = curId + 1
  /\ wpc' = [wpc EXCEPT ![w] = "fetching"]
  /\ UNCHANGED <<clock, tables, cursor, job, workLock, clientVars, budget>>

Forget(w) ==
  /\ job' = [job EXCEPT ![w] = None]
  /\ stamp' = [stamp EXCEPT ![w] = NoKey]

(* Mutant: queue_remove forgets the table by URL.                            *)
CommitFetchHalf(w) ==
  /\ wpc[w] = "fetching"
  /\ job[w] \in fwd /\ ~KeyInUse(stamp[w])
  /\ fwd' = fwd \ {job[w]}
  /\ resp' = resp \cup {Crawled(w)}
  /\ wpc' = [wpc EXCEPT ![w] = "notify"]
  /\ Forget(w)
  /\ UNCHANGED <<clock, rev, memory, workLock, clientVars, budget>>

(* The fetch is over, whatever it fetched: queue_remove and hx_response_add  *)
(* commit together.                                                          *)
CommitFetch(w) ==
  /\ wpc[w] = "fetching"
  /\ job[w] \in fwd /\ RevOf(job[w]) \in rev
  /\ ~KeyInUse(stamp[w])
  /\ fwd' = fwd \ {job[w]}
  /\ rev' = rev \ {RevOf(job[w])}
  /\ resp' = resp \cup {Crawled(w)}
  /\ wpc' = [wpc EXCEPT ![w] = "notify"]
  /\ Forget(w)
  /\ UNCHANGED <<clock, memory, workLock, clientVars, budget>>

(* Mutant: the transaction is committed without the response.                *)
FetchConflictCommits(w) ==
  /\ wpc[w] = "fetching"
  /\ KeyInUse(stamp[w])
  /\ fwd' = fwd \ {job[w]}
  /\ rev' = rev \ {RevOf(job[w])}
  /\ wpc' = [wpc EXCEPT ![w] = "ready"]
  /\ Forget(w)
  /\ UNCHANGED <<clock, resp, memory, workLock, clientVars, budget>>

(* kvs_del does not find the entry, or kvs_put finds the key of the response *)
(* in use: the transaction is aborted.                                       *)
FetchConflict(w) ==
  /\ wpc[w] = "fetching"
  /\ \/ job[w] \notin fwd
     \/ RevOf(job[w]) \notin rev
     \/ KeyInUse(stamp[w])
  /\ wpc' = [wpc EXCEPT ![w] = "ready"]
  /\ Forget(w)
  /\ UNCHANGED <<clock, tables, memory, workLock, clientVars, budget>>

(* Mutant: the cursor goes back to the start, to try the entry again.        *)
WorkerErrorRewinds(w) ==
  /\ wpc[w] \in {"waiting", "fetching"}
  /\ Spend("errors")
  /\ cursor' = NoKey
  /\ wpc' = [wpc EXCEPT ![w] = "ready"]
  /\ Forget(w)
  /\ UNCHANGED <<clock, tables, curId, workLock, clientVars>>

(* Any other failure: of the condition variable, of the fetch, of the        *)
(* database.  The entry stays, the cursor too.                               *)
WorkerError(w) ==
  /\ wpc[w] \in {"waiting", "fetching"}
  /\ Spend("errors")
  /\ wpc' = [wpc EXCEPT ![w] = "ready"]
  /\ Forget(w)
  /\ UNCHANGED <<clock, tables, memory, workLock, clientVars>>

(* async_cond_broadcast(wait_cond), without wait_lock.                       *)
NotifyWaiters(w) ==
  /\ wpc[w] = "notify"
  /\ wpc' = [wpc EXCEPT ![w] = "ready"]
  /\ cpc' = [c \in Clients |-> IF cpc[c] = "asleep" THEN "check" ELSE cpc[c]]
  /\ UNCHANGED <<clock, tables, memory, job, stamp, workLock, req, waitLock,
                 budget>>

(* ------------------------------------------------------------------------ *)
(* A client.                                                                 *)

(* api_enqueue reads the clock and queue_add takes the id, with no switch    *)
(* in between; the transaction of queue_add comes later.                     *)
ApiEnqueue(c, u) ==
  /\ cpc[c] = "idle" /\ Spend("requests") /\ curId < MaxId
  /\ curId' = curId + 1
  /\ req' = [req EXCEPT ![c] = [kind |-> "api", url |-> u, now |-> clock,
                                id |-> curId + 1, seen |-> 0]]
  /\ cpc' = [cpc EXCEPT ![c] = "adding"]
  /\ UNCHANGED <<clock, tables, cursor, workerVars, waitLock>>

(* page_history reads the responses of the URL,                              *)
PageHistory(c, u) ==
  /\ cpc[c] = "idle" /\ Spend("requests")
  /\ \E t \in 0..MaxTime :
       /\ NewestIs(SurtOf[u], t)
       /\ req' = [req EXCEPT ![c] = [kind |-> "page", url |-> u, now |-> 0,
                                     id |-> 0, seen |-> t]]
  /\ cpc' = [cpc EXCEPT ![c] = "page"]
  /\ UNCHANGED <<clock, tables, memory, workerVars, waitLock>>

(* writes the header, reads the clock, and either says that a new request    *)
(* has been queued                                                           *)
PageOutdated(c) ==
  /\ cpc[c] = "page"
  /\ req[c].seen = 0 \/ req[c].seen + Delay < clock
  /\ req' = [req EXCEPT ![c].now = clock]
  /\ cpc' = [cpc EXCEPT ![c] = "outdated"]
  /\ UNCHANGED <<clock, tables, memory, workerVars, waitLock, budget>>

(* or is done.                                                               *)
PageCurrent(c) ==
  /\ cpc[c] = "page"
  /\ req[c].seen # 0 /\ req[c].seen + Delay >= clock
  /\ req' = [req EXCEPT ![c] = None]
  /\ cpc' = [cpc EXCEPT ![c] = "idle"]
  /\ UNCHANGED <<clock, tables, memory, workerVars, waitLock, budget>>

(* Mutant: the id is current_id++, as the worker's is.                       *)
PageEnqueuePostIncrement(c) ==
  /\ cpc[c] = "outdated"
  /\ curId' = curId + 1
  /\ req' = [req EXCEPT ![c].id = curId]
  /\ cpc' = [cpc EXCEPT ![c] = "adding"]
  /\ UNCHANGED <<clock, tables, cursor, workerVars, waitLock, budget>>

(* After the template is written, queue_add takes the id.                    *)
PageEnqueue(c) ==
  /\ cpc[c] = "outdated" /\ curId < MaxId
  /\ curId' = curId + 1
  /\ req' = [req EXCEPT ![c].id = curId + 1]
  /\ cpc' = [cpc EXCEPT ![c] = "adding"]
  /\ UNCHANGED <<clock, tables, cursor, workerVars, waitLock, budget>>

(* After queue_add, api_enqueue goes on and page_history is done.            *)
Continue(c, label) ==
  IF req[c].kind = "api"
  THEN cpc' = [cpc EXCEPT ![c] = label] /\ UNCHANGED req
  ELSE cpc' = [cpc EXCEPT ![c] = "idle"] /\ req' = [req EXCEPT ![c] = None]

(* Mutant: a queued URL is taken for an existing response.                   *)
AddAlreadyQueuedExists(c) ==
  /\ cpc[c] = "adding"
  /\ AlreadyQueued(SurtOfReq(c))
  /\ Continue(c, "answer")
  /\ UNCHANGED <<clock, tables, memory, workerVars, waitLock, budget>>

(* The transaction of queue_add: the URL is queued already, which counts as  *)
(* success and wakes nobody;                                                 *)
AddAlreadyQueued(c) ==
  /\ cpc[c] = "adding"
  /\ AlreadyQueued(SurtOfReq(c))
  /\ Continue(c, "check")
  /\ UNCHANGED <<clock, tables, memory, workerVars, waitLock, budget>>

(* or it was crawled within the delay, KVS_KEYEXIST, "existing";             *)
AddTooRecent(c) ==
  /\ cpc[c] = "adding"
  /\ ~AlreadyQueued(SurtOfReq(c))
  /\ Fresh(SurtOfReq(c), req[c].now)
  /\ Continue(c, "answer")
  /\ UNCHANGED <<clock, tables, memory, workerVars, waitLock, budget>>

(* Mutant: the queue is not checked in the transaction that adds.            *)
AddCommitUnchecked(c) ==
  /\ cpc[c] = "adding"
  /\ ~Fresh(SurtOfReq(c), req[c].now)
  /\ fwd' = fwd \cup {EntryOf(c)}
  /\ rev' = rev \cup {RevOf(EntryOf(c))}
  /\ cpc' = [cpc EXCEPT ![c] = "bcast"]
  /\ UNCHANGED <<clock, resp, memory, workerVars, req, waitLock, budget>>

(* or it goes into both tables.                                              *)
AddCommit(c) ==
  /\ cpc[c] = "adding"
  /\ ~AlreadyQueued(SurtOfReq(c))
  /\ ~Fresh(SurtOfReq(c), req[c].now)
  /\ fwd' = fwd \cup {EntryOf(c)}
  /\ rev' = rev \cup {RevOf(EntryOf(c))}
  /\ cpc' = [cpc EXCEPT ![c] = "bcast"]
  /\ UNCHANGED <<clock, resp, memory, workerVars, req, waitLock, budget>>

(* Mutant: the wrong condition variable is signalled.                        *)
BroadcastWorkMissed(c) ==
  /\ cpc[c] = "bcast"
  /\ Continue(c, "check")
  /\ UNCHANGED <<clock, tables, memory, workerVars, waitLock, budget>>

(* async_cond_broadcast(work_cond), without work_lock: it reaches only the   *)
(* workers that wait already.                                                *)
BroadcastWork(c) ==
  /\ cpc[c] = "bcast"
  /\ wpc' = [w \in Workers |-> IF wpc[w] = "waiting" THEN "ready" ELSE wpc[w]]
  /\ Continue(c, "check")
  /\ UNCHANGED <<clock, tables, memory, job, stamp, workLock, waitLock,
                 budget>>

(* queue_timedwait, under wait_lock, reads the newest response: recent       *)
(* enough, it returns;                                                       *)
TimedwaitHit(c) ==
  /\ cpc[c] = "check" /\ waitLock = None
  /\ Fresh(SurtOfReq(c), req[c].now)
  /\ cpc' = [cpc EXCEPT ![c] = "answer"]
  /\ UNCHANGED <<clock, tables, memory, workerVars, req, waitLock, budget>>

(* or not, and it leaves the thread pool with that answer                    *)
TimedwaitMiss(c) ==
  /\ cpc[c] = "check" /\ waitLock = None
  /\ ~Fresh(SurtOfReq(c), req[c].now)
  /\ cpc' = [cpc EXCEPT ![c] = "missed"]
  /\ waitLock' = c
  /\ UNCHANGED <<clock, tables, memory, workerVars, req, budget>>

(* to wait: async_cond_timedwait(wait_cond, wait_lock, future).              *)
TimedwaitSleep(c) ==
  /\ cpc[c] = "missed"
  /\ cpc' = [cpc EXCEPT ![c] = "asleep"]
  /\ waitLock' = None
  /\ UNCHANGED <<clock, tables, memory, workerVars, req, budget>>

(* Mutant: a timeout is treated as any error is.                             *)
TimeoutGivesUp(c) ==
  /\ cpc[c] = "asleep"
  /\ cpc' = [cpc EXCEPT ![c] = "idle"]
  /\ req' = [req EXCEPT ![c] = None]
  /\ UNCHANGED <<clock, tables, memory, workerVars, waitLock, budget>>

(* UV_ETIMEDOUT: api_enqueue writes a newline and calls queue_timedwait      *)
(* again.                                                                    *)
Timeout(c) ==
  /\ cpc[c] = "asleep"
  /\ cpc' = [cpc EXCEPT ![c] = "check"]
  /\ UNCHANGED <<clock, tables, memory, workerVars, req, waitLock, budget>>

(* hx_get_history reads the newest response once more and the answer is      *)
(* written.                                                                  *)
WriteAnswer(c) ==
  /\ cpc[c] = "answer"
  /\ cpc' = [cpc EXCEPT ![c] = "idle"]
  /\ req' = [req EXCEPT ![c] = None]
  /\ UNCHANGED <<clock, tables, memory, workerVars, waitLock, budget>>

(* A database error in queue_add, queue_timedwait or hx_get_history: the     *)
(* handler ends without an answer.                                           *)
ClientError(c) ==
  /\ cpc[c] \in {"adding", "check", "answer"}
  /\ Spend("errors")
  /\ cpc' = [cpc EXCEPT ![c] = "idle"]
  /\ req' = [req EXCEPT ![c] = None]
  /\ UNCHANGED <<clock, tables, memory, workerVars, waitLock>>

(* ------------------------------------------------------------------------ *)
(* The surroundings.                                                         *)

Tick ==
  /\ clock < MaxTime
  /\ clock' = clock + 1
  /\ UNCHANGED <<tables, memory, workerVars, clientVars, budget>>

(* The importer commits a response that another archive made, of any time.   *)
Import(s, t, i) ==
  /\ Spend("imports")
  /\ ~KeyInUse([time |-> t, id |-> i])
  /\ resp' = resp \cup {[surt |-> s, time |-> t, id |-> i, by |-> "import"]}
  /\ UNCHANGED <<clock, fwd, rev, memory, workerVars, clientVars>>

(* The process dies and is started again: the tables stay, the counters, the *)
(* cursor, the locks and the connections do not.                             *)
Crash ==
  /\ Spend("crashes")
  /\ curId' = 0 /\ cursor' = NoKey
  /\ wpc' = [w \in Workers |-> "ready"]
  /\ job' = [w \in Workers |-> None]
  /\ stamp' = [w \in Workers |-> NoKey]
  /\ workLock' = None
  /\ cpc' = [c \in Clients |-> "idle"]
  /\ req' = [c \in Clients |-> None]
  /\ waitLock' = None
  /\ UNCHANGED <<clock, tables>>

WorkerNext(w) ==
  \/ \E e \in fwd : PeekHit(w, e)
  \/ PeekMiss(w) \/ AwaitWork(w) \/ TakeJob(w) \/ BeginFetch(w)
  \/ CommitFetch(w) \/ FetchConflict(w) \/ WorkerError(w) \/ NotifyWaiters(w)

ClientNext(c) ==
  \/ \E u \in Urls : ApiEnqueue(c, u) \/ PageHistory(c, u)
  \/ PageOutdated(c) \/ PageCurrent(c) \/ PageEnqueue(c)
  \/ AddAlreadyQueued(c) \/ AddTooRecent(c) \/ AddCommit(c) \/ BroadcastWork(c)
  \/ TimedwaitHit(c) \/ TimedwaitMiss(c) \/ TimedwaitSleep(c) \/ Timeout(c)
  \/ WriteAnswer(c) \/ ClientError(c)

Next ==
  \/ \E w \in Workers : WorkerNext(w)
  \/ \E c \in Clients : ClientNext(c)
  \/ Tick
  \/ \E s \in Surts, t \in Times, i \in ImportIds : Import(s, t, i)
  \/ Crash

Spec == Init /\ [][Next]_vars

(* ------------------------------------------------------------------------ *)
(* Fairness.  async_mutex_t is first come, first served, so a fiber that     *)
(* keeps asking for work_lock or wait_lock gets it: strong fairness.  The    *)
(* other steps of a fiber need nobody's leave: weak fairness, which takes it *)
(* that fetches end and that the 30 second timer fires.  Nothing is promised *)
(* of requests, imports, the clock, failures and crashes.                    *)

Peek(w) == (\E e \in fwd : PeekHit(w, e)) \/ PeekMiss(w)

WorkerStep(w) ==
  \/ AwaitWork(w) \/ TakeJob(w) \/ BeginFetch(w)
  \/ CommitFetch(w) \/ FetchConflict(w) \/ NotifyWaiters(w)

Check(c) == TimedwaitHit(c) \/ TimedwaitMiss(c)

ClientStep(c) ==
  \/ PageOutdated(c) \/ PageCurrent(c) \/ PageEnqueue(c)
  \/ AddAlreadyQueued(c) \/ AddTooRecent(c) \/ AddCommit(c) \/ BroadcastWork(c)
  \/ TimedwaitSleep(c) \/ Timeout(c) \/ WriteAnswer(c)

FairSpec ==
  /\ Spec
  /\ \A w \in Workers : SF_vars(Peek(w)) /\ WF_vars(WorkerStep(w))
  /\ \A c \in Clients : SF_vars(Check(c)) /\ WF_vars(ClientStep(c))

(* ------------------------------------------------------------------------ *)
(* Properties.                                                               *)

WorkerLabels ==
  {"ready", "found", "empty", "waiting", "taken", "fetching", "notify"}
ClientLabels == {"idle", "page", "outdated", "adding", "bcast", "check",
                 "missed", "asleep", "answer"}
Requests == [kind : {"api", "page"}, url : Urls, now : 0..MaxTime, id : Ids,
             seen : 0..MaxTime]

(* Every variable has its type; keys in the queue have a nonzero time and a  *)
(* nonzero id, which queue_remove asserts of what it is given.               *)
TypeOK ==
  /\ clock \in Times
  /\ fwd \subseteq [time : Times, id : 1..MaxId, url : Urls]
  /\ rev \subseteq [surt : Surts, time : Times, id : 1..MaxId]
  /\ resp \subseteq [surt : Surts, time : Times, id : Ids,
                     by : {"crawl", "import"}]
  /\ curId \in Ids
  /\ cursor \in Key
  /\ wpc \in [Workers -> WorkerLabels]
  /\ job \in [Workers -> Entry \cup {None}]
  /\ stamp \in [Workers -> Key]
  /\ workLock \in Workers \cup {None}
  /\ cpc \in [Clients -> ClientLabels]
  /\ req \in [Clients -> Requests \cup {None}]
  /\ waitLock \in Clients \cup {None}
  /\ budget \in [Kinds -> Nat]

(* The two queue tables describe the same entries and a URL is queued at     *)
(* most once, though several handlers check and add at the same time.        *)
OneEntryPerUrl ==
  /\ rev = {RevOf(e) : e \in fwd}
  /\ \A e, f \in fwd : SurtOf[e.url] = SurtOf[f.url] => e = f

Holding(w) == wpc[w] \in {"found", "taken", "fetching"}

(* Between its peek and its commit a worker holds an entry that is still in  *)
(* the queue, behind the cursor, and that no other worker holds: no URL is   *)
(* fetched twice at once, and no second worker can take the entry away.      *)
JobsAreExclusive ==
  \A w \in Workers : Holding(w) =>
     /\ job[w] \in fwd
     /\ ~Ahead(job[w])
     /\ \A v \in Workers : Holding(v) /\ SurtOf[job[v].url] = SurtOf[job[w].url]
                             => v = w

(* When all workers wait for work and no handler is about to wake them, no   *)
(* entry is ahead of the cursor: no wakeup of work_cond is lost for good,    *)
(* though it is sent without the lock.                                       *)
IdleMeansDrained ==
  (\A w \in Workers : wpc[w] = "waiting") /\ (\A c \in Clients : cpc[c] # "bcast")
     => \A e \in fwd : ~Ahead(e)

(* A client is answered, after its wait or at once because the URL was       *)
(* crawled already, only with a response within the delay of its request.    *)
AnswersAreFresh ==
  \A c \in Clients : cpc[c] = "answer" => Fresh(SurtOfReq(c), req[c].now)

(* Two crawls of one URL are more than the delay apart, however handlers,    *)
(* workers, imports, failures and restarts interleave.                       *)
CrawlSpacing ==
  \A r1, r2 \in resp :
     (r1.surt = r2.surt /\ r1.by = "crawl" /\ r2.by = "crawl" /\ r1 # r2)
       => (r1.time + Delay < r2.time \/ r2.time + Delay < r1.time)

(* The abstract archive: a queue entry is a waiting request.                 *)
Archive == INSTANCE CrawlArchive WITH
  Times <- Times, Ids <- Ids,
  queued <- {[surt |-> SurtOf[e.url], since |-> e.time] : e \in fwd},
  archive <- resp

(* The queue implements the abstract archive: entries leave only with their  *)
(* response, responses stay, a URL is queued only when it is due.            *)
ImplementsArchive == Archive!Init /\ [][Archive!Next]_Archive!vars

(* Whatever fails and restarts, the workers come to a point where nothing is *)
(* ahead of the cursor.                                                      *)
QueueDrains == []<>(\A e \in fwd : ~Ahead(e))

(* What is queued is crawled in the end.                                     *)
QueuedIsCrawled ==
  \A s \in Surts : AlreadyQueued(s) ~> ~AlreadyQueued(s)

(* A client that starts to wait is answered in the end.                      *)
WaitersAreAnswered ==
  \A c \in Clients : cpc[c] = "check" ~> cpc[c] = "answer"

(* The history page that says a new request has been queued has a newer      *)
(* response to show in the end.                                              *)
OutdatedPageIsRefreshed ==
  \A c \in Clients, u \in Urls, t \in Times :
     (cpc[c] = "outdated" /\ req[c].url = u /\ req[c].now = t)
       ~> Fresh(SurtOf[u], t)
=============================================================================
