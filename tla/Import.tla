------------------------------- MODULE Import -------------------------------
(* The importer (import.c): connections that send responses, stored in       *)
(* batches of one transaction each, among crawls and other imports.          *)
EXTENDS ResponseStore

CONSTANTS Conns,
          Sent,          \* what each connection sends, [time, url, outcome]
          ImportBatch,   \* RESPONSE_BATCH_SIZE, 50
          Crawled,       \* what workers may add, with ids of current_id
          MaxFailures    \* bound: transactions that fail for other reasons

(* The k-th response of a connection has id k - 1, whatever its time.        *)
Stored(c, k) == [time |-> Sent[c][k].time, id |-> k - 1,
                 url |-> Sent[c][k].url, outcome |-> Sent[c][k].outcome]

(* Who stored a response can be told from the response, so that the          *)
(* properties can speak of it.                                               *)
ASSUME ImportAssumption ==
  /\ ImportBatch \in Nat \ {0}
  /\ Sent \in [Conns -> Seq([time : 1..MaxTime, url : Urls, outcome : Outcomes])]
  /\ \A c \in Conns : \A k \in DOMAIN Sent[c] :
       /\ Stored(c, k) \in Responses \ Crawled
       /\ \A d \in Conns \ {c} : \A n \in DOMAIN Sent[d] : Stored(d, n) # Stored(c, k)
  /\ Crawled \subseteq Responses
  /\ MaxFailures \in Nat

VARIABLES
  state,     \* per connection: "open", "ending" when a read has failed, "closed"
  received,  \* how many responses it has read
  id,        \* the id of the next response to store
  failures   \* how many transactions have failed without a conflict

importVars == <<state, received, id, failures>>
importerVars == <<vars, importVars>>

Pending(c) == received[c] - id[c]

Batch(c) == {Stored(c, k) : k \in id[c] + 1..received[c]}

(* ------------------------------------------------------------------------ *)

ImportInit ==
  /\ Init
  /\ state = [c \in Conns |-> "open"]
  /\ received = [c \in Conns |-> 0]
  /\ id = [c \in Conns |-> 0]
  /\ failures = 0

(* read_responses gets one more response of the batch.                       *)
ReadResponse(c) ==
  /\ state[c] = "open"
  /\ Pending(c) < ImportBatch /\ received[c] < Len(Sent[c])
  /\ received' = [received EXCEPT ![c] = @ + 1]
  /\ UNCHANGED <<vars, state, id, failures>>

(* A read fails: the peer is gone, or what it sends is malformed.  What has  *)
(* been read of the batch is returned, and the error forgotten.              *)
StreamFails(c) ==
  /\ state[c] = "open" /\ Pending(c) < ImportBatch
  /\ state' = [state EXCEPT ![c] = "ending"]
  /\ UNCHANGED <<vars, received, id, failures>>

Ready(c) == \/ state[c] = "ending"
            \/ state[c] = "open" /\ Pending(c) = ImportBatch

(* After a short batch the connection is closed.                             *)
Close(c) == state' = [state EXCEPT ![c] = "closed"]

CommitBatch(c) ==
  /\ Ready(c)
  /\ Commit(Batch(c))
  /\ id' = [id EXCEPT ![c] = received[c]]
  /\ IF Pending(c) < ImportBatch THEN Close(c) ELSE UNCHANGED state
  /\ UNCHANGED <<received, failures>>

(* Mutant: the responses before the conflict are stored.                     *)
BatchConflictsHalf(c) ==
  /\ Ready(c) /\ \E r \in Batch(c) : Conflicts(r)
  /\ Commit({r \in Batch(c) : \A x \in Batch(c) : Conflicts(x) => r.id < x.id})
  /\ Close(c)
  /\ UNCHANGED <<received, id, failures>>

(* hx_response_add finds a key in use: the transaction is aborted and the    *)
(* connection closed.                                                        *)
BatchConflicts(c) ==
  /\ Ready(c) /\ \E r \in Batch(c) : Conflicts(r)
  /\ Close(c)
  /\ UNCHANGED <<vars, received, id, failures>>

(* The transaction fails for another reason.                                 *)
BatchFails(c) ==
  /\ Ready(c) /\ failures < MaxFailures
  /\ failures' = failures + 1
  /\ Close(c)
  /\ UNCHANGED <<vars, received, id>>

(* The process dies: connections are lost, the tables stay.                  *)
Crash ==
  /\ failures < MaxFailures /\ failures' = failures + 1
  /\ state' = [c \in Conns |-> "closed"]
  /\ UNCHANGED <<vars, received, id>>

(* A worker adds what it has crawled (queue.c:293).                          *)
Crawl(r) == Commit({r}) /\ UNCHANGED importVars

ImportNext ==
  \/ \E c \in Conns : \/ ReadResponse(c) \/ StreamFails(c)
                      \/ CommitBatch(c) \/ BatchConflicts(c) \/ BatchFails(c)
  \/ Crash
  \/ \E r \in Crawled : Crawl(r)

ImportSpec == ImportInit /\ [][ImportNext]_importerVars

(* ------------------------------------------------------------------------ *)
(* Properties.                                                               *)

WholeBatches(n) == \E m \in 0..n : n = m * ImportBatch

(* What is stored of an import is a beginning of what was sent, in whole     *)
(* batches unless the connection has ended: a batch that meets a key of a    *)
(* crawl or of another import leaves nothing, and nothing after it is stored. *)
ImportedIsPrefix ==
  \A c \in Conns :
    /\ \A k \in DOMAIN Sent[c] : Stored(c, k) \in byTime <=> k <= id[c]
    /\ state[c] = "open" => WholeBatches(id[c])

(* Responses are only ever added: no import and no crawl replaces or removes *)
(* what is stored, although ids repeat between connections (import.c:118).   *)
ArchiveGrows == [][byTime \subseteq byTime']_importerVars
=============================================================================
