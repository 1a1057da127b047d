# Verification of Hash Archive

Hash Archive (`src/`, C on libasync and libkvstore) crawls URLs on request,
stores the digests of what it found, and shows the history of a URL and the
sources of a hash. This directory holds TLA+ models of it, the TLC
configurations that check them and TLAPS proofs about them.

## The system

| Part | State | Operations | Interacts with |
| --- | --- | --- | --- |
| Crawl queue, `queue.c` | tables `TimeIDQueuedURLAndClient` and `QueuedURLSurtAndTimeID`; `current_id`, `work_time`/`work_id`, two locks, two condition variables | `queue_add`, `queue_timedwait`, `queue_work` (16 fibers) | fetcher, response store, the handlers below |
| API, `api.c` | none | `api_enqueue` (adds, then waits), `api_dump` (pages through the responses), `api_history`, `api_sources` | queue, response store |
| History page, `page_history.c` | lazily loaded templates | decides whether to queue a new crawl, shows the responses | queue, response store, templates |
| Response store, `db.c`, `db.h` | tables `TimeIDToResponse`, `URLSurtAndTimeID`, `HashAndTimeID` + algorithm | `hx_response_add`, readers by URL, by hash, by time, merges of equal neighbours | queue, importer, pages, API |
| Fetcher, `fetch.c`, `util/hasher.c` | the response record of its worker | `url_fetch`: up to five requests along redirects; a failure is a response with an error status | workers |
| Importer, `import.c` | ids counted per connection | batches of 50 responses, one transaction each | response store |
| Other pages, templates | lazily loaded templates | formatting | response store |
| Hash URIs, `util/hash.c` | none | parse, format, normalise six notations | pages, API, importer |
| URLs, `util/url.c` | none | parse, normalise, `surt` (the sort-friendly form under which URLs are filed) | queue, store |
| Server, `server.c` | listeners, one fiber per connection | start, dispatch by method and path, errors as statuses | everything |

Threads are fibers of libasync, scheduled cooperatively. They switch at locks,
condition variables, network reads and writes, and around every database call,
which runs on a thread pool (`hx_db_open` enters it, `hx_db_close` leaves it).

What is hard: a worker's peek is stale when it returns from the thread pool;
both condition variables are broadcast without their lock; the keys of the
queue are made before the transaction that inserts them; the counters that make
keys unique start again at every restart; an entry stays in the tables while
it is fetched and the cursor alone says that it is taken.

What makes each part correct:

- queue: a URL waits at most once; no two workers fetch it at once; an entry
  leaves only together with its response; idle workers mean nothing is left to
  take; crawls of one URL are a crawl delay apart; who waits gets an answer, and
  a recent one; what is queued is crawled;
- store: the three tables list the same responses; the latest response of a URL
  is never older than one found by hash; merges neither lose nor repeat
  responses; a page of times continues where the last one ended;
- importer: a batch is stored whole or not at all, whole prefixes only;
- templates: no page lacks a part because another request is still loading it;
- server: a request that was read gets one response, whichever way its handler
  returns;
- fetcher: the record of a fetch holds one whole answer, or nothing of any;
- hash URIs: a digest survives any sequence of spelling, following, dumping and
  importing;
- URLs: two URLs with one key are asked for alike; only the Referer, the URL as
  it was written, may differ.

`PROJECT.json` lists the hazards with their lines and the properties for each.

## Modules

**`CrawlArchive`** is the abstract specification: a set of waiting requests and
a set of responses, three actions (`Enqueue`, `Record`, `Deposit`).

**`CrawlQueue`** is the code: `queue.c` with `api_enqueue`, the decision of
`page_history`, the parts of `url_fetch` and `hx_response_add` the queue depends
on, and imports as steps of another writer.

| In the model | In the code |
| --- | --- |
| `fwd`, `rev`, `resp` | the two queue tables, and the response table with its URL index |
| `curId`, `cursor` | `current_id`; `work_time` and `work_id` |
| `workLock`, `wpc = "waiting"` | `work_lock`; the wait set of `work_cond` |
| `waitLock`, `cpc = "asleep"` | `wait_lock`; the wait set of `wait_cond` |
| `job`, `stamp` | a worker's `then, old_id, URL`; the key of its response |
| `req` | a handler's `now`, URL and id; what the page read |
| `PeekHit`, `PeekMiss` | `queue_peek` under the lock, found or not |
| `AwaitWork`, `TakeJob` | `async_cond_wait`; unlocking with a job |
| `BeginFetch`, `CommitFetch`, `FetchConflict` | `current_id++` and the time of `url_fetch`; the transaction of `queue_work`, committed or aborted on a key conflict |
| `WorkerError`, `ClientError` | every other failure, after which nothing was written |
| `AddAlreadyQueued`, `AddTooRecent`, `AddCommit`, `BroadcastWork` | the four ways through `queue_add` |
| `TimedwaitHit`, `TimedwaitMiss`, `TimedwaitSleep`, `Timeout` | `queue_timedwait` and the loop of `api_enqueue` |
| `Crash` | the process dies and starts again within the same second or later |

One action is the code between two switches of the fiber. What is abstracted: a
URL is a model value with its normalised form (`SurtOf`); a response is its key,
URL and origin; the content of a fetch is left out, since a failed fetch is
recorded like any other (`url_fetch` returns 0); the 5 second sleep after an
error is the freedom of a ready worker to come back late. `queue_log` only logs.
The operators named as mutants are wrong versions of the definition after them;
no specification uses them. Each is what a check of the properties replaces the
right one with, to see that the property notices.

**`ResponseStore`** is `db.c`: `byTime`, `bySurt` and `byHash` are the three
tables, `Commit(batch)` the transaction that adds responses, and the readers are
operators on a state, since each reads one snapshot: `hx_get_history`,
`hx_get_sources`, `hx_get_recent`, and `hx_get_latest` as `IsLatest`. The rows of
a range are a `Listing` in the order of the keys, newest first: each row stands
at the place that the number of rows above it gives.
`ContentLinks` and `UrlLinks` are the two merges, as functions from the place of
a response to the one it is shown under. A digest is a sequence of small numbers
and the index keeps the first `IndexLen` of them. A response also has a body,
which the code does not store, so that the properties can say what the digests
should tell.

**`Dump`** extends the store with `api_dump`: each batch is a step that reads the
tables as they are then, with commits of any unused keys between the steps. A
full batch moves the position (`FullBatch`), a short one or one that reaches the
limit ends the dump (`LastBatch`), a failed read cuts it (`ReadFails`).

**`Import`** extends the store with the connections of `import.c`: `ReadResponse`
and `StreamFails` are `read_responses`, `CommitBatch`, `BatchConflicts` and
`BatchFails` the transaction, committed or aborted; `Crawl` is a worker.

**`ArchiveService`** composes the two on one set of tables: a step is one of the
dump or one of the imports, and refines `Dump` by hiding who commits.

**`LazyTemplates`** is the static `TemplateRef`s of the pages. `Enter` is the test
`if(!header)`, `LoadTemplate` one `template_load`, `Decide` the reading of the
query and of the database, `Divert` the way from a malformed query to
`parse_error`, `WriteTemplate` one `TemplateWriteHTTPChunk`, `Finish` the return
of the handler. Which templates a request writes depends on its data and is
chosen among `Layouts`.

**`Server`** extends it with the listener: `Handler` is the chain of handlers that
return -1 when a path is not theirs, `Reply`, `Enqueue` and `OpenPage` what a
handler does, `Refuse` and `Drop` the ways out before one is called. `answers`
has the responses written to a connection. `AddRequest` is the call of
`queue_add` between two templates of `page_history`, with `Crawl`, `Import` and
`Age` as the steps of workers, of the importer and of the clock. A URL is known
by its surt, under which the queue and the responses are filed: of these the
module keeps which surts wait and which have a fresh response, so a crawl or an
import of any spelling counts. `Fits` ties the layout to that state, and
`overtaken` says whether a response was stored (`Store`) between the look of a
page and its call (`HasLooked`).

**`HashUri`** is `util/hash.c`. A character is its value in the standard base64
alphabet, so `hex_encode`, `b64_encode` and their inverses are functions on
sequences of numbers, with the sizes of the buffers they are given (`DigestMax`, `B64Kept`). A
text is its notation, the name in it and its body; which notation a text is in is
data, and the rest of the regular expressions are conditions on the body.
A text in base58 is the bytes of the number it writes, with a 0 in front for
each leading "1"; `B58Digits` says how many digits the number takes, and from all
characters `b58_decode` guesses the bytes (`B58Room`). The module walks: a page
shows a digest (`ShowLink`), a person follows the text (`FollowLink`) or brings
another (`BringText`), the page of sources spells it anew (`Respell`), a mirror
copies it through the dump (`Mirror`).

A text may be as long as a path (1023 characters) and spell more bytes than any
digest has. The buffers for hexadecimal and base64 cut them; the one for
multihashes does not (`hash.c:284`), and `page_sources` makes a multihash of
whatever it is asked for, so the program is undefined there (`Overruns`). It also
is where `b58tobin` counts leading "1"s as bytes it has not written, which are then
copied as the end of the digest (`Strays`, `Readings`). The model goes on with any
of the bytes of `StrayBytes`, with the page or without it, and `intact` is false
from then on until the next text. The properties hold while `intact` does, and
one of them is that no link shown by an archive ends that.

**`Url`** is `util/url.c` over sequences of words and punctuation, and **`Scan`** the
scan sets of `sscanf` they share with `HashUri`. **`Fetch`** is `fetch.c` with
`util/hasher.c`: `StartFetch` initialises the record, `SendGet`, `ReadStatus`,
`ReadHeaders`, `ReadBody` and `EndBody` are the calls of `url_fetch_internal`,
`Redirected` its early way out and `NextHop` the loop of `url_fetch`; `FailFetch` is
every `rc < 0`. `answer` and `asked` are kept for the properties.

| Module | Theorems in | Instance in |
| --- | --- | --- |
| `CrawlArchive` | `CrawlArchiveProofs` | none: checked as what `CrawlQueue` implements |
| `CrawlQueue` (refines `CrawlArchive`) | `CrawlQueueProofs` | `MCCrawlQueue` |
| `ResponseStore` | `ResponseStoreProofs` | `MCResponseStore` |
| `Dump`, `Import` (extend `ResponseStore`) | `ArchiveServiceProofs` | `MCArchiveService` |
| `ArchiveService` (extends both, refines `Dump`) | `ArchiveServiceProofs` | `MCArchiveService` |
| `LazyTemplates` | `ServerProofs` | `MCServer` |
| `Server` (extends and refines `LazyTemplates`) | `ServerProofs` | `MCServer` |
| `HashUri` (extends `Scan`) | `HashUriProofs` | `MCHashUri` |
| `Fetch` (extends `Url`, which extends `Scan`) | `FetchProofs` | `MCFetch` |
| `Scan` | `ListProofs`, with what all proofs share on numbers, recursion and lists | both of the above |

### Assumptions about what is not in `src/`

libkvstore: keys compare by their fields from left to right, blobs bytewise; a
read-write transaction takes effect at once at its commit and two
of them do not overlap; a read-only one reads a snapshot; a put with
`KVS_NOOVERWRITE_FAST` on an existing key fails with `KVS_KEYEXIST`. libasync:
its mutex is first come, first served; a broadcast reaches exactly the fibers
that wait already; `async_cond_timedwait` comes back after its time. The clock
does not run backwards. The functions of a digest library are taken to be
injective.

libbase58 is vendored (`src/deps/libbase58`), and how `b58tobin` treats sizes and
leading "1"s is modelled from there. Its arithmetic is not: how many digits a
number of so many bytes takes is the constant `B58Digits`, with the three values
for whole digests as assumptions, computed for the first bytes 17 to 19.

## Runs

| Run | Question | Instance |
| --- | --- | --- |
| `queue_workers` | do workers share a job or lose a wakeup, and do they catch up with the cursor? | 2 workers, 2 clients, 2 URLs, 1 second, 2 requests, 1 error, 1 crash, fair |
| `queue_archive` | does the queue implement the archive, and answer with fresh responses? | 2 URLs of one resource, 3 seconds, delay 1, 1 crash, 1 import |
| `queue_one_url` | is everybody served when nothing goes wrong? | 1 URL, 2 seconds, delay 1, no failure, fair |
| `stranded_by_order` | is an outdated page refreshed? No | 2 clients, 2 URLs, no failure |
| `outlasted_by_fetch` | is every waiting client answered? No | 1 URL, 3 seconds, delay 1 |
| `store` | do the tables agree, and do the pages show what they should? | up to 4 responses of 2 resources, 2 algorithms, 3 bodies, failures and partial digests |
| `service` | what do a dump, imports and a worker make of one archive? | 2 connections with 3 and 4 responses, 2 a batch, 1 worker, 1 failure; 4 intervals of 3 seconds, 2 responses a batch, words of 3 bits; fair |
| `server` | is every request answered, with whole pages? | 3 connections, 10 handlers, 5 pages, 1 resource with crawls and imports, 1 failure |
| `second_answer` | is there one response to a request? No | as `server`, 2 connections, no failure |
| `hash_uris` | does a digest survive its spellings? | 4 digests of 4 algorithms, 27 texts, 6 notations, a mirror |
| `sha512_cut` | does a link spell the whole digest? No | as `hash_uris` |
| `fetch` | what does a fetch leave in the record, and do keys tell requests apart? | 23 URLs, 3 of them targets of redirects, at most 3 requests, 3 statuses, bodies of up to 2 chunks |

Bounds. Two workers are the least the code's argument needs (with one, the
broadcast without the lock loses the only listener) and enough for two to
compete; the theorems cover any larger number. Two clients are enough for one
to check while another commits. Three seconds with a delay of one let a crawl, a
request that is too early and a second crawl happen. One crash and one import
let a key be used twice, which fires `FetchConflict`. `MaxId` is never reached.
The budgets bound requests, crashes, errors and imports; when they are spent
and everyone is idle the model stops, so deadlock is not checked. Fibers are
interchangeable, and so are the two URLs of one resource: `queue_archive`
uses that symmetry, the runs with liveness do not.

For the store the keys run out after four responses, enough for two URLs to be
seen twice each, or for a chain of neighbours with partial digests; an index of two bytes, a
match of three and digests of none to three separate all the lengths the code
compares, and three rows a page make some lists overflow. In the service, three
seconds with two responses a batch of the dump let a batch end within a second,
the limit fall inside one, and commits come before and behind the position; the
last of the intervals overflows. The two imports have colliding keys with each
other and with the worker, and one of them ends in a short batch. Three
connections let one write, one load and one replace what is loaded; one
resource is enough for the page of one to be overtaken by the request of another,
by a crawl or by an import. These
models stop when the keys, the streams or the requests are used up, so deadlock
is not checked.

The digests have every length modulo three, are of algorithms with and without a
multihash code, and one is truncated, as imports may bring them; the texts lie
at the edges of what the parsers take: odd and foreign characters, paddings,
unknown algorithms, multihashes that are too short or begin with one or two "1"s,
and digests of 66 to 72 bytes with a multihash and without. Two stray bytes
are enough to tell one reading from another. A link is at most followed, spelled anew
and followed again before a state repeats, and the mirror may have any part of
the archive. `RedirectMax` is 3 instead of 5: a first request, one between, and
the last. The URLs differ in one part each, or in what normalisation may
identify: case, a fragment, a port, the order of labels, their number.

Fairness. A mutex that serves in order gives strong fairness to taking
`work_lock` and `wait_lock`; every other step of a fiber is weakly fair, which
assumes that fetches end (`fetch.c` sets no limit of its own) and that timers
fire. Requests, imports, ticks, errors and crashes are never promised. In the
service the loop of `api_dump` goes on (`FairServiceSpec`: weak fairness of
reading a batch); commits are not promised, and a client that reads slowly is
only slow. Nothing is promised of `Fetch`: `fetch.c` has no time limit, and a
site that stops sending keeps a worker for as long as the connection lives.

### What the violations show

1. *Entries behind the cursor.* `queue_add` takes the clock and the id before
   its transaction. If a later pair commits and is taken first, `queue_peek`
   seeks past the earlier one for as long as the process lives. Requests for the
   URL then find it already queued, and `api_enqueue` waits without end, while
   the history page goes on saying "A new request for this URL has been queued".
   The same happens after a restart within one second: `current_id` starts at 0
   again, two entries may have the same pair, and the seek at `work_id+1` skips
   the second.
2. *A fetch longer than the delay.* A client that joins it waits for a response
   within the delay of its own request. The response has the time at which the
   fetch began, so it never counts, and nothing new is queued. `queue_one_url`
   therefore bounds the clock so that no fetch outlasts the delay.
3. *A second response.* `page_history` calls its check of the crawl delay an
   optimization, but keeps what `queue_add` returns in `rc`. When a response of the
   resource is stored between the two, by a crawl or an import and under whatever
   spelling of the URL, `KVS_KEYEXIST` is returned after the complete page and the
   listener sends a status of its own. `TwiceOnlyWhenOvertaken` says that beside
   this only a failing database leads there.
4. *SHA-512 in base64.* The buffers of `hash_uri_format` have 87 bytes, the base64
   of 64 takes 88 and a zero: the last group is left out and the link has 63
   bytes. Links still lead to their responses, since a lookup compares what it
   is given; a Subresource Integrity string made from one does not match.

Some things the code says, or a reader may expect, are outside the properties.
`HX_RES_LATEST` is described as "If there is a later response and their hashes
differ" (`db.h:11-13`), but only keys are compared, within all spellings of a
resource, so a response is obsolete also when nothing has changed;
`ActiveIsCurrent` says what the flag does mean. A hash shorter than the index
matches several hashes, whose rows are ordered by hash first, and the "last seen"
date need not be the last: `LastSeenIsLast` and `ActiveIsCurrent` are about the
longer ones (`FullQueries`), `SourcePageIsExact` is about all, and the instance
has a short one. A URL
without a path keeps its query in the host (`http://h?x`), and is filed and
fetched as the host alone. Hosts of more than eight labels, or with empty ones,
share keys (the TODO of `url.c:100`); a relative `Location` does not parse, and
the fetch fails; `http://h` and `http://h/` have separate keys.

An entry whose worker fails is stranded in the same way as in 1, until the next
restart: that is why `QueueDrains` speaks of entries ahead of the cursor only.

## Proofs

### The queue

For every number of workers from two up, every set of clients and URLs, every
normalisation, delay, bound and budget (`QueueAssumption`), `CrawlQueueProofs`
shows of `Spec`: `TypeOK`, `OneEntryPerUrl`, `JobsAreExclusive`,
`IdleMeansDrained`, `AnswersAreFresh`, `CrawlSpacing`, and that the queue
implements `CrawlArchive`.

The inductive invariant `IInv` adds to the properties

- `Locals`: a request that was dated has a time, one that was numbered has an
  id, and a fetch has a time; without it the types of new entries are unknown;
- `Wakeups`: a worker between its peek and its wait holds `work_lock`, and an
  entry ahead of the cursor means that a broadcast is coming or that a worker is
  neither waiting nor about to wait. A broadcast misses at most the holder of the
  lock, so the second worker hears it or is busy: the only place where two
  workers are needed, and the proof fails there without that assumption;
- `TimesInOrder`: no request or entry is younger than the clock, and a fetch is
  not older than its entry, which the abstract `Record` asks for.

`StepIsArchiveStep` maps `AddCommit` to `Enqueue`, `CommitFetch` to `Record`,
`Import` to `Deposit` and every other step to a stutter. `CrawlSpacing` is then
inherited: `CrawlArchiveProofs` proves it inductive together with
`WaitingIsDue`, and the lemma is instantiated at the state the queue maps to.

### The store, the dump and the imports

From `StoreAssumption` alone, `ResponseStoreProofs` shows that `Commit` keeps the
types and the agreement of the tables, for a batch of any size (`CommitKeepsAgreement`),
and that the assertion of `hx_get_sources` follows from the agreement: the row of
a response is among the rows of its URL, so the latest of them is not older.

The pages are functions of a state, and each of their properties follows from
`Snapshot`: types, agreement, and that the tables are finite. For these proofs:

- *Order.* `Newer` and `RowAbove` are total orders of the rows they are used for
  (bytes compare from the left, so `HashAbove` needs the first place at which two
  hashes differ). `RanksExist` shows for any finite set with such an order that
  every number of rows above occurs once; so a `Listing` has each row of its set
  at one place, and rows in order.
- *Recursion.* The induction theorems of the library take an operator and cannot
  be used. `ListProofs` goes by the least counterexample instead: from
  `LeastNatural` follow `RecursionExists` and `IterationExists`, that a recursion
  over the places of a list, or over the numbers to a bound, has a solution, and
  `BoundedInduction` for a set.
- *History.* Along the chain of `prev` pointers each response has the body of the
  one before it, so all have that of its head. That two neighbours do is
  `ContentAssumption`: bodies are the same if twelve bytes of a digest are. The
  code takes it so (`db.c:119-125`); for a digest that is cut so short it is what
  a cryptographic hash promises in practice.
- *Sources.* `res_merge_common_urls` links each response to the last free one of
  its URL. One without a pointer is the first of its URL in the list: the last of
  its URL before it would otherwise have a next pointer already, to one between the
  two, and not be the last. A matching row
  of a query as long as the index is under one hash, so rows come newest first,
  and the first of a URL is its last one seen; that it is active when it is the
  newest of its resource relates it to the index by URL, through the agreement.
- *Index page.* After n responses the list has each URL of a success among them,
  at its newest, or is full of newer ones (`RecentOf`, by the step of the loop).

`DumpInv` adds to `DumpInOrder` that everything written lies before the position,
that nothing stored is removed, and that every response of the interval that was
present and lies before the position has been written; a batch extends each of
them, whatever is committed, because it takes the oldest rows from the position
on. A dump that is cut has the same invariant, hence `CutDumpResumes`. `ImportInv`
adds the ranges of the counters: what is stored of a connection is what its `id`
counts, and a batch starts at a multiple of the batch size. `ServiceImplementsDump`
maps a committed batch to the commits of others that `Dump` allows, so the
properties of both hold of the service (`ServiceCorrect`).

### The templates and the server

`IInv` of `ServerProofs` says of a loading request that the templates before its
next one are loaded, and of a deciding or writing one that the first is, and all
if it has loaded them itself; templates are never unloaded, so no step of another
request disturbs this. Nothing more can be shown: a request that comes while
another loads the templates finds the header loaded and the rest not,
`TemplateWrite` writes nothing of a NULL template and reports no error, and a page
without entries or footer is sent.

`ServerImplementsTemplates` shows that the server uses the templates as that
module says, so both properties are inherited. For the responses the invariant
relates `answers` to the place a request is at: none before the first template,
one while it writes, and of the result of `queue_add` that a refusal means a
response stored since the page looked, because a page that says outdated had no
fresh response then (`Fits`) and only `Store` adds one.

### Hash URIs

`B64RoundTrip` is the heart: the value of the character at each of the four places
of a group, and of the byte at each of the three, is a case of division by powers
of two, done for every byte and every length at once. With `HexRoundTrip` it gives
`FormatParses`, what each notation reads of what it has written for a digest of
any length: what the buffer holds (`Sized`, `Kept`). `MultihashParses` does so for
digests that fit its buffer. `ParsedBytes` bounds what texts from elsewhere spell:
bytes, and of a multihash, before stray ones, no more than the buffer. `Inv`
then says of a walk that the text and the page begin the digest they started from,
in the sense of `Begins`, while the walk is intact, and that the text of a walk
that an archive began has no stray bytes and no more than the longest digest,
which is why such a walk stays intact. No step shortens a digest a second time,
since `Kept` is idempotent and shorter than `Sized`.

### The fetcher

`IInv` of `FetchProofs` says what the record has while a fetch runs: no digests and
no length until the body has ended, no type until the headers of the answer that
is read to its end, the status of that answer, and in the hasher its body so far.
`Counted` relates the requests sent to the loop's counter.

`SameKeyCorrect` holds of any two URLs, since a fetch starts with one. The requests
are equal but for the Referer (`AskAlike`), which repeats the URL before
normalisation; X-Forwarded-For is empty in both, since both callers of `queue_add`
give no client. The labels
of a domain determine it (`DomainReverseInjective`): a scan of a domain with labels
between single dots has taken n labels after n steps or all of fewer
(`Scanned`), each step takes a dot off what is left (`LabelTaken`), so fewer than
eight dots leave nothing after eight steps; and a step can be undone
(`NextLabelUndone`), so equal labels at the end lead back to equal domains. The
other half needs that a path ends where a query begins (`PathAndQuery`), because
the request concatenates them. Of `UrlAssumption` it uses that lower case has no
capitals and that no punctuation is a word.

### Only model-checked

The liveness properties (`QueueDrains`, `QueuedIsCrawled`, `WaitersAreAnswered`,
`OutdatedPageIsRefreshed`, `DumpEnds`), since the prover does not reason about
fairness. Every invariant and every refinement of the runs is a theorem.

## Not modelled, and what could follow

Planned, in this order:

1. An abstract archive of whole batches that `Import` and `CrawlQueue` both
   implement.
2. The start of the server with its failures (`server.c:247-308`), and the
   importing tool with its retries.

Left out for good: `html.c`, `markdown.c`, `path.c`, `strext.c` and the page
layouts (sequential formatting); TLS, which the configuration compiles out
(`config.h:20`); the vendored libraries; the other scripts in `tools/` and those
in `static/`. The lengths of the fields that URLs and
texts are scanned into are not modelled, a URL or a path is shorter than its field;
those of the buffers that digests are spelled into are. A cursor that fails in the
middle of a list (`db.c:239`, `db.c:301`, `db.c:331-339`) is not modelled either: a
reader returns what its snapshot has, or fails as a whole (`ReadFails`).
