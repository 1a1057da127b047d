---------------------------- MODULE ResponseStore ----------------------------
(* The response store of the Hash Archive (db.c, db.h): three tables that    *)
(* one transaction extends together, and the readers behind the pages, with  *)
(* what the pages show of them (page_history.c, page_sources.c,              *)
(* page_index.c).                                                            *)
(*                                                                           *)
(* A digest is a sequence of bytes, <<>> when there is none.  A response     *)
(* also carries the body its digests were computed from, which the code does *)
(* not store: it is there for the properties only.                           *)
EXTENDS Naturals, FiniteSets, SequencesExt

CONSTANTS Urls, Surts,
          SurtOf,      \* url_normalize_surt, from Urls to Surts
          Algos,       \* hash algorithms
          Outcomes,    \* what a fetch or an import may find
          IndexLen,    \* HX_HASH_INDEX_LEN, 8
          MatchLen,    \* 12, the bytes that identify a content
          Rows,        \* CONFIG_HISTORY_MAX and CONFIG_SOURCES_MAX, 30
          Queries,     \* the hashes asked for, [algo, hash]
          MaxTime, MaxId  \* bounds of time and id

Bytes == Nat
Responses == [time : 1..MaxTime, id : 0..MaxId, url : Urls, outcome : Outcomes]

(* hx_response_add asserts that a digest is not shorter than its index       *)
(* (db.c:94).                                                                *)
ASSUME StoreAssumption ==
  /\ SurtOf \in [Urls -> Surts]
  /\ IndexLen \in Nat /\ MatchLen \in Nat /\ Rows \in Nat
  /\ MaxTime \in Nat /\ MaxId \in Nat
  /\ \A o \in Outcomes : /\ o.ok \in BOOLEAN
                         /\ o.digests \in [Algos -> Seq(Bytes)]
                         /\ \A a \in Algos : o.digests[a] = <<>>
                                          \/ Len(o.digests[a]) >= IndexLen
  /\ \A q \in Queries : q.algo \in Algos /\ q.hash \in Seq(Bytes)

VARIABLES byTime,  \* TimeIDToResponse, the responses
          bySurt,  \* URLSurtAndTimeID, rows [surt, time, id]
          byHash   \* HashAndTimeID + algo, rows [algo, hash, time, id]

vars == <<byTime, bySurt, byHash>>

(* ------------------------------------------------------------------------ *)
(* Keys and rows.                                                            *)

SameKey(x, y) == x.time = y.time /\ x.id = y.id

(* timeidcmp(x, y) >= 0.                                                     *)
NotOlder(x, y) == x.time > y.time \/ (x.time = y.time /\ x.id >= y.id)

Newer(x, y) == NotOlder(x, y) /\ ~SameKey(x, y)

Digest(r, a) == r.outcome.digests[a]

Truncated(h) == SubSeq(h, 1, IndexLen)

(* Mutant: filed under the URL as it was given.                              *)
SurtRowRaw(r) == [surt |-> r.url, time |-> r.time, id |-> r.id]

SurtRow(r) == [surt |-> SurtOf[r.url], time |-> r.time, id |-> r.id]

HashRows(r) ==
  {[algo |-> a, hash |-> Truncated(Digest(r, a)), time |-> r.time, id |-> r.id] :
     a \in {x \in Algos : Digest(r, x) # <<>>}}

(* ------------------------------------------------------------------------ *)
(* Writing: hx_response_add for every response of one transaction.           *)

(* One of the puts of r finds its key in use.                                *)
Conflicts(r) == \/ \E x \in byTime : SameKey(x, r)
                \/ SurtRow(r) \in bySurt
                \/ HashRows(r) \cap byHash # {}

(* Mutant: a response whose key is in use gets its rows all the same.        *)
CommitOverwriting(batch) ==
  /\ byTime' = {x \in byTime : \A r \in batch : ~SameKey(x, r)} \cup batch
  /\ bySurt' = bySurt \cup {SurtRow(r) : r \in batch}
  /\ byHash' = byHash \cup UNION {HashRows(r) : r \in batch}

(* The transaction that adds a batch commits.  When a put fails, its callers *)
(* (queue.c:291, import.c:144) abort it and nothing changes.                 *)
Commit(batch) ==
  /\ \A r \in batch : ~Conflicts(r)
  /\ \A r, x \in batch : SameKey(r, x) => r = x
  /\ byTime' = byTime \cup batch
  /\ bySurt' = bySurt \cup {SurtRow(r) : r \in batch}
  /\ byHash' = byHash \cup UNION {HashRows(r) : r \in batch}

Init == byTime = {} /\ bySurt = {} /\ byHash = {}

Next == \E r \in Responses : Commit({r})

Spec == Init /\ [][Next]_vars

(* ------------------------------------------------------------------------ *)
(* Reading: a cursor over the rows of a range, newest first, in one snapshot. *)

(* The rows of S in the order of their keys: at each place is the row that    *)
(* has as many above it as there are places before it.                       *)
Listing(S, Above(_, _)) ==
  [i \in 1..Cardinality(S) |->
     CHOOSE x \in S : Cardinality({y \in S : Above(y, x)}) = i - 1]

FirstRows(s) == SubSeq(s, 1, IF Len(s) < Rows THEN Len(s) ELSE Rows)

(* The response under the key of a row.                                      *)
ResponseAt(row) == CHOOSE r \in byTime : SameKey(r, row)

ResponsesAt(rows) == [i \in DOMAIN rows |-> ResponseAt(rows[i])]

(* Bytes compare from the left.                                              *)
HashAbove(g, h) ==
  \E k \in 1..Len(g) : /\ k <= Len(h) => g[k] > h[k]
                       /\ \A j \in 1..k - 1 : j <= Len(h) /\ g[j] = h[j]

(* Mutant: oldest first.                                                     *)
RowAboveOldest(x, y) == HashAbove(x.hash, y.hash) \/ (x.hash = y.hash /\ Newer(y, x))

(* The order of a table of hashes: by index first, then by time.             *)
RowAbove(x, y) == HashAbove(x.hash, y.hash) \/ (x.hash = y.hash /\ Newer(x, y))

IndexRows(q) ==
  LET depth == IF Len(q.hash) < IndexLen THEN Len(q.hash) ELSE IndexLen
  IN {h \in byHash : h.algo = q.algo /\ IsPrefix(SubSeq(q.hash, 1, depth), h.hash)}

(* Mutant: matches of the truncated index are not checked.                   *)
MatchesIndex(r, q) == TRUE

Matches(r, q) == IsPrefix(q.hash, Digest(r, q.algo))

(* Other rows are skipped.                                                   *)
MatchingRows(q) == {h \in IndexRows(q) : Matches(ResponseAt(h), q)}

hx_get_sources(q) == FirstRows(ResponsesAt(Listing(MatchingRows(q), RowAbove)))

SurtRows(s) == {x \in bySurt : x.surt = s}

hx_get_history(u) ==
  FirstRows(ResponsesAt(Listing(SurtRows(SurtOf[u]), Newer)))

(* Mutant: the other end of the range.                                       *)
IsLatestFirst(row, s) == row \in SurtRows(s) /\ \A x \in SurtRows(s) : NotOlder(x, row)

(* hx_get_latest, the first row of its range.                                *)
IsLatest(row, s) == row \in SurtRows(s) /\ \A x \in SurtRows(s) : NotOlder(row, x)

(* Mutant: the time is compared without the id.                              *)
ActiveInTime(r) == \E x \in SurtRows(SurtOf[r.url]) :
                     IsLatest(x, SurtOf[r.url]) /\ x.time = r.time

(* HX_RES_LATEST.                                                            *)
Active(r) == IsLatest(SurtRow(r), SurtOf[r.url])

(* Already in the list: hx_get_recent skips duplicate URLs.                  *)
Listed(r, out) == \E i \in DOMAIN out : out[i].url = r.url

(* Mutant: the comparison is with every newer response, listed or not.       *)
ListableUnseen(r, out) ==
  r.outcome.ok /\ ~\E x \in byTime : x.url = r.url /\ Newer(x, r)

Listable(r, out) == r.outcome.ok /\ ~Listed(r, out)

(* Successes, newest first, each URL once: what the loop has found after n   *)
(* responses.                                                                *)
RecentOf(list) ==
  LET out[n \in 0..Len(list)] ==
        IF n = 0 THEN <<>>
        ELSE IF Len(out[n - 1]) < Rows /\ Listable(list[n], out[n - 1])
             THEN Append(out[n - 1], list[n]) ELSE out[n - 1]
  IN out

hx_get_recent ==
  LET list == Listing(byTime, Newer) IN RecentOf(list)[Len(list)]

(* ------------------------------------------------------------------------ *)
(* Merging: links[i] is the response that is shown in place of list[i], its  *)
(* prev pointer, or 0.                                                       *)

Common(g, h) == IF Len(g) < Len(h) THEN Len(g) ELSE Len(h)

SamePrefix(g, h) == SubSeq(g, 1, Common(g, h)) = SubSeq(h, 1, Common(g, h))

(* Mutant: agreement on the index is enough.                                 *)
ContentEqShort(r, x) ==
  /\ r.outcome.ok /\ x.outcome.ok
  /\ \A a \in Algos : SamePrefix(Digest(r, a), Digest(x, a))
  /\ \E a \in Algos : Common(Digest(r, a), Digest(x, a)) >= IndexLen

(* res_content_eq: successes whose digests agree as far as both go, one of   *)
(* them far enough.                                                          *)
ContentEq(r, x) ==
  /\ r.outcome.ok /\ x.outcome.ok
  /\ \A a \in Algos : SamePrefix(Digest(r, a), Digest(x, a))
  /\ \E a \in Algos : Common(Digest(r, a), Digest(x, a)) >= MatchLen

(* Bodies whose digests agree that far are the same.                         *)
ASSUME ContentAssumption ==
  \A o, p \in Outcomes :
    o.ok /\ p.ok /\ (\E a \in Algos :
                       /\ SamePrefix(o.digests[a], p.digests[a])
                       /\ Common(o.digests[a], p.digests[a]) >= MatchLen)
      => o.body = p.body

(* res_merge_common_content: neighbours only.                                *)
ContentLinks(list) ==
  [i \in DOMAIN list |->
     IF i > 1 /\ ContentEq(list[i - 1], list[i]) THEN i - 1 ELSE 0]

(* res_merge_common_urls: the last response before it that has its URL and   *)
(* no next pointer yet.                                                      *)
UrlLinks(list) ==
  LET link[i \in DOMAIN list] ==
        LET free == {j \in 1..i - 1 : /\ list[j].url = list[i].url
                                      /\ \A k \in j + 1..i - 1 : link[k] # j}
        IN IF free = {} THEN 0 ELSE Max(free)
  IN link

(* What is at the start of the chain of prev pointers from i.                *)
ChainHead(links) ==
  LET head[i \in DOMAIN links] == IF links[i] = 0 THEN i ELSE head[links[i]]
  IN head

(* page_sources: a response without a prev pointer has an entry, active or   *)
(* obsolete; the others are skipped.                                         *)
Entries(links) == {i \in DOMAIN links : links[i] = 0}

(* ------------------------------------------------------------------------ *)
(* Properties.                                                               *)

(* The type invariant.                                                       *)
TypeOK ==
  /\ byTime \subseteq Responses
  /\ bySurt \subseteq [surt : Surts, time : 1..MaxTime, id : 0..MaxId]
  /\ byHash \subseteq [algo : Algos, hash : Seq(Bytes), time : 1..MaxTime, id : 0..MaxId]

(* The three tables list the same responses: a key names one response, and   *)
(* both indexes have the rows of the stored responses and no others.         *)
TablesAgree ==
  /\ \A r, x \in byTime : SameKey(r, x) => r = x
  /\ bySurt = {SurtRow(r) : r \in byTime}
  /\ byHash = UNION {HashRows(r) : r \in byTime}

(* The assertion of hx_get_sources (db.c:296): the response under a row of   *)
(* the index by hash exists, and the latest row of its URL is not older.     *)
LatestNotOlder ==
  \A row \in byHash :
    \E r \in byTime :
      /\ SameKey(r, row)
      /\ SurtRows(SurtOf[r.url]) # {}
      /\ \A x \in SurtRows(SurtOf[r.url]) :
           IsLatest(x, SurtOf[r.url]) => NotOlder(x, row)

Found(r, q) == Digest(r, q.algo) # <<>> /\ Matches(r, q)

(* The page of sources shows every URL at most once, none that never had the *)
(* hash, and, when the rows suffice, all that had it: truncated index keys   *)
(* and the merging of repeated URLs lose and add nothing.                    *)
SourcePageIsExact ==
  \A q \in Queries :
    LET list == hx_get_sources(q)
        shown == Entries(UrlLinks(list))
        had == {r.url : r \in {x \in byTime : Found(x, q)}}
        urls == {list[i].url : i \in shown}
    IN /\ \A i, j \in shown : list[i].url = list[j].url => i = j
       /\ urls \subseteq had
       /\ Len(list) < Rows => urls = had

(* All rows that match such a query are under one truncated hash.  A shorter *)
(* one matches several, which come in the order of the hashes first, and its *)
(* page may date an entry by an older response.                              *)
FullQueries == {q \in Queries : Len(q.hash) >= IndexLen}

(* An entry of the page of sources, "Active as of" or "Obsolete; last seen"  *)
(* (page_sources.c:24-26), has the date on which its URL last had the hash.  *)
LastSeenIsLast ==
  \A q \in FullQueries :
    LET list == hx_get_sources(q)
    IN \A i \in Entries(UrlLinks(list)) :
         \A r \in byTime :
           r.url = list[i].url /\ Found(r, q) => list[i].time >= r.time

(* A resource has an active entry on the page of sources only if its newest  *)
(* response has the hash, and when the rows suffice whenever it has: the     *)
(* flag, which comes from the index by URL, outlasts the merging of rows     *)
(* that come from the index by hash.                                         *)
ActiveIsCurrent ==
  \A q \in FullQueries :
    LET list == hx_get_sources(q)
        active == {list[i] : i \in {k \in Entries(UrlLinks(list)) : Active(list[k])}}
        newest == {r \in byTime : \A x \in byTime :
                                   SurtOf[x.url] = SurtOf[r.url] => NotOlder(r, x)}
    IN /\ active \subseteq newest
       /\ Len(list) < Rows => {r \in newest : Found(r, q)} \subseteq active

(* The history page shows "Also seen" dates (page_history.c:57) only for     *)
(* responses that had the same body as the entry they stand under, also when *)
(* digests are partial or missing and along chains of several neighbours.    *)
HistoryMergesSameBody ==
  \A u \in Urls :
    LET list == hx_get_history(u)
        head == ChainHead(ContentLinks(list))
    IN \A i \in DOMAIN list :
         list[i].outcome.body = list[head[i]].outcome.body

(* The index page lists each URL at its newest success, and leaves out a URL *)
(* only when it is full of newer ones; failed crawls hide nothing.           *)
RecentIsNewest ==
  LET list == hx_get_recent
  IN \A r \in {x \in byTime : x.outcome.ok} :
       \/ \E i \in DOMAIN list : list[i].url = r.url /\ NotOlder(list[i], r)
       \/ /\ Len(list) = Rows
          /\ \A i \in DOMAIN list : list[i].url # r.url /\ NotOlder(list[i], r)
=============================================================================
