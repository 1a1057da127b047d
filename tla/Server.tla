------------------------------- MODULE Server -------------------------------
(* The listener (server.c): each connection is a fiber that reads a request, *)
(* finds the handler for it and answers.  The pages are those of             *)
(* LazyTemplates; page_history adds its URL to the queue between two of its  *)
(* templates, while workers crawl and others import.                         *)
(*                                                                           *)
(* Of a URL there is only its surt.  The page looks its history up by it and *)
(* queue_add both of its tables, so a request for one spelling, a crawl of   *)
(* another and an import of a third meet there.                              *)
EXTENDS LazyTemplates

CONSTANTS Surts,
          MaxFailures  \* bound: calls of queue_add that the database fails

SaysOutdated(l) == \E k \in DOMAIN l : l[k] = "outdated"

(* Only the page of the history says that it is outdated.                    *)
ASSUME ServerAssumption ==
  /\ MaxFailures \in Nat
  /\ ErrorPage # "history"
  /\ \A p \in Pages \ {"history"} : \A l \in Layouts[p] : ~SaysOutdated(l)

VARIABLES
  stage,    \* per connection: "reading", "page", "closed"
  answers,  \* the responses written to it: "ok", "moved", "error"
  surt,     \* that of the URL page_history is asked about
  rc,       \* of its queue_add: "none" before, "ok", "exists", "failed"
  queued,   \* the surts of the URLs that wait to be crawled
  fresh,    \* those with a response younger than the crawl delay
  failures, \* how many calls of queue_add have failed
  overtaken \* whether a response of its resource was stored after the page
            \* looked and before its queue_add, for the properties

archiveVars == <<queued, fresh, failures>>
serverVars == <<stage, answers, surt, rc, overtaken, archiveVars>>
allVars == <<vars, serverVars>>

NoSurt == "no surt"

ServerInit ==
  /\ Init
  /\ stage = [r \in Requests |-> "reading"]
  /\ answers = [r \in Requests |-> <<>>]
  /\ surt = [r \in Requests |-> NoSurt]
  /\ rc = [r \in Requests |-> "none"]
  /\ queued = {} /\ fresh = {} /\ failures = 0
  /\ overtaken = [r \in Requests |-> FALSE]

(* ------------------------------------------------------------------------ *)
(* Dispatch.  A path stands for those that its handler takes; "other" also   *)
(* for those with an empty argument.  HEAD is served as GET.                 *)

Chain == <<"index", "lookup", "history", "sources", "critical", "enqueue",
           "api_history", "api_sources", "dump", "static">>

Paths == {"index", "lookup", "history", "sources", "critical", "enqueue",
          "api_history", "api_sources", "dump", "other"}

Takes(h, method, path) ==
  \/ h = "lookup" /\ method = "POST" /\ path = h
  \/ h \notin {"lookup", "static"} /\ method = "GET" /\ path = h
  \/ h = "static" /\ method = "GET"

(* The first handler that does not return -1, or none: 404.                  *)
Handler(method, path) ==
  LET taking == SelectSeq(Chain, LAMBDA h : Takes(h, method, path))
  IN IF taking = <<>> THEN "none" ELSE taking[1]

Handlers == {Handler(method, path) : method \in {"GET", "POST"}, path \in Paths}

(* What a handler answers that writes no page: redirects of lookup and of a  *)
(* static directory, errors, and 404.                                        *)
Replies(h) ==
  CASE h = "lookup" -> {"moved", "error"}
    [] h = "static" -> {"ok", "moved", "error"}
    [] h \in {"api_history", "api_sources", "dump"} -> {"ok", "error"}
    [] h \in {"enqueue", "none"} -> {"error"}
    [] OTHER -> {}

(* The page that a handler may open; lookup opens the one of parse_error.    *)
PageOf(h) == IF h = "lookup" THEN ErrorPage ELSE h

(* ------------------------------------------------------------------------ *)

Answer(r, status) == answers' = [answers EXCEPT ![r] = Append(@, status)]

Close(r) == stage' = [stage EXCEPT ![r] = "closed"]

(* The peer is gone before it has sent a request.                            *)
Drop(r) ==
  /\ stage[r] = "reading" /\ Close(r)
  /\ UNCHANGED <<vars, answers, surt, rc, overtaken, archiveVars>>

(* The request or its headers cannot be read, or the host is not expected.   *)
Refuse(r) ==
  /\ stage[r] = "reading" /\ Close(r)
  /\ Answer(r, "error")
  /\ UNCHANGED <<vars, surt, rc, overtaken, archiveVars>>

Reply(r, h) ==
  /\ stage[r] = "reading" /\ Close(r)
  /\ \E status \in Replies(h) : Answer(r, status)
  /\ UNCHANGED <<vars, surt, rc, overtaken, archiveVars>>

(* What queue_add returns, and the queue after it.                           *)
Added(u) == IF u \in queued THEN "ok" ELSE IF u \in fresh THEN "exists" ELSE "ok"

AddToQueue(u) == queued' = IF u \in fresh THEN queued ELSE queued \cup {u}

(* api_enqueue: a URL crawled lately is no error there (api.c:89); what      *)
(* happens after its head is written does not reach the listener.            *)
Enqueue(r, u) ==
  /\ stage[r] = "reading" /\ Close(r)
  /\ AddToQueue(u) /\ Answer(r, "ok")
  /\ UNCHANGED <<vars, surt, rc, overtaken, fresh, failures>>

OpenPage(r, p) ==
  /\ stage[r] = "reading" /\ stage' = [stage EXCEPT ![r] = "page"]
  /\ Request(r, p)
  /\ IF p = "history" THEN \E u \in Surts : surt' = [surt EXCEPT ![r] = u]
                      ELSE UNCHANGED surt
  /\ UNCHANGED <<answers, rc, overtaken, archiveVars>>

LoadPage(r) == LoadTemplate(r) /\ UNCHANGED serverVars

DivertPage(r) == Divert(r) /\ UNCHANGED serverVars

(* Mutant: the page asks for a crawl whatever it has found.                  *)
FitsAlways(r, l) == TRUE

(* A page of the history that is shown says outdated if no response is       *)
(* younger than the delay.                                                   *)
Fits(r, l) ==
  page[r] = "history" /\ l # <<>> => (SaysOutdated(l) <=> surt[r] \notin fresh)

(* page_history reads a snapshot (hx_get_history); a response that becomes   *)
(* too old before the handler looks at the clock is one that was too old in  *)
(* the snapshot.                                                             *)
DecidePage(r, l) ==
  /\ Decide(r, l) /\ Fits(r, l)
  /\ UNCHANGED serverVars

(* The template says that a request has been queued, and now it is.          *)
MustAdd(r) ==
  /\ pc[r] = "writing" /\ rc[r] = "none"
  /\ at[r] - 1 \in DOMAIN layout[r] /\ layout[r][at[r] - 1] = "outdated"

(* The status line is written before the first template.                     *)
WritePage(r) ==
  /\ ~MustAdd(r) /\ WriteTemplate(r)
  /\ IF at[r] = 1 THEN Answer(r, IF page[r] = ErrorPage THEN "error" ELSE "ok")
                  ELSE UNCHANGED answers
  /\ UNCHANGED <<stage, surt, rc, overtaken, archiveVars>>

(* page_history.c:160: rc keeps what queue_add returns.                      *)
AddRequest(r) ==
  /\ MustAdd(r)
  /\ \/ /\ rc' = [rc EXCEPT ![r] = Added(surt[r])] /\ AddToQueue(surt[r])
        /\ UNCHANGED failures
     \/ /\ failures < MaxFailures /\ failures' = failures + 1
        /\ rc' = [rc EXCEPT ![r] = "failed"] /\ UNCHANGED queued
  /\ UNCHANGED <<vars, stage, answers, surt, overtaken, fresh>>

(* Mutant: a failure of hx_get_history is forgotten.                         *)
FailsLater(r) == rc[r] \in {"exists", "failed"}

(* The handler returns an error: before it has written anything, or from     *)
(* queue_add.                                                                *)
Fails(r) == layout[r] = <<>> \/ rc[r] \in {"exists", "failed"}

(* Back in the listener: an error is sent as a status (server.c:238).        *)
FinishPage(r) ==
  /\ ~MustAdd(r) /\ Finish(r) /\ Close(r)
  /\ IF Fails(r) THEN Answer(r, "error") ELSE UNCHANGED answers
  /\ UNCHANGED <<surt, rc, overtaken, archiveVars>>

(* A page of the resource that is outdated and has not called queue_add yet. *)
HasLooked(r, u) ==
  pc[r] = "writing" /\ rc[r] = "none" /\ SaysOutdated(layout[r]) /\ surt[r] = u

(* hx_response_add, committed.                                               *)
Store(u) ==
  /\ fresh' = fresh \cup {u}
  /\ overtaken' = [r \in Requests |-> overtaken[r] \/ HasLooked(r, u)]

(* A worker commits a response to a queued URL.                              *)
Crawl(u) ==
  /\ u \in queued /\ queued' = queued \ {u}
  /\ Store(u)
  /\ UNCHANGED <<vars, stage, answers, surt, rc, failures>>

(* A connection of import.c commits a young response, which asks nothing of  *)
(* the queue.  An older one does not change what is fresh.                   *)
Import(u) ==
  /\ Store(u)
  /\ UNCHANGED <<vars, stage, answers, surt, rc, queued, failures>>

(* The crawl delay has passed.                                               *)
Age(u) ==
  /\ u \in fresh /\ fresh' = fresh \ {u}
  /\ UNCHANGED <<vars, stage, answers, surt, rc, queued, failures, overtaken>>

Handle(r, h) == \/ Reply(r, h)
                \/ h = "enqueue" /\ \E u \in Surts : Enqueue(r, u)
                \/ PageOf(h) \in Pages /\ OpenPage(r, PageOf(h))

ServerNext ==
  \/ \E r \in Requests :
       \/ Drop(r) \/ Refuse(r)
       \/ \E h \in Handlers : Handle(r, h)
       \/ LoadPage(r) \/ DivertPage(r) \/ (\E l \in AllLayouts : DecidePage(r, l))
       \/ WritePage(r) \/ AddRequest(r) \/ FinishPage(r)
  \/ \E u \in Surts : Crawl(u) \/ Import(u) \/ Age(u)

ServerSpec == ServerInit /\ [][ServerNext]_allVars

(* ------------------------------------------------------------------------ *)
(* Properties.                                                               *)

(* One request, one response.                                                *)
OneAnswer == \A r \in Requests : Len(answers[r]) <= 1

(* A second response follows a page only if, between its look and its        *)
(* queue_add, a response of its resource was stored, by a crawl or an        *)
(* import, under any spelling, or the database failed: the page's own check  *)
(* is an optimization, but it decides whether queue_add finds a reason to    *)
(* refuse (page_history.c:155-163).                                          *)
TwiceOnlyWhenOvertaken ==
  \A r \in Requests : Len(answers[r]) > 1 =>
    /\ Len(answers[r]) = 2 /\ answers[r][1] = "ok"
    /\ rc[r] = "failed" \/ (rc[r] = "exists" /\ overtaken[r])

(* Every connection for which a page function was called gets a response,    *)
(* whichever way the handler returns: it either writes one and returns 0, or *)
(* writes none and returns a status for the listener to send.                *)
ReadIsAnswered ==
  \A r \in Requests : stage[r] = "closed" /\ page[r] # NoPage => answers[r] # <<>>
=============================================================================
