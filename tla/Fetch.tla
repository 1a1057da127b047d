------------------------------- MODULE Fetch -------------------------------
(* A worker's fetches (fetch.c, util/hasher.c): it asks for a URL, follows   *)
(* redirects, and hashes the body as it arrives.  One response record serves *)
(* one fetch after another.                                                  *)
(*                                                                           *)
(* The digest of a body is the body with the name of the algorithm.          *)
EXTENDS Url

CONSTANTS Texts,        \* URLs
          Locations,    \* those a Location header may name
          Statuses,     \* HTTP status codes
          Types,        \* content types
          Chunks,       \* what one read of a body may return
          RedirectMax,  \* REDIRECT_MAX, 5
          Algos,
          None,         \* no header, no digest
          MaxChunks     \* bound: chunks of a body

(* Errors are negative.                                                      *)
ErrRedirect == -2  \* HX_ERR_REDIRECT
ErrOther == -1     \* any other

ASSUME FetchAssumption ==
  /\ Texts \subseteq Seq(Tokens) /\ Locations \subseteq Texts
  /\ Statuses \subseteq Nat
  /\ None \notin Types \cup Texts
  /\ RedirectMax \in Nat \ {0} /\ MaxChunks \in Nat

VARIABLES
  pc,      \* "idle", "connect", "status", "headers", "body"
  tmp,     \* the URL to be asked for
  hops,    \* i, the requests that were redirected
  res,     \* the response record
  hasher,  \* the chunks given to the hasher
  answer,  \* what the last site answered, for the properties
  asked    \* how many requests have been sent, for the properties

vars == <<pc, tmp, hops, res, hasher, answer, asked>>

NoDigests == [a \in Algos |-> None]

NoAnswer == [status |-> None, type |-> None, location |-> None, body |-> <<>>]

(* A worker before its first fetch, which sets all of the record.            *)
Init == /\ pc = "idle"
        /\ tmp = <<>> /\ hops = 0 /\ hasher = <<>>
        /\ res = [url |-> <<>>, status |-> 0, type |-> None, length |-> 0,
                  digests |-> NoDigests]
        /\ answer = NoAnswer
        /\ asked = 0

(* ------------------------------------------------------------------------ *)
(* send_get.                                                                 *)

CanAsk(s) == HasSurt(s) /\ url_parse(s).scheme \in {<<"http">>, <<"https">>}

(* Both callers of queue_add pass an empty client.                           *)
NoClient == <<>>

(* Where the request goes, what it asks for, and its headers: the Referer is *)
(* the URL as it was written.                                                *)
Request(s) ==
  LET url == url_parse(s)
      host == host_parse(url.host)
  IN [secure |-> url.scheme = <<"https">>, domain |-> host.domain, port |-> host.port,
      host |-> url.host,
      path |-> (IF url.path = <<>> THEN <<"/">> ELSE url.path) \o url.query,
      referer |-> s, forwarded |-> NoClient]

(* Nothing but a redirect makes url_fetch try again.                         *)
Return == pc' = "idle" /\ UNCHANGED <<tmp, hops>>

(* rc < 0 on the way: of the connection, a header, the body.                 *)
FailFetch ==
  /\ pc # "idle"
  /\ res' = [res EXCEPT !.status = ErrOther]
  /\ hasher' = <<>>
  /\ Return
  /\ UNCHANGED <<answer, asked>>

(* Mutant: url_fetch initializes the status only.                            *)
StartFetchStale(s) ==
  /\ pc = "idle" /\ HasSurt(s)
  /\ res' = [res EXCEPT !.url = s, !.status = 0]
  /\ tmp' = s /\ hops' = 0 /\ asked' = 0 /\ pc' = "connect"
  /\ answer' = NoAnswer
  /\ UNCHANGED hasher

(* url_fetch of a URL from the queue, which has only what has a key.         *)
StartFetch(s) ==
  /\ pc = "idle" /\ HasSurt(s)
  /\ res' = [url |-> s, status |-> 0, type |-> None, length |-> 0, digests |-> NoDigests]
  /\ tmp' = s /\ hops' = 0 /\ asked' = 0 /\ pc' = "connect"
  /\ answer' = NoAnswer
  /\ UNCHANGED hasher

SendGet ==
  /\ pc = "connect" /\ CanAsk(tmp)
  /\ pc' = "status" /\ asked' = asked + 1
  /\ answer' = NoAnswer
  /\ UNCHANGED <<tmp, hops, res, hasher>>

(* HTTPConnectionReadResponseStatus writes into the record.                  *)
ReadStatus(status) ==
  /\ pc = "status"
  /\ res' = [res EXCEPT !.status = status]
  /\ answer' = [answer EXCEPT !.status = status]
  /\ pc' = "headers"
  /\ UNCHANGED <<tmp, hops, hasher, asked>>

(* Mutant: i <= REDIRECT_MAX.                                                *)
NextHopLate == pc' = IF hops < RedirectMax THEN "connect" ELSE "idle"

NextHop == pc' = IF hops + 1 < RedirectMax THEN "connect" ELSE "idle"

(* Mutant: the type is copied before the redirect is looked at.              *)
RedirectedTyped(type, location) ==
  /\ pc = "headers"
  /\ res.status \in 300..399 /\ location # None
  /\ tmp' = location /\ hops' = hops + 1
  /\ res' = [res EXCEPT !.status = ErrRedirect, !.type = type]
  /\ answer' = [answer EXCEPT !.type = type, !.location = location]
  /\ NextHop
  /\ UNCHANGED <<hasher, asked>>

(* A 3xx with a Location: that URL is next, the record says "redirect".      *)
Redirected(type, location) ==
  /\ pc = "headers"
  /\ res.status \in 300..399 /\ location # None
  /\ tmp' = location /\ hops' = hops + 1
  /\ res' = [res EXCEPT !.status = ErrRedirect]
  /\ answer' = [answer EXCEPT !.type = type, !.location = location]
  /\ NextHop
  /\ UNCHANGED <<hasher, asked>>

(* Any other response has a body that matters.                               *)
ReadHeaders(type, location) ==
  /\ pc = "headers"
  /\ ~(res.status \in 300..399 /\ location # None)
  /\ res' = IF type = None THEN res ELSE [res EXCEPT !.type = type]
  /\ answer' = [answer EXCEPT !.type = type, !.location = location]
  /\ hasher' = <<>>
  /\ pc' = "body"
  /\ UNCHANGED <<tmp, hops, asked>>

(* One buffer of the body goes to the hasher.  Its length is counted apart   *)
(* from the record.                                                          *)
ReadBody(chunk) ==
  /\ pc = "body" /\ Len(hasher) < MaxChunks
  /\ hasher' = Append(hasher, chunk)
  /\ answer' = [answer EXCEPT !.body = Append(@, chunk)]
  /\ UNCHANGED <<pc, tmp, hops, res, asked>>

(* hasher_digests: the digests of all algorithms.                            *)
hasher_digests == [a \in Algos |-> [algo |-> a, of |-> hasher]]

(* The empty buffer after the last one.                                      *)
EndBody ==
  /\ pc = "body"
  /\ res' = [res EXCEPT !.length = Len(hasher), !.digests = hasher_digests]
  /\ hasher' = <<>>
  /\ Return
  /\ UNCHANGED <<answer, asked>>

Next == \/ \E s \in Texts : StartFetch(s)
        \/ SendGet
        \/ \E status \in Statuses : ReadStatus(status)
        \/ \E type \in Types \cup {None}, location \in Locations \cup {None} :
             Redirected(type, location) \/ ReadHeaders(type, location)
        \/ \E chunk \in Chunks : ReadBody(chunk)
        \/ EndBody
        \/ FailFetch

Spec == Init /\ [][Next]_vars

(* ------------------------------------------------------------------------ *)
(* Properties.                                                               *)

Over == pc = "idle" /\ res.url # <<>>

IsRedirect(a) == a.status \in 300..399 /\ a.location # None

(* A fetch that succeeded recorded one answer, the last: its status and type *)
(* and the length and the digests, by all algorithms, of all of its body.    *)
(* Nothing is left of the redirects before it or of earlier fetches.         *)
ResultIsAnswer ==
  Over /\ res.status >= 0 =>
    /\ ~IsRedirect(answer)
    /\ res.status = answer.status /\ res.type = answer.type
    /\ res.length = Len(answer.body)
    /\ res.digests = [a \in Algos |-> [algo |-> a, of |-> answer.body]]

(* A fetch that failed, also in the middle of a body, has neither length nor *)
(* digests, and a type only if the answer that was cut short had it.         *)
FailureIsBlank ==
  Over /\ res.status < 0 =>
    /\ res.digests = NoDigests /\ res.length = 0
    /\ res.type \in {None, answer.type}

(* No fetch sends more than RedirectMax requests, and it gives up on         *)
(* redirects exactly when so many answers were redirects.                    *)
RedirectsAreBounded ==
  /\ asked <= RedirectMax
  /\ Over /\ IsRedirect(answer) /\ res.status # ErrOther =>
       asked = RedirectMax /\ res.status = ErrRedirect

(* The whole host is a domain, of one to eight labels, and perhaps a port.   *)
Proper(h) ==
  LET d == host_parse(h).domain
      p == host_parse(h).port
      dots == {k \in DOMAIN d : d[k] = "."}
  IN /\ h = d \o (IF p = <<>> THEN <<>> ELSE <<":">> \o p)
     /\ d # <<>> /\ d[1] # "." /\ d[Len(d)] # "."
     /\ \A k \in dots : k + 1 \notin dots
     /\ Cardinality(dots) < LabelMax

(* Two requests that differ in nothing but the URL that they refer to.       *)
AskAlike(q, r) == [q EXCEPT !.referer = r.referer] = r

(* URLs with one key share their history, their crawl delay and their place  *)
(* in the queue, so a fetch for one must do for the other: the same site is  *)
(* asked for the same thing, and only the Referer shows which spelling was   *)
(* queued.  And URLs that are asked for alike have one key, but for a        *)
(* missing "/".                                                              *)
SameKeyAsksAlike ==
  pc = "connect" /\ asked = 0 /\ CanAsk(tmp) /\ Proper(url_parse(tmp).host) =>
    \A s \in Texts :
      CanAsk(s) /\ Proper(url_parse(s).host) =>
        /\ url_normalize_surt(s) = url_normalize_surt(tmp) =>
             AskAlike(Request(s), Request(tmp))
        /\ AskAlike(Request(s), Request(tmp)) =>
             \/ url_normalize_surt(s) = url_normalize_surt(tmp)
             \/ {url_parse(s).path, url_parse(tmp).path} = {<<>>, <<"/">>}
=============================================================================
