-------------------------------- MODULE Url --------------------------------
(* URLs (util/url.c): what the archive files under one key, and what is      *)
(* fetched for it.                                                           *)
(*                                                                           *)
(* A URL is a sequence of words and punctuation.  A word stands for a run of *)
(* letters, digits and hyphens; digits have words of their own.  Texts are   *)
(* shorter than the fields they are scanned into.                            *)
EXTENDS Scan, FiniteSets

CONSTANTS Words,   \* in lower case, the digits among them
          Digits,
          LowerOf  \* from the words with capitals to those without

Punctuation == {":", "/", "?", "#", "@", "."}

UrlAssumption ==
  /\ {"http", "https"} \subseteq Words
  /\ Digits \subseteq Words
  /\ LowerOf \in [DOMAIN LowerOf -> Words]
  /\ DOMAIN LowerOf \cap Words = {}
  /\ Punctuation \cap (Words \cup DOMAIN LowerOf) = {}

ASSUME UrlAssumption

Tokens == Words \cup DOMAIN LowerOf \cup Punctuation

(* strlower.                                                                 *)
Lower(s) == [k \in DOMAIN s |-> IF s[k] \in DOMAIN LowerOf THEN LowerOf[s[k]] ELSE s[k]]

HostRelative(s) == IsPrefix(<<"/">>, s) /\ ~IsPrefix(<<"/", "/">>, s)

(* The host reaches to the first slash or to the end, so without a path it   *)
(* takes the query and the fragment along.                                   *)
url_parse(s) ==
  LET scheme == IF IsPrefix(<<"/">>, s) THEN <<>> ELSE Take(s, Tokens \ {":"})
      lead == IF scheme = <<>> THEN <<"/", "/">> ELSE scheme \o <<":", "/", "/">>
      after == IF IsPrefix(lead, s) THEN Drop(s, Len(lead)) ELSE <<>>
      host == Take(after, Tokens \ {"/"})
      rest == IF HostRelative(s) THEN s ELSE Drop(after, Len(host))
      path == Take(rest, Tokens \ {"?", "#"})
  IN [scheme |-> Lower(scheme), host |-> Lower(host), path |-> path,
      query |-> Take(Drop(rest, Len(path)), Tokens \ {"#"})]

(* It returns no error.                                                      *)
UrlParses(s) == HostRelative(s) \/ url_parse(s).host # <<>>

host_parse(h) ==
  LET domain == Take(h, Words \cup DOMAIN LowerOf \cup {"."})
      rest == Drop(h, Len(domain))
  IN [domain |-> domain,
      port |-> IF IsPrefix(<<":">>, rest) THEN Take(Drop(rest, 1), Digits) ELSE <<>>]

LabelMax == 8

(* One more label, unless it is empty, and the dot behind it.                *)
NextLabel(found) ==
  LET label == Take(found.rest, Words)
      rest == Drop(found.rest, Len(label))
  IN IF label = <<>> THEN found
     ELSE [labels |-> <<label>> \o found.labels,
           rest |-> IF IsPrefix(<<".">>, rest) THEN Drop(rest, 1) ELSE <<>>]

(* What the scan of a domain has found after n labels.                       *)
LabelScan(domain) ==
  LET scan[n \in 0..LabelMax] ==
        IF n = 0 THEN [labels |-> <<>>, rest |-> domain] ELSE NextLabel(scan[n - 1])
  IN scan

(* The labels of a domain, the last one first.  The scan ends with the first *)
(* label that is empty, and after eight.                                     *)
domain_reverse(domain) == LabelScan(domain)[LabelMax].labels

(* Mutant: the port is forgotten.                                            *)
url_normalize_surtPortless(s) ==
  LET url == url_parse(s)
  IN [scheme |-> url.scheme, labels |-> domain_reverse(host_parse(url.host).domain),
      port |-> <<>>, path |-> url.path, query |-> url.query]

(* The key of a URL, unless it or its host does not parse.                   *)
url_normalize_surt(s) ==
  LET url == url_parse(s)
      host == host_parse(url.host)
  IN [scheme |-> url.scheme, labels |-> domain_reverse(host.domain),
      port |-> host.port, path |-> url.path, query |-> url.query]

HasSurt(s) == UrlParses(s) /\ host_parse(url_parse(s).host).domain # <<>>
=============================================================================
