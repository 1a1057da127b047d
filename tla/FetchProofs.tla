---------------------------- MODULE FetchProofs ----------------------------
(* What a fetch leaves in the response record, for any URLs, statuses, types *)
(* and bodies and any limit on redirects.                                    *)
EXTENDS Fetch, ListProofs, FiniteSetTheorems

Maybe(S) == S \cup {None}

Digests == [Algos -> Maybe([algo: Algos, of: Seq(Chunks)])]

Bodies == Seq(Chunks)

Results == [url: Texts \cup {<<>>}, status: Int, type: Maybe(Types), length: Nat,
            digests: Digests]

Answers == [status: Maybe(Statuses), type: Maybe(Types), location: Maybe(Locations),
            body: Bodies]

TypeInv ==
  /\ pc \in {"idle", "connect", "status", "headers", "body"}
  /\ tmp \in Texts \cup {<<>>}
  /\ hops \in Nat /\ asked \in Nat
  /\ hasher \in Bodies
  /\ res \in Results
  /\ answer \in Answers

(* While a fetch runs, the record is blank but for its status, and from the  *)
(* headers of the last answer on for its type.                               *)
Blank ==
  /\ pc # "idle" => res.digests = NoDigests /\ res.length = 0
  /\ pc \in {"connect", "status", "headers"} => res.type = None

(* What the record and the hasher have of the answer that is being read.     *)
Reading ==
  /\ pc \in {"status", "headers"} => answer.body = <<>>
  /\ pc \in {"headers", "body"} => res.status \in Nat /\ res.status = answer.status
  /\ pc = "body" => /\ ~IsRedirect(answer)
                    /\ res.type = answer.type
                    /\ hasher = answer.body

(* A running fetch may send one more request, or has just sent it.           *)
Counted ==
  /\ pc # "idle" => hops < RedirectMax
  /\ pc = "connect" => asked = hops
  /\ pc \in {"status", "headers", "body"} => asked = hops + 1

Promise == ResultIsAnswer /\ FailureIsBlank /\ RedirectsAreBounded

IInv == TypeInv /\ Blank /\ Reading /\ Counted /\ Promise

LEMMA FetchInit == Init => IInv
<1> SUFFICES ASSUME Init  PROVE IInv
  OBVIOUS
<1> USE FetchAssumption DEF Init, NoAnswer, NoDigests
<1>1. TypeInv  BY DEF TypeInv, Maybe, Results, Answers, Digests, Bodies
<1>2. Blank /\ Reading /\ Counted  BY DEF Blank, Reading, Counted
<1>3. Promise
  BY DEF Promise, ResultIsAnswer, FailureIsBlank, RedirectsAreBounded, Over
<1> QED  BY <1>1, <1>2, <1>3 DEF IInv

LEMMA StartFetchStep ==
  ASSUME IInv, NEW s \in Texts, StartFetch(s)
  PROVE  IInv'
<1> USE FetchAssumption DEF StartFetch, NoAnswer
<1>1. NoDigests \in Digests  BY DEF NoDigests, Digests, Maybe
<1>2. TypeInv'
  <2>1. res' \in Results  BY <1>1 DEF Results, Maybe
  <2>2. answer' \in Answers  BY DEF Answers, Maybe, Bodies
  <2> QED  BY <2>1, <2>2 DEF IInv, TypeInv
<1>3. (Blank /\ Reading)'  BY DEF Blank, Reading
<1>4. Counted'  BY DEF Counted
<1>5. Promise'  BY DEF Promise, ResultIsAnswer, FailureIsBlank, RedirectsAreBounded, Over
<1> QED  BY <1>2, <1>3, <1>4, <1>5 DEF IInv

LEMMA SendGetStep == IInv /\ SendGet => IInv'
<1> SUFFICES ASSUME IInv, SendGet  PROVE IInv'
  OBVIOUS
<1> USE FetchAssumption DEF SendGet, NoAnswer
<1>1. TypeInv'
  <2>1. res' \in Results  BY DEF IInv, TypeInv
  <2>2. answer' \in Answers  BY DEF IInv, TypeInv, Answers, Maybe, Bodies
  <2> QED  BY <2>1, <2>2 DEF IInv, TypeInv
<1>2. (Blank /\ Reading)'  BY DEF IInv, Blank, Reading
<1>3. Counted'  BY DEF IInv, TypeInv, Counted
<1>4. Promise'
  BY DEF IInv, TypeInv, Counted, Promise, ResultIsAnswer, FailureIsBlank,
         RedirectsAreBounded, Over
<1> QED  BY <1>1, <1>2, <1>3, <1>4 DEF IInv

LEMMA ReadStatusStep ==
  ASSUME IInv, NEW status \in Statuses, ReadStatus(status)
  PROVE  IInv'
<1> USE FetchAssumption DEF ReadStatus
<1>1. TypeInv'
  <2>1. res' \in Results  BY DEF IInv, TypeInv, Results
  <2>2. answer' \in Answers  BY DEF IInv, TypeInv, Answers, Maybe
  <2> QED  BY <2>1, <2>2 DEF IInv, TypeInv
<1>2. Blank'  BY <1>1 DEF IInv, TypeInv, Blank
<1>3. Reading'  BY <1>1 DEF IInv, TypeInv, Reading
<1>4. Counted'  BY DEF IInv, Counted
<1>5. Promise'
  BY DEF IInv, TypeInv, Counted, Promise, ResultIsAnswer, FailureIsBlank,
         RedirectsAreBounded, Over
<1> QED  BY <1>1, <1>2, <1>3, <1>4, <1>5 DEF IInv

LEMMA RedirectedStep ==
  ASSUME IInv, NEW type \in Maybe(Types), NEW location \in Maybe(Locations),
         Redirected(type, location)
  PROVE  IInv'
<1> USE FetchAssumption DEF Redirected, NextHop
<1>1. TypeInv'
  <2>1. res' \in Results  BY DEF IInv, TypeInv, Results, ErrRedirect
  <2>2. answer' \in Answers  BY DEF IInv, TypeInv, Answers
  <2>3. tmp' \in Texts  BY DEF Maybe
  <2> QED  BY <2>1, <2>2, <2>3 DEF IInv, TypeInv
<1>2. Blank'  BY DEF IInv, TypeInv, Blank
<1>3. Reading'  BY DEF Reading
<1>4. Counted'  BY DEF IInv, TypeInv, Counted
<1>5. Promise'
  <2>1. asked' = hops + 1 /\ asked' <= RedirectMax
    BY DEF IInv, TypeInv, Counted
  <2>2. pc' = "idle" => asked' = RedirectMax
    BY <2>1 DEF IInv, TypeInv, Counted
  <2>3. /\ res'.status = ErrRedirect /\ res'.digests = NoDigests
        /\ res'.length = 0 /\ res'.type = None
    BY DEF IInv, TypeInv, Blank, Results
  <2>4. ResultIsAnswer'  BY <2>3 DEF ResultIsAnswer, ErrRedirect
  <2>5. FailureIsBlank'  BY <2>3 DEF FailureIsBlank, NoDigests
  <2>6. RedirectsAreBounded'  BY <2>1, <2>2, <2>3 DEF RedirectsAreBounded, Over
  <2> QED  BY <2>4, <2>5, <2>6 DEF Promise
<1> QED  BY <1>1, <1>2, <1>3, <1>4, <1>5 DEF IInv

LEMMA ReadHeadersStep ==
  ASSUME IInv, NEW type \in Maybe(Types), NEW location \in Maybe(Locations),
         ReadHeaders(type, location)
  PROVE  IInv'
<1> USE FetchAssumption DEF ReadHeaders
<1>1. TypeInv'
  <2>1. res' \in Results  BY DEF IInv, TypeInv, Results
  <2>2. answer' \in Answers  BY DEF IInv, TypeInv, Answers
  <2> QED  BY <2>1, <2>2 DEF IInv, TypeInv, Bodies
<1>2. Blank'  BY DEF IInv, TypeInv, Blank, NoDigests
<1>3. Reading'
  <2>1. answer' = [answer EXCEPT !.type = type, !.location = location]
    OBVIOUS
  <2>2. /\ answer'.status = answer.status /\ answer'.location = location
        /\ answer'.type = type /\ answer'.body = <<>>
    BY <2>1 DEF IInv, TypeInv, Reading
  <2>3. res'.status = res.status /\ res'.type = type
    BY DEF IInv, TypeInv, Blank
  <2> QED  BY <2>2, <2>3 DEF IInv, Reading, IsRedirect
<1>4. Counted'  BY DEF IInv, Counted
<1>5. Promise'
  BY DEF IInv, TypeInv, Counted, Promise, ResultIsAnswer, FailureIsBlank,
         RedirectsAreBounded, Over
<1> QED  BY <1>1, <1>2, <1>3, <1>4, <1>5 DEF IInv

LEMMA ReadBodyStep ==
  ASSUME IInv, NEW chunk \in Chunks, ReadBody(chunk)
  PROVE  IInv'
<1> USE DEF ReadBody
<1>1. TypeInv'
  <2>1. res' \in Results  BY DEF IInv, TypeInv
  <2>2. answer' \in Answers
    <3>1. answer.body \in Seq(Chunks)  BY DEF IInv, TypeInv, Answers, Bodies
    <3>2. Append(answer.body, chunk) \in Bodies  BY <3>1 DEF Bodies
    <3> QED  BY <3>2 DEF IInv, TypeInv, Answers
  <2> QED  BY <2>1, <2>2 DEF IInv, TypeInv, Bodies
<1>2. Blank'  BY DEF IInv, Blank, NoDigests
<1>3. Reading'
  <2>1. answer'.body = Append(answer.body, chunk) /\ answer'.status = answer.status
        /\ answer'.type = answer.type /\ answer'.location = answer.location
    BY DEF IInv, TypeInv
  <2> QED  BY <2>1 DEF IInv, Reading, IsRedirect
<1>4. Counted'  BY DEF IInv, Counted
<1>5. Promise'
  BY FetchAssumption
     DEF IInv, TypeInv, Counted, Promise, ResultIsAnswer, FailureIsBlank,
         RedirectsAreBounded, Over
<1> QED  BY <1>1, <1>2, <1>3, <1>4, <1>5 DEF IInv

LEMMA EndBodyStep == IInv /\ EndBody => IInv'
<1> SUFFICES ASSUME IInv, EndBody  PROVE IInv'
  OBVIOUS
<1> USE DEF EndBody, Return
<1>1. hasher_digests \in Digests
  BY DEF IInv, TypeInv, Maybe, hasher_digests, Digests, Bodies
<1>2. TypeInv'
  <2>1. Len(hasher) \in Nat  BY DEF IInv, TypeInv, Bodies
  <2>2. res' \in Results  BY <1>1, <2>1 DEF IInv, TypeInv, Results
  <2> QED  BY <2>2 DEF IInv, TypeInv, Bodies
<1>3. (Blank /\ Reading /\ Counted)'  BY DEF Blank, Reading, Counted
<1>4. /\ res'.status = answer.status /\ res'.status \in Nat
      /\ res'.type = answer.type
      /\ res'.length = Len(answer.body) /\ res'.digests = hasher_digests
  BY DEF IInv, TypeInv, Reading
<1>5. asked <= RedirectMax /\ ~IsRedirect(answer) /\ hasher = answer.body
  BY FetchAssumption DEF IInv, TypeInv, Counted, Reading
<1>6. ResultIsAnswer'
  BY <1>4, <1>5 DEF ResultIsAnswer, hasher_digests, IsRedirect
<1>7. FailureIsBlank'  BY <1>4 DEF FailureIsBlank
<1>8. RedirectsAreBounded'  BY <1>5 DEF RedirectsAreBounded, IsRedirect
<1> QED  BY <1>2, <1>3, <1>6, <1>7, <1>8 DEF IInv, Promise

LEMMA FailFetchStep == IInv /\ FailFetch => IInv'
<1> SUFFICES ASSUME IInv, FailFetch  PROVE IInv'
  OBVIOUS
<1> USE DEF FailFetch, Return
<1>1. TypeInv'
  <2>1. res' \in Results  BY DEF IInv, TypeInv, Results, ErrOther
  <2> QED  BY <2>1 DEF IInv, TypeInv, Bodies
<1>2. (Blank /\ Reading /\ Counted)'  BY DEF Blank, Reading, Counted
<1>3. /\ res'.status = ErrOther /\ res'.digests = NoDigests /\ res'.length = 0
      /\ res'.type \in {None, answer.type}
  BY DEF IInv, TypeInv, Blank, Reading
<1>4. asked <= RedirectMax
  BY FetchAssumption DEF IInv, TypeInv, Counted
<1>5. Promise'
  BY <1>3, <1>4 DEF Promise, ResultIsAnswer, FailureIsBlank, RedirectsAreBounded,
                    ErrOther, NoDigests
<1> QED  BY <1>1, <1>2, <1>5 DEF IInv

LEMMA FetchStep == IInv /\ [Next]_vars => IInv'
<1> SUFFICES ASSUME IInv, [Next]_vars  PROVE IInv'
  OBVIOUS
<1>1. ASSUME NEW s \in Texts, StartFetch(s)  PROVE IInv'
  BY <1>1, StartFetchStep
<1>2. CASE SendGet  BY <1>2, SendGetStep
<1>3. ASSUME NEW status \in Statuses, ReadStatus(status)  PROVE IInv'
  BY <1>3, ReadStatusStep
<1>4. ASSUME NEW type \in Types \cup {None}, NEW location \in Locations \cup {None},
             Redirected(type, location) \/ ReadHeaders(type, location)
      PROVE  IInv'
  BY <1>4, RedirectedStep, ReadHeadersStep DEF Maybe
<1>5. ASSUME NEW chunk \in Chunks, ReadBody(chunk)  PROVE IInv'
  BY <1>5, ReadBodyStep
<1>6. CASE EndBody  BY <1>6, EndBodyStep
<1>7. CASE FailFetch  BY <1>7, FailFetchStep
<1>8. CASE UNCHANGED vars
  BY <1>8 DEF vars, IInv, TypeInv, Blank, Reading, Counted, Promise, ResultIsAnswer,
              FailureIsBlank, RedirectsAreBounded, Over, IsRedirect
<1> QED  BY <1>1, <1>2, <1>3, <1>4, <1>5, <1>6, <1>7, <1>8 DEF Next

(* A fetch that succeeds leaves one whole answer in the record (fetch.c:      *)
(* 79-97), whatever redirects and fetches went before.                       *)
THEOREM ResultCorrect == Spec => []ResultIsAnswer
<1>1. IInv => ResultIsAnswer  BY DEF IInv, Promise
<1> QED  BY FetchInit, FetchStep, <1>1, PTL DEF Spec

(* A fetch that fails leaves no length and no digests (fetch.c:99-107).      *)
THEOREM FailureCorrect == Spec => []FailureIsBlank
<1>1. IInv => FailureIsBlank  BY DEF IInv, Promise
<1> QED  BY FetchInit, FetchStep, <1>1, PTL DEF Spec

(* A fetch sends RedirectMax requests at most (fetch.c:126-131).             *)
THEOREM RedirectsCorrect == Spec => []RedirectsAreBounded
<1>1. IInv => RedirectsAreBounded  BY DEF IInv, Promise
<1> QED  BY FetchInit, FetchStep, <1>1, PTL DEF Spec

(* ------------------------------------------------------------------------ *)
(* The key of a URL and the request for it.                                  *)

(* What a lower-case domain is made of.                                      *)
Letters == Words \cup {"."}

Dots(r) == {k \in DOMAIN r : r[k] = "."}

(* Labels with one dot between them, or nothing.                             *)
Clean(r) ==
  /\ r \in Seq(Letters)
  /\ r # <<>> => r[1] # "." /\ r[Len(r)] # "."
  /\ \A k \in Dots(r) : k + 1 \notin Dots(r)

(* A text has finitely many dots.                                            *)
LEMMA DotsFinite ==
  ASSUME NEW r \in Seq(Letters)
  PROVE  IsFiniteSet(Dots(r)) /\ Cardinality(Dots(r)) \in Nat
<1>1. Len(r) \in Nat /\ DOMAIN r = 1..Len(r)
  BY LenProperties
<1>2. Dots(r) \subseteq 1..Len(r)
  BY <1>1 DEF Dots
<1>3. IsFiniteSet(1..Len(r))
  BY <1>1, FS_Interval
<1>4. IsFiniteSet(Dots(r))
  BY <1>2, <1>3, FS_Subset
<1> QED BY <1>4, FS_CardinalityType

Scans == [labels : Seq(Seq(Words)), rest : Seq(Letters)]

(* A scan of a clean domain has found n labels, or all of fewer.             *)
Scanned(found, n) ==
  /\ found \in Scans /\ Clean(found.rest)
  /\ Len(found.labels) <= n
  /\ found.rest # <<>> => /\ Len(found.labels) = n
                          /\ Cardinality(Dots(found.rest)) + n < LabelMax

(* The scan keeps labels and a rest.                                         *)
LEMMA NextLabelType ==
  ASSUME NEW found \in Scans
  PROVE  NextLabel(found) \in Scans
<1> DEFINE r == found.rest
           label == Take(r, Words)
           rest == Drop(r, Len(label))
<1>1. r \in Seq(Letters) /\ found.labels \in Seq(Seq(Words))
  BY DEF Scans
<1>2. label \in Seq(Words) /\ Len(label) \in 0..Len(r)
  <2> HIDE DEF r
  <2>1. label \in Seq(Words) /\ Len(label) = Span(r, Words)
    BY <1>1, TakeProperties
  <2>2. Span(r, Words) \in 0..Len(r)
    BY <1>1, SpanProperties
  <2> QED BY <2>1, <2>2
<1>3. rest \in Seq(Letters)
  BY <1>1, <1>2, DropProperties
<1> HIDE DEF label, rest
<1>4. IsPrefix(<<".">>, rest) => Drop(rest, 1) \in Seq(Letters)
  <2>1. IsPrefix(<<".">>, rest) => 1 \in 0..Len(rest)
    BY <1>3, LenProperties DEF IsPrefix
  <2> QED BY <1>3, <2>1, DropProperties
<1>5. <<label>> \o found.labels \in Seq(Seq(Words))
  BY <1>1, <1>2
<1>6. NextLabel(found) = IF label = <<>> THEN found
        ELSE [labels |-> <<label>> \o found.labels,
              rest |-> IF IsPrefix(<<".">>, rest) THEN Drop(rest, 1) ELSE <<>>]
  BY DEF NextLabel, label, rest
<1> QED BY <1>4, <1>5, <1>6 DEF Scans

(* Nothing is left to find at the end.                                       *)
LEMMA NextLabelAtEnd ==
  ASSUME NEW found \in Scans, found.rest = <<>>
  PROVE  NextLabel(found) = found
<1>1. Take(found.rest, Words) \in Seq(Words) /\ Len(Take(found.rest, Words)) \in 0..Len(found.rest)
  BY TakeProperties, SpanProperties DEF Scans
<1>2. Len(found.rest) = 0
  OBVIOUS
<1>3. Len(Take(found.rest, Words)) = 0
  BY <1>1, <1>2
<1>4. Take(found.rest, Words) = <<>>
  BY <1>1, <1>3, EmptySeq
<1> QED BY <1>4 DEF NextLabel

(* What is behind a label, without the dot.                                  *)
Behind(rest) == IF IsPrefix(<<".">>, rest) THEN Drop(rest, 1) ELSE <<>>

(* A label is taken off r and the dot behind it, left is clean again and has *)
(* a dot less.                                                               *)
TakesOne(r, label, left) ==
  /\ label \in Seq(Words) /\ label \in Seq(Letters) /\ label # <<>>
  /\ Clean(left)
  /\ left # <<>> => Cardinality(Dots(left)) < Cardinality(Dots(r))
  /\ r = label \o (IF left = <<>> THEN <<>> ELSE <<".">> \o left)

(* Where something is left, the scan takes one label.                        *)
LEMMA LabelTaken ==
  ASSUME UrlAssumption, NEW r, Clean(r), r # <<>>
  PROVE  TakesOne(r, Take(r, Words), Behind(Drop(r, Len(Take(r, Words)))))
<1> DEFINE label == Take(r, Words)
           rest == Drop(r, Len(label))
           left == Behind(rest)
           n == Len(r)
           m == Len(label)
<1>1. /\ r \in Seq(Letters) /\ r[1] # "." /\ r[n] # "."
      /\ \A k \in Dots(r) : k + 1 \notin Dots(r)
  BY DEF Clean
<1>2. /\ n \in Nat \ {0} /\ DOMAIN r = 1..n
      /\ \A k \in 1..n : r[k] \in Letters
  BY <1>1, LenProperties, EmptySeq, ElementOfSeq
<1>3. "." \notin Words
  BY DEF UrlAssumption, Punctuation
<1>4. /\ m \in 0..n
      /\ \A k \in 1..m : r[k] \in Words /\ label[k] = r[k]
      /\ m < n => r[m + 1] \notin Words
      /\ label \in Seq(Words) /\ label \in Seq(Letters)
  <2> HIDE DEF n
  <2>1. /\ label \in Seq(Words) /\ label \in Seq(Letters)
        /\ m = Span(r, Words)
        /\ \A k \in 1..Span(r, Words) : label[k] = r[k]
    BY <1>1, TakeProperties
  <2>2. /\ Span(r, Words) \in 0..Len(r)
        /\ \A k \in 1..Span(r, Words) : r[k] \in Words
        /\ Span(r, Words) < Len(r) => r[Span(r, Words) + 1] \notin Words
    BY <1>1, SpanProperties
  <2> HIDE DEF label, m
  <2> QED BY <2>1, <2>2 DEF n
<1>5. m # 0
  <2>1. r[1] \in Words
    BY <1>1, <1>2 DEF Letters
  <2> QED BY <1>2, <1>4, <2>1
<1>6. label # <<>>
  BY <1>4, <1>5, EmptySeq
<1>7. /\ rest \in Seq(Letters) /\ Len(rest) = n - m
      /\ \A k \in 1..n - m : rest[k] = r[m + k]
  BY <1>1, <1>4, DropProperties
<1> HIDE DEF label, n, m
<1>8. CASE m = n
  <2>1. Len(rest) = 0
    BY <1>2, <1>7, <1>8
  <2>2. left = <<>>
    <3>1. ~IsPrefix(<<".">>, rest)
      <4> HIDE DEF rest
      <4> QED BY <2>1 DEF IsPrefix
    <3> HIDE DEF rest
    <3> QED BY <3>1 DEF Behind
  <2>3. r = label
    BY <1>1, <1>2, <1>4, <1>8, SeqEqual DEF m, n
  <2> HIDE DEF left
  <2>4. Clean(left)
    <3>1. <<>> \in Seq(Letters) /\ Dots(<<>>) = {}
      BY EmptySeq DEF Dots
    <3> QED BY <2>2, <3>1 DEF Clean
  <2>5. label \o <<>> = label
    BY <1>4, ConcatEmptySeq
  <2>6. r = label \o (IF left = <<>> THEN <<>> ELSE <<".">> \o left)
    BY <2>2, <2>3, <2>5
  <2>7. TakesOne(r, label, left)
    BY <1>4, <1>6, <2>2, <2>4, <2>6 DEF TakesOne
  <2> QED BY <2>7 DEF left, rest, label
<1>9. CASE m < n
  <2>1. m + 1 \in 1..n /\ r[m + 1] = "."
    <3>1. m + 1 \in 1..n
      BY <1>2, <1>4, <1>9
    <3> QED BY <1>2, <1>4, <1>9, <3>1 DEF Letters
  <2>2. m + 1 < n
    BY <1>1, <1>2, <2>1
  <2>3. 1 \in 1..n - m /\ rest[1] = "."
    BY <1>2, <1>4, <1>7, <1>9, <2>1
  <2>4. left = Drop(rest, 1)
    <3>1. Len(rest) >= 1
      BY <1>2, <1>4, <1>7, <1>9
    <3> HIDE DEF rest
    <3>2. IsPrefix(<<".">>, rest)
      <4>1. <<".">> \in Seq(Letters)
        BY DEF Letters
      <4>2. Len(<<".">>) <= Len(rest) /\ \A i \in 1..Len(<<".">>) : <<".">>[i] = rest[i]
        BY <2>3, <3>1
      <4> QED BY <1>7, <4>1, <4>2, ElementsPrefix
    <3> QED BY <3>2 DEF Behind
  <2> DEFINE p == n - m - 1
  <2>5. /\ left \in Seq(Letters) /\ Len(left) = p
        /\ \A k \in 1..p : left[k] = r[m + 1 + k]
    <3> HIDE DEF rest, left
    <3>1. 1 \in 0..Len(rest)
      BY <1>2, <1>4, <1>7, <1>9
    <3>2. /\ left \in Seq(Letters) /\ Len(left) = Len(rest) - 1
          /\ \A k \in 1..Len(rest) - 1 : left[k] = rest[1 + k]
      <4>1. rest \in Seq(Letters)
        BY <1>7
      <4>2. /\ Drop(rest, 1) \in Seq(Letters) /\ Len(Drop(rest, 1)) = Len(rest) - 1
            /\ \A k \in 1..Len(rest) - 1 : Drop(rest, 1)[k] = rest[1 + k]
        BY <3>1, <4>1, DropProperties
      <4> QED BY <2>4, <4>2
    <3>3. Len(rest) - 1 = p
      BY <1>2, <1>4, <1>7
    <3>4. ASSUME NEW k \in 1..p PROVE left[k] = r[m + 1 + k]
      <4>1. 1 + k \in 1..n - m /\ m + (1 + k) = m + 1 + k
        BY <1>2, <1>4
      <4> QED BY <1>7, <3>2, <3>3, <4>1
    <3> QED BY <3>2, <3>3, <3>4
  <2>6. p \in Nat \ {0} /\ p = n - m - 1 /\ m \in Nat /\ n \in Nat
    BY <1>2, <1>4, <2>2
  <2> HIDE DEF left, rest, p
  <2>7. left # <<>> /\ DOMAIN left = 1..p
    BY <2>5, <2>6, LenProperties
  <2>8. ASSUME NEW k \in Dots(left) PROVE k + (m + 1) \in Dots(r) /\ k \in 1..p
    <3>1. k \in 1..p /\ left[k] = "."
      BY <2>7 DEF Dots
    <3>2. k + (m + 1) = m + 1 + k /\ k + (m + 1) \in 1..n
      BY <2>6, <3>1
    <3> QED BY <1>2, <2>5, <3>1, <3>2 DEF Dots
  <2>9. m + 1 \in Dots(r)
    BY <1>2, <2>1 DEF Dots
  <2>10. Clean(left)
    <3>1. left[1] # "."
      <4>1. m + 1 + 1 \notin Dots(r)
        BY <1>1, <2>9
      <4>2. m + 1 + 1 \in 1..n /\ 1 \in 1..p
        BY <2>2, <2>6
      <4>3. r[m + 1 + 1] # "."
        BY <1>2, <4>1, <4>2 DEF Dots
      <4> QED BY <2>5, <4>2, <4>3
    <3>2. left[Len(left)] # "."
      <4>1. p \in 1..p /\ m + 1 + p = n
        BY <2>6
      <4> QED BY <1>1, <2>5, <4>1
    <3>3. ASSUME NEW k \in Dots(left), k + 1 \in Dots(left) PROVE FALSE
      <4>1. k + (m + 1) \in Dots(r) /\ (k + 1) + (m + 1) \in Dots(r) /\ k \in 1..p
        BY <2>8, <3>3
      <4>2. (k + 1) + (m + 1) = (k + (m + 1)) + 1
        BY <2>6, <4>1
      <4> QED BY <1>1, <4>1, <4>2
    <3> QED BY <2>5, <3>1, <3>2, <3>3 DEF Clean
  <2>11. /\ IsFiniteSet(Dots(r)) /\ Cardinality(Dots(r)) \in Nat
         /\ IsFiniteSet(Dots(left)) /\ Cardinality(Dots(left)) \in Nat
    BY <1>1, <2>5, DotsFinite
  <2>12. Cardinality(Dots(left)) < Cardinality(Dots(r))
    <3> DEFINE others == Dots(r) \ {m + 1}
               f == [k \in Dots(left) |-> k + (m + 1)]
    <3>1. IsFiniteSet(others) /\ Cardinality(others) = Cardinality(Dots(r)) - 1
      BY <2>9, <2>11, FS_RemoveElement
    <3>2. f \in Injection(Dots(left), others)
      <4>1. ASSUME NEW k \in Dots(left) PROVE f[k] \in others
        <5>1. k + (m + 1) # m + 1
          BY <2>6, <2>8
        <5> QED BY <2>8, <5>1
      <4>2. ASSUME NEW k \in Dots(left), NEW j \in Dots(left), f[k] = f[j] PROVE k = j
        <5>1. k \in 1..p /\ j \in 1..p /\ k + (m + 1) = j + (m + 1)
          BY <2>8, <4>2
        <5> QED BY <2>6, <5>1
      <4>3. f \in [Dots(left) -> others]
        BY <4>1
      <4> HIDE DEF f, others
      <4> QED BY <4>2, <4>3 DEF Injection, IsInjective
    <3>3. Cardinality(Dots(left)) <= Cardinality(others)
      <4> HIDE DEF f, others
      <4> QED BY <3>1, <3>2, FS_Injection
    <3> QED BY <2>11, <3>1, <3>3
  <2>13. r = label \o (<<".">> \o left)
    <3> DEFINE tail == <<".">> \o left
               whole == label \o tail
    <3>1. <<".">> \in Seq(Letters)
      BY DEF Letters
    <3>2. /\ tail \in Seq(Letters) /\ Len(tail) = 1 + p
          /\ \A i \in 1..1 + p : tail[i] = IF i <= 1 THEN "." ELSE left[i - 1]
      BY <2>5, <3>1, ConcatProperties
    <3> HIDE DEF tail
    <3>3. /\ whole \in Seq(Letters) /\ Len(whole) = m + (1 + p)
          /\ \A i \in 1..m + (1 + p) : whole[i] = IF i <= m THEN label[i] ELSE tail[i - m]
      BY <1>4, <3>2, ConcatProperties DEF m
    <3>4. Len(whole) = n
      BY <2>6, <3>3
    <3>5. ASSUME NEW i \in 1..n PROVE whole[i] = r[i]
      <4>1. i \in 1..m + (1 + p)
        BY <2>6
      <4>2. CASE i <= m
        BY <1>4, <3>3, <4>1, <4>2
      <4>3. CASE i = m + 1
        <5>1. i - m = 1 /\ 1 \in 1..1 + p /\ ~(i <= m)
          BY <2>6, <4>3
        <5>2. whole[i] = tail[1]
          BY <3>3, <4>1, <5>1
        <5>3. tail[1] = "."
          BY <3>2, <5>1
        <5> QED BY <2>1, <4>3, <5>2, <5>3
      <4>4. CASE i > m + 1
        <5>1. /\ i - m \in 1..1 + p /\ ~(i - m <= 1) /\ ~(i <= m)
              /\ (i - m) - 1 \in 1..p /\ m + 1 + ((i - m) - 1) = i
          BY <2>6, <4>4
        <5>2. whole[i] = tail[i - m]
          BY <3>3, <4>1, <5>1
        <5>3. tail[i - m] = left[(i - m) - 1]
          BY <3>2, <5>1
        <5>4. left[(i - m) - 1] = r[i]
          BY <2>5, <5>1
        <5> QED BY <5>2, <5>3, <5>4
      <4>5. i \in Nat /\ m \in Nat
        BY <2>6
      <4>6. i <= m \/ i = m + 1 \/ i > m + 1
        BY <4>5
      <4> QED BY <4>2, <4>3, <4>4, <4>6, Zenon
    <3> HIDE DEF whole
    <3>6. whole = r
      BY <1>1, <3>3, <3>4, <3>5, SeqEqual DEF n
    <3> QED BY <3>6 DEF whole, tail
  <2>14. TakesOne(r, label, left)
    BY <1>4, <1>6, <2>7, <2>10, <2>12, <2>13 DEF TakesOne
  <2> QED BY <2>14 DEF left, rest, label
<1>10. m = n \/ m < n
  BY <1>2, <1>4
<1> QED BY <1>8, <1>9, <1>10

(* What the scan has found after one label more.                             *)
LEMMA NextLabelTakes ==
  ASSUME UrlAssumption, NEW found \in Scans, Clean(found.rest), found.rest # <<>>
  PROVE  \E label, left :
           /\ TakesOne(found.rest, label, left)
           /\ NextLabel(found) = [labels |-> <<label>> \o found.labels, rest |-> left]
<1> DEFINE label == Take(found.rest, Words)
           left == Behind(Drop(found.rest, Len(label)))
<1>1. TakesOne(found.rest, label, left)
  BY LabelTaken
<1>2. label # <<>>
  BY <1>1 DEF TakesOne
<1>3. NextLabel(found) = [labels |-> <<label>> \o found.labels, rest |-> left]
  BY <1>2 DEF NextLabel, Behind
<1> HIDE DEF label, left
<1> QED BY <1>1, <1>3

(* The scan of a clean domain goes on as it should,                          *)
LEMMA ScannedNext ==
  ASSUME UrlAssumption, NEW n \in Nat, NEW found, Scanned(found, n)
  PROVE  Scanned(NextLabel(found), n + 1)
<1>1. found \in Scans /\ Clean(found.rest) /\ Len(found.labels) <= n
  BY DEF Scanned
<1>2. found.labels \in Seq(Seq(Words)) /\ Len(found.labels) \in Nat
  BY <1>1, LenProperties DEF Scans
<1>3. CASE found.rest = <<>>
  <2>1. NextLabel(found) = found
    BY <1>1, <1>3, NextLabelAtEnd
  <2> QED BY <1>1, <1>2, <1>3, <2>1 DEF Scanned
<1>4. CASE found.rest # <<>>
  <2>1. PICK label, left :
          /\ TakesOne(found.rest, label, left)
          /\ NextLabel(found) = [labels |-> <<label>> \o found.labels, rest |-> left]
    BY <1>1, <1>4, NextLabelTakes
  <2>2. /\ label \in Seq(Words) /\ Clean(left) /\ left \in Seq(Letters)
        /\ left # <<>> => Cardinality(Dots(left)) < Cardinality(Dots(found.rest))
    BY <2>1 DEF TakesOne, Clean
  <2>3. Len(found.labels) = n /\ Cardinality(Dots(found.rest)) + n < LabelMax
    BY <1>4 DEF Scanned
  <2>4. Cardinality(Dots(left)) \in Nat /\ Cardinality(Dots(found.rest)) \in Nat
    BY <1>1, <2>2, DotsFinite DEF Clean
  <2>5. left # <<>> => Cardinality(Dots(left)) + (n + 1) < LabelMax
    BY <2>2, <2>3, <2>4 DEF LabelMax
  <2> DEFINE labels == <<label>> \o found.labels
  <2>6. labels \in Seq(Seq(Words)) /\ Len(labels) = n + 1
    <3>1. <<label>> \in Seq(Seq(Words)) /\ Len(<<label>>) = 1
      BY <2>2
    <3> QED BY <1>2, <2>3, <3>1, ConcatProperties
  <2> HIDE DEF labels
  <2>7. NextLabel(found) = [labels |-> labels, rest |-> left]
    BY <2>1 DEF labels
  <2>8. NextLabel(found) \in Scans
    BY <2>2, <2>6, <2>7 DEF Scans
  <2>9. NextLabel(found).labels = labels /\ NextLabel(found).rest = left
    BY <2>7
  <2>10. Len(NextLabel(found).labels) = n + 1
    BY <2>6, <2>9
  <2> QED BY <2>2, <2>5, <2>8, <2>9, <2>10 DEF Scanned
<1> QED BY <1>3, <1>4

(* and it can be undone.                                                     *)
LEMMA NextLabelUndone ==
  ASSUME UrlAssumption, NEW n \in Nat, NEW a, NEW b, Scanned(a, n), Scanned(b, n),
         NextLabel(a) = NextLabel(b)
  PROVE  a = b
<1>1. /\ a \in Scans /\ Clean(a.rest) /\ Len(a.labels) <= n
      /\ b \in Scans /\ Clean(b.rest) /\ Len(b.labels) <= n
  BY DEF Scanned
<1>2. /\ a.labels \in Seq(Seq(Words)) /\ Len(a.labels) \in Nat
      /\ b.labels \in Seq(Seq(Words)) /\ Len(b.labels) \in Nat
  BY <1>1, LenProperties DEF Scans
<1>3. ASSUME NEW found, found \in Scans, Scanned(found, n), found.rest # <<>>
      PROVE  \E label, left :
               /\ TakesOne(found.rest, label, left) /\ label \in Seq(Words)
               /\ NextLabel(found) = [labels |-> <<label>> \o found.labels, rest |-> left]
               /\ Len(NextLabel(found).labels) = n + 1
  <2>1. Clean(found.rest) /\ Len(found.labels) = n
    BY <1>3 DEF Scanned
  <2>2. PICK label, left :
          /\ TakesOne(found.rest, label, left)
          /\ NextLabel(found) = [labels |-> <<label>> \o found.labels, rest |-> left]
    BY <1>3, <2>1, NextLabelTakes
  <2>3. label \in Seq(Words) /\ found.labels \in Seq(Seq(Words))
    BY <1>3, <2>2 DEF TakesOne, Scans
  <2>4. Len(<<label>> \o found.labels) = n + 1
    <3>1. <<label>> \in Seq(Seq(Words)) /\ Len(<<label>>) = 1
      BY <2>3
    <3> QED BY <2>1, <2>3, <3>1, ConcatProperties
  <2>5. Len(NextLabel(found).labels) = n + 1
    BY <2>2, <2>4
  <2> QED BY <2>2, <2>3, <2>5
<1>4. CASE a.rest = <<>> /\ b.rest = <<>>
  BY <1>1, <1>4, NextLabelAtEnd
<1>5. CASE a.rest = <<>> /\ b.rest # <<>>
  <2>1. NextLabel(a) = a
    BY <1>1, <1>5, NextLabelAtEnd
  <2>2. Len(a.labels) = n + 1
    BY <1>1, <1>3, <1>5, <2>1
  <2> QED BY <1>1, <1>2, <2>2
<1>6. CASE a.rest # <<>> /\ b.rest = <<>>
  <2>1. NextLabel(b) = b
    BY <1>1, <1>6, NextLabelAtEnd
  <2>2. Len(b.labels) = n + 1
    BY <1>1, <1>3, <1>6, <2>1
  <2> QED BY <1>1, <1>2, <2>2
<1>7. CASE a.rest # <<>> /\ b.rest # <<>>
  <2>1. PICK la, fa :
          /\ TakesOne(a.rest, la, fa) /\ la \in Seq(Words)
          /\ NextLabel(a) = [labels |-> <<la>> \o a.labels, rest |-> fa]
    BY <1>1, <1>3, <1>7
  <2>2. PICK lb, fb :
          /\ TakesOne(b.rest, lb, fb) /\ lb \in Seq(Words)
          /\ NextLabel(b) = [labels |-> <<lb>> \o b.labels, rest |-> fb]
    BY <1>1, <1>3, <1>7
  <2>3. fa = fb /\ <<la>> \o a.labels = <<lb>> \o b.labels
    <3>1. NextLabel(a).rest = fa /\ NextLabel(a).labels = <<la>> \o a.labels
      BY <2>1
    <3>2. NextLabel(b).rest = fb /\ NextLabel(b).labels = <<lb>> \o b.labels
      BY <2>2
    <3> QED BY <3>1, <3>2, Zenon
  <2>4. la = lb /\ a.labels = b.labels
    <3> DEFINE S == Seq(Words)
    <3>1. la \in S /\ lb \in S /\ a.labels \in Seq(S) /\ b.labels \in Seq(S)
      BY <1>2, <2>1, <2>2
    <3> HIDE DEF S
    <3> QED BY <2>3, <3>1, EqualHeads
  <2>5. a.rest = b.rest
    BY <2>1, <2>2, <2>3, <2>4 DEF TakesOne
  <2> QED BY <1>1, <2>4, <2>5 DEF Scans
<1> QED BY <1>4, <1>5, <1>6, <1>7

(* The scan starts with the whole domain and goes on label by label.         *)
LEMMA ScanEquation ==
  ASSUME NEW d \in Seq(Letters)
  PROVE  /\ LabelScan(d)[0] = [labels |-> <<>>, rest |-> d]
         /\ \A n \in 1..LabelMax : LabelScan(d)[n] = NextLabel(LabelScan(d)[n - 1])
<1> DEFINE v == [labels |-> <<>>, rest |-> d]
           step == [x \in (1..LabelMax) \X Scans |-> NextLabel(x[2])]
<1>1. v \in Scans
  BY DEF Scans
<1>2. step \in [(1..LabelMax) \X Scans -> Scans]
  BY NextLabelType
<1>3. PICK f \in [0..LabelMax -> Scans] : Iterates(f, v, step, LabelMax)
  <2>1. LabelMax \in Nat
    BY DEF LabelMax
  <2> HIDE DEF v, step
  <2> QED BY <1>1, <1>2, <2>1, IterationExists
<1>4. ASSUME NEW n \in 0..LabelMax
      PROVE  f[n] = IF n = 0 THEN v ELSE NextLabel(f[n - 1])
  <2>1. f[n] = IF n = 0 THEN v ELSE step[<<n, f[n - 1]>>]
    <3> HIDE DEF v, step
    <3> QED BY <1>3 DEF Iterates
  <2>2. n # 0 => n \in 1..LabelMax /\ n - 1 \in 0..LabelMax
    BY DEF LabelMax
  <2>3. n # 0 => step[<<n, f[n - 1]>>] = NextLabel(f[n - 1])
    BY <2>2, <1>3
  <2> HIDE DEF v, step
  <2> QED BY <2>1, <2>3
<1> HIDE DEF v, step
<1>5. f = [n \in 0..LabelMax |-> IF n = 0 THEN v ELSE NextLabel(f[n - 1])]
  BY <1>3, <1>4
<1> DEFINE Solves(g) == g = [n \in 0..LabelMax |-> IF n = 0 THEN v ELSE NextLabel(g[n - 1])]
<1>6. LabelScan(d) = CHOOSE g : Solves(g)
  BY DEF LabelScan, v
<1>7. Solves(LabelScan(d))
  <2>1. \E g : Solves(g)
    BY <1>5
  <2> HIDE DEF Solves
  <2> QED BY <1>6, <2>1, Zenon
<1>8. \A n \in 0..LabelMax :
        LabelScan(d)[n] = IF n = 0 THEN v ELSE NextLabel(LabelScan(d)[n - 1])
  BY <1>7
<1>9. LabelScan(d)[0] = v
  BY <1>8 DEF LabelMax
<1>10. ASSUME NEW n \in 1..LabelMax PROVE LabelScan(d)[n] = NextLabel(LabelScan(d)[n - 1])
  <2>1. n \in 0..LabelMax /\ n # 0
    BY DEF LabelMax
  <2> QED BY <1>8, <2>1
<1> QED BY <1>9, <1>10 DEF v

(* A domain that is all found.                                               *)
Domain(d) == Clean(d) /\ d # <<>> /\ Cardinality(Dots(d)) < LabelMax

(* The scan of a domain is as it should be after every label,                *)
LEMMA DomainScanned ==
  ASSUME UrlAssumption, NEW d, Domain(d), NEW n \in 0..LabelMax
  PROVE  Scanned(LabelScan(d)[n], n)
<1> DEFINE S == {k \in 0..LabelMax : Scanned(LabelScan(d)[k], k)}
<1>1. Clean(d) /\ d \in Seq(Letters) /\ Cardinality(Dots(d)) < LabelMax
  BY DEF Domain, Clean
<1>2. LabelScan(d)[0] = [labels |-> <<>>, rest |-> d]
  BY <1>1, ScanEquation
<1>3. Scanned(LabelScan(d)[0], 0)
  <2>1. Cardinality(Dots(d)) + 0 < LabelMax
    BY <1>1, DotsFinite DEF LabelMax
  <2>2. [labels |-> <<>>, rest |-> d] \in Scans
    BY <1>1 DEF Scans
  <2> QED BY <1>1, <1>2, <2>1, <2>2 DEF Scanned
<1>4. ASSUME NEW k \in 0..LabelMax, k < LabelMax, k \in S PROVE k + 1 \in S
  <2>1. k \in Nat /\ k + 1 \in 1..LabelMax /\ k + 1 \in 0..LabelMax /\ (k + 1) - 1 = k
    BY <1>4 DEF LabelMax
  <2>2. LabelScan(d)[k + 1] = NextLabel(LabelScan(d)[(k + 1) - 1])
    BY <1>1, <2>1, ScanEquation
  <2>3. Scanned(LabelScan(d)[k], k)
    BY <1>4
  <2>4. Scanned(NextLabel(LabelScan(d)[k]), k + 1)
    BY <2>1, <2>3, ScannedNext
  <2>5. Scanned(LabelScan(d)[k + 1], k + 1)
    BY <2>1, <2>2, <2>4
  <2> QED BY <2>1, <2>5
<1>5. 0..LabelMax \subseteq S
  <2>1. LabelMax \in Nat /\ 0 \in S
    BY <1>3 DEF LabelMax
  <2> HIDE DEF S
  <2> QED BY <1>4, <2>1, BoundedInduction
<1> QED BY <1>5

(* and two domains with the same labels are the same.                        *)
LEMMA DomainReverseInjective ==
  ASSUME UrlAssumption, NEW d, Domain(d), NEW e, Domain(e),
         domain_reverse(d) = domain_reverse(e)
  PROVE  d = e
<1> DEFINE f == LabelScan(d)
           g == LabelScan(e)
           S == {k \in 0..LabelMax : f[LabelMax - k] = g[LabelMax - k]}
<1>1. d \in Seq(Letters) /\ e \in Seq(Letters)
  BY DEF Domain, Clean
<1>2. /\ f[0] = [labels |-> <<>>, rest |-> d] /\ g[0] = [labels |-> <<>>, rest |-> e]
      /\ \A n \in 1..LabelMax : f[n] = NextLabel(f[n - 1])
      /\ \A n \in 1..LabelMax : g[n] = NextLabel(g[n - 1])
  BY <1>1, ScanEquation
<1>3. \A n \in 0..LabelMax : Scanned(f[n], n) /\ Scanned(g[n], n)
  BY DomainScanned
<1>4. f[LabelMax].labels = g[LabelMax].labels
  BY DEF domain_reverse
<1> HIDE DEF f, g
<1>5. f[LabelMax] = g[LabelMax]
  <2>1. ASSUME NEW found, Scanned(found, LabelMax)
        PROVE  found \in Scans /\ found.rest = <<>>
    <3>1. found \in Scans /\ found.rest \in Seq(Letters)
      BY <2>1 DEF Scanned, Scans
    <3>2. Cardinality(Dots(found.rest)) \in Nat
      BY <3>1, DotsFinite
    <3> QED BY <2>1, <3>1, <3>2 DEF Scanned, LabelMax
  <2>2. LabelMax \in 0..LabelMax
    BY DEF LabelMax
  <2>3. /\ f[LabelMax] \in Scans /\ f[LabelMax].rest = <<>>
        /\ g[LabelMax] \in Scans /\ g[LabelMax].rest = <<>>
    BY <1>3, <2>1, <2>2
  <2>4. ASSUME NEW a \in Scans, NEW b \in Scans, a.labels = b.labels, a.rest = b.rest
        PROVE  a = b
    BY <2>4 DEF Scans
  <2> QED BY <1>4, <2>3, <2>4
<1>6. ASSUME NEW k \in 0..LabelMax, k < LabelMax, k \in S PROVE k + 1 \in S
  <2> DEFINE n == LabelMax - k
  <2>1. /\ n \in 1..LabelMax /\ n - 1 \in 0..LabelMax /\ n - 1 \in Nat
        /\ n - 1 = LabelMax - (k + 1) /\ k + 1 \in 0..LabelMax
    BY <1>6 DEF LabelMax
  <2>2. f[n] = g[n]
    BY <1>6
  <2> HIDE DEF n
  <2>3. NextLabel(f[n - 1]) = NextLabel(g[n - 1])
    BY <1>2, <2>1, <2>2
  <2>4. Scanned(f[n - 1], n - 1) /\ Scanned(g[n - 1], n - 1)
    BY <1>3, <2>1
  <2>5. f[n - 1] = g[n - 1]
    BY <2>1, <2>3, <2>4, NextLabelUndone
  <2> QED BY <2>1, <2>5
<1>7. 0..LabelMax \subseteq S
  <2>1. LabelMax \in Nat /\ 0 \in S
    BY <1>5 DEF LabelMax
  <2> HIDE DEF S
  <2> QED BY <1>6, <2>1, BoundedInduction
<1>8. f[0] = g[0]
  BY <1>7 DEF LabelMax
<1> QED BY <1>2, <1>8

(* ------------------------------------------------------------------------ *)
(* The parts of a URL.                                                       *)

(* What a path and a lower-case host are made of.                            *)
PathTokens == Tokens \ {"?", "#"}

SmallTokens == Tokens \ DOMAIN LowerOf

(* Lower leaves no word with capitals.                                       *)
LEMMA LowerType ==
  ASSUME UrlAssumption, NEW s \in Seq(Tokens)
  PROVE  Lower(s) \in Seq(SmallTokens)
<1>1. Len(s) \in Nat /\ DOMAIN s = 1..Len(s) /\ \A k \in 1..Len(s) : s[k] \in Tokens
  BY LenProperties, ElementOfSeq
<1>2. ASSUME NEW x \in Tokens
      PROVE  (IF x \in DOMAIN LowerOf THEN LowerOf[x] ELSE x) \in SmallTokens
  <2>1. CASE x \in DOMAIN LowerOf
    <3>1. LowerOf[x] \in Words
      BY <2>1 DEF UrlAssumption
    <3> QED BY <2>1, <3>1 DEF UrlAssumption, SmallTokens, Tokens
  <2>2. CASE x \notin DOMAIN LowerOf
    BY <2>2 DEF SmallTokens
  <2> QED BY <2>1, <2>2
<1>3. \A k \in 1..Len(s) : Lower(s)[k] \in SmallTokens
  BY <1>1, <1>2 DEF Lower
<1>4. Lower(s) = [k \in 1..Len(s) |-> Lower(s)[k]]
  BY <1>1 DEF Lower
<1> QED BY <1>1, <1>3, <1>4

(* Nothing, or a query with its "?".                                         *)
IsQuery(a) == a \in Seq(Tokens) /\ (a # <<>> => a[1] = "?")

(* The path ends where the query begins.                                     *)
LEMMA UrlParts ==
  ASSUME UrlAssumption, NEW s \in Seq(Tokens)
  PROVE  /\ url_parse(s).host \in Seq(SmallTokens)
         /\ url_parse(s).path \in Seq(PathTokens)
         /\ IsQuery(url_parse(s).query)
<1> DEFINE scheme == IF IsPrefix(<<"/">>, s) THEN <<>> ELSE Take(s, Tokens \ {":"})
           lead == IF scheme = <<>> THEN <<"/", "/">> ELSE scheme \o <<":", "/", "/">>
           after == IF IsPrefix(lead, s) THEN Drop(s, Len(lead)) ELSE <<>>
           host == Take(after, Tokens \ {"/"})
           rest == IF HostRelative(s) THEN s ELSE Drop(after, Len(host))
           path == Take(rest, PathTokens)
           query == Take(Drop(rest, Len(path)), Tokens \ {"#"})
<1>1. url_parse(s) = [scheme |-> Lower(scheme), host |-> Lower(host), path |-> path,
                      query |-> query]
  BY DEF url_parse, PathTokens
<1>2. scheme \in Seq(Tokens)
  <2>1. Take(s, Tokens \ {":"}) \in Seq(Tokens)
    BY TakeProperties
  <2> QED BY <2>1
<1> HIDE DEF scheme
<1>3. lead \in Seq(Tokens)
  <2>1. <<"/", "/">> \in Seq(Tokens) /\ <<":", "/", "/">> \in Seq(Tokens)
    BY DEF Tokens, Punctuation
  <2> QED BY <1>2, <2>1, ConcatProperties
<1> HIDE DEF lead
<1>4. after \in Seq(Tokens)
  <2>1. IsPrefix(lead, s) => Drop(s, Len(lead)) \in Seq(Tokens)
    <3>1. IsPrefix(lead, s) => Len(lead) \in 0..Len(s)
      BY <1>3, PrefixElements, LenProperties
    <3> QED BY <3>1, DropProperties
  <2> QED BY <2>1
<1> HIDE DEF after
<1>5. host \in Seq(Tokens) /\ Len(host) \in 0..Len(after)
  BY <1>4, TakeProperties, SpanProperties
<1> HIDE DEF host
<1>6. rest \in Seq(Tokens)
  BY <1>4, <1>5, DropProperties
<1> HIDE DEF rest
<1>7. /\ path \in Seq(PathTokens) /\ Len(path) \in 0..Len(rest)
      /\ Len(path) < Len(rest) => rest[Len(path) + 1] \notin PathTokens
  <2>1. path \in Seq(PathTokens) /\ Len(path) = Span(rest, PathTokens)
    BY <1>6, TakeProperties
  <2> HIDE DEF path
  <2> QED BY <1>6, <2>1, SpanProperties
<1> HIDE DEF path
<1> DEFINE left == Drop(rest, Len(path))
<1>8. /\ left \in Seq(Tokens) /\ Len(left) = Len(rest) - Len(path)
      /\ \A k \in 1..Len(rest) - Len(path) : left[k] = rest[Len(path) + k]
  BY <1>6, <1>7, DropProperties
<1>9. query = Take(left, Tokens \ {"#"})
  OBVIOUS
<1> HIDE DEF left, query
<1>10. /\ query \in Seq(Tokens) /\ query \in Seq(Tokens \ {"#"})
       /\ Len(query) = Span(left, Tokens \ {"#"}) /\ Len(query) \in 0..Len(left)
       /\ \A k \in 1..Len(query) : query[k] = left[k]
  <2>1. /\ query \in Seq(Tokens) /\ query \in Seq(Tokens \ {"#"})
        /\ Len(query) = Span(left, Tokens \ {"#"})
        /\ \A k \in 1..Span(left, Tokens \ {"#"}) : query[k] = left[k]
    BY <1>8, <1>9, TakeProperties
  <2>2. Span(left, Tokens \ {"#"}) \in 0..Len(left)
    BY <1>8, SpanProperties
  <2> QED BY <2>1, <2>2
<1>11. ASSUME query # <<>> PROVE query[1] = "?"
  <2>1. Len(rest) \in Nat /\ Len(path) \in Nat /\ Len(query) \in Nat
    BY <1>6, <1>7, <1>10, LenProperties
  <2>2. Len(query) # 0
    BY <1>10, <1>11, EmptySeq
  <2>3. 1 \in 1..Len(query) /\ 1 \in 1..Len(left) /\ 1 \in 1..Len(rest) - Len(path)
    BY <1>8, <1>10, <2>1, <2>2
  <2>4. Len(path) < Len(rest)
    BY <2>1, <2>3
  <2>5. query[1] = rest[Len(path) + 1]
    BY <1>8, <1>10, <2>3
  <2>6. query[1] \in Tokens \ {"#"}
    BY <1>10, <2>3, ElementOfSeq
  <2> QED BY <1>7, <2>4, <2>5, <2>6 DEF PathTokens
<1>12. Lower(host) \in Seq(SmallTokens)
  BY <1>5, LowerType
<1>13. IsQuery(query)
  BY <1>10, <1>11 DEF IsQuery
<1> QED BY <1>1, <1>7, <1>12, <1>13

(* A path and the query behind it.                                          *)
Joined(p, a) == p \o a

(* What ends where a query begins can be told from the query.                *)
LEMMA PathAndQuery ==
  ASSUME NEW p \in Seq(PathTokens), NEW q \in Seq(PathTokens),
         NEW a, IsQuery(a), NEW b, IsQuery(b),
         Joined(p, a) = Joined(q, b)
  PROVE  p = q /\ a = b
<1>1. ASSUME NEW s \in Seq(PathTokens), NEW t \in Seq(Tokens), IsQuery(t)
      PROVE  s \in Seq(Tokens) /\ Span(s \o t, PathTokens) = Len(s)
  <2>1. Len(s) \in Nat /\ Len(t) \in Nat /\ \A k \in 1..Len(s) : s[k] \in PathTokens
    BY LenProperties, ElementOfSeq
  <2>2. s \in Seq(Tokens)
    BY DEF PathTokens
  <2> DEFINE whole == s \o t
  <2>3. /\ whole \in Seq(Tokens) /\ Len(whole) = Len(s) + Len(t)
        /\ \A k \in 1..Len(s) + Len(t) : whole[k] = IF k <= Len(s) THEN s[k] ELSE t[k - Len(s)]
    BY <2>2, ConcatProperties
  <2> HIDE DEF whole
  <2>4. ASSUME NEW k \in 1..Len(s) PROVE whole[k] \in PathTokens
    <3>1. k \in 1..Len(s) + Len(t) /\ k <= Len(s)
      BY <2>1
    <3> QED BY <2>1, <2>3, <3>1
  <2>5. ASSUME Len(s) < Len(whole) PROVE whole[Len(s) + 1] \notin PathTokens
    <3>1. /\ Len(s) + 1 \in 1..Len(s) + Len(t) /\ ~(Len(s) + 1 <= Len(s))
          /\ (Len(s) + 1) - Len(s) = 1 /\ Len(t) # 0
      BY <2>1, <2>3, <2>5
    <3>2. whole[Len(s) + 1] = t[1] /\ t # <<>>
      BY <2>3, <3>1
    <3> QED BY <1>1, <3>2 DEF PathTokens, IsQuery
  <2>6. Len(s) \in 0..Len(whole)
    BY <2>1, <2>3
  <2>7. Span(whole, PathTokens) = Len(s)
    BY <2>3, <2>4, <2>5, <2>6, SpanIs
  <2> QED BY <2>2, <2>7 DEF whole
<1>2. a \in Seq(Tokens) /\ b \in Seq(Tokens)
  BY DEF IsQuery
<1>3. /\ p \in Seq(Tokens) /\ Span(p \o a, PathTokens) = Len(p)
      /\ q \in Seq(Tokens) /\ Span(q \o b, PathTokens) = Len(q)
  BY <1>1, <1>2
<1>4. p \o a = q \o b
  BY DEF Joined
<1>5. Len(p) = Len(q)
  BY <1>3, <1>4, Zenon
<1> QED BY <1>2, <1>3, <1>4, <1>5, EqualConcats

(* A proper host is a domain that the scan finds all of.                     *)
LEMMA ProperDomain ==
  ASSUME UrlAssumption, NEW h \in Seq(SmallTokens), Proper(h)
  PROVE  Domain(host_parse(h).domain)
<1> DEFINE d == Take(h, Words \cup DOMAIN LowerOf \cup {"."})
<1>1. host_parse(h).domain = d
  BY DEF host_parse
<1>2. d \in Seq(SmallTokens) /\ d \in Seq(Words \cup DOMAIN LowerOf \cup {"."})
  BY TakeProperties
<1> HIDE DEF d
<1>3. d \in Seq(Letters)
  <2>1. Len(d) \in Nat /\ DOMAIN d = 1..Len(d)
    BY <1>2, LenProperties
  <2>2. ASSUME NEW k \in 1..Len(d) PROVE d[k] \in Letters
    <3>1. d[k] \in SmallTokens
      BY <1>2, ElementOfSeq
    <3>2. d[k] \in Words \cup DOMAIN LowerOf \cup {"."}
      BY <1>2, ElementOfSeq
    <3> QED BY <3>1, <3>2 DEF Letters, SmallTokens
  <2>3. d = [k \in 1..Len(d) |-> d[k]]
    BY <1>2, <2>1
  <2> QED BY <2>1, <2>2, <2>3
<1>4. /\ d # <<>> /\ d[1] # "." /\ d[Len(d)] # "."
      /\ \A k \in Dots(d) : k + 1 \notin Dots(d)
      /\ Cardinality(Dots(d)) < LabelMax
  BY <1>1 DEF Proper, Dots
<1> QED BY <1>1, <1>3, <1>4 DEF Domain, Clean

(* A request goes over TLS.                                                  *)
Secure(scheme) == scheme = <<"https">>

(* The path a request asks for.                                              *)
PathOf(path) == IF path = <<>> THEN <<"/">> ELSE path

(* Requests are alike when their other parts are equal.                      *)
LEMMA AlikeParts ==
  ASSUME NEW a, NEW b, NEW c, NEW d, NEW e, NEW f, NEW g,
         NEW a2, NEW b2, NEW c2, NEW d2, NEW e2, NEW f2
  PROVE  AskAlike([secure |-> a, domain |-> b, port |-> c, host |-> d, path |-> e,
                   referer |-> f, forwarded |-> g],
                  [secure |-> a2, domain |-> b2, port |-> c2, host |-> d2, path |-> e2,
                   referer |-> f2, forwarded |-> g])
         <=> a = a2 /\ b = b2 /\ c = c2 /\ d = d2 /\ e = e2
BY DEF AskAlike

(* A key determines what is asked for a URL with a proper host, and that the *)
(* key, but for a missing slash.                                             *)
LEMMA KeyAndRequest ==
  ASSUME UrlAssumption, NEW s \in Seq(Tokens), NEW t \in Seq(Tokens),
         CanAsk(s), CanAsk(t), Proper(url_parse(s).host), Proper(url_parse(t).host)
  PROVE  /\ url_normalize_surt(s) = url_normalize_surt(t) =>
              AskAlike(Request(s), Request(t))
         /\ AskAlike(Request(s), Request(t)) =>
              \/ url_normalize_surt(s) = url_normalize_surt(t)
              \/ {url_parse(s).path, url_parse(t).path} = {<<>>, <<"/">>}
<1> DEFINE u == url_parse(s)
           v == url_parse(t)
           hu == host_parse(u.host)
           hv == host_parse(v.host)
<1>1. /\ u.host \in Seq(SmallTokens) /\ u.path \in Seq(PathTokens) /\ IsQuery(u.query)
      /\ v.host \in Seq(SmallTokens) /\ v.path \in Seq(PathTokens) /\ IsQuery(v.query)
  BY UrlParts
<1>2. Domain(hu.domain) /\ Domain(hv.domain)
  BY <1>1, ProperDomain
<1>3. /\ u.scheme \in {<<"http">>, <<"https">>}
      /\ v.scheme \in {<<"http">>, <<"https">>}
  BY DEF CanAsk
<1>4. /\ u.host = hu.domain \o (IF hu.port = <<>> THEN <<>> ELSE <<":">> \o hu.port)
      /\ v.host = hv.domain \o (IF hv.port = <<>> THEN <<>> ELSE <<":">> \o hv.port)
  BY DEF Proper
<1>5. /\ url_normalize_surt(s) = [scheme |-> u.scheme, labels |-> domain_reverse(hu.domain),
                                  port |-> hu.port, path |-> u.path, query |-> u.query]
      /\ url_normalize_surt(t) = [scheme |-> v.scheme, labels |-> domain_reverse(hv.domain),
                                  port |-> hv.port, path |-> v.path, query |-> v.query]
  BY DEF url_normalize_surt
<1>6. AskAlike(Request(s), Request(t)) <=>
        /\ Secure(u.scheme) = Secure(v.scheme)
        /\ hu.domain = hv.domain /\ hu.port = hv.port /\ u.host = v.host
        /\ Joined(PathOf(u.path), u.query) = Joined(PathOf(v.path), v.query)
  <2>1. /\ Request(s) = [secure |-> Secure(u.scheme), domain |-> hu.domain,
                         port |-> hu.port, host |-> u.host,
                         path |-> Joined(PathOf(u.path), u.query),
                         referer |-> s, forwarded |-> NoClient]
        /\ Request(t) = [secure |-> Secure(v.scheme), domain |-> hv.domain,
                         port |-> hv.port, host |-> v.host,
                         path |-> Joined(PathOf(v.path), v.query),
                         referer |-> t, forwarded |-> NoClient]
    BY DEF Request, PathOf, Secure, Joined
  <2> HIDE DEF u, v, hu, hv
  <2> QED BY <2>1, AlikeParts
<1> HIDE DEF u, v, hu, hv
<1>7. ASSUME url_normalize_surt(s) = url_normalize_surt(t)
      PROVE  AskAlike(Request(s), Request(t))
  <2>1. /\ u.scheme = v.scheme /\ domain_reverse(hu.domain) = domain_reverse(hv.domain)
        /\ hu.port = hv.port /\ u.path = v.path /\ u.query = v.query
    BY <1>5, <1>7
  <2>2. hu.domain = hv.domain
    BY <1>2, <2>1, DomainReverseInjective
  <2>3. u.host = v.host
    BY <1>4, <2>1, <2>2
  <2> QED BY <1>6, <2>1, <2>2, <2>3
<1>8. ASSUME AskAlike(Request(s), Request(t))
      PROVE  \/ url_normalize_surt(s) = url_normalize_surt(t)
             \/ {u.path, v.path} = {<<>>, <<"/">>}
  <2>1. /\ Secure(u.scheme) = Secure(v.scheme)
        /\ hu.domain = hv.domain /\ hu.port = hv.port
        /\ Joined(PathOf(u.path), u.query) = Joined(PathOf(v.path), v.query)
    BY <1>6, <1>8
  <2>2. u.scheme = v.scheme
    BY <1>3, <2>1 DEF Secure
  <2>3. ASSUME NEW p \in Seq(PathTokens) PROVE PathOf(p) \in Seq(PathTokens)
    <3>1. <<"/">> \in Seq(PathTokens)
      BY DEF PathTokens, Tokens, Punctuation
    <3> QED BY <3>1 DEF PathOf
  <2>4. PathOf(u.path) = PathOf(v.path) /\ u.query = v.query
    <3>1. PathOf(u.path) \in Seq(PathTokens) /\ PathOf(v.path) \in Seq(PathTokens)
      BY <1>1, <2>3
    <3> QED BY <1>1, <2>1, <3>1, PathAndQuery
  <2>5. CASE u.path = v.path
    BY <1>5, <2>1, <2>2, <2>4, <2>5
  <2>6. CASE u.path # v.path
    <3>1. {u.path, v.path} = {<<>>, <<"/">>}
      BY <2>4, <2>6 DEF PathOf
    <3> QED BY <3>1
  <2> QED BY <2>5, <2>6
<1> QED BY <1>7, <1>8 DEF u, v

(* URLs share a key exactly when they are asked for alike, but for the        *)
(* Referer (fetch.c:44) and a missing "/", as the queue and the history of a  *)
(* URL take it (url.c:134-152 against fetch.c:17-46).                         *)
THEOREM SameKeyCorrect == Spec => []SameKeyAsksAlike
<1>1. IInv => SameKeyAsksAlike
  <2> SUFFICES ASSUME IInv, CanAsk(tmp), Proper(url_parse(tmp).host), NEW s \in Texts,
                      CanAsk(s), Proper(url_parse(s).host)
               PROVE  /\ url_normalize_surt(s) = url_normalize_surt(tmp)
                           => AskAlike(Request(s), Request(tmp))
                      /\ AskAlike(Request(s), Request(tmp)) =>
                           \/ url_normalize_surt(s) = url_normalize_surt(tmp)
                           \/ {url_parse(s).path, url_parse(tmp).path} = {<<>>, <<"/">>}
    BY DEF SameKeyAsksAlike
  <2>1. s \in Seq(Tokens) /\ tmp \in Seq(Tokens)
    <3>1. tmp \in Texts \cup {<<>>}
      BY DEF IInv, TypeInv
    <3>2. Texts \subseteq Seq(Tokens) /\ <<>> \in Seq(Tokens)
      BY FetchAssumption
    <3> QED BY <3>1, <3>2
  <2> QED BY <2>1, KeyAndRequest, UrlAssumption
<1> QED BY FetchInit, FetchStep, <1>1, PTL DEF Spec
=============================================================================
