------------------------ MODULE ResponseStoreProofs ------------------------
(* Proofs about the response store, for every choice of the constants: the   *)
(* tables agree, and what the pages show of a snapshot is right.             *)
EXTENDS ResponseStore, ListProofs, FiniteSetTheorems

(* ------------------------------------------------------------------------ *)
(* The tables.                                                               *)

(* A stored response has an id and a time of their types and a row of each   *)
(* kind of its own type (hx_response_add).                                   *)
LEMMA RowTypes ==
  ASSUME StoreAssumption, NEW r \in Responses
  PROVE  /\ SurtRow(r) \in [surt : Surts, time : 1..MaxTime, id : 0..MaxId]
         /\ HashRows(r) \subseteq [algo : Algos, hash : Seq(Bytes),
                                   time : 1..MaxTime, id : 0..MaxId]
<1>1. SurtRow(r) \in [surt : Surts, time : 1..MaxTime, id : 0..MaxId]
  BY DEF SurtRow, StoreAssumption, Responses
<1>2. ASSUME NEW a \in Algos, Digest(r, a) # <<>>
      PROVE  Truncated(Digest(r, a)) \in Seq(Bytes)
  <2>1. Digest(r, a) \in Seq(Bytes) /\ Len(Digest(r, a)) >= IndexLen
    BY <1>2 DEF Digest, StoreAssumption, Responses
  <2> DEFINE h == Digest(r, a)
  <2>2. IndexLen \in Nat /\ 1..IndexLen \subseteq 1..Len(h)
    BY <2>1, LenProperties DEF StoreAssumption
  <2> HIDE DEF h
  <2>3. h \in Seq(Bytes) /\ IndexLen \in 0..Len(h)
    BY <2>1, <2>2, LenProperties DEF h
  <2>4. SubSeq(h, 1, IndexLen) \in Seq(Bytes)
    BY <2>3, SubSeqProperties
  <2> QED BY <2>4 DEF Truncated, h
<1> QED BY <1>1, <1>2 DEF HashRows, Responses

(* Every variable of the store keeps its type.                               *)
THEOREM TypeCorrect == Spec => []TypeOK
<1>1. Init => TypeOK
  BY DEF Init, TypeOK
<1>2. TypeOK /\ [Next]_vars => TypeOK'
  <2> SUFFICES ASSUME TypeOK, [Next]_vars PROVE TypeOK'
    OBVIOUS
  <2>1. ASSUME NEW r \in Responses, Commit({r}) PROVE TypeOK'
    <3>1. /\ byTime' = byTime \cup {r}
          /\ bySurt' = bySurt \cup {SurtRow(r)}
          /\ byHash' = byHash \cup HashRows(r)
      BY <2>1 DEF Commit
    <3> QED BY <3>1, StoreAssumption, RowTypes DEF TypeOK
  <2>2. ASSUME UNCHANGED vars PROVE TypeOK'
    BY <2>2 DEF vars, TypeOK
  <2> QED BY <2>1, <2>2 DEF Next
<1> QED BY <1>1, <1>2, PTL DEF Spec

(* A transaction of any number of responses keeps the tables in agreement:   *)
(* also the batches of the importer (import.c:143-146).                      *)
LEMMA CommitKeepsAgreement ==
  ASSUME NEW batch, TablesAgree, Commit(batch)
  PROVE  TablesAgree'
<1>1. /\ byTime' = byTime \cup batch
      /\ bySurt' = bySurt \cup {SurtRow(r) : r \in batch}
      /\ byHash' = byHash \cup UNION {HashRows(r) : r \in batch}
  BY DEF Commit
<1>2. ASSUME NEW r \in byTime', NEW x \in byTime', SameKey(r, x) PROVE r = x
  <2>1. CASE r \in byTime /\ x \in byTime
    BY <2>1, <1>2 DEF TablesAgree
  <2>2. CASE r \in batch /\ x \in batch
    BY <2>2, <1>2 DEF Commit
  <2>3. CASE r \in byTime /\ x \in batch
    BY <2>3, <1>2 DEF Commit, Conflicts
  <2>4. CASE r \in batch /\ x \in byTime
    BY <2>4, <1>2 DEF Commit, Conflicts, SameKey
  <2> QED BY <2>1, <2>2, <2>3, <2>4, <1>1
<1>3. bySurt' = {SurtRow(r) : r \in byTime'}
  BY <1>1 DEF TablesAgree
<1>4. byHash' = UNION {HashRows(r) : r \in byTime'}
  BY <1>1 DEF TablesAgree
<1> QED BY <1>2, <1>3, <1>4 DEF TablesAgree

(* The three tables list the same responses.                                 *)
THEOREM AgreementCorrect == Spec => []TablesAgree
<1>1. Init => TablesAgree
  BY DEF Init, TablesAgree
<1>2. TablesAgree /\ [Next]_vars => TablesAgree'
  <2> SUFFICES ASSUME TablesAgree, [Next]_vars PROVE TablesAgree'
    OBVIOUS
  <2>1. CASE Next
    BY <2>1, CommitKeepsAgreement DEF Next
  <2>2. CASE UNCHANGED vars
    BY <2>2 DEF vars, TablesAgree, SameKey
  <2> QED BY <2>1, <2>2
<1> QED BY <1>1, <1>2, PTL DEF Spec

(* Where the tables agree, the latest row of a URL is not older than a row   *)
(* of one of its hashes: that row's response has a row by URL as well.       *)
LEMMA AgreementImpliesLatest == TablesAgree => LatestNotOlder
<1> SUFFICES ASSUME TablesAgree, NEW row \in byHash
             PROVE  \E r \in byTime :
                      /\ SameKey(r, row)
                      /\ SurtRows(SurtOf[r.url]) # {}
                      /\ \A x \in SurtRows(SurtOf[r.url]) :
                           IsLatest(x, SurtOf[r.url]) => NotOlder(x, row)
  BY DEF LatestNotOlder
<1>1. PICK r \in byTime : row \in HashRows(r)
  BY DEF TablesAgree
<1>2. row.time = r.time /\ row.id = r.id
  BY <1>1 DEF HashRows
<1>3. SurtRow(r) \in SurtRows(SurtOf[r.url])
  BY DEF TablesAgree, SurtRows, SurtRow
<1>4. ASSUME NEW x \in SurtRows(SurtOf[r.url]), IsLatest(x, SurtOf[r.url])
      PROVE  NotOlder(x, row)
  BY <1>2, <1>3, <1>4 DEF IsLatest, NotOlder, SurtRow
<1> QED BY <1>2, <1>3, <1>4 DEF SameKey

(* The assertion of hx_get_sources (db.c:296) holds on every snapshot.       *)
THEOREM LatestCorrect == Spec => []LatestNotOlder
BY AgreementCorrect, AgreementImpliesLatest, PTL

(* ------------------------------------------------------------------------ *)
(* Listings: what a cursor over a range returns.                             *)

(* R is a strict total order of S.                                           *)
Orders(R, S) ==
  /\ \A x \in S : <<x, x>> \notin R
  /\ \A x, y, z \in S : <<x, y>> \in R /\ <<y, z>> \in R => <<x, z>> \in R
  /\ \A x, y \in S : x = y \/ <<x, y>> \in R \/ <<y, x>> \in R

(* At each place of s is an element of S with so many above it, if there is  *)
(* one.                                                                      *)
Ranked(s, R, S) ==
  /\ s = [i \in 1..Cardinality(S) |-> s[i]]
  /\ \A i \in DOMAIN s :
       (\E x \in S : Cardinality({y \in S : <<y, x>> \in R}) = i - 1) =>
         s[i] \in S /\ Cardinality({y \in S : <<y, s[i]>> \in R}) = i - 1

(* s has the elements of S in the order of R.                                *)
Lists(s, R, S) ==
  /\ s \in Seq(S)
  /\ \A x \in S : \E i \in DOMAIN s : s[i] = x
  /\ \A i, j \in DOMAIN s : i < j => <<s[i], s[j]>> \in R

(* A sequence that has at each place an element with so many above it has    *)
(* the elements in order: in a strict total order of n elements the numbers  *)
(* of elements above are 0 to n - 1.                                         *)
LEMMA RanksExist ==
  ASSUME NEW S, IsFiniteSet(S), NEW R, Orders(R, S), NEW s, Ranked(s, R, S)
  PROVE  Lists(s, R, S)
<1> DEFINE n == Cardinality(S)
           above(x) == {y \in S : <<y, x>> \in R}
<1>1. /\ \A x \in S : <<x, x>> \notin R
      /\ \A x, y, z \in S : <<x, y>> \in R /\ <<y, z>> \in R => <<x, z>> \in R
      /\ \A x, y \in S : x = y \/ <<x, y>> \in R \/ <<y, x>> \in R
  BY DEF Orders
<1>2. DOMAIN s = 1..n
  <2>1. s = [i \in 1..n |-> s[i]]
    BY DEF Ranked
  <2> QED BY <2>1
<1>3. n \in Nat
  BY FS_CardinalityType
<1>4. ASSUME NEW x \in S PROVE IsFiniteSet(above(x)) /\ Cardinality(above(x)) \in 0..n - 1
  <2>1. above(x) \in SUBSET S /\ x \notin above(x)
    BY <1>1
  <2> HIDE DEF above
  <2>2. /\ IsFiniteSet(above(x)) /\ Cardinality(above(x)) <= n
        /\ Cardinality(above(x)) # n
    BY <2>1, FS_Subset
  <2>3. Cardinality(above(x)) \in Nat
    BY <2>2, FS_CardinalityType
  <2> QED BY <1>3, <2>2, <2>3
<1>5. ASSUME NEW x \in S PROVE Cardinality(above(x)) \in Nat /\ Cardinality(above(x)) + 1 \in 1..n
  <2> HIDE DEF above
  <2> QED BY <1>3, <1>4
<1>6. ASSUME NEW x \in S, NEW y \in S, <<x, y>> \in R
      PROVE  Cardinality(above(x)) < Cardinality(above(y))
  <2>1. above(x) \in SUBSET above(y) /\ x \in above(y) /\ x \notin above(x)
    BY <1>1, <1>6
  <2>2. IsFiniteSet(above(y)) /\ Cardinality(above(x)) \in Nat /\ Cardinality(above(y)) \in Nat
    <3> HIDE DEF above
    <3> QED BY <1>4, <1>5
  <2> HIDE DEF above
  <2>3. /\ Cardinality(above(x)) <= Cardinality(above(y))
        /\ Cardinality(above(x)) # Cardinality(above(y))
    BY <2>1, <2>2, FS_Subset
  <2> QED BY <2>2, <2>3
<1>7. ASSUME NEW x \in S, NEW y \in S, Cardinality(above(x)) = Cardinality(above(y)) PROVE x = y
  <2> HIDE DEF above
  <2>1. ASSUME <<x, y>> \in R PROVE FALSE
    <3>1. Cardinality(above(x)) < Cardinality(above(y)) BY <1>6, <2>1
    <3> QED BY <1>5, <1>7, <3>1
  <2>2. ASSUME <<y, x>> \in R PROVE FALSE
    <3>1. Cardinality(above(y)) < Cardinality(above(x)) BY <1>6, <2>2
    <3> QED BY <1>5, <1>7, <3>1
  <2> QED BY <1>1, <2>1, <2>2, Zenon
<1> DEFINE rank == [x \in S |-> Cardinality(above(x)) + 1]
<1>8. rank \in Injection(S, 1..n)
  <2> HIDE DEF above
  <2>1. ASSUME NEW x \in S PROVE rank[x] \in 1..n
    BY <1>5
  <2>2. ASSUME NEW x \in S, NEW y \in S, rank[x] = rank[y] PROVE x = y
    <3>1. Cardinality(above(x)) = Cardinality(above(y)) BY <1>5, <2>2
    <3> QED BY <1>7, <3>1
  <2>3. rank \in [S -> 1..n]
    BY <2>1
  <2> HIDE DEF rank
  <2> QED BY <2>2, <2>3 DEF Injection, IsInjective
<1>9. rank \in Surjection(S, 1..n)
  <2>1. IsFiniteSet(1..n) /\ Cardinality(1..n) = n
    BY <1>3, FS_Interval
  <2> HIDE DEF rank
  <2> QED BY <1>8, <2>1, FS_Injection
<1>10. ASSUME NEW i \in 1..n PROVE \E x \in S : Cardinality(above(x)) = i - 1
  <2>1. PICK x \in S : rank[x] = i
    <3> HIDE DEF rank
    <3> QED BY <1>9 DEF Surjection
  <2> HIDE DEF above
  <2> QED BY <1>5, <2>1
<1>11. ASSUME NEW i \in DOMAIN s PROVE s[i] \in S /\ Cardinality(above(s[i])) = i - 1
  BY <1>10, <1>2 DEF Ranked
<1>12. ASSUME NEW x \in S PROVE \E i \in DOMAIN s : s[i] = x
  <2> HIDE DEF above
  <2>1. rank[x] \in 1..n
    BY <1>5
  <2>2. s[rank[x]] \in S /\ Cardinality(above(s[rank[x]])) = Cardinality(above(x))
    BY <1>5, <1>11, <1>2, <2>1
  <2>3. s[rank[x]] = x
    <3> HIDE DEF rank, above
    <3> QED BY <1>7, <2>2
  <2> QED BY <1>2, <2>1, <2>3
<1>13. ASSUME NEW i \in DOMAIN s, NEW j \in DOMAIN s, i < j PROVE <<s[i], s[j]>> \in R
  <2> HIDE DEF above
  <2>1. s[i] \in S /\ s[j] \in S /\ i \in Nat /\ j \in Nat
    BY <1>3, <1>11, <1>2
  <2>2. Cardinality(above(s[i])) < Cardinality(above(s[j]))
    BY <1>11, <1>13, <2>1
  <2>3. s[i] # s[j]
    BY <1>5, <2>1, <2>2
  <2>4. ASSUME <<s[j], s[i]>> \in R PROVE FALSE
    <3>1. Cardinality(above(s[j])) < Cardinality(above(s[i])) BY <1>6, <2>1, <2>4
    <3> QED BY <1>5, <2>1, <2>2, <3>1
  <2> QED BY <1>1, <2>1, <2>3, <2>4, Zenon
<1>14. s \in Seq(S)
  <2>1. s = [i \in 1..n |-> s[i]]
    BY DEF Ranked
  <2>2. \A i \in 1..n : s[i] \in S
    BY <1>11, <1>2
  <2> HIDE DEF n
  <2> QED BY <1>3, <2>1, <2>2
<1> QED BY <1>14, <1>12, <1>13 DEF Lists

(* A key of the table of responses.                                          *)
HasKey(x) == x.time \in Nat /\ x.id \in Nat

(* Newer is a strict total order of keys (timeidcmp): irreflexive,           *)
LEMMA NewerIrreflexive ==
  ASSUME NEW x PROVE ~Newer(x, x)
BY DEF Newer, SameKey

(* transitive,                                                               *)
LEMMA NewerTransitive ==
  ASSUME NEW x, NEW y, NEW z, HasKey(x), HasKey(y), HasKey(z), Newer(x, y), Newer(y, z)
  PROVE  Newer(x, z)
BY DEF HasKey, Newer, NotOlder, SameKey

(* and total up to the key.                                                  *)
LEMMA NewerTotal ==
  ASSUME NEW x, NEW y, HasKey(x), HasKey(y)
  PROVE  SameKey(x, y) \/ Newer(x, y) \/ Newer(y, x)
BY DEF HasKey, Newer, NotOlder, SameKey

(* The order of the bytes of a hash is irreflexive,                          *)
LEMMA HashAboveIrreflexive ==
  ASSUME NEW g \in Seq(Nat) PROVE ~HashAbove(g, g)
BY LenProperties DEF HashAbove

(* transitive,                                                               *)
LEMMA HashAboveTransitive ==
  ASSUME NEW f \in Seq(Nat), NEW g \in Seq(Nat), NEW h \in Seq(Nat),
         HashAbove(f, g), HashAbove(g, h)
  PROVE  HashAbove(f, h)
<1>1. Len(f) \in Nat /\ Len(g) \in Nat /\ Len(h) \in Nat
  BY LenProperties
<1>2. \A k \in 1..Len(f) : f[k] \in Nat
  BY ElementOfSeq
<1>3. \A k \in 1..Len(g) : g[k] \in Nat
  BY ElementOfSeq
<1>4. \A k \in 1..Len(h) : h[k] \in Nat
  BY ElementOfSeq
<1>5. PICK k \in 1..Len(f) : /\ k <= Len(g) => f[k] > g[k]
                             /\ \A j \in 1..k - 1 : j <= Len(g) /\ f[j] = g[j]
  BY DEF HashAbove
<1>6. PICK m \in 1..Len(g) : /\ m <= Len(h) => g[m] > h[m]
                             /\ \A j \in 1..m - 1 : j <= Len(h) /\ g[j] = h[j]
  BY DEF HashAbove
<1>7. CASE k < m
  <2>1. k \in 1..m - 1 /\ k \in 1..Len(g)
    BY <1>1, <1>5, <1>6, <1>7
  <2>2. f[k] > h[k]
    <3>1. f[k] > g[k] /\ g[k] = h[k]
      BY <1>5, <1>6, <2>1
    <3> QED BY <3>1
  <2>3. ASSUME NEW j \in 1..k - 1 PROVE j <= Len(h) /\ f[j] = h[j]
    <3>1. j \in 1..m - 1
      BY <1>1, <2>1
    <3>2. f[j] = g[j]
      BY <1>5
    <3> QED BY <1>6, <3>1, <3>2
  <2> QED BY <2>2, <2>3 DEF HashAbove
<1>8. CASE m <= k
  <2>1. m \in 1..Len(f)
    BY <1>1, <1>8
  <2>2. ASSUME m <= Len(h) PROVE f[m] > h[m]
    <3>1. m \in 1..Len(h) BY <1>1, <2>2
    <3>2. g[m] > h[m] BY <1>6, <2>2
    <3>3. CASE m = k
      <4>1. f[m] > g[m] BY <1>5, <3>3
      <4>2. f[m] \in Nat /\ g[m] \in Nat /\ h[m] \in Nat
        BY <1>2, <1>3, <1>4, <2>1, <3>1
      <4> QED BY <3>2, <4>1, <4>2
    <3>4. CASE m < k
      <4>1. m \in 1..k - 1 BY <1>1, <3>4
      <4>2. f[m] = g[m] BY <1>5, <4>1
      <4> QED BY <3>2, <4>2
    <3> QED BY <1>1, <1>8, <3>3, <3>4
  <2>3. ASSUME NEW j \in 1..m - 1 PROVE j <= Len(h) /\ f[j] = h[j]
    <3>1. j \in 1..k - 1
      BY <1>1, <1>8, <2>1
    <3>2. f[j] = g[j]
      BY <1>5, <3>1
    <3> QED BY <1>6, <3>2
  <2> QED BY <2>1, <2>2, <2>3 DEF HashAbove
<1> QED BY <1>1, <1>7, <1>8

(* and total: the first place where two hashes differ decides.               *)
LEMMA HashAboveTotal ==
  ASSUME NEW g \in Seq(Nat), NEW h \in Seq(Nat), g # h
  PROVE  HashAbove(g, h) \/ HashAbove(h, g)
<1>1. Len(g) \in Nat /\ Len(h) \in Nat
  BY LenProperties
<1>2. \A k \in 1..Len(g) : g[k] \in Nat
  BY ElementOfSeq
<1>3. \A k \in 1..Len(h) : h[k] \in Nat
  BY ElementOfSeq
<1> DEFINE differ == {k \in Nat \ {0} : /\ k <= Len(g) \/ k <= Len(h)
                                        /\ k <= Len(g) /\ k <= Len(h) => g[k] # h[k]}
<1>4. differ \in SUBSET Nat
  OBVIOUS
<1>5. differ # {}
  <2> SUFFICES ASSUME differ = {} PROVE FALSE
    OBVIOUS
  <2>1. Len(g) = Len(h)
    <3>1. Len(g) < Len(h) => Len(h) \in differ BY <1>1
    <3>2. Len(h) < Len(g) => Len(g) \in differ BY <1>1
    <3> HIDE DEF differ
    <3> QED BY <1>1, <3>1, <3>2
  <2>2. ASSUME NEW k \in 1..Len(g) PROVE g[k] = h[k]
    <3>1. k \in Nat \ {0} /\ k <= Len(g) /\ k <= Len(h) /\ k \notin differ
      <4>1. k \in Nat \ {0} /\ k <= Len(g) /\ k <= Len(h)
        BY <1>1, <2>1
      <4> HIDE DEF differ
      <4> QED BY <4>1
    <3> QED BY <3>1
  <2> HIDE DEF differ
  <2> QED BY <2>1, <2>2, SeqEqual
<1>6. PICK k \in differ : \A j \in differ : k <= j
  <2> HIDE DEF differ
  <2> QED BY <1>4, <1>5, LeastNatural
<1>7. ASSUME NEW j \in 1..k - 1 PROVE j <= Len(g) /\ j <= Len(h) /\ g[j] = h[j]
  <2>1. j \notin differ /\ j \in Nat \ {0} /\ j < k
    BY <1>6
  <2> QED BY <1>1, <1>6, <2>1
<1>8. CASE k <= Len(g) /\ (k <= Len(h) => g[k] > h[k])
  <2>1. k \in 1..Len(g)
    BY <1>1, <1>6, <1>8
  <2> HIDE DEF differ
  <2> QED BY <1>7, <1>8, <2>1 DEF HashAbove
<1>9. CASE k <= Len(h) /\ (k <= Len(g) => h[k] > g[k])
  <2>1. k \in 1..Len(h)
    BY <1>1, <1>6, <1>9
  <2> HIDE DEF differ
  <2> QED BY <1>7, <1>9, <2>1 DEF HashAbove
<1>10. /\ k \in Nat \ {0} /\ (k <= Len(g) \/ k <= Len(h))
      /\ k <= Len(g) /\ k <= Len(h) => g[k] # h[k]
  BY <1>6
<1>11. CASE k <= Len(g) /\ k <= Len(h)
  <2>1. g[k] \in Nat /\ h[k] \in Nat /\ g[k] # h[k]
    BY <1>1, <1>10, <1>11, <1>2, <1>3
  <2>2. g[k] > h[k] \/ h[k] > g[k]
    BY <2>1
  <2> QED BY <1>8, <1>9, <1>11, <2>2
<1>12. CASE k <= Len(g) /\ ~(k <= Len(h))
  BY <1>8, <1>12
<1>13. CASE ~(k <= Len(g)) /\ k <= Len(h)
  BY <1>9, <1>13
<1>14. k <= Len(g) \/ k <= Len(h)
  BY <1>10
<1> HIDE DEF differ
<1> QED BY <1>11, <1>12, <1>13, <1>14

(* Rows with keys of their own.                                              *)
Keyed(S) == /\ IsFiniteSet(S)
            /\ \A x \in S : HasKey(x)
            /\ \A x, y \in S : SameKey(x, y) => x = y

Enumerates(s, S) == /\ s \in Seq(S)
                    /\ \A x \in S : \E i \in DOMAIN s : s[i] = x

NewestFirst(s) == \A i, j \in DOMAIN s : i < j => Newer(s[i], s[j])

(* A listing by time has every row, newest first.                            *)
LEMMA ListedNewestFirst ==
  ASSUME NEW S, Keyed(S)
  PROVE  Enumerates(Listing(S, Newer), S) /\ NewestFirst(Listing(S, Newer))
<1> DEFINE s == Listing(S, Newer)
           R == {p \in S \X S : Newer(p[1], p[2])}
<1>1. Orders(R, S)
  <2>1. \A x, y \in S : <<x, y>> \in R <=> Newer(x, y)
    OBVIOUS
  <2> HIDE DEF R
  <2>2. \A x \in S : <<x, x>> \notin R
    BY <2>1, NewerIrreflexive
  <2>3. ASSUME NEW x \in S, NEW y \in S, NEW z \in S, <<x, y>> \in R, <<y, z>> \in R
        PROVE  <<x, z>> \in R
    BY <2>1, <2>3, NewerTransitive DEF Keyed
  <2>4. ASSUME NEW x \in S, NEW y \in S PROVE x = y \/ <<x, y>> \in R \/ <<y, x>> \in R
    BY <2>1, NewerTotal DEF Keyed
  <2> QED BY <2>2, <2>3, <2>4 DEF Orders
<1>2. s = [i \in 1..Cardinality(S) |-> s[i]] /\ DOMAIN s = 1..Cardinality(S)
  <2> DEFINE at(i) == CHOOSE x \in S : Cardinality({y \in S : Newer(y, x)}) = i - 1
  <2>1. s = [i \in 1..Cardinality(S) |-> at(i)]
    BY DEF Listing
  <2> HIDE DEF at, s
  <2> QED BY <2>1
<1>3. ASSUME NEW i \in DOMAIN s,
             \E x \in S : Cardinality({y \in S : <<y, x>> \in R}) = i - 1
      PROVE  s[i] \in S /\ Cardinality({y \in S : <<y, s[i]>> \in R}) = i - 1
  <2>1. ASSUME NEW x \in S PROVE {y \in S : <<y, x>> \in R} = {y \in S : Newer(y, x)}
    OBVIOUS
  <2>2. \E x \in S : Cardinality({y \in S : Newer(y, x)}) = i - 1
    BY <1>3, <2>1
  <2>3. s[i] = CHOOSE x \in S : Cardinality({y \in S : Newer(y, x)}) = i - 1
    BY <1>2 DEF Listing
  <2>4. s[i] \in S /\ Cardinality({y \in S : Newer(y, s[i])}) = i - 1
    BY <2>2, <2>3, Zenon
  <2> QED BY <2>1, <2>4
<1>4. Lists(s, R, S)
  <2> HIDE DEF s, R
  <2>1. Ranked(s, R, S)
    BY <1>2, <1>3 DEF Ranked
  <2> QED BY <1>1, <2>1, RanksExist DEF Keyed
<1>5. \A i, j \in DOMAIN s : i < j => Newer(s[i], s[j])
  <2> HIDE DEF s
  <2> QED BY <1>4 DEF Lists
<1> HIDE DEF s
<1> QED BY <1>4, <1>5 DEF s, Lists, Enumerates, NewestFirst

(* Rows of a table of hashes.                                                *)
HashKeyed(S) == Keyed(S) /\ \A x \in S : x.hash \in Seq(Nat)

RowsDescend(s) == \A i, j \in DOMAIN s : i < j => RowAbove(s[i], s[j])

(* The order of the keys of a table of hashes is a strict total order.       *)
LEMMA RowAboveOrders ==
  ASSUME NEW S, HashKeyed(S), NEW R, \A x, y \in S : <<x, y>> \in R <=> RowAbove(x, y)
  PROVE  Orders(R, S)
<1>1. \A x \in S : x.hash \in Seq(Nat) /\ HasKey(x)
  BY DEF HashKeyed, Keyed
<1>2. ASSUME NEW x \in S PROVE <<x, x>> \notin R
  BY <1>1, NewerIrreflexive, HashAboveIrreflexive DEF RowAbove
<1>3. ASSUME NEW x \in S, NEW y \in S, NEW z \in S, <<x, y>> \in R, <<y, z>> \in R
      PROVE  <<x, z>> \in R
  <2>1. RowAbove(x, y) /\ RowAbove(y, z)
    BY <1>3
  <2>2. HashAbove(x.hash, y.hash) /\ HashAbove(y.hash, z.hash)
          => HashAbove(x.hash, z.hash)
    BY <1>1, HashAboveTransitive
  <2>3. Newer(x, y) /\ Newer(y, z) => Newer(x, z)
    BY <1>1, NewerTransitive
  <2>4. RowAbove(x, z)
    BY <2>1, <2>2, <2>3, Zenon DEF RowAbove
  <2> QED BY <2>4
<1>4. ASSUME NEW x \in S, NEW y \in S PROVE x = y \/ <<x, y>> \in R \/ <<y, x>> \in R
  <2>1. x.hash = y.hash \/ HashAbove(x.hash, y.hash) \/ HashAbove(y.hash, x.hash)
    BY <1>1, HashAboveTotal
  <2>2. SameKey(x, y) \/ Newer(x, y) \/ Newer(y, x)
    BY <1>1, NewerTotal
  <2>3. SameKey(x, y) => x = y
    BY DEF HashKeyed, Keyed
  <2>4. x = y \/ RowAbove(x, y) \/ RowAbove(y, x)
    BY <2>1, <2>2, <2>3, Zenon DEF RowAbove
  <2> QED BY <2>4
<1> QED BY <1>2, <1>3, <1>4 DEF Orders

(* A listing by hash and time has every row, in the order of the keys.       *)
LEMMA ListedByHash ==
  ASSUME NEW S, HashKeyed(S)
  PROVE  Enumerates(Listing(S, RowAbove), S) /\ RowsDescend(Listing(S, RowAbove))
<1> DEFINE s == Listing(S, RowAbove)
           R == {p \in S \X S : RowAbove(p[1], p[2])}
<1>1. Orders(R, S)
  <2>1. \A x, y \in S : <<x, y>> \in R <=> RowAbove(x, y)
    OBVIOUS
  <2> HIDE DEF R
  <2> QED BY <2>1, RowAboveOrders
<1>2. s = [i \in 1..Cardinality(S) |-> s[i]] /\ DOMAIN s = 1..Cardinality(S)
  <2> DEFINE at(i) == CHOOSE x \in S : Cardinality({y \in S : RowAbove(y, x)}) = i - 1
  <2>1. s = [i \in 1..Cardinality(S) |-> at(i)]
    BY DEF Listing
  <2> HIDE DEF at, s
  <2> QED BY <2>1
<1>3. ASSUME NEW i \in DOMAIN s,
             \E x \in S : Cardinality({y \in S : <<y, x>> \in R}) = i - 1
      PROVE  s[i] \in S /\ Cardinality({y \in S : <<y, s[i]>> \in R}) = i - 1
  <2>1. ASSUME NEW x \in S PROVE {y \in S : <<y, x>> \in R} = {y \in S : RowAbove(y, x)}
    OBVIOUS
  <2>2. \E x \in S : Cardinality({y \in S : RowAbove(y, x)}) = i - 1
    BY <1>3, <2>1
  <2>3. s[i] = CHOOSE x \in S : Cardinality({y \in S : RowAbove(y, x)}) = i - 1
    BY <1>2 DEF Listing
  <2>4. s[i] \in S /\ Cardinality({y \in S : RowAbove(y, s[i])}) = i - 1
    BY <2>2, <2>3, Zenon
  <2> QED BY <2>1, <2>4
<1>4. Lists(s, R, S)
  <2> HIDE DEF s, R
  <2>1. Ranked(s, R, S)
    BY <1>2, <1>3 DEF Ranked
  <2> QED BY <1>1, <2>1, RanksExist DEF HashKeyed, Keyed
<1>5. \A i, j \in DOMAIN s : i < j => RowAbove(s[i], s[j])
  <2> HIDE DEF s
  <2> QED BY <1>4 DEF Lists
<1> HIDE DEF s
<1> QED BY <1>4, <1>5 DEF s, Lists, Enumerates, RowsDescend

(* ------------------------------------------------------------------------ *)
(* What a reader finds in a snapshot.                                        *)

(* What a reader starts from.                                                *)
Snapshot == TypeOK /\ TablesAgree /\ IsFiniteSet(byTime)

(* A reader sees finitely many responses and tables of their types that      *)
(* agree (the snapshot of a read transaction, kvs_txn_begin with             *)
(* KVS_RDONLY).                                                              *)
THEOREM SnapshotCorrect == Spec => []Snapshot
<1>1. Init => IsFiniteSet(byTime)
  BY FS_EmptySet DEF Init
<1>2. IsFiniteSet(byTime) /\ [Next]_vars => IsFiniteSet(byTime)'
  <2> SUFFICES ASSUME IsFiniteSet(byTime), [Next]_vars PROVE IsFiniteSet(byTime')
    OBVIOUS
  <2>1. ASSUME NEW r \in Responses, Commit({r}) PROVE IsFiniteSet(byTime')
    <3>1. byTime' = byTime \cup {r}
      BY <2>1 DEF Commit
    <3> QED BY <3>1, FS_AddElement
  <2>2. CASE UNCHANGED vars
    BY <2>2 DEF vars
  <2> QED BY <2>1, <2>2 DEF Next
<1> QED BY <1>1, <1>2, TypeCorrect, AgreementCorrect, PTL DEF Spec, Snapshot

(* The kvs_get under the key of a row finds the one response with that key.  *)
LEMMA ResponseOfRow ==
  ASSUME TablesAgree, NEW row, NEW r \in byTime, SameKey(r, row)
  PROVE  ResponseAt(row) = r
<1>1. ResponseAt(row) \in byTime /\ SameKey(ResponseAt(row), row)
  BY DEF ResponseAt
<1>2. SameKey(r, ResponseAt(row))
  BY <1>1 DEF SameKey
<1> QED BY <1>1, <1>2 DEF TablesAgree

(* The table of responses can be listed by time.                             *)
LEMMA ResponsesHaveKeys ==
  ASSUME StoreAssumption, Snapshot
  PROVE  Keyed(byTime)
<1>1. \A r \in byTime : HasKey(r)
  BY DEF Snapshot, TypeOK, Responses, HasKey, StoreAssumption
<1> QED BY <1>1 DEF Snapshot, TablesAgree, Keyed

(* A reader returns the rows at the first places, at most max of them.       *)
LEMMA FirstRowsAre ==
  ASSUME StoreAssumption, NEW S, NEW s \in Seq(S)
  PROVE  /\ FirstRows(s) \in Seq(S)
         /\ Len(FirstRows(s)) = IF Len(s) < Rows THEN Len(s) ELSE Rows
         /\ \A i \in DOMAIN FirstRows(s) : i \in DOMAIN s /\ FirstRows(s)[i] = s[i]
<1> DEFINE m == IF Len(s) < Rows THEN Len(s) ELSE Rows
<1>1. m \in Nat /\ m \in 0..Len(s) /\ Rows \in Nat /\ Len(s) \in Nat
  BY LenProperties DEF StoreAssumption
<1>2. FirstRows(s) = SubSeq(s, 1, m)
  BY DEF FirstRows
<1> HIDE DEF m
<1>3. /\ SubSeq(s, 1, m) \in Seq(S) /\ Len(SubSeq(s, 1, m)) = m
      /\ \A i \in 1..m : SubSeq(s, 1, m)[i] = s[i]
  BY <1>1, SubSeqProperties
<1>4. DOMAIN FirstRows(s) = 1..m /\ DOMAIN s = 1..Len(s)
  BY <1>2, <1>3, LenProperties
<1>5. \A i \in 1..m : i \in 1..Len(s)
  BY <1>1
<1> QED BY <1>2, <1>3, <1>4, <1>5 DEF m

(* ------------------------------------------------------------------------ *)
(* The history page.                                                         *)

(* The rows of one normalised URL can be listed by time.                     *)
LEMMA SurtRowsAreKeyed ==
  ASSUME StoreAssumption, Snapshot, NEW s
  PROVE  Keyed(SurtRows(s))
<1>1. bySurt = {SurtRow(r) : r \in byTime} /\ IsFiniteSet(byTime)
  BY DEF Snapshot, TablesAgree
<1>2. IsFiniteSet(bySurt)
  <2> DEFINE f == [r \in byTime |-> SurtRow(r)]
  <2>1. f \in Surjection(byTime, bySurt)
    BY <1>1 DEF Surjection
  <2> HIDE DEF f
  <2> QED BY <1>1, <2>1, FS_Surjection
<1>3. IsFiniteSet(SurtRows(s))
  <2>1. SurtRows(s) \in SUBSET bySurt BY DEF SurtRows
  <2> QED BY <1>2, <2>1, FS_Subset
<1>4. ASSUME NEW x \in SurtRows(s)
      PROVE  /\ HasKey(x) /\ x.surt = s
             /\ x = [surt |-> x.surt, time |-> x.time, id |-> x.id]
  BY DEF Snapshot, TypeOK, SurtRows, HasKey, StoreAssumption
<1>5. ASSUME NEW x \in SurtRows(s), NEW y \in SurtRows(s), SameKey(x, y) PROVE x = y
  BY <1>4, <1>5 DEF SameKey
<1> QED BY <1>3, <1>4, <1>5 DEF Keyed

(* A row by URL has a response.                                              *)
LEMMA SurtRowHasResponse ==
  ASSUME Snapshot, NEW row \in bySurt
  PROVE  ResponseAt(row) \in byTime
<1>1. PICK r \in byTime : row = SurtRow(r)
  BY DEF Snapshot, TablesAgree
<1>2. SameKey(r, row)
  BY <1>1 DEF SameKey, SurtRow
<1> QED BY <1>2, ResponseOfRow DEF Snapshot

(* hx_get_history returns stored responses.                                  *)
LEMMA HistoryIsStored ==
  ASSUME StoreAssumption, Snapshot, NEW u
  PROVE  hx_get_history(u) \in Seq(byTime)
<1> DEFINE rows == Listing(SurtRows(SurtOf[u]), Newer)
<1>1. rows \in Seq(bySurt)
  <2>1. rows \in Seq(SurtRows(SurtOf[u]))
    BY SurtRowsAreKeyed, ListedNewestFirst DEF Enumerates
  <2>2. SurtRows(SurtOf[u]) \subseteq bySurt
    BY DEF SurtRows
  <2> HIDE DEF rows
  <2> QED BY <2>1, <2>2
<1> HIDE DEF rows
<1>2. \A i \in DOMAIN rows : ResponseAt(rows[i]) \in byTime
  BY <1>1, SurtRowHasResponse
<1>3. ResponsesAt(rows) \in Seq(byTime)
  <2>1. DOMAIN rows = 1..Len(rows) /\ Len(rows) \in Nat
    BY <1>1, LenProperties
  <2> QED BY <1>2, <2>1 DEF ResponsesAt
<1>4. hx_get_history(u) = FirstRows(ResponsesAt(rows))
  BY DEF hx_get_history, rows
<1> QED BY <1>3, <1>4, FirstRowsAre

(* The start of a chain of prev pointers is what the recursion says: a prev  *)
(* pointer goes to an earlier place, so every chain ends.                    *)
LEMMA ChainHeadEquation ==
  ASSUME NEW n \in Nat, NEW links \in [1..n -> Nat], \A i \in 1..n : links[i] < i
  PROVE  /\ ChainHead(links) \in [1..n -> Nat]
         /\ \A i \in 1..n :
              ChainHead(links)[i] = IF links[i] = 0 THEN i ELSE ChainHead(links)[links[i]]
<1> DEFINE step == [g \in Seq(Nat) |->
                      IF Len(g) < n /\ links[Len(g) + 1] # 0
                      THEN g[links[Len(g) + 1]] ELSE Len(g) + 1]
<1>1. step \in [Seq(Nat) -> Nat]
  <2>1. ASSUME NEW g \in Seq(Nat), Len(g) < n, links[Len(g) + 1] # 0
        PROVE  g[links[Len(g) + 1]] \in Nat
    <3>1. Len(g) \in Nat /\ Len(g) + 1 \in 1..n
      BY <2>1, LenProperties
    <3>2. links[Len(g) + 1] \in 1..Len(g)
      BY <2>1, <3>1
    <3> QED BY <3>2, ElementOfSeq
  <2>2. \A g \in Seq(Nat) : Len(g) + 1 \in Nat
    BY LenProperties
  <2> QED BY <2>1, <2>2
<1>2. PICK f \in [1..n -> Nat] : Recurs(f, step, n)
  <2> HIDE DEF step
  <2> QED BY <1>1, RecursionExists
<1>3. ASSUME NEW i \in 1..n PROVE f[i] = IF links[i] = 0 THEN i ELSE f[links[i]]
  <2> DEFINE g == [j \in 1..i - 1 |-> f[j]]
  <2>1. i - 1 \in Nat /\ \A j \in 1..i - 1 : f[j] \in Nat
    BY <1>2
  <2>2. g \in Seq(Nat) /\ Len(g) = i - 1
    BY <2>1
  <2>3. f[i] = IF links[i] # 0 THEN g[links[i]] ELSE i
    <3>1. f[i] = step[g]
      BY <1>2 DEF Recurs, Before
    <3>2. Len(g) < n /\ Len(g) + 1 = i
      BY <2>2
    <3> HIDE DEF g
    <3> QED BY <2>2, <3>1, <3>2
  <2>4. links[i] # 0 => links[i] \in 1..i - 1
    OBVIOUS
  <2> QED BY <2>3, <2>4
<1>4. f = [i \in DOMAIN links |-> IF links[i] = 0 THEN i ELSE f[links[i]]]
  BY <1>2, <1>3
<1> DEFINE h == ChainHead(links)
<1>5. h = [i \in DOMAIN links |-> IF links[i] = 0 THEN i ELSE h[links[i]]]
  BY <1>4, Zenon DEF ChainHead
<1> HIDE DEF h
<1>6. DOMAIN h = 1..n /\ \A i \in 1..n : h[i] = IF links[i] = 0 THEN i ELSE h[links[i]]
  BY <1>5
<1> DEFINE Wrong == {i \in 1..n : h[i] \notin Nat}
<1>7. Wrong = {}
  <2> SUFFICES ASSUME Wrong # {} PROVE FALSE
    OBVIOUS
  <2>1. Wrong \in SUBSET Nat
    OBVIOUS
  <2>2. PICK i \in Wrong : \A j \in Wrong : i <= j
    <3> HIDE DEF Wrong
    <3> QED BY <2>1, LeastNatural
  <2>3. i \in 1..n /\ h[i] \notin Nat
    OBVIOUS
  <2>4. links[i] # 0 /\ h[links[i]] \notin Nat
    BY <1>6, <2>3
  <2>5. links[i] \in 1..n /\ links[i] < i
    BY <2>3, <2>4
  <2> QED BY <2>2, <2>4, <2>5
<1>8. h = [i \in 1..n |-> h[i]]
  BY <1>5
<1>9. h \in [1..n -> Nat]
  BY <1>7, <1>8
<1> QED BY <1>6, <1>9 DEF h

(* Every response of a list has the body of the start of its chain:          *)
(* neighbours that res_merge_common_content links have it in common.         *)
LEMMA MergedBodiesAreSame ==
  ASSUME StoreAssumption, ContentAssumption, NEW list \in Seq(Responses)
  PROVE  LET head == ChainHead(ContentLinks(list))
         IN \A i \in DOMAIN list : head[i] \in DOMAIN list /\
              list[i].outcome.body = list[head[i]].outcome.body
<1> DEFINE links == ContentLinks(list)
           head == ChainHead(links)
           n == Len(list)
           Same(i) == /\ head[i] \in 1..n
                      /\ list[i].outcome.body = list[head[i]].outcome.body
<1>1. n \in Nat /\ DOMAIN list = 1..n
  BY LenProperties
<1>2. \A i \in 1..n : /\ links[i] = 0 \/ (links[i] = i - 1 /\ i > 1)
                      /\ links[i] # 0 => ContentEq(list[i - 1], list[i])
  BY <1>1 DEF ContentLinks
<1>3. links \in [1..n -> Nat] /\ \A i \in 1..n : links[i] < i
  <2>1. \A i \in 1..n : links[i] \in Nat /\ links[i] < i
    <3> HIDE DEF links
    <3> QED BY <1>2
  <2>2. links = [i \in 1..n |-> links[i]]
    BY <1>1 DEF ContentLinks
  <2> HIDE DEF links
  <2> QED BY <2>1, <2>2
<1> HIDE DEF links
<1>4. \A i \in 1..n : head[i] = IF links[i] = 0 THEN i ELSE head[links[i]]
  BY <1>1, <1>3, ChainHeadEquation
<1>5. ASSUME NEW i \in 1..n, NEW j \in 1..n, ContentEq(list[i], list[j])
      PROVE  list[i].outcome.body = list[j].outcome.body
  <2>1. list[i] \in Responses /\ list[j] \in Responses
    BY <1>1, ElementOfSeq
  <2>2. list[i].outcome \in Outcomes /\ list[j].outcome \in Outcomes
    BY <2>1 DEF Responses
  <2> QED BY <1>5, <2>2, ContentAssumption DEF ContentEq, Digest
<1> DEFINE Wrong == {i \in 1..n : ~Same(i)}
<1> HIDE DEF head
<1>6. Wrong = {}
  <2> SUFFICES ASSUME Wrong # {} PROVE FALSE
    OBVIOUS
  <2>1. Wrong \in SUBSET Nat
    OBVIOUS
  <2>2. PICK i \in Wrong : \A j \in Wrong : i <= j
    <3> HIDE DEF Wrong
    <3> QED BY <2>1, LeastNatural
  <2>3. i \in 1..n /\ ~Same(i)
    OBVIOUS
  <2>4. links[i] # 0
    BY <1>4, <2>3
  <2>5. links[i] = i - 1 /\ i - 1 \in 1..n /\ head[i] = head[i - 1]
    BY <1>2, <1>4, <2>3, <2>4
  <2>6. Same(i - 1)
    BY <2>2, <2>3, <2>5
  <2>7. list[i - 1].outcome.body = list[i].outcome.body
    BY <1>2, <1>5, <2>3, <2>4, <2>5
  <2> QED BY <2>3, <2>5, <2>6, <2>7
<1>7. ASSUME NEW i \in 1..n PROVE Same(i)
  BY <1>6
<1> QED BY <1>1, <1>7 DEF head, links

(* The history page: "Also seen" dates stand under an entry with the same    *)
(* body (res_merge_common_content), however long the chain of links.         *)
THEOREM HistoryCorrect == Spec => []HistoryMergesSameBody
<1>1. Snapshot => HistoryMergesSameBody
  <2> SUFFICES ASSUME Snapshot, NEW u \in Urls
               PROVE  LET list == hx_get_history(u)
                          head == ChainHead(ContentLinks(list))
                      IN \A i \in DOMAIN list :
                           list[i].outcome.body = list[head[i]].outcome.body
    BY DEF HistoryMergesSameBody
  <2>1. hx_get_history(u) \in Seq(Responses)
    <3>1. hx_get_history(u) \in Seq(byTime)
      BY HistoryIsStored, StoreAssumption
    <3>2. byTime \subseteq Responses
      BY DEF Snapshot, TypeOK
    <3> QED BY <3>1, <3>2
  <2> QED BY <2>1, MergedBodiesAreSame, StoreAssumption, ContentAssumption
<1> QED BY <1>1, SnapshotCorrect, PTL

(* ------------------------------------------------------------------------ *)
(* The page of sources.                                                      *)

(* The places before i with its URL that no place before i is linked to.     *)
Free(list, link, i) ==
  {j \in 1..i - 1 : /\ list[j].url = list[i].url
                    /\ \A k \in j + 1..i - 1 : link[k] # j}

LinkTo(free) == IF free = {} THEN 0 ELSE Max(free)

(* A link goes to one of the free places, or is 0 when none is free.         *)
LEMMA LinkToType ==
  ASSUME NEW i \in Nat, NEW free \in SUBSET (1..i - 1)
  PROVE  /\ LinkTo(free) \in Nat
         /\ free = {} => LinkTo(free) = 0
         /\ free # {} => LinkTo(free) \in free
<1>1. CASE free = {}
  BY <1>1 DEF LinkTo
<1>2. CASE free # {}
  <2>1. free \in SUBSET (0..i)
    OBVIOUS
  <2>2. \E m \in free : \A k \in free : m >= k
    BY <1>2, <2>1, GreatestNatural
  <2>3. Max(free) \in free
    BY <2>2 DEF Max
  <2>4. LinkTo(free) = Max(free)
    BY <1>2 DEF LinkTo
  <2>5. LinkTo(free) \in free
    BY <2>3, <2>4
  <2>6. LinkTo(free) \in Nat
    <3>1. \A m \in free : m \in Nat OBVIOUS
    <3> QED BY <2>5, <3>1
  <2> QED BY <1>2, <2>5, <2>6
<1> QED BY <1>1, <1>2

(* Free places come before.                                                  *)
LEMMA FreeType ==
  ASSUME NEW list, NEW link, NEW i \in Nat
  PROVE  Free(list, link, i) \in SUBSET (1..i - 1)
BY DEF Free

(* Which places are free depends on earlier links only.                      *)
LEMMA FreeIsBefore ==
  ASSUME NEW list, NEW link, NEW i \in Nat
  PROVE  Free(list, link, i) = Free(list, Before(link, i), i)
<1>1. ASSUME NEW j \in 1..i - 1, NEW k \in j + 1..i - 1
      PROVE  Before(link, i)[k] = link[k]
  <2>1. k \in 1..i - 1 OBVIOUS
  <2> QED BY <2>1 DEF Before
<1> QED BY <1>1 DEF Free

(* The links of res_merge_common_urls are what the recursion says.           *)
LEMMA UrlLinksEquation ==
  ASSUME NEW n \in Nat, NEW list, DOMAIN list = 1..n
  PROVE  /\ DOMAIN UrlLinks(list) = 1..n
         /\ \A i \in 1..n : UrlLinks(list)[i] = LinkTo(Free(list, UrlLinks(list), i))
<1> DEFINE step == [g \in Seq(Nat) |-> LinkTo(Free(list, g, Len(g) + 1))]
<1>1. step \in [Seq(Nat) -> Nat]
  <2>1. ASSUME NEW g \in Seq(Nat) PROVE LinkTo(Free(list, g, Len(g) + 1)) \in Nat
    <3>1. Len(g) + 1 \in Nat BY LenProperties
    <3> QED BY <3>1, FreeType, LinkToType
  <2> QED BY <2>1
<1>2. PICK f \in [1..n -> Nat] : Recurs(f, step, n)
  <2> HIDE DEF step
  <2> QED BY <1>1, RecursionExists
<1>3. ASSUME NEW i \in 1..n PROVE f[i] = LinkTo(Free(list, f, i))
  <2>1. i - 1 \in Nat /\ \A j \in 1..i - 1 : f[j] \in Nat
    BY <1>2
  <2>2. Before(f, i) \in Seq(Nat) /\ Len(Before(f, i)) = i - 1
    BY <2>1 DEF Before
  <2>3. f[i] = step[Before(f, i)]
    BY <1>2 DEF Recurs
  <2>4. f[i] = LinkTo(Free(list, Before(f, i), Len(Before(f, i)) + 1))
    BY <2>2, <2>3
  <2>5. Len(Before(f, i)) + 1 = i /\ i \in Nat
    BY <2>2
  <2> HIDE DEF step
  <2> QED BY <2>4, <2>5, FreeIsBefore
<1>4. f = [i \in DOMAIN list |-> LinkTo(Free(list, f, i))]
  BY <1>2, <1>3
<1> DEFINE h == UrlLinks(list)
<1>5. h = [i \in DOMAIN list |-> LinkTo(Free(list, h, i))]
  BY <1>4, Zenon DEF UrlLinks, LinkTo, Free
<1> HIDE DEF h
<1>6. DOMAIN h = 1..n /\ \A i \in 1..n : h[i] = LinkTo(Free(list, h, i))
  BY <1>5
<1> QED BY <1>6 DEF h

(* The responses without a prev pointer are the first of their URLs: if an   *)
(* earlier one has the URL, the last of those is free, since a link to it    *)
(* would come from a later one.                                              *)
LEMMA EntriesAreFirst ==
  ASSUME NEW n \in Nat, NEW list, DOMAIN list = 1..n, NEW i
  PROVE  i \in Entries(UrlLinks(list))
           <=> i \in 1..n /\ \A j \in 1..i - 1 : list[j].url # list[i].url
<1> DEFINE links == UrlLinks(list)
           same == {j \in 1..i - 1 : list[j].url = list[i].url}
<1>1. DOMAIN links = 1..n /\ \A k \in 1..n : links[k] = LinkTo(Free(list, links, k))
  BY UrlLinksEquation
<1> HIDE DEF links
<1>2. ASSUME NEW k \in 1..n
      PROVE  /\ links[k] = 0 <=> Free(list, links, k) = {}
             /\ links[k] # 0 => links[k] \in Free(list, links, k)
  <2>1. Free(list, links, k) \in SUBSET (1..k - 1) /\ k \in Nat
    BY FreeType
  <2>2. 0 \notin Free(list, links, k)
    BY <2>1
  <2> QED BY <1>1, <2>1, <2>2, LinkToType
<1>3. i \in Entries(links) <=> i \in 1..n /\ Free(list, links, i) = {}
  BY <1>1, <1>2 DEF Entries
<1>4. ASSUME i \in 1..n, Free(list, links, i) = {}, same # {} PROVE FALSE
  <2>1. i \in Nat /\ same \in SUBSET (0..i)
    BY <1>4
  <2>2. PICK j \in same : \A k \in same : j >= k
    <3> HIDE DEF same
    <3> QED BY <1>4, <2>1, GreatestNatural
  <2>3. PICK k \in j + 1..i - 1 : links[k] = j
    BY <1>4, <2>2 DEF Free
  <2>4. k \in 1..n /\ k \in 1..i - 1 /\ k > j /\ j # 0
    BY <1>4, <2>2, <2>3
  <2>5. list[k].url = list[j].url
    BY <1>2, <2>3, <2>4 DEF Free
  <2>6. k \in same
    BY <2>2, <2>4, <2>5
  <2>7. j >= k /\ j \in Nat /\ k \in Nat
    BY <2>2, <2>4, <2>6
  <2> QED BY <2>4, <2>7
<1>5. ASSUME same = {} PROVE Free(list, links, i) = {}
  BY <1>5 DEF Free
<1> QED BY <1>3, <1>4, <1>5 DEF links

(* A row that matches comes from a stored response that has the hash.        *)
LEMMA MatchingRowHasResponse ==
  ASSUME Snapshot, NEW q, NEW h \in MatchingRows(q)
  PROVE  /\ ResponseAt(h) \in byTime
         /\ Found(ResponseAt(h), q)
         /\ h = [algo |-> q.algo, hash |-> Truncated(Digest(ResponseAt(h), q.algo)),
                 time |-> ResponseAt(h).time, id |-> ResponseAt(h).id]
<1>1. h \in byHash /\ h.algo = q.algo /\ Matches(ResponseAt(h), q)
  BY DEF MatchingRows, IndexRows
<1>2. PICK r \in byTime : h \in HashRows(r)
  BY <1>1 DEF Snapshot, TablesAgree
<1>3. /\ Digest(r, q.algo) # <<>>
      /\ h = [algo |-> q.algo, hash |-> Truncated(Digest(r, q.algo)),
              time |-> r.time, id |-> r.id]
  BY <1>1, <1>2 DEF HashRows
<1>4. ResponseAt(h) = r
  <2>1. SameKey(r, h) BY <1>3 DEF SameKey
  <2> QED BY <2>1, ResponseOfRow DEF Snapshot
<1> QED BY <1>1, <1>3, <1>4 DEF Found

(* A stored response that has the hash has a row that matches.               *)
LEMMA FoundHasMatchingRow ==
  ASSUME StoreAssumption, Snapshot, NEW q \in Queries, NEW r \in byTime, Found(r, q)
  PROVE  \E h \in MatchingRows(q) : ResponseAt(h) = r
<1> DEFINE d == Digest(r, q.algo)
           h == [algo |-> q.algo, hash |-> Truncated(d), time |-> r.time, id |-> r.id]
           depth == IF Len(q.hash) < IndexLen THEN Len(q.hash) ELSE IndexLen
<1>1. q.algo \in Algos /\ q.hash \in Seq(Nat) /\ IndexLen \in Nat
  BY DEF StoreAssumption, Bytes
<1>2. d \in Seq(Nat) /\ d # <<>> /\ Len(d) >= IndexLen
  BY <1>1 DEF Found, Snapshot, TypeOK, Responses, StoreAssumption, Bytes, Digest
<1>3. h \in byHash
  <2>1. h \in HashRows(r)
    BY <1>1, <1>2 DEF HashRows
  <2> QED BY <2>1 DEF Snapshot, TablesAgree
<1>4. IsPrefix(q.hash, d)
  BY DEF Found, Matches
<1> HIDE DEF d
<1>5. /\ Len(q.hash) \in Nat /\ Len(d) \in Nat /\ depth \in Nat
      /\ depth <= Len(q.hash) /\ depth <= IndexLen
      /\ Len(q.hash) <= Len(d)
  BY <1>1, <1>2, <1>4, LenProperties DEF IsPrefix
<1>6. IsPrefix(SubSeq(q.hash, 1, depth), Truncated(d))
  <2> HIDE DEF depth
  <2>1. /\ SubSeq(q.hash, 1, depth) \in Seq(Nat) /\ Len(SubSeq(q.hash, 1, depth)) = depth
        /\ \A i \in 1..depth : SubSeq(q.hash, 1, depth)[i] = q.hash[i]
    BY <1>1, <1>5, SubSeqProperties
  <2>2. /\ Truncated(d) \in Seq(Nat) /\ Len(Truncated(d)) = IndexLen
        /\ \A i \in 1..IndexLen : Truncated(d)[i] = d[i]
    BY <1>1, <1>2, <1>5, SubSeqProperties DEF Truncated
  <2>3. ASSUME NEW i \in 1..depth PROVE q.hash[i] = d[i]
    <3>1. \A j \in 1..Len(q.hash) : q.hash[j] = d[j]
      BY <1>1, <1>2, <1>4, PrefixElements
    <3>2. i \in 1..Len(q.hash)
      BY <1>5
    <3> QED BY <3>1, <3>2
  <2>4. ASSUME NEW i \in 1..depth PROVE SubSeq(q.hash, 1, depth)[i] = Truncated(d)[i]
    <3>1. i \in 1..IndexLen
      BY <1>1, <1>5
    <3> QED BY <2>1, <2>2, <2>3, <3>1
  <2> HIDE DEF Truncated
  <2> QED BY <1>1, <1>5, <2>1, <2>2, <2>4, ElementsPrefix
<1>7. h \in IndexRows(q)
  BY <1>3, <1>6 DEF IndexRows
<1>8. ResponseAt(h) = r
  <2>1. SameKey(r, h) BY DEF SameKey
  <2> QED BY <2>1, ResponseOfRow DEF Snapshot
<1>9. h \in MatchingRows(q)
  <2>1. Matches(r, q) BY DEF Found
  <2> HIDE DEF h
  <2> QED BY <1>7, <1>8, <2>1 DEF MatchingRows
<1> QED BY <1>8, <1>9

(* The rows that match a query can be listed by hash and time.               *)
LEMMA MatchingRowsAreKeyed ==
  ASSUME StoreAssumption, Snapshot, NEW q \in Queries
  PROVE  HashKeyed(MatchingRows(q))
<1> DEFINE row(r) == [algo |-> q.algo, hash |-> Truncated(Digest(r, q.algo)),
                      time |-> r.time, id |-> r.id]
           f == [r \in byTime |-> row(r)]
           T == {f[r] : r \in byTime}
<1>1. IsFiniteSet(T)
  <2>1. f \in Surjection(byTime, T)
    BY DEF Surjection
  <2>2. IsFiniteSet(byTime)
    BY DEF Snapshot
  <2> HIDE DEF f, T
  <2> QED BY <2>1, <2>2, FS_Surjection
<1>2. MatchingRows(q) \in SUBSET T
  BY MatchingRowHasResponse
<1>3. IsFiniteSet(MatchingRows(q))
  <2> HIDE DEF T
  <2> QED BY <1>1, <1>2, FS_Subset
<1>4. ASSUME NEW h \in MatchingRows(q) PROVE HasKey(h) /\ h.hash \in Seq(Nat)
  BY DEF MatchingRows, IndexRows, Snapshot, TypeOK, HasKey, StoreAssumption, Bytes
<1>5. ASSUME NEW h \in MatchingRows(q), NEW g \in MatchingRows(q), SameKey(h, g)
      PROVE  h = g
  <2>1. SameKey(ResponseAt(h), ResponseAt(g)) /\ ResponseAt(h) \in byTime
        /\ ResponseAt(g) \in byTime
    BY <1>5, MatchingRowHasResponse DEF SameKey
  <2>2. ResponseAt(h) = ResponseAt(g)
    BY <2>1 DEF Snapshot, TablesAgree
  <2>3. /\ h = row(ResponseAt(h))
        /\ g = row(ResponseAt(g))
    BY MatchingRowHasResponse
  <2> HIDE DEF row
  <2> QED BY <2>2, <2>3
<1> QED BY <1>3, <1>4, <1>5 DEF HashKeyed, Keyed

(* Rows that match a query of the length of the index have one hash.         *)
LEMMA FullQueryHasOneHash ==
  ASSUME StoreAssumption, Snapshot, NEW q \in FullQueries,
         NEW h \in MatchingRows(q), NEW g \in MatchingRows(q)
  PROVE  h.hash = g.hash
<1>1. /\ q.algo \in Algos /\ q.hash \in Seq(Nat) /\ IndexLen \in Nat
      /\ Len(q.hash) \in Nat /\ Len(q.hash) >= IndexLen
  BY LenProperties DEF FullQueries, StoreAssumption, Bytes
<1>2. ASSUME NEW x \in MatchingRows(q) PROVE x.hash = SubSeq(q.hash, 1, IndexLen)
  <2> DEFINE d == Digest(ResponseAt(x), q.algo)
  <2>1. /\ ResponseAt(x) \in byTime /\ Found(ResponseAt(x), q)
        /\ x.hash = Truncated(d)
    BY MatchingRowHasResponse
  <2>2. d \in Seq(Nat) /\ IsPrefix(q.hash, d)
    BY <1>1, <2>1
       DEF Found, Matches, Snapshot, TypeOK, Responses, StoreAssumption, Bytes, Digest
  <2> HIDE DEF d
  <2>3. Len(q.hash) <= Len(d) /\ \A i \in 1..Len(q.hash) : q.hash[i] = d[i]
    BY <1>1, <2>2, PrefixElements
  <2>4. Len(d) \in Nat /\ IndexLen <= Len(d)
    BY <1>1, <2>2, <2>3, LenProperties
  <2>5. /\ SubSeq(d, 1, IndexLen) \in Seq(Nat) /\ Len(SubSeq(d, 1, IndexLen)) = IndexLen
        /\ \A i \in 1..IndexLen : SubSeq(d, 1, IndexLen)[i] = d[i]
    BY <1>1, <2>2, <2>4, SubSeqProperties
  <2>6. /\ SubSeq(q.hash, 1, IndexLen) \in Seq(Nat)
        /\ Len(SubSeq(q.hash, 1, IndexLen)) = IndexLen
        /\ \A i \in 1..IndexLen : SubSeq(q.hash, 1, IndexLen)[i] = q.hash[i]
    BY <1>1, SubSeqProperties
  <2>7. \A i \in 1..IndexLen : SubSeq(d, 1, IndexLen)[i] = SubSeq(q.hash, 1, IndexLen)[i]
    BY <1>1, <2>3, <2>5, <2>6
  <2>8. SubSeq(d, 1, IndexLen) = SubSeq(q.hash, 1, IndexLen)
    BY <2>5, <2>6, <2>7, SeqEqual
  <2> QED BY <2>1, <2>8 DEF Truncated
<1> QED BY <1>2

(* What hx_get_sources would return without a limit.                         *)
AllSources(q) == ResponsesAt(Listing(MatchingRows(q), RowAbove))

(* It has all the responses that have the hash and no others, and newest     *)
(* first when the query is as long as the index.                             *)
LEMMA AllSourcesAre ==
  ASSUME StoreAssumption, Snapshot, NEW q \in Queries
  PROVE  /\ AllSources(q) \in Seq(byTime)
         /\ \A i \in DOMAIN AllSources(q) : Found(AllSources(q)[i], q)
         /\ \A r \in byTime :
              Found(r, q) => \E i \in DOMAIN AllSources(q) : AllSources(q)[i] = r
         /\ q \in FullQueries => NewestFirst(AllSources(q))
<1> DEFINE rows == Listing(MatchingRows(q), RowAbove)
           all == AllSources(q)
<1>1. Enumerates(rows, MatchingRows(q)) /\ RowsDescend(rows)
  BY MatchingRowsAreKeyed, ListedByHash
<1> HIDE DEF rows
<1>2. /\ Len(rows) \in Nat /\ DOMAIN rows = 1..Len(rows)
      /\ \A i \in DOMAIN rows : rows[i] \in MatchingRows(q)
  BY <1>1, LenProperties, ElementOfSeq DEF Enumerates
<1>3. all = [i \in DOMAIN rows |-> ResponseAt(rows[i])]
  BY DEF AllSources, ResponsesAt, rows
<1> HIDE DEF all
<1>4. \A i \in DOMAIN rows : all[i] \in byTime /\ Found(all[i], q)
  BY <1>2, <1>3, MatchingRowHasResponse
<1>5. all \in Seq(byTime)
  BY <1>2, <1>3, <1>4
<1>6. ASSUME NEW r \in byTime, Found(r, q)
      PROVE  \E i \in DOMAIN all : all[i] = r
  <2>1. PICK h \in MatchingRows(q) : ResponseAt(h) = r
    BY <1>6, FoundHasMatchingRow
  <2>2. PICK i \in DOMAIN rows : rows[i] = h
    BY <1>1 DEF Enumerates
  <2> QED BY <1>3, <2>1, <2>2
<1>7. ASSUME q \in FullQueries, NEW i \in DOMAIN all, NEW j \in DOMAIN all, i < j
      PROVE  Newer(all[i], all[j])
  <2>1. /\ i \in DOMAIN rows /\ j \in DOMAIN rows
        /\ rows[i] \in MatchingRows(q) /\ rows[j] \in MatchingRows(q)
    BY <1>2, <1>3
  <2>2. rows[i].hash = rows[j].hash
    BY <1>7, <2>1, FullQueryHasOneHash
  <2>3. rows[i].hash \in Seq(Nat)
    BY <2>1, MatchingRowsAreKeyed DEF HashKeyed
  <2>4. RowAbove(rows[i], rows[j])
    BY <1>1, <1>7, <2>1 DEF RowsDescend
  <2>5. Newer(rows[i], rows[j])
    BY <2>2, <2>3, <2>4, HashAboveIrreflexive DEF RowAbove
  <2>6. /\ rows[i].time = all[i].time /\ rows[i].id = all[i].id
        /\ rows[j].time = all[j].time /\ rows[j].id = all[j].id
    BY <1>3, <2>1, MatchingRowHasResponse
  <2> QED BY <2>5, <2>6 DEF Newer, NotOlder, SameKey
<1> QED BY <1>3, <1>4, <1>5, <1>6, <1>7 DEF all, NewestFirst

(* The list is the beginning of that, all of it when the rows suffice.       *)
LEMMA SourceListIs ==
  ASSUME StoreAssumption, Snapshot, NEW q \in Queries
  PROVE  LET list == hx_get_sources(q)
             all == AllSources(q)
         IN /\ list \in Seq(byTime)
            /\ Len(list) \in Nat /\ DOMAIN list = 1..Len(list)
            /\ Len(all) \in Nat /\ DOMAIN all = 1..Len(all)
            /\ \A i \in DOMAIN list : i \in DOMAIN all /\ list[i] = all[i]
            /\ Len(list) < Rows => Len(list) = Len(all)
<1>1. hx_get_sources(q) = FirstRows(AllSources(q))
  BY DEF hx_get_sources, AllSources
<1>2. AllSources(q) \in Seq(byTime)
  BY AllSourcesAre
<1>3. /\ Len(AllSources(q)) \in Nat
      /\ DOMAIN AllSources(q) = 1..Len(AllSources(q)) /\ Rows \in Nat
  BY <1>2, LenProperties DEF StoreAssumption
<1>4. /\ hx_get_sources(q) \in Seq(byTime)
      /\ Len(hx_get_sources(q)) \in Nat
      /\ DOMAIN hx_get_sources(q) = 1..Len(hx_get_sources(q))
  BY <1>1, <1>2, FirstRowsAre, LenProperties
<1>5. \A i \in DOMAIN hx_get_sources(q) :
        i \in DOMAIN AllSources(q) /\ hx_get_sources(q)[i] = AllSources(q)[i]
  BY <1>1, <1>2, FirstRowsAre
<1>6. Len(hx_get_sources(q)) = IF Len(AllSources(q)) < Rows THEN Len(AllSources(q)) ELSE Rows
  BY <1>1, <1>2, FirstRowsAre
<1>7. Len(hx_get_sources(q)) < Rows => Len(hx_get_sources(q)) = Len(AllSources(q))
  <2> DEFINE a == Len(hx_get_sources(q))
             b == Len(AllSources(q))
  <2>1. a = (IF b < Rows THEN b ELSE Rows) /\ b \in Nat /\ Rows \in Nat
    BY <1>3, <1>6
  <2> HIDE DEF a, b
  <2>2. a < Rows => a = b
    BY <2>1
  <2> QED BY <2>2 DEF a, b
<1> QED BY <1>3, <1>4, <1>5, <1>7, Zenon

(* An entry stands at the first place of its URL.                            *)
LEMMA SourceEntries ==
  ASSUME StoreAssumption, Snapshot, NEW q \in Queries, NEW i
  PROVE  LET list == hx_get_sources(q)
         IN i \in Entries(UrlLinks(list))
              <=> i \in 1..Len(list) /\ \A j \in 1..i - 1 : list[j].url # list[i].url
<1>1. Len(hx_get_sources(q)) \in Nat /\ DOMAIN hx_get_sources(q) = 1..Len(hx_get_sources(q))
  BY SourceListIs
<1> QED BY <1>1, EntriesAreFirst

(* Every URL of the list has an entry.                                       *)
LEMMA ListedUrlHasEntry ==
  ASSUME StoreAssumption, Snapshot, NEW q \in Queries,
         NEW m \in DOMAIN hx_get_sources(q)
  PROVE  \E i \in Entries(UrlLinks(hx_get_sources(q))) :
           i <= m /\ hx_get_sources(q)[i].url = hx_get_sources(q)[m].url
<1> DEFINE list == hx_get_sources(q)
           same == {j \in 1..m : list[j].url = list[m].url}
<1>1. Len(list) \in Nat /\ DOMAIN list = 1..Len(list)
  BY SourceListIs
<1> HIDE DEF list
<1>2. m \in 1..Len(list)
  BY <1>1 DEF list
<1>3. same \in SUBSET Nat /\ m \in same
  BY <1>1, <1>2
<1>4. PICK i \in same : \A j \in same : i <= j
  <2> HIDE DEF same
  <2> QED BY <1>3, LeastNatural
<1>5. i \in 1..Len(list) /\ i <= m /\ i \in Nat /\ list[i].url = list[m].url
  BY <1>1, <1>2
<1>6. ASSUME NEW j \in 1..i - 1 PROVE list[j].url # list[i].url
  <2>1. j \in 1..m /\ ~(i <= j)
    BY <1>2, <1>5
  <2>2. j \notin same
    BY <1>4, <2>1
  <2> QED BY <1>5, <2>1, <2>2
<1>7. i \in Entries(UrlLinks(list))
  BY <1>5, <1>6, SourceEntries DEF list
<1> QED BY <1>5, <1>7 DEF list

(* The page of sources is exact.                                             *)
LEMMA SnapshotImpliesSourcePage ==
  ASSUME StoreAssumption, Snapshot, NEW q \in Queries
  PROVE  LET list == hx_get_sources(q)
             shown == Entries(UrlLinks(list))
             had == {r.url : r \in {x \in byTime : Found(x, q)}}
             urls == {list[i].url : i \in shown}
         IN /\ \A i, j \in shown : list[i].url = list[j].url => i = j
            /\ urls \subseteq had
            /\ Len(list) < Rows => urls = had
<1> DEFINE list == hx_get_sources(q)
           all == AllSources(q)
           shown == Entries(UrlLinks(list))
           had == {r.url : r \in {x \in byTime : Found(x, q)}}
           urls == {list[i].url : i \in shown}
<1>1. /\ Len(list) \in Nat /\ DOMAIN list = 1..Len(list)
      /\ Len(all) \in Nat /\ DOMAIN all = 1..Len(all)
      /\ \A i \in DOMAIN list : i \in DOMAIN all /\ list[i] = all[i]
      /\ Len(list) < Rows => Len(list) = Len(all)
  BY SourceListIs
<1>2. \A i : i \in shown <=>
               i \in 1..Len(list) /\ \A j \in 1..i - 1 : list[j].url # list[i].url
  BY SourceEntries
<1>3. \A m \in DOMAIN list : \E i \in shown : list[i].url = list[m].url
  BY ListedUrlHasEntry
<1>4. /\ all \in Seq(byTime)
      /\ \A i \in DOMAIN all : Found(all[i], q)
      /\ \A r \in byTime : Found(r, q) => \E i \in DOMAIN all : all[i] = r
  BY AllSourcesAre
<1> HIDE DEF list, all, shown
<1>5. ASSUME NEW i \in shown, NEW j \in shown, list[i].url = list[j].url
      PROVE  i = j
  <2>1. i \in 1..Len(list) /\ j \in 1..Len(list)
    BY <1>2
  <2>2. i \in Nat /\ j \in Nat /\ i > 0 /\ j > 0
    BY <2>1
  <2>3. ~(i < j)
    <3>1. i < j => i \in 1..j - 1 BY <2>2
    <3> QED BY <1>2, <1>5, <3>1
  <2>4. ~(j < i)
    <3>1. j < i => j \in 1..i - 1 BY <2>2
    <3> QED BY <1>2, <1>5, <3>1
  <2> QED BY <2>2, <2>3, <2>4
<1>6. ASSUME NEW i \in shown PROVE list[i].url \in had
  <2>1. i \in DOMAIN list
    BY <1>1, <1>2
  <2>2. i \in DOMAIN all /\ list[i] = all[i]
    BY <1>1, <2>1
  <2>3. all[i] \in byTime
    BY <1>4, <2>2, <1>1, ElementOfSeq
  <2> QED BY <1>4, <2>2, <2>3
<1>7. ASSUME Len(list) < Rows, NEW r \in byTime, Found(r, q) PROVE r.url \in urls
  <2>1. PICK m \in DOMAIN all : all[m] = r
    BY <1>4, <1>7
  <2>2. m \in DOMAIN list /\ list[m] = r
    BY <1>1, <1>7, <2>1
  <2> QED BY <1>3, <2>2
<1>8. urls \subseteq had
  BY <1>6
<1>9. Len(list) < Rows => urls = had
  BY <1>7, <1>8
<1> QED BY <1>5, <1>8, <1>9 DEF list, shown

(* hx_get_sources with res_merge_common_urls: the page of sources shows      *)
(* every URL that had the hash, once, unless the rows run out.               *)
THEOREM SourcePageCorrect == Spec => []SourcePageIsExact
<1>1. Snapshot => SourcePageIsExact
  BY SnapshotImpliesSourcePage, StoreAssumption DEF SourcePageIsExact
<1> QED BY <1>1, SnapshotCorrect, PTL

(* An entry is not older than any response of its URL that has the hash:     *)
(* such a response is in the whole list, and not before the entry.           *)
LEMMA SnapshotImpliesLastSeen ==
  ASSUME StoreAssumption, Snapshot, NEW q \in FullQueries,
         NEW i \in Entries(UrlLinks(hx_get_sources(q))),
         NEW r \in byTime, r.url = hx_get_sources(q)[i].url, Found(r, q)
  PROVE  hx_get_sources(q)[i].time >= r.time
<1> DEFINE list == hx_get_sources(q)
           all == AllSources(q)
<1>1. q \in Queries
  BY DEF FullQueries
<1>2. /\ Len(list) \in Nat /\ DOMAIN list = 1..Len(list)
      /\ Len(all) \in Nat /\ DOMAIN all = 1..Len(all)
      /\ \A k \in DOMAIN list : k \in DOMAIN all /\ list[k] = all[k]
  BY <1>1, SourceListIs
<1>3. i \in 1..Len(list) /\ \A j \in 1..i - 1 : list[j].url # list[i].url
  BY <1>1, SourceEntries
<1>4. all \in Seq(byTime) /\ NewestFirst(all)
  BY <1>1, AllSourcesAre
<1>5. PICK m \in DOMAIN all : all[m] = r
  BY <1>1, AllSourcesAre
<1> HIDE DEF list, all
<1>6. r.url = list[i].url
  BY DEF list
<1>7. m \in Nat /\ i \in Nat /\ i \in DOMAIN all /\ list[i] = all[i]
  BY <1>2, <1>3, <1>5
<1>8. ~(m < i)
  <2> SUFFICES ASSUME m < i PROVE FALSE
    OBVIOUS
  <2>1. m \in 1..i - 1 /\ m \in DOMAIN list
    BY <1>2, <1>3, <1>5, <1>7
  <2>2. list[m] = r
    BY <1>2, <1>5, <2>1
  <2> QED BY <1>3, <1>6, <2>1, <2>2
<1>9. all[i] = r \/ Newer(all[i], r)
  BY <1>4, <1>5, <1>7, <1>8 DEF NewestFirst
<1>10. all[i] \in byTime
  BY <1>2, <1>4, <1>7, ElementOfSeq
<1>11. HasKey(all[i]) /\ HasKey(r)
  BY <1>10, ResponsesHaveKeys DEF Keyed
<1>12. all[i].time >= r.time
  BY <1>9, <1>11 DEF Newer, NotOlder, HasKey
<1> QED BY <1>7, <1>12 DEF list

(* hx_get_sources: the date of an entry of the page of sources, the "last    *)
(* seen" of page_sources.c:24-26, is the last at which its URL had the hash. *)
THEOREM LastSeenCorrect == Spec => []LastSeenIsLast
<1>1. Snapshot => LastSeenIsLast
  BY SnapshotImpliesLastSeen, StoreAssumption DEF LastSeenIsLast
<1> QED BY <1>1, SnapshotCorrect, PTL

(* The flag says that no response of the resource is newer.                  *)
LEMMA ActiveIsNewest ==
  ASSUME Snapshot, NEW r \in byTime
  PROVE  Active(r) <=> \A x \in byTime : SurtOf[x.url] = SurtOf[r.url] => NotOlder(r, x)
<1> DEFINE s == SurtOf[r.url]
<1>1. SurtRow(r) \in SurtRows(s)
  BY DEF Snapshot, TablesAgree, SurtRows, SurtRow
<1>2. \A x \in byTime : NotOlder(SurtRow(r), SurtRow(x)) <=> NotOlder(r, x)
  BY DEF NotOlder, SurtRow
<1>3. \A x \in byTime : SurtOf[x.url] = s => SurtRow(x) \in SurtRows(s)
  BY DEF Snapshot, TablesAgree, SurtRows, SurtRow
<1>4. \A row \in SurtRows(s) : \E x \in byTime : row = SurtRow(x) /\ SurtOf[x.url] = s
  BY DEF Snapshot, TablesAgree, SurtRows, SurtRow
<1> HIDE DEF s
<1>5. Active(r) <=> \A row \in SurtRows(s) : NotOlder(SurtRow(r), row)
  BY <1>1 DEF Active, IsLatest, s
<1>6. Active(r) <=> \A x \in byTime : SurtOf[x.url] = s => NotOlder(r, x)
  BY <1>2, <1>3, <1>4, <1>5
<1> QED BY <1>6 DEF s

(* An entry with the flag is the newest of its resource, and the newest of a *)
(* resource, if it has the hash, is the first of its URL in the list.        *)
LEMMA SnapshotImpliesActive ==
  ASSUME StoreAssumption, Snapshot, NEW q \in FullQueries
  PROVE  LET list == hx_get_sources(q)
             active == {list[i] : i \in {k \in Entries(UrlLinks(list)) : Active(list[k])}}
             newest == {r \in byTime : \A x \in byTime :
                                         SurtOf[x.url] = SurtOf[r.url] => NotOlder(r, x)}
         IN /\ active \subseteq newest
            /\ Len(list) < Rows => {r \in newest : Found(r, q)} \subseteq active
<1> DEFINE list == hx_get_sources(q)
           all == AllSources(q)
           shown == Entries(UrlLinks(list))
           active == {list[i] : i \in {k \in shown : Active(list[k])}}
           newest == {r \in byTime : \A x \in byTime :
                                       SurtOf[x.url] = SurtOf[r.url] => NotOlder(r, x)}
<1>1. q \in Queries
  BY DEF FullQueries
<1>2. /\ list \in Seq(byTime)
      /\ Len(list) \in Nat /\ DOMAIN list = 1..Len(list)
      /\ Len(all) \in Nat /\ DOMAIN all = 1..Len(all)
      /\ \A k \in DOMAIN list : k \in DOMAIN all /\ list[k] = all[k]
      /\ Len(list) < Rows => Len(list) = Len(all)
  BY <1>1, SourceListIs
<1>3. \A i : i \in shown <=>
               i \in 1..Len(list) /\ \A j \in 1..i - 1 : list[j].url # list[i].url
  BY <1>1, SourceEntries
<1>4. /\ NewestFirst(all)
      /\ \A r \in byTime : Found(r, q) => \E i \in DOMAIN all : all[i] = r
  BY <1>1, AllSourcesAre
<1> HIDE DEF list, all, shown
<1>5. ASSUME NEW i \in shown, Active(list[i]) PROVE list[i] \in newest
  <2>1. list[i] \in byTime
    BY <1>2, <1>3, ElementOfSeq
  <2> QED BY <1>5, <2>1, ActiveIsNewest
<1>6. ASSUME Len(list) < Rows, NEW r \in newest, Found(r, q) PROVE r \in active
  <2>1. r \in byTime
    OBVIOUS
  <2>2. PICK m \in DOMAIN all : all[m] = r
    BY <1>4, <1>6, <2>1
  <2>3. m \in DOMAIN list /\ m \in 1..Len(list) /\ list[m] = r
    BY <1>2, <1>6, <2>2
  <2>4. ASSUME NEW j \in 1..m - 1, list[j].url = r.url PROVE FALSE
    <3>1. j \in 1..Len(list) /\ j < m
      <4>1. Len(list) \in Nat BY <1>2
      <4>2. m \in 1..Len(list) BY <2>3
      <4> QED BY <4>1, <4>2
    <3>2. list[j] \in byTime
      BY <1>2, <3>1, ElementOfSeq
    <3>3. j \in DOMAIN all /\ list[j] = all[j]
      BY <1>2, <3>1
    <3>4. Newer(list[j], r)
      BY <1>4, <2>2, <3>1, <3>3 DEF NewestFirst
    <3>5. NotOlder(r, list[j])
      BY <2>4, <3>2
    <3>6. HasKey(r) /\ HasKey(list[j])
      BY <2>1, <3>2, ResponsesHaveKeys DEF Keyed
    <3> QED BY <3>4, <3>5, <3>6 DEF Newer, NotOlder, SameKey, HasKey
  <2>5. m \in shown
    BY <1>3, <2>3, <2>4
  <2>6. Active(r)
    BY <2>1, ActiveIsNewest
  <2> QED BY <2>3, <2>5, <2>6
<1> QED BY <1>5, <1>6 DEF list, shown

(* HX_RES_LATEST: an active entry says what the resource is now, and a       *)
(* resource that has the hash now has one, unless the rows run out.          *)
THEOREM ActiveCorrect == Spec => []ActiveIsCurrent
<1>1. Snapshot => ActiveIsCurrent
  BY SnapshotImpliesActive, StoreAssumption DEF ActiveIsCurrent
<1> QED BY <1>1, SnapshotCorrect, PTL

(* ------------------------------------------------------------------------ *)
(* The index page.                                                           *)

(* One round of the loop of hx_get_recent.                                   *)
Extended(out, r) ==
  IF Len(out) < Rows /\ Listable(r, out) THEN Append(out, r) ELSE out

(* A round adds a response or nothing.                                       *)
LEMMA ExtendedType ==
  ASSUME NEW S, NEW out \in Seq(S), NEW r \in S
  PROVE  Extended(out, r) \in Seq(S)
BY DEF Extended

(* The loop of hx_get_recent is what the recursion says.                     *)
LEMMA RecentEquation ==
  ASSUME NEW n \in Nat, NEW S, NEW list \in Seq(S), Len(list) = n
  PROVE  /\ RecentOf(list)[0] = <<>>
         /\ \A k \in 1..n : RecentOf(list)[k] = Extended(RecentOf(list)[k - 1], list[k])
<1> DEFINE step == [p \in (1..n) \X Seq(S) |-> Extended(p[2], list[p[1]])]
<1>1. step \in [(1..n) \X Seq(S) -> Seq(S)]
  <2>1. \A k \in 1..n : list[k] \in S
    BY ElementOfSeq
  <2> QED BY <2>1, ExtendedType
<1>2. <<>> \in Seq(S)
  OBVIOUS
<1>3. PICK f \in [0..n -> Seq(S)] : Iterates(f, <<>>, step, n)
  <2> HIDE DEF step
  <2> QED BY <1>1, <1>2, IterationExists
<1>4. f = [k \in 0..n |-> IF k = 0 THEN <<>> ELSE step[<<k, f[k - 1]>>]]
  BY <1>3 DEF Iterates
<1>5. ASSUME NEW k \in 0..n, k # 0
      PROVE  step[<<k, f[k - 1]>>] = Extended(f[k - 1], list[k])
  <2>1. k \in 1..n /\ k - 1 \in 0..n
    BY <1>5
  <2> QED BY <2>1
<1> HIDE DEF step
<1>6. f = [k \in 0..Len(list) |-> IF k = 0 THEN <<>> ELSE Extended(f[k - 1], list[k])]
  BY <1>4, <1>5
<1> DEFINE h == RecentOf(list)
<1>7. h = [k \in 0..Len(list) |-> IF k = 0 THEN <<>> ELSE Extended(h[k - 1], list[k])]
  BY <1>6, Zenon DEF RecentOf, Extended
<1> HIDE DEF h
<1>8. h[0] = <<>> /\ \A k \in 1..n : h[k] = Extended(h[k - 1], list[k])
  BY <1>7
<1> QED BY <1>8 DEF h

(* What the loop has found after k responses: some of those, and of every    *)
(* success among them its URL, or enough others.                             *)
Represented(out, r) ==
  \/ \E i \in DOMAIN out : out[i].url = r.url /\ NotOlder(out[i], r)
  \/ /\ Len(out) = Rows
     /\ \A i \in DOMAIN out : out[i].url # r.url /\ NotOlder(out[i], r)

FoundAfter(out, list, k) ==
  /\ \A i \in DOMAIN out : \E m \in 1..k : out[i] = list[m]
  /\ Len(out) <= Rows
  /\ \A m \in 1..k : list[m].outcome.ok => Represented(out, list[m])

(* A round keeps what has been found and accounts for one more response.     *)
LEMMA ExtendedFinds ==
  ASSUME StoreAssumption, NEW S, \A x \in S : HasKey(x),
         NEW list \in Seq(S), NewestFirst(list),
         NEW k \in Nat, k + 1 \in DOMAIN list,
         NEW out \in Seq(S), FoundAfter(out, list, k)
  PROVE  FoundAfter(Extended(out, list[k + 1]), list, k + 1)
<1> DEFINE r == list[k + 1]
<1>1. /\ Len(list) \in Nat /\ DOMAIN list = 1..Len(list) /\ k < Len(list)
      /\ Len(out) \in Nat /\ DOMAIN out = 1..Len(out) /\ Rows \in Nat
  BY LenProperties DEF StoreAssumption
<1>2. r \in S /\ HasKey(r)
  BY ElementOfSeq
<1>3. ASSUME NEW i \in DOMAIN out PROVE NotOlder(out[i], r)
  <2>1. PICK m \in 1..k : out[i] = list[m]
    BY DEF FoundAfter
  <2>2. m \in DOMAIN list /\ m < k + 1
    BY <1>1
  <2> QED BY <2>1, <2>2 DEF NewestFirst, Newer
<1> HIDE DEF r
<1>4. CASE Len(out) < Rows /\ Listable(r, out)
  <2> DEFINE next == Append(out, r)
  <2>1. /\ Extended(out, r) = next
        /\ Len(next) = Len(out) + 1 /\ DOMAIN next = 1..Len(out) + 1
        /\ next[Len(out) + 1] = r
        /\ \A i \in DOMAIN out : i \in DOMAIN next /\ next[i] = out[i]
    BY <1>1, <1>2, <1>4 DEF Extended
  <2> HIDE DEF next
  <2>2. ASSUME NEW i \in DOMAIN next PROVE \E m \in 1..k + 1 : next[i] = list[m]
    <3>1. CASE i = Len(out) + 1
      BY <2>1, <3>1 DEF r
    <3>2. CASE i # Len(out) + 1
      <4>1. i \in DOMAIN out
        BY <1>1, <2>1, <3>2
      <4>2. PICK m \in 1..k : out[i] = list[m]
        BY <4>1 DEF FoundAfter
      <4>3. m \in 1..k + 1
        OBVIOUS
      <4> QED BY <2>1, <4>1, <4>2, <4>3
    <3> QED BY <3>1, <3>2
  <2>3. Len(next) <= Rows
    BY <1>1, <1>4, <2>1
  <2>4. ASSUME NEW m \in 1..k + 1, list[m].outcome.ok PROVE Represented(next, list[m])
    <3>1. CASE m = k + 1
      <4>1. NotOlder(r, r)
        BY <1>2 DEF NotOlder, HasKey
      <4>2. Len(out) + 1 \in DOMAIN next
        BY <1>1, <2>1
      <4> QED BY <2>1, <3>1, <4>1, <4>2 DEF Represented, r
    <3>2. CASE m # k + 1
      <4>1. m \in 1..k
        BY <3>2
      <4>2. Represented(out, list[m]) /\ Len(out) # Rows
        BY <1>1, <1>4, <2>4, <4>1 DEF FoundAfter
      <4>3. PICK i \in DOMAIN out : out[i].url = list[m].url /\ NotOlder(out[i], list[m])
        BY <4>2 DEF Represented
      <4> QED BY <2>1, <4>3 DEF Represented
    <3> QED BY <3>1, <3>2
  <2> QED BY <2>1, <2>2, <2>3, <2>4 DEF FoundAfter, r
<1>5. CASE ~(Len(out) < Rows /\ Listable(r, out))
  <2>1. Extended(out, r) = out
    BY <1>5 DEF Extended
  <2>2. ASSUME NEW i \in DOMAIN out PROVE \E m \in 1..k + 1 : out[i] = list[m]
    <3>1. PICK m \in 1..k : out[i] = list[m]
      BY DEF FoundAfter
    <3>2. m \in 1..k + 1
      OBVIOUS
    <3> QED BY <3>1, <3>2
  <2>3. Len(out) <= Rows
    BY DEF FoundAfter
  <2>4. ASSUME NEW m \in 1..k + 1, list[m].outcome.ok PROVE Represented(out, list[m])
    <3>1. CASE m = k + 1
      <4>1. Listed(r, out) => Represented(out, r)
        BY <1>3 DEF Listed, Represented
      <4>2. ~Listed(r, out) => Len(out) = Rows
        <5>1. r.outcome.ok
          BY <2>4, <3>1 DEF r
        <5>2. ~Listed(r, out) => ~(Len(out) < Rows)
          BY <1>5, <5>1 DEF Listable
        <5>3. Len(out) \in Nat /\ Rows \in Nat
          BY <1>1
        <5> QED BY <2>3, <5>2, <5>3
      <4>3. ~Listed(r, out) => Represented(out, r)
        BY <1>3, <4>2 DEF Listed, Represented
      <4> QED BY <3>1, <4>1, <4>3 DEF r
    <3>2. CASE m # k + 1
      <4>1. m \in 1..k
        BY <3>2
      <4> QED BY <2>4, <4>1 DEF FoundAfter
    <3> QED BY <3>1, <3>2
  <2> QED BY <2>1, <2>2, <2>3, <2>4 DEF FoundAfter, r
<1> QED BY <1>4, <1>5

(* So at the end every success is represented.                               *)
LEMMA RecentFinds ==
  ASSUME StoreAssumption, NEW S, \A x \in S : HasKey(x),
         NEW list \in Seq(S), NewestFirst(list)
  PROVE  FoundAfter(RecentOf(list)[Len(list)], list, Len(list))
<1> DEFINE n == Len(list)
           out(k) == RecentOf(list)[k]
           Wrong == {k \in 0..n : ~(out(k) \in Seq(S) /\ FoundAfter(out(k), list, k))}
<1>1. n \in Nat /\ DOMAIN list = 1..n
  BY LenProperties
<1>2. out(0) = <<>> /\ \A k \in 1..n : out(k) = Extended(out(k - 1), list[k])
  BY <1>1, RecentEquation
<1> HIDE DEF out
<1>3. ASSUME Wrong # {} PROVE FALSE
  <2>1. Wrong \in SUBSET Nat
    BY <1>1
  <2>2. PICK k \in Wrong : \A j \in Wrong : k <= j
    <3> HIDE DEF Wrong
    <3> QED BY <1>3, <2>1, LeastNatural
  <2>3. k \in 0..n /\ ~(out(k) \in Seq(S) /\ FoundAfter(out(k), list, k))
    OBVIOUS
  <2>4. k # 0
    <3>1. <<>> \in Seq(S) /\ FoundAfter(<<>>, list, 0)
      BY DEF FoundAfter, StoreAssumption
    <3> QED BY <1>2, <2>3, <3>1
  <2>5. k - 1 \in 0..n /\ k - 1 \in Nat /\ (k - 1) + 1 = k /\ k \in 1..n /\ ~(k <= k - 1)
    BY <1>1, <2>3, <2>4
  <2>6. k - 1 \notin Wrong
    <3> HIDE DEF Wrong
    <3> QED BY <2>2, <2>5
  <2>7. out(k - 1) \in Seq(S) /\ FoundAfter(out(k - 1), list, k - 1)
    BY <2>5, <2>6
  <2>8. list[k] \in S
    BY <1>1, <2>5, ElementOfSeq
  <2>9. out(k) \in Seq(S)
    BY <1>2, <2>5, <2>7, <2>8, ExtendedType
  <2>10. FoundAfter(Extended(out(k - 1), list[(k - 1) + 1]), list, (k - 1) + 1)
    <3> HIDE DEF Wrong
    <3> QED BY <1>1, <2>5, <2>7, ExtendedFinds
  <2> QED BY <1>2, <2>3, <2>5, <2>9, <2>10
<1>4. n \in 0..n
  BY <1>1
<1>5. FoundAfter(out(n), list, n)
  BY <1>3, <1>4
<1> QED BY <1>5 DEF out

(* hx_get_recent: every success is on the index page with its URL, in a      *)
(* response that is not older, unless newer ones fill the page.              *)
THEOREM RecentCorrect == Spec => []RecentIsNewest
<1>1. ASSUME Snapshot PROVE RecentIsNewest
  <2> DEFINE list == Listing(byTime, Newer)
  <2>1. Keyed(byTime) /\ \A x \in byTime : HasKey(x)
    BY <1>1, ResponsesHaveKeys, StoreAssumption DEF Keyed
  <2>2. Enumerates(list, byTime) /\ NewestFirst(list)
    BY <2>1, ListedNewestFirst
  <2> HIDE DEF list
  <2>3. list \in Seq(byTime) /\ DOMAIN list = 1..Len(list)
    BY <2>2, LenProperties DEF Enumerates
  <2>4. FoundAfter(RecentOf(list)[Len(list)], list, Len(list))
    BY <2>1, <2>2, <2>3, RecentFinds, StoreAssumption
  <2>5. hx_get_recent = RecentOf(list)[Len(list)]
    BY DEF hx_get_recent, list
  <2>6. ASSUME NEW r \in byTime, r.outcome.ok PROVE Represented(hx_get_recent, r)
    <3>1. PICK m \in 1..Len(list) : list[m] = r
      BY <2>2, <2>3 DEF Enumerates
    <3> QED BY <2>4, <2>5, <2>6, <3>1 DEF FoundAfter
  <2> QED BY <2>6 DEF RecentIsNewest, Represented
<1> QED BY <1>1, SnapshotCorrect, PTL
=============================================================================
