----------------------------- MODULE ListProofs -----------------------------
(* What the proofs of several components need of numbers, recursions and     *)
(* lists.                                                                    *)
EXTENDS Scan, TLAPS, SequenceTheorems, FunctionTheorems, WellFoundedInduction

(* ------------------------------------------------------------------------ *)
(* Least and greatest numbers, recursion.                                    *)

(* A set of natural numbers has a least one,                                 *)
LEMMA LeastNatural ==
  ASSUME NEW S \in SUBSET Nat, S # {}
  PROVE  \E n \in S : \A m \in S : n <= m
<1>1. PICK n \in S : \A m \in S : ~(<<m, n>> \in OpToRel(<, Nat))
  BY NatLessThanWellFounded, WFMin, Zenon
<1>2. \A m \in S : ~(m < n)
  BY <1>1 DEF OpToRel
<1> QED BY <1>2

(* and a bounded one a greatest.                                             *)
LEMMA GreatestNatural ==
  ASSUME NEW b \in Nat, NEW S \in SUBSET (0..b), S # {}
  PROVE  \E n \in S : \A m \in S : n >= m
<1> DEFINE T == {b - n : n \in S}
<1>1. T \in SUBSET Nat
  <2>1. \A n \in 0..b : b - n \in Nat
    OBVIOUS
  <2> QED BY <2>1
<1>2. T # {}
  OBVIOUS
<1>3. PICK k \in T : \A m \in T : k <= m
  BY <1>1, <1>2, LeastNatural, Zenon
<1>4. PICK n \in S : k = b - n
  OBVIOUS
<1>5. ASSUME NEW m \in S PROVE n >= m
  <2>1. b - n <= b - m
    BY <1>3, <1>4
  <2> QED BY <2>1
<1> QED BY <1>5

(* Induction to a bound, for a set.                                          *)
LEMMA BoundedInduction ==
  ASSUME NEW b \in Nat, NEW S, 0 \in S,
         \A n \in 0..b : n < b /\ n \in S => n + 1 \in S
  PROVE  0..b \subseteq S
<1> DEFINE Bad == {n \in 0..b : n \notin S}
<1>1. SUFFICES ASSUME Bad # {} PROVE FALSE
  OBVIOUS
<1>2. PICK n \in Bad : \A m \in Bad : n <= m
  <2>1. Bad \in SUBSET Nat
    OBVIOUS
  <2> HIDE DEF Bad
  <2> QED BY <1>1, <2>1, LeastNatural
<1>3. n \in 0..b /\ n \notin S /\ n # 0
  OBVIOUS
<1>4. n - 1 \in 0..b /\ n - 1 < b /\ ~(n <= n - 1) /\ (n - 1) + 1 = n
  BY <1>3
<1>5. n - 1 \in S
  <2>1. n - 1 \notin Bad
    <3> HIDE DEF Bad
    <3> QED BY <1>2, <1>4
  <2> QED BY <1>4, <2>1
<1> HIDE DEF Bad
<1> QED BY <1>3, <1>4, <1>5

(* The places of f before i, and f defined by a step from the places before. *)
Before(f, i) == [j \in 1..i - 1 |-> f[j]]

Recurs(f, step, n) == \A i \in 1..n : f[i] = step[Before(f, i)]

(* A recursion over the places of a list has a solution.                     *)
LEMMA RecursionExists ==
  ASSUME NEW n \in Nat, NEW V, NEW step \in [Seq(V) -> V]
  PROVE  \E f \in [1..n -> V] : Recurs(f, step, n)
<1> DEFINE Bad == {k \in Nat : ~\E f \in [1..k -> V] : Recurs(f, step, k)}
<1>1. SUFFICES ASSUME Bad # {} PROVE FALSE
  OBVIOUS
<1>2. PICK k \in Bad : \A m \in Bad : k <= m
  <2>1. Bad \in SUBSET Nat OBVIOUS
  <2> HIDE DEF Bad
  <2> QED BY <1>1, <2>1, LeastNatural
<1>3. k \in Nat /\ k # 0
  <2>1. 0 \notin Bad
    <3> DEFINE e == [i \in 1..0 |-> CHOOSE v \in V : TRUE]
    <3>1. e \in [1..0 -> V] /\ Recurs(e, step, 0) BY DEF Recurs
    <3> QED BY <3>1
  <2> QED BY <2>1
<1>4. k - 1 \in Nat /\ k - 1 \notin Bad
  <2>1. k - 1 \in Nat /\ ~(k <= k - 1)
    BY <1>3
  <2> HIDE DEF Bad
  <2> QED BY <1>2, <2>1
<1>5. PICK f \in [1..k - 1 -> V] : Recurs(f, step, k - 1)
  BY <1>4
<1>6. f \in Seq(V)
  BY <1>4
<1> DEFINE g == [i \in 1..k |-> IF i = k THEN step[f] ELSE f[i]]
<1>7. g \in [1..k -> V]
  BY <1>3, <1>4, <1>5, <1>6
<1>8. ASSUME NEW i \in 1..k PROVE g[i] = step[Before(g, i)]
  <2>1. Before(g, i) = Before(f, i)
    BY <1>3 DEF Before
  <2>2. CASE i = k
    <3>1. Before(f, k) = f BY DEF Before
    <3> QED BY <2>1, <2>2, <3>1
  <2>3. CASE i # k
    <3>1. i \in 1..k - 1 BY <2>3, <1>3
    <3>2. f[i] = step[Before(f, i)] BY <3>1, <1>5 DEF Recurs
    <3> HIDE DEF Bad
    <3> QED BY <2>1, <2>3, <3>2
  <2> QED BY <2>2, <2>3
<1>9. k \notin Bad
  BY <1>7, <1>8 DEF Recurs
<1> QED BY <1>9

(* A recursion over the numbers to n that starts with v and takes a step from *)
(* each to the next.                                                          *)
Iterates(f, v, step, n) ==
  f = [k \in 0..n |-> IF k = 0 THEN v ELSE step[<<k, f[k - 1]>>]]

(* It has a solution.                                                        *)
LEMMA IterationExists ==
  ASSUME NEW n \in Nat, NEW V, NEW v \in V, NEW step \in [(1..n) \X V -> V]
  PROVE  \E f \in [0..n -> V] : Iterates(f, v, step, n)
<1> DEFINE next == [g \in Seq(V) |->
                      IF Len(g) = 0 \/ Len(g) > n THEN v
                      ELSE step[<<Len(g), g[Len(g)]>>]]
<1>1. next \in [Seq(V) -> V]
  <2>1. ASSUME NEW g \in Seq(V), ~(Len(g) = 0 \/ Len(g) > n)
        PROVE  step[<<Len(g), g[Len(g)]>>] \in V
    <3>1. Len(g) \in Nat /\ Len(g) \in 1..Len(g) /\ Len(g) \in 1..n
      BY <2>1, LenProperties
    <3>2. g[Len(g)] \in V
      BY <3>1, ElementOfSeq
    <3> QED BY <3>1, <3>2
  <2> QED BY <2>1
<1>2. PICK h \in [1..n + 1 -> V] : Recurs(h, next, n + 1)
  <2>1. n + 1 \in Nat
    OBVIOUS
  <2> HIDE DEF next
  <2> QED BY <1>1, <2>1, RecursionExists
<1>3. ASSUME NEW i \in 1..n + 1
      PROVE  h[i] = IF i = 1 THEN v ELSE step[<<i - 1, h[i - 1]>>]
  <2> DEFINE g == Before(h, i)
  <2>1. i - 1 \in Nat /\ \A j \in 1..i - 1 : h[j] \in V
    BY <1>2
  <2>2. g \in Seq(V) /\ Len(g) = i - 1 /\ \A j \in 1..i - 1 : g[j] = h[j]
    BY <2>1 DEF Before
  <2>3. h[i] = next[g]
    BY <1>2 DEF Recurs
  <2> HIDE DEF g
  <2>4. h[i] = IF Len(g) = 0 \/ Len(g) > n THEN v ELSE step[<<Len(g), g[Len(g)]>>]
    BY <2>2, <2>3
  <2> HIDE DEF next
  <2>5. CASE i = 1
    BY <2>2, <2>4, <2>5
  <2>6. CASE i # 1
    <3>1. i - 1 \in 1..i - 1 /\ ~(i - 1 = 0 \/ i - 1 > n)
      BY <2>6
    <3> QED BY <2>2, <2>4, <2>6, <3>1
  <2> QED BY <2>5, <2>6
<1> DEFINE f == [k \in 0..n |-> h[k + 1]]
<1>4. f \in [0..n -> V]
  BY <1>2
<1>5. ASSUME NEW k \in 0..n
      PROVE  f[k] = IF k = 0 THEN v ELSE step[<<k, f[k - 1]>>]
  <2>1. k + 1 \in 1..n + 1 /\ (k + 1) - 1 = k /\ (k + 1 = 1 <=> k = 0)
    OBVIOUS
  <2>2. f[k] = IF k = 0 THEN v ELSE step[<<k, h[k]>>]
    BY <1>3, <2>1
  <2>3. k # 0 => f[k - 1] = h[k]
    OBVIOUS
  <2> HIDE DEF f
  <2> QED BY <2>2, <2>3
<1>6. f = [k \in 0..n |-> f[k]]
  OBVIOUS
<1> HIDE DEF f
<1>7. Iterates(f, v, step, n)
  BY <1>5, <1>6 DEF Iterates
<1> QED BY <1>4, <1>7

(* ------------------------------------------------------------------------ *)
(* Prefixes and spans.                                                       *)

(* A prefix agrees with what it is a prefix of, place by place.              *)
LEMMA PrefixElements ==
  ASSUME NEW S, NEW s \in Seq(S), NEW t \in Seq(S), IsPrefix(s, t)
  PROVE  Len(s) <= Len(t) /\ \A i \in 1..Len(s) : s[i] = t[i]
<1>1. Len(s) \in Nat /\ Len(t) \in Nat /\ Len(s) <= Len(t)
  BY LenProperties DEF IsPrefix
<1>2. /\ \A i \in 1..Len(s) : SubSeq(s, 1, Len(s))[i] = s[i]
      /\ \A i \in 1..Len(s) : SubSeq(t, 1, Len(s))[i] = t[i]
  BY <1>1, SubSeqProperties
<1>3. SubSeq(s, 1, Len(s)) = SubSeq(t, 1, Len(s))
  BY DEF IsPrefix
<1> QED BY <1>1, <1>2, <1>3

(* And what agrees place by place is a prefix.                               *)
LEMMA ElementsPrefix ==
  ASSUME NEW S, NEW s \in Seq(S), NEW t \in Seq(S),
         Len(s) <= Len(t), \A i \in 1..Len(s) : s[i] = t[i]
  PROVE  IsPrefix(s, t)
<1>1. Len(s) \in Nat /\ Len(t) \in Nat
  BY LenProperties
<1>2. /\ SubSeq(s, 1, Len(s)) \in Seq(S) /\ Len(SubSeq(s, 1, Len(s))) = Len(s)
      /\ \A i \in 1..Len(s) : SubSeq(s, 1, Len(s))[i] = s[i]
  BY <1>1, SubSeqProperties
<1>3. /\ SubSeq(t, 1, Len(s)) \in Seq(S) /\ Len(SubSeq(t, 1, Len(s))) = Len(s)
      /\ \A i \in 1..Len(s) : SubSeq(t, 1, Len(s))[i] = t[i]
  BY <1>1, SubSeqProperties
<1>4. SubSeq(s, 1, Len(s)) = SubSeq(t, 1, Len(s))
  BY <1>2, <1>3, SeqEqual
<1> QED BY <1>4 DEF IsPrefix

(* A span is the only number with its two properties.                        *)
LEMMA SpanIs ==
  ASSUME NEW S, NEW s \in Seq(S), NEW class, NEW n \in 0..Len(s),
         \A k \in 1..n : s[k] \in class,
         n < Len(s) => s[n + 1] \notin class
  PROVE  Span(s, class) = n
<1>1. ASSUME NEW m \in 0..Len(s),
             \A k \in 1..m : s[k] \in class,
             m < Len(s) => s[m + 1] \notin class
      PROVE  m = n
  <2>1. m < n => m + 1 \in 1..n  OBVIOUS
  <2>2. n < m => n + 1 \in 1..m  OBVIOUS
  <2> QED  BY <1>1, <2>1, <2>2
<1> QED  BY <1>1 DEF Span

(* A span has its two properties.                                            *)
LEMMA SpanProperties ==
  ASSUME NEW S, NEW s \in Seq(S), NEW class
  PROVE  /\ Span(s, class) \in 0..Len(s)
         /\ \A k \in 1..Span(s, class) : s[k] \in class
         /\ Span(s, class) < Len(s) => s[Span(s, class) + 1] \notin class
<1> DEFINE ends == {n \in 0..Len(s) : n < Len(s) => s[n + 1] \notin class}
<1>1. Len(s) \in Nat
  BY LenProperties
<1>2. ends \in SUBSET Nat /\ Len(s) \in ends
  BY <1>1
<1>3. PICK n \in ends : \A m \in ends : n <= m
  <2> HIDE DEF ends
  <2> QED BY <1>2, LeastNatural
<1>4. ASSUME NEW k \in 1..n PROVE s[k] \in class
  <2>1. k - 1 \in 0..Len(s) /\ k - 1 < Len(s) /\ (k - 1) + 1 = k /\ ~(n <= k - 1)
    BY <1>1
  <2>2. k - 1 \notin ends
    <3> HIDE DEF ends
    <3> QED BY <1>3, <2>1
  <2> QED BY <2>1, <2>2
<1>5. n \in 0..Len(s) /\ (n < Len(s) => s[n + 1] \notin class)
  OBVIOUS
<1> HIDE DEF ends
<1>6. Span(s, class) = n
  BY <1>4, <1>5, SpanIs
<1> QED BY <1>4, <1>5, <1>6

(* Take and Drop, place by place.                                            *)
LEMMA TakeProperties ==
  ASSUME NEW S, NEW s \in Seq(S), NEW class
  PROVE  /\ Take(s, class) \in Seq(S) /\ Take(s, class) \in Seq(class)
         /\ Len(Take(s, class)) = Span(s, class)
         /\ \A k \in 1..Span(s, class) : Take(s, class)[k] = s[k]
<1>1. Len(s) \in Nat /\ Span(s, class) \in 0..Len(s)
  BY LenProperties, SpanProperties
<1> DEFINE n == Span(s, class)
           t == Take(s, class)
<1>2. \A k \in 1..n : s[k] \in class
  BY SpanProperties
<1>3. t = SubSeq(s, 1, n)
  BY DEF Take
<1> HIDE DEF n, t
<1>4. n \in 0..Len(s)
  BY <1>1 DEF n
<1>5. t \in Seq(S) /\ Len(t) = n /\ \A k \in 1..n : t[k] = s[k]
  BY <1>1, <1>3, <1>4, SubSeqProperties
<1>6. t \in Seq(class)
  <2>1. DOMAIN t = 1..n /\ n \in Nat
    BY <1>1, <1>4, <1>5, LenProperties
  <2>2. \A k \in 1..n : t[k] \in class
    BY <1>2, <1>5
  <2>3. t = [k \in 1..n |-> t[k]]
    BY <1>5, <2>1
  <2> QED BY <2>1, <2>2, <2>3
<1> QED BY <1>5, <1>6 DEF n, t

LEMMA DropProperties ==
  ASSUME NEW S, NEW s \in Seq(S), NEW n \in 0..Len(s)
  PROVE  /\ Drop(s, n) \in Seq(S)
         /\ Len(Drop(s, n)) = Len(s) - n
         /\ \A k \in 1..Len(s) - n : Drop(s, n)[k] = s[n + k]
<1>1. Len(s) \in Nat
  BY LenProperties
<1>2. n + 1 \in 1..Len(s) + 1 /\ Len(s) \in (n + 1) - 1..Len(s)
  BY <1>1
<1>3. /\ SubSeq(s, n + 1, Len(s)) \in Seq(S)
      /\ Len(SubSeq(s, n + 1, Len(s))) = Len(s) - (n + 1) + 1
      /\ \A k \in 1..Len(s) - (n + 1) + 1 : SubSeq(s, n + 1, Len(s))[k] = s[(n + 1) + k - 1]
  BY <1>1, <1>2, SubSeqProperties
<1>4. Len(s) - (n + 1) + 1 = Len(s) - n
  BY <1>1
<1>5. \A k \in 1..Len(s) - n : (n + 1) + k - 1 = n + k
  BY <1>1
<1> QED BY <1>3, <1>4, <1>5 DEF Drop

(* Concatenations that are equal and cut at the same place have equal parts. *)
LEMMA EqualConcats ==
  ASSUME NEW S, NEW s \in Seq(S), NEW t \in Seq(S), NEW u \in Seq(S), NEW v \in Seq(S),
         s \o t = u \o v, Len(s) = Len(u)
  PROVE  s = u /\ t = v
<1>1. Len(s) \in Nat /\ Len(t) \in Nat /\ Len(u) \in Nat /\ Len(v) \in Nat
  BY LenProperties
<1>2. /\ Len(s \o t) = Len(s) + Len(t)
      /\ \A i \in 1..Len(s) + Len(t) : (s \o t)[i] = IF i <= Len(s) THEN s[i] ELSE t[i - Len(s)]
  BY ConcatProperties
<1>3. /\ Len(u \o v) = Len(u) + Len(v)
      /\ \A i \in 1..Len(u) + Len(v) : (u \o v)[i] = IF i <= Len(u) THEN u[i] ELSE v[i - Len(u)]
  BY ConcatProperties
<1>4. Len(t) = Len(v)
  BY <1>1, <1>2, <1>3
<1>5. ASSUME NEW i \in 1..Len(s) PROVE s[i] = u[i]
  <2>1. i \in 1..Len(s) + Len(t) /\ i <= Len(s)
    BY <1>1
  <2> QED BY <1>2, <1>3, <1>4, <2>1
<1>6. ASSUME NEW i \in 1..Len(t) PROVE t[i] = v[i]
  <2>1. i + Len(s) \in 1..Len(s) + Len(t) /\ ~(i + Len(s) <= Len(s)) /\ (i + Len(s)) - Len(s) = i
    BY <1>1
  <2>2. (s \o t)[i + Len(s)] = t[i]
    BY <1>2, <2>1
  <2>3. (u \o v)[i + Len(s)] = v[i]
    BY <1>3, <1>4, <2>1
  <2> QED BY <2>2, <2>3
<1> QED BY <1>4, <1>5, <1>6, SeqEqual

(* The same for the first element and the others.                            *)
LEMMA EqualHeads ==
  ASSUME NEW S, NEW x \in S, NEW y \in S, NEW s \in Seq(S), NEW t \in Seq(S),
         <<x>> \o s = <<y>> \o t
  PROVE  x = y /\ s = t
<1>1. <<x>> \in Seq(S) /\ <<y>> \in Seq(S) /\ Len(<<x>>) = Len(<<y>>)
  OBVIOUS
<1>2. <<x>> = <<y>> /\ s = t
  BY <1>1, EqualConcats
<1> QED BY <1>2
=============================================================================
