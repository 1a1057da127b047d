-------------------------- MODULE MCResponseStore --------------------------
(* Small instances of ResponseStore for TLC: two algorithms, two bodies      *)
(* whose digests agree on the index, a third body, and partial digests as    *)
(* imports bring them.                                                       *)
EXTENDS ResponseStore, TLC

CONSTANTS u1, u2, s1, s2

OneSurt == (u1 :> s1) @@ (u2 :> s1)
TwoSurts == (u1 :> s1) @@ (u2 :> s2)

Hashes(md, sha) == ("md" :> md) @@ ("sha" :> sha)
Success(body, md, sha) == [ok |-> TRUE, body |-> body, digests |-> Hashes(md, sha)]

BodyA == Success("A", <<0, 1, 0>>, <<0, 1, 0>>)
BodyB == Success("B", <<0, 1, 1>>, <<0, 1, 1>>)
BodyC == Success("C", <<0, 0, 1>>, <<1, 0, 1>>)
OnlyMdOfA == Success("A", <<0, 1, 0>>, <<>>)
OnlyShaOfB == Success("B", <<>>, <<0, 1, 1>>)
ShortOfB == Success("B", <<0, 1>>, <<>>)
Failure == [ok |-> FALSE, body |-> "none", digests |-> Hashes(<<>>, <<>>)]

Ask(algo, hash) == [algo |-> algo, hash |-> hash]

CrawledOutcomes == {BodyA, BodyB, BodyC, Failure}
ImportedOutcomes == {BodyA, BodyB, OnlyMdOfA, OnlyShaOfB, ShortOfB}
AllOutcomes == CrawledOutcomes \cup ImportedOutcomes
Asked == {Ask("md", <<0, 1, 0>>), Ask("sha", <<0, 1, 1>>), Ask("sha", <<0, 1>>),
          Ask("md", <<0>>)}

Spellings == Permutations(Urls)
=============================================================================
