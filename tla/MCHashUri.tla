----------------------------- MODULE MCHashUri -----------------------------
(* Digests of every length modulo 3, of algorithms with a multihash code and *)
(* without, one of them truncated, and texts at the edges of what the        *)
(* parsers take.                                                             *)
EXTENDS HashUri

Digest(algo, n, seed) == [algo |-> algo, bytes |-> [i \in 1..n |-> (i * 37 + seed) % 256]]

SomeDigests == {Digest("md5", 16, 219), Digest("sha1", 20, 11), Digest("sha512", 64, 90),
                Digest("sha256", 30, 7)}

Text(form, name, body) == [form |-> form, name |-> name, upper |-> FALSE, body |-> body]

Letters(n) == [k \in 1..n |-> (k * 11) % 26]

SomeTexts ==
  {Text("hash", "sha1", <<31, 0, 61, 52, 26>>),      \* "fA90a", odd
   Text("hash", "sha1", <<31, 0, 61, 64>>),          \* "fA9-"
   Text("hash", "sha1", <<31, 0, 61>> \o <<67>>),    \* "fA9."
   Text("hash", "v1", <<52, 52>>),                   \* no such algorithm
   Text("ni", "sha256", <<65, 64, 65, 64, 65>>),     \* "_-_-_", one too many
   Text("ni", "sha256", <<65, 64, 65>>),             \* "_-_", no padding
   Text("ni", "sha256", <<65, 64, 66>>),             \* "_-="
   Text("prefix", "md5", <<62, 63, 66, 3, 66, 66>>), \* "+/=D=="
   Text("prefix", "sha512", Letters(85)),            \* 63 bytes, one left over
   Text("prefix", "sha512", Letters(84)),
   [Text("prefix", "sha1", <<9, 9>>) EXCEPT !.upper = TRUE],
   [Text("ssb", "sha1", <<9, 9>>) EXCEPT !.upper = TRUE],
   Text("ssb", "v1", <<9, 9>>),
   Text("ssb", "sha1", <<9, 66, 9>>),
   Text("ssb", "md5", <<9, 9, 66, 66, 66>>),
   Text("magnet", "sha1", <<52, 53, 67, 54, 55>>),   \* "01&..."
   Text("multihash", "", <<18, 1, 2, 3, 4, 5, 6, 7>>),
   Text("multihash", "", <<20, 1, 2, 3, 4, 5, 6, 7>>),
   Text("multihash", "", <<17, 5, 5>>),
   Text("multihash", "", <<18, 4, 1, 2, 3, 4>>),     \* eight digits
   Text("multihash", "", <<0, 18, 4, 1, 2, 3, 4>>),  \* and a leading "1"
   Text("multihash", "", <<0, 0, 18, 4, 1, 2, 3, 4>>),
   Text("multihash", "", <<0, 0, 18>> \o [k \in 1..65 |-> k]),  \* past the buffer
   \* 66, 66 and 72 bytes, more than any digest has; md5 has no multihash.
   Text("hash", "sha1", [k \in 1..132 |-> 52 + (k % 7)]),
   Text("magnet", "md5", [k \in 1..132 |-> 52 + (k % 7)]),
   Text("prefix", "sha256", Letters(96)),
   Text("ni", "md5", Letters(96))}

(* Verified for the first bytes 17 to 19; numbers of 10 and of 51 bytes may  *)
(* take one digit more.                                                      *)
Digits == [n \in 0..66 |-> IF n = 0 THEN 0 ELSE (800000 * (n - 1) + 408747) \div 585799 + 1]
=============================================================================
