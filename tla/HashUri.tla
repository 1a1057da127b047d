------------------------------ MODULE HashUri ------------------------------
(* Hash URIs (util/hash.c): the six spellings of a digest and what they keep *)
(* of it, and a person who carries them between the pages of an archive, its *)
(* mirror and other programs.                                                *)
(*                                                                           *)
(* A character is its base64 value: 0..25 are the upper-case letters, 26..51 *)
(* the lower-case ones, 52..61 the digits, then "+", "/", "-", "_" and "=",  *)
(* and 67 is "." or "%".  A text in base58 is the bytes of the number that   *)
(* it writes, behind a byte 0 for each "1" that it begins with.              *)
EXTENDS Scan

CONSTANTS Digests,   \* those of the responses of the archive, [algo, bytes]
          Typed,     \* texts that a person brings along
          B58Digits, \* base58: the digits of a number of so many bytes
          StrayBytes \* what may stand where the program has written nothing

Algos == {"md5", "sha1", "sha256", "sha384", "sha512"}

DigestLen == [md5 |-> 16, sha1 |-> 20, sha256 |-> 32, sha384 |-> 48, sha512 |-> 64]

DigestMax == 64  \* HASH_DIGEST_MAX

Bytes == 0..255

Least(m, n) == IF m < n THEN m ELSE n

(* ------------------------------------------------------------------------ *)
(* Hexadecimal.                                                              *)

HexDigit(n) == IF n < 10 THEN n + 52 ELSE n + 16

(* Into a buffer for DigestMax bytes.                                        *)
hex_encode(b) ==
  [k \in 1..2 * Least(Len(b), DigestMax) |->
     HexDigit(IF k % 2 = 1 THEN b[(k + 1) \div 2] \div 16 ELSE b[k \div 2] % 16)]

HexChars == (0..5) \cup (26..31) \cup (52..61)

HexValue(c) == IF c > 51 THEN c - 52 ELSE IF c > 25 THEN c - 16 ELSE c + 10

(* A last character without a partner is not looked at.                      *)
HexValid(s) == \A k \in 1..2 * (Len(s) \div 2) : s[k] \in HexChars

hex_decode(s) ==
  [i \in 1..Len(s) \div 2 |-> 16 * HexValue(s[2 * i - 1]) + HexValue(s[2 * i])]

(* ------------------------------------------------------------------------ *)
(* Base64.                                                                   *)

PadChar == 66

(* The whole groups that fit in DigestMax * 8 / 6 + 1 + 1 characters.        *)
B64Kept == 3 * (((DigestMax * 8) \div 6 + 1) \div 4)

ByteAt(b, i) == IF i <= Len(b) THEN b[i] ELSE 0

(* Mutant: "b =" for "b |=".                                                 *)
SextetAssigned(b, k) ==
  LET i == (3 * (k - 1)) \div 4 + 1
  IN IF k % 4 = 1 THEN ByteAt(b, i) \div 4
     ELSE IF k % 4 = 2 THEN IF i < Len(b) THEN b[i + 1] \div 16 ELSE (b[i] % 4) * 16
     ELSE IF k % 4 = 3 THEN (ByteAt(b, i) % 16) * 4 + ByteAt(b, i + 1) \div 64
     ELSE ByteAt(b, i) % 64

(* The value of character k: six bits from byte i on.                        *)
Sextet(b, k) ==
  LET i == (3 * (k - 1)) \div 4 + 1
  IN IF k % 4 = 1 THEN ByteAt(b, i) \div 4
     ELSE IF k % 4 = 2 THEN (ByteAt(b, i) % 4) * 16 + ByteAt(b, i + 1) \div 16
     ELSE IF k % 4 = 3 THEN (ByteAt(b, i) % 16) * 4 + ByteAt(b, i + 1) \div 64
     ELSE ByteAt(b, i) % 64

B64Char(kind, v) == IF kind = "url" /\ v > 61 THEN v + 2 ELSE v

(* Mutant: both alphabets are padded.                                        *)
b64_encodePadded(kind, b) ==
  LET kept == SubSeq(b, 1, Least(Len(b), B64Kept))
      n == (8 * Len(kept) + 5) \div 6
  IN [k \in 1..4 * ((n + 3) \div 4) |->
        IF k > n THEN PadChar ELSE B64Char(kind, Sextet(kept, k))]

(* The standard alphabet is padded to whole groups, the one for URLs is not. *)
b64_encode(kind, b) ==
  LET kept == SubSeq(b, 1, Least(Len(b), B64Kept))
      n == (8 * Len(kept) + 5) \div 6
  IN [k \in 1..(IF kind = "std" THEN 4 * ((n + 3) \div 4) ELSE n) |->
        IF k > n THEN PadChar ELSE B64Char(kind, Sextet(kept, k))]

(* What stands before the first "=".                                         *)
Unpadded(s) == Span(s, (0..67) \ {PadChar})

B64Valid(s) == \A k \in 1..Unpadded(s) : s[k] < PadChar

B64Value(c) == IF c > 63 THEN c - 2 ELSE c

(* Either alphabet; byte i begins in character k.                            *)
b64_decode(s) ==
  [i \in 1..(6 * Unpadded(s)) \div 8 |->
     LET k == (4 * (i - 1)) \div 3 + 1
         hi == B64Value(s[k])
         lo == B64Value(s[k + 1])
     IN IF i % 3 = 1 THEN hi * 4 + lo \div 16
        ELSE IF i % 3 = 2 THEN (hi % 16) * 16 + lo \div 4
        ELSE (hi % 4) * 64 + lo]

(* ------------------------------------------------------------------------ *)
(* The spellings.  A text is [form, name, upper, body]: upper when its name  *)
(* has upper-case letters.  In a form other than its own no parser matches a *)
(* text, so the order in which hash_uri_parse tries them does not matter.    *)

Types == {"hash", "ni", "multihash", "prefix", "ssb", "magnet"}

(* multihash_algo_encode.                                                    *)
MultihashCode == [sha1 |-> 17, sha256 |-> 18, sha512 |-> 19]

Alnum == 0..61

Fits(s, class) == \A k \in DOMAIN s : s[k] \in class

(* Query and fragment of a hash URI are not looked at.                       *)
hash_uri_parse_hash_uri(t) == Fits(t.body, Alnum \cup {64, 65, 67}) /\ HexValid(t.body)

hash_uri_parse_named_info(t) == Fits(t.body, Alnum \cup {64, 65}) /\ B64Valid(t.body)

hash_uri_parse_prefix(t) == Fits(t.body, (0..63) \cup {PadChar}) /\ B64Valid(t.body)

(* Mutant: the base64 of URLs, which has no padding.                         *)
hash_uri_parse_ssbUrl(t) ==
  /\ ~t.upper /\ t.name # "v1"
  /\ Fits(t.body, Alnum \cup {64, 65})

(* Lower-case names of three characters and more; here "v1" is shorter.      *)
hash_uri_parse_ssb(t) ==
  /\ ~t.upper /\ t.name # "v1"
  /\ Fits(t.body, (0..63) \cup {PadChar})
  /\ Len(t.body) - Span(t.body, 0..63) \in 0..3
  /\ \A k \in Span(t.body, 0..63) + 1..Len(t.body) : t.body[k] = PadChar

(* Whatever follows the digest is not looked at.                             *)
MagnetBody(t) == Take(t.body, Alnum)

hash_uri_parse_magnet(t) == HexValid(MagnetBody(t))

(* The "1"s that a text begins with.                                         *)
Ones(t) == Span(t.body, {0})

B58Chars(t) == Ones(t) + B58Digits[Len(t.body) - Ones(t)]

(* b58_decode sizes its output before it knows it.                           *)
B58Room(t) == Least(2 + DigestMax, (B58Chars(t) * 6) \div 8)

(* A number that is too big for the room fails; one that is too small begins *)
(* with a byte 0, not with a code.                                           *)
hash_uri_parse_multihash(t) ==
  /\ Len(t.body) - Ones(t) \in 1..2 + DigestMax
  /\ B58Chars(t) >= 8
  /\ B58Room(t) = Len(t.body) - Ones(t)
  /\ \E a \in DOMAIN MultihashCode : MultihashCode[a] = t.body[Ones(t) + 1]

(* hash_uri_parse.                                                           *)
Parses(t) == \/ t.form = "hash" /\ hash_uri_parse_hash_uri(t)
             \/ t.form = "ni" /\ hash_uri_parse_named_info(t)
             \/ t.form = "ssb" /\ hash_uri_parse_ssb(t)
             \/ t.form = "magnet" /\ hash_uri_parse_magnet(t)
             \/ t.form = "prefix" /\ hash_uri_parse_prefix(t)
             \/ t.form = "multihash" /\ hash_uri_parse_multihash(t)

(* The algorithm that a text names, in any case, or says by its code.        *)
hash_algo_parse(t) ==
  IF t.form = "multihash"
    THEN CHOOSE a \in DOMAIN MultihashCode : MultihashCode[a] = t.body[Ones(t) + 1]
    ELSE IF t.name \in Algos THEN t.name ELSE "unknown"

(* What it says of the digest.                                               *)
Parsed(t) ==
  [algo |-> hash_algo_parse(t),
   bytes |-> CASE t.form = "hash" -> hex_decode(t.body)
               [] t.form = "magnet" -> hex_decode(MagnetBody(t))
               [] t.form = "multihash" -> SubSeq(t.body, Ones(t) + 3, Len(t.body))
               [] OTHER -> b64_decode(t.body)]

(* b58tobin counts the "1"s as bytes of its output although it writes none   *)
(* for them, and that many bytes behind the number, which nobody has written *)
(* or which lie past the buffer, are copied as the end of the digest.        *)
Strays(t) == IF t.form = "multihash" THEN Ones(t) ELSE 0

Readings(t) ==
  {[algo |-> Parsed(t).algo, bytes |-> Parsed(t).bytes \o e] : e \in [1..Strays(t) -> StrayBytes]}

(* HASH_EINVAL for an unknown algorithm, HASH_ENOTSUP for a multihash of one *)
(* that has no code.                                                         *)
Formats(d, type) == /\ d.algo \in Algos
                    /\ type = "multihash" => d.algo \in DOMAIN MultihashCode

(* The multihash is put together in 2 + DigestMax bytes, without a look at   *)
(* the length of the digest.                                                 *)
Overruns(d) == Formats(d, "multihash") /\ Len(d.bytes) > DigestMax

(* Of a digest that overruns it says nothing about the multihash.            *)
hash_uri_format(d, type) ==
  [form |-> type, upper |-> FALSE,
   name |-> IF type = "multihash" THEN "" ELSE d.algo,
   body |-> CASE type \in {"hash", "magnet"} -> hex_encode(d.bytes)
              [] type = "ni" -> b64_encode("url", d.bytes)
              [] type \in {"prefix", "ssb"} -> b64_encode("std", d.bytes)
              [] OTHER -> <<MultihashCode[d.algo], DigestLen[d.algo]>> \o d.bytes]

(* hash_uri_normalize.                                                       *)
Normalizes(t) == Parses(t) /\ Formats(Parsed(t), t.form)

Normal(t) == hash_uri_format(Parsed(t), t.form)

(* ------------------------------------------------------------------------ *)
(* The walk.                                                                 *)

ASSUME HashUriAssumption ==
  /\ \A d \in Digests : /\ d.algo \in Algos
                        /\ d.bytes \in Seq(Bytes)
                        /\ Len(d.bytes) \in 1..DigestLen[d.algo]
  /\ \A t \in Typed : /\ t.form \in Types
                      /\ t.body \in Seq(IF t.form = "multihash" THEN Bytes ELSE 0..67)
  /\ B58Digits \in [0..2 + DigestMax -> Nat]
  /\ B58Digits[22] = 30 /\ B58Digits[34] = 46 /\ B58Digits[66] = 90
  /\ StrayBytes \subseteq Bytes

VARIABLES
  mirror,  \* the digests that a mirror of the archive has imported
  link,    \* the text in the person's hand
  source,  \* the digest it was made from, and where, for the properties
  page,    \* the page of sources that the person looks at: where, and the
           \* digest it was asked about
  intact   \* since the text was shown or brought the program has neither used
           \* a byte it had not written nor written past a buffer

vars == <<mirror, link, source, page, intact>>

Archives == {"archive", "mirror"}

Stored(a) == IF a = "mirror" THEN mirror ELSE Digests

NoText == [form |-> "none", name |-> "", upper |-> FALSE, body |-> <<>>]

NoDigest == [algo |-> "unknown", bytes |-> <<>>]

Nowhere == "nowhere"

Init == /\ mirror = {}
        /\ link = NoText
        /\ source = [at |-> Nowhere, digest |-> NoDigest]
        /\ page = [at |-> Nowhere, digest |-> NoDigest]
        /\ intact = TRUE

Shut == page' = [at |-> Nowhere, digest |-> NoDigest]

(* The page of the history of an archive spells a digest, unless it cannot.  *)
ShowLink(a, d, type) ==
  /\ Formats(d, type)
  /\ link' = hash_uri_format(d, type)
  /\ source' = [at |-> a, digest |-> d]
  /\ intact' = TRUE
  /\ Shut /\ UNCHANGED mirror

(* The person has a text from somewhere else.                                *)
BringText(t) ==
  /\ link' = t
  /\ source' = [at |-> "elsewhere", digest |-> IF Parses(t) THEN Parsed(t) ELSE NoDigest]
  /\ intact' = TRUE
  /\ Shut /\ UNCHANGED mirror

(* The page of sources for it.  What does not parse has another page, and an *)
(* unknown algorithm is an error.  The page has the multihash of the digest, *)
(* if there is one; when that overruns the process may end.                  *)
FollowLink(a) ==
  /\ link # NoText /\ Parses(link)
  /\ \E d \in Readings(link) :
       /\ d.algo \in Algos
       /\ \/ page' = [at |-> a, digest |-> d]
          \/ Overruns(d) /\ Shut
       /\ intact' = (intact /\ Strays(link) = 0 /\ ~Overruns(d))
  /\ UNCHANGED <<mirror, link, source>>

(* hash_uri_variant: the digest of the page, in another spelling.            *)
Respell(type) ==
  /\ page.at # Nowhere
  /\ Formats(page.digest, type)
  /\ \/ link' = hash_uri_format(page.digest, type)
     \/ type = "multihash" /\ Overruns(page.digest) /\ link' = NoText
  /\ Shut /\ UNCHANGED <<mirror, source, intact>>

(* What the mirror makes of a digest: the dump spells it as a prefix, the    *)
(* tool takes the base64 out of that, the importer stores the bytes.         *)
Copied(d) == [algo |-> d.algo, bytes |-> b64_decode(hash_uri_format(d, "prefix").body)]

Mirror(d) == /\ mirror' = mirror \cup {Copied(d)}
             /\ UNCHANGED <<link, source, page, intact>>

Next == \/ \E a \in Archives, type \in Types : \E d \in Stored(a) : ShowLink(a, d, type)
        \/ \E t \in Typed : BringText(t)
        \/ \E a \in Archives : FollowLink(a)
        \/ \E type \in Types : Respell(type)
        \/ \E d \in Digests : Mirror(d)

Spec == Init /\ [][Next]_vars

(* hx_get_sources: the stored digests that begin with the one asked for.     *)
Found(a, d) == {x \in Stored(a) : x.algo = d.algo /\ IsPrefix(d.bytes, x.bytes)}

(* ------------------------------------------------------------------------ *)
(* Properties.                                                               *)

(* The beginning of a digest, all of it or what a base64 buffer holds.       *)
Begins(d, x) == /\ d.algo = x.algo
                /\ IsPrefix(d.bytes, x.bytes)
                /\ Len(d.bytes) >= Least(Len(x.bytes), B64Kept)

(* Only the multihash of a truncated digest may fail to parse, the case that *)
(* the comment of b58_decode (hash.c:457) is unsure about.                   *)
MayFail(t) == /\ t.form = "multihash"
              /\ \A a \in DOMAIN MultihashCode : Len(t.body) # DigestLen[a] + 2

(* However often a digest is followed and spelled anew, in whatever forms,   *)
(* the text still parses, and to the algorithm and the beginning of the      *)
(* digest that the walk started from: no form mixes up, shifts or pads the   *)
(* bytes of another, and at most the last byte of a SHA-512 is lost, once,   *)
(* and of a text from elsewhere what is longer than any digest.  That is as  *)
(* long as the program does what C defines.  Links that an archive shows     *)
(* never lead it out of that: none is too long for the multihash, and none   *)
(* has bytes that were not written.                                          *)
LinkKeepsDigest ==
  /\ source.at \in Archives => intact
  /\ intact /\ link.form \in Types =>
       /\ source.at = "elsewhere" \/ Parses(link) \/ MayFail(link)
       /\ Parses(link) => Begins(Parsed(link), source.digest)

(* A link that a page shows leads to the response it was shown for: followed *)
(* at the archive that showed it, and, when the mirror did, at the archive   *)
(* that the mirror copies.  What is found is the same digest, as far as it   *)
(* is stored.                                                                *)
FollowingFindsSource ==
  page.at \in {"archive", source.at} /\ source.at \in Archives =>
    \E x \in Found(page.at, page.digest) : IsPrefix(source.digest.bytes, x.bytes)

(* hash_uri_normalize, by which POST /lookup decides that a text is a hash:  *)
(* the normal form of a text is its own normal form and asks for the         *)
(* beginning of the same digest.  A multihash with leading "1"s, which stand *)
(* for bytes that nobody wrote, has no one normal form.                      *)
NormalIsStable ==
  intact /\ link.form \in Types /\ Normalizes(link) /\ Strays(link) = 0 /\ ~MayFail(Normal(link)) =>
    /\ Normalizes(Normal(link))
    /\ Normal(Normal(link)) = Normal(link)
    /\ Begins(Parsed(Normal(link)), Parsed(link))

(* Violated.  A link with base64 spells the whole digest.  The page of the   *)
(* history heads it "Subresource Integrity" (history-entry.html:15), whose   *)
(* readers compare whole digests.                                            *)
LinkIsWholeDigest ==
  source.at \in Archives /\ link.form = "prefix" =>
    b64_decode(link.body) = source.digest.bytes
=============================================================================
