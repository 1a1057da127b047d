-------------------------------- MODULE Scan --------------------------------
(* The scan sets of sscanf and the character classes of regular expressions: *)
(* the longest run of elements of a class at the start of a text.            *)
EXTENDS Integers, SequencesExt

(* How many elements s has before the first that is not in class.            *)
Span(s, class) ==
  CHOOSE n \in 0..Len(s) : /\ \A k \in 1..n : s[k] \in class
                           /\ n < Len(s) => s[n + 1] \notin class

Take(s, class) == SubSeq(s, 1, Span(s, class))

Drop(s, n) == SubSeq(s, n + 1, Len(s))
=============================================================================
