\* Digests of the archive and of its mirror in all spellings, and texts from
\* elsewhere.  The walk never stops.
CONSTANTS
  Digests <- SomeDigests
  Typed <- SomeTexts
  B58Digits <- Digits
  StrayBytes = {0, 255}
SPECIFICATION Spec
INVARIANTS LinkKeepsDigest FollowingFindsSource NormalIsStable
