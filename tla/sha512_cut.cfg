\* The same walk.
CONSTANTS
  Digests <- SomeDigests
  Typed <- SomeTexts
  B58Digits <- Digits
  StrayBytes = {0, 255}
SPECIFICATION Spec
INVARIANTS LinkIsWholeDigest
