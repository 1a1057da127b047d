\* One fetch after another of every URL, with three redirects, the last of them
\* one too many, and bodies of up to two chunks.
CONSTANTS
  html = html  c1 = c1  c2 = c2
  None = None
  Words <- SomeWords
  Digits = {"80"}
  LowerOf <- SomeLower
  Texts <- Urls
  Locations <- Redirects
  Statuses = {200, 301, 404}
  Types = {html}
  Chunks = {c1, c2}
  RedirectMax = 3
  Algos = {"md5", "sha256"}
  MaxChunks = 2
SPECIFICATION Spec
INVARIANTS ResultIsAnswer FailureIsBlank RedirectsAreBounded SameKeyAsksAlike
