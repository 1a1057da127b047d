\* What is archived: two URLs of one resource, asked for by two clients, a
\* crash and an import.  The system may stop: the budgets run out.
CONSTANTS
  w1 = w1  w2 = w2  c1 = c1  c2 = c2  u1 = u1  u2 = u2  s1 = s1  s2 = s2
  Workers = {w1, w2}
  Clients = {c1, c2}
  Urls = {u1, u2}
  Surts = {s1}
  SurtOf <- OneSurt
  Delay = 1
  MaxTime = 3
  MaxId = 8
  ImportIds = {0}
  Budget <- ArchiveBudget
  None = None
SPECIFICATION Spec
SYMMETRY FibersAndUrls
INVARIANTS OneEntryPerUrl AnswersAreFresh CrawlSpacing
PROPERTY ImplementsArchive
CHECK_DEADLOCK FALSE
