\* Two handlers commit their entries in the other order than they took their
\* ids, and nothing fails.  The system may stop: the budgets run out.
CONSTANTS
  w1 = w1  w2 = w2  c1 = c1  c2 = c2  u1 = u1  u2 = u2  s1 = s1  s2 = s2
  Workers = {w1, w2}
  Clients = {c1, c2}
  Urls = {u1, u2}
  Surts = {s1, s2}
  SurtOf <- TwoSurts
  Delay = 1
  MaxTime = 1
  MaxId = 8
  ImportIds = {0}
  Budget <- OrderBudget
  None = None
SPECIFICATION FairSpec
PROPERTY OutdatedPageIsRefreshed
CHECK_DEADLOCK FALSE
