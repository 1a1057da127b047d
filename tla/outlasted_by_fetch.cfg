\* A client asks for a URL while its fetch goes on for longer than the delay.
\* The system may stop: the budgets run out.
CONSTANTS
  w1 = w1  w2 = w2  c1 = c1  c2 = c2  u1 = u1  u2 = u2  s1 = s1  s2 = s2
  Workers = {w1, w2}
  Clients = {c1, c2}
  Urls = {u1}
  Surts = {s1}
  SurtOf <- OneUrl
  Delay = 1
  MaxTime = 3
  MaxId = 8
  ImportIds = {0}
  Budget <- CalmBudget
  None = None
SPECIFICATION FairSpec
PROPERTY WaitersAreAnswered
CHECK_DEADLOCK FALSE
