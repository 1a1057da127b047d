\* Crawled and imported responses of two resources, hashes asked for in
\* full, cut to the index and shorter.  The keys run out.
CONSTANTS
  u1 = u1  u2 = u2  s1 = s1  s2 = s2
  Urls = {u1, u2}
  Surts = {s1, s2}
  SurtOf <- TwoSurts
  Algos = {"md", "sha"}
  Outcomes <- AllOutcomes
  IndexLen = 2
  MatchLen = 3
  Rows = 3
  Queries <- Asked
  MaxTime = 2
  MaxId = 1
SPECIFICATION Spec
INVARIANTS TypeOK TablesAgree LatestNotOlder SourcePageIsExact LastSeenIsLast ActiveIsCurrent RecentIsNewest HistoryMergesSameBody
CHECK_DEADLOCK FALSE
