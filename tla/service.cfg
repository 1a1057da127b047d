\* Two imports, a crawler and a dump in one archive of three seconds, two
\* responses a batch, one failure or crash.  When the streams are read the
\* model stops.
CONSTANTS
  u1 = u1  u2 = u2  s1 = s1  c1 = c1  c2 = c2
  Urls = {u1, u2}
  Surts = {s1}
  SurtOf <- OneSurt
  Algos = {"sha"}
  Outcomes <- Few
  IndexLen = 1
  MatchLen = 2
  Rows = 2
  Queries <- NoQueries
  MaxTime = 3
  MaxId = 3
  Conns = {c1, c2}
  Sent <- Streams
  ImportBatch = 2
  Crawled <- Crawls
  MaxFailures = 1
  Intervals <- Asked
  BatchSize = 2
  Word = 8
  MaxBatches = 4
SPECIFICATION FairServiceSpec
INVARIANTS DumpInOrder DumpIsComplete CutDumpResumes ImportedIsPrefix
PROPERTIES DumpEnds ArchiveGrows
CHECK_DEADLOCK FALSE
