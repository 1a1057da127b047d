\* Two requests, one resource, and a database that does not fail.
CONSTANTS
  r1 = r1  r2 = r2  r3 = r3  s1 = s1
  Requests = {r1, r2}
  Pages <- FivePages
  LoadOrder <- Loads
  Layouts <- Written
  Diverting <- Parsed
  ErrorPage = "error"
  Surts = {s1}
  MaxFailures = 0
SPECIFICATION ServerSpec
INVARIANTS OneAnswer
CHECK_DEADLOCK FALSE
