\* Three requests to any handler, one resource, one failure of the database.  They
\* end, and so does the model.
CONSTANTS
  r1 = r1  r2 = r2  r3 = r3  s1 = s1
  Requests = {r1, r2, r3}
  Pages <- FivePages
  LoadOrder <- Loads
  Layouts <- Written
  Diverting <- Parsed
  ErrorPage = "error"
  Surts = {s1}
  MaxFailures = 1
SPECIFICATION ServerSpec
SYMMETRY Fibers
INVARIANTS LoaderIsWhole HeaderIsShown TwiceOnlyWhenOvertaken ReadIsAnswered
CHECK_DEADLOCK FALSE
