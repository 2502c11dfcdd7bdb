SPECIFICATION Spec
CONSTANTS
  r1 = r1
  r2 = r2
  s1 = s1
  s2 = s2
  Rows = {r1, r2, s1, s2}
  Seeds <- SomeSeeds
  Time <- SomeTimes
  Service <- SomeServices
  Errors = {r2, s1}
  MaxAge = 2
  Graph = 2
  Current = 1
  ErrorSpan = 2
  TopSpan = 3
  Minute = 2
  Begin = 3
  End = 4
  Searches <- SomeSearches
  Limit = 1
INVARIANTS TypeOK PageConsistent BrowseMissesNothing SeededOnce ChartsAgree
CONSTRAINT Bounds
