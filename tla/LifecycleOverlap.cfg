\* Two runs of archive and of verify overlap (an operator next to the CronJobs),
\* over sources of one collector run, which tie in fetched_at, or of two.
CONSTANTS
  s1 = s1
  s2 = s2
  f1 = f1
  f2 = f2
  Free = Free
  Sources = {s1, s2}
  Facts = {f1, f2}
  Grounded <- SameFact
  Blank = {}
  Thorough = FALSE
  Collectors = {c1}
  Archivers = {a1, a2}
  Verifiers = {v1, v2}
  Extractors = {}
  Limit = 2
  Age = 1
  MaxItems = 2
  MaxCollects = 2
  MaxDays = 2
  MaxFailures = 0
SPECIFICATION Spec
SYMMETRY SameKindAndSource
INVARIANTS
  LifecycleInv
  DeadlocksAreTies
PROPERTIES
  ImplementsLedger
CHECK_DEADLOCK FALSE
