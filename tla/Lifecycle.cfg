\* One worker per stage, as concurrencyPolicy Forbid has it; a failing run.
CONSTANTS
  s1 = s1
  s2 = s2
  f1 = f1
  f2 = f2
  Free = Free
  Sources = {s1, s2}
  Facts = {f1, f2}
  Grounded <- OneFact
  Blank = {s2}
  Thorough = FALSE
  Collectors = {c1}
  Archivers = {a1}
  Verifiers = {v1}
  Extractors = {e1}
  Limit = 2
  Age = 1
  MaxItems = 2
  MaxCollects = 1
  MaxDays = 3
  MaxFailures = 1
SPECIFICATION FairSpec
INVARIANTS
  TextCaptured
  EvidenceGrounded
  ExtractedHasEvidence
  VerdictIsLogged
  CheckedOncePerPeriod
  VerdictIsLatest
PROPERTIES
  CollectedIsArchived
  DueIsVerified
  ArchivedOnce
  ImplementsLedger
CHECK_DEADLOCK FALSE
