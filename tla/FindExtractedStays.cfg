\* A verifier that read the batch before an extraction writes after it.
CONSTANTS
  s1 = s1
  s2 = s2
  f1 = f1
  f2 = f2
  Free = Free
  Sources = {s1, s2}
  Facts = {f1, f2}
  Grounded <- SharedFacts
  Blank = {}
  Thorough = FALSE
  Collectors = {c1}
  Archivers = {a1}
  Verifiers = {v1}
  Extractors = {e1}
  Limit = 2
  Age = 1
  MaxItems = 2
  MaxCollects = 1
  MaxDays = 2
  MaxFailures = 0
SPECIFICATION Spec
PROPERTIES
  ExtractedStaysExtracted
CHECK_DEADLOCK FALSE
