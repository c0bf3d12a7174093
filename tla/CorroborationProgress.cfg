\* Liveness: two overlapping runs, two statements, two sources, a failure.
CONSTANTS
  c1 = c1
  c2 = c2
  reuters = reuters
  ap = ap
  Statements = {1, 2}
  Sources = {1, 2}
  Domains = {reuters}
  Weights = {900}
  Override = 990
  Corroborators = {c1, c2}
  Scheduled = c1
  RowLimit = 1000
  MaxByHand = 1
  MaxFailures = 1
SPECIFICATION FairSpec
PROPERTIES
  EndsCurrent
