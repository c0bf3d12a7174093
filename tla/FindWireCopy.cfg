\* Two sources of one statement, which may be one text under two mastheads.
CONSTANTS
  c1 = c1
  c2 = c2
  reuters = reuters
  ap = ap
  Statements = {1}
  Sources = {1, 2}
  Domains = {reuters, ap}
  Weights = {900}
  Override = 0
  Corroborators = {c1}
  Scheduled = c1
  RowLimit = 2
  MaxByHand = 0
  MaxFailures = 0
SPECIFICATION Spec
INVARIANTS
  CopiesCountOnce
CHECK_DEADLOCK FALSE
