\* One statement, three sources, two overlapping runs, an editor, a failure.
CONSTANTS
  c1 = c1
  c2 = c2
  reuters = reuters
  ap = ap
  Statements = {1}
  Sources = {1, 2, 3}
  Domains = {reuters, ap}
  Weights = {300, 900}
  Override = 990
  Corroborators = {c1, c2}
  Scheduled = c1
  RowLimit = 2
  MaxByHand = 2
  MaxFailures = 1
SPECIFICATION Spec
INVARIANTS
  CountBounded
  Warranted
  CorroborationInv
SYMMETRY Symmetric
