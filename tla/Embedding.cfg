\* Two embedders, more entities than the embedder takes at once, a failure.
CONSTANTS
  e1 = e1
  e2 = e2
  e3 = e3
  s1 = s1
  t1 = t1
  w1 = w1
  w2 = w2
  Entities = {e1, e2, e3}
  Sources = {s1}
  Statements = {t1}
  NoVector = NoVector
  Created <- CreatedAt
  Embedders = {w1, w2}
  Scheduled = w1
  Limit = 3
  MaxTexts = 2
  MaxByHand = 1
  MaxFailures = 1
SPECIFICATION FairSpec
INVARIANTS
  EmbedInv
PROPERTIES
  ImplementsColumns
  EveryRowEmbedded
