\* The scheduled dossier run, one by hand, a brief, and writers in between.
CONSTANTS
  d1 = d1
  d2 = d2
  b1 = b1
  Entities = {1, 2, 3, 4}
  Statements = {1, 2, 3, 4, 5}
  Present <- Links
  NewLinks <- Added
  Qualifiable = {1}
  Sources = {1, 2}
  SubjectOf <- About
  SlugOf <- Slugs
  ValueOf <- Values
  Related <- Chain
  NewRelations <- Shortcut
  Created <- CreatedAt
  Workers = {d1, d2}
  Scheduled = d1
  Writers = {b1}
  Limit = 2
  RunsPerDay = 2
  MaxWrites = 1
  MaxByHand = 1
  MaxFailures = 1
SPECIFICATION FairSpec
INVARIANTS
  BundlesCoherent
  ExpansionIsReachability
  BriefsStable
PROPERTIES
  DossiersEndCurrent
