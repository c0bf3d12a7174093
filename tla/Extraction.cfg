\* A strict and a permissive extractor, sources that share facts, an operator, a failure.
CONSTANTS
  s1 = s1
  s2 = s2
  s3 = s3
  f1 = f1
  f2 = f2
  f3 = f3
  f4 = f4
  f5 = f5
  acme = acme
  globex = globex
  known = known
  date = date
  founded = founded
  Sources = {s1, s2, s3}
  Facts = {f1, f2, f3, f4, f5}
  Entities = {acme, globex}
  Slugs = {known, date, founded}
  ValueTypes = {"string", "date"}
  SubjectOf <- Subjects
  SlugOf <- SlugsOf
  TypeOf <- StringTypes
  Malformed = {f4}
  Catalog <- KnownString
  Vocabulary <- DateString
  Readings <- Crossed
  Age <- Order
  Extractors = {e1, e2}
  Permissive = {e2}
  Limit = 3
  MaxFailures = 1
SPECIFICATION FairSpec
INVARIANTS
  NoDuplicates
  ReferencesHold
  ExtractedIffLinked
  NothingDropped
PROPERTIES
  VocabularyGuarded
  ExtractsAtOnce
  RunsEnd
  ProductiveIsExtracted
CHECK_DEADLOCK FALSE
