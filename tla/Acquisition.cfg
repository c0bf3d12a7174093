\* Three feeds, one of which is not scheduled, next to a research run; two failures.
CONSTANTS
  u1 = u1
  u2 = u2
  u3 = u3
  none = none
  never = never
  Never = never
  Urls = {u1, u2, u3}
  NoUrl = none
  Feeds <- FeedsMC
  HasTenant = {1, 3}
  PollInterval <- IntervalMC
  Entries <- EntriesMC
  MaxPoll = 1
  Answers <- AnswersMC
  Lower <- LowerMC
  Stopwords = {"the"}
  Results <- ResultsMC
  QuestionsPerPerspective = 2
  ResultsPerQuery = 3
  MaxTotalFetches = 2
  MaxResearches = 2
  MaxFailures = 2
SPECIFICATION FairSpec
INVARIANTS
  EveryFeedFresh
  ResearchBounded
PROPERTIES
  EveryEntryStored
