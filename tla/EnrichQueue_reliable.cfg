\* Two slots, two articles; enrich_one may raise on one of them, and a claim or a
\* save may commit and its reply be lost. Every release is answered.
CONSTANTS
  s1 = s1
  s2 = s2
  Nobody = Nobody
  Runner <- Slots
  Article <- TwoArticles
  Flaky <- First
  BadRow <- NoArticle
  LostReplies <- ClaimAndSave
  Lease = 1
  RunTimeout = 1
  RetryAfter = 2
  MinAge = 1
  MaxAttempts = 2
  MaxRetries = 1
  BatchSize = 2
  PageSize = 1
  SaveEvery = 2
  MaxFaults = 1
SPECIFICATION FairSpec
INVARIANTS TypeOK DisjointRuns ClaimInv
PROPERTIES ImplementsClaims EveryArticleEnriched
