\* A dead letter claimed for its daily retry and handed back untried.
CONSTANTS
  s1 = s1
  s2 = s2
  Nobody = Nobody
  Runner <- Slots
  Article <- TwoArticles
  Flaky <- First
  BadRow <- NoArticle
  LostReplies <- NoReply
  Lease = 1
  RunTimeout = 1
  RetryAfter = 2
  MinAge = 1
  MaxAttempts = 2
  MaxRetries = 1
  BatchSize = 2
  PageSize = 1
  SaveEvery = 2
  MaxFaults = 2
SPECIFICATION Spec
INVARIANTS NothingStuck
