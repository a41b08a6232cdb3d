\* The same instance when a claim, save or release may commit and its reply be lost,
\* with an article whose row is rejected by every batch save.
CONSTANTS
  s1 = s1
  s2 = s2
  Nobody = Nobody
  Runner <- Slots
  Article <- TwoArticles
  Flaky <- First
  BadRow <- First
  LostReplies <- AllReplies
  Lease = 1
  RunTimeout = 1
  RetryAfter = 2
  MinAge = 1
  MaxAttempts = 2
  MaxRetries = 1
  BatchSize = 2
  PageSize = 1
  SaveEvery = 2
  MaxFaults = 2
SPECIFICATION Spec
SYMMETRY SlotSymmetry
INVARIANTS NeverOvercharged
PROPERTIES EnrichedIsFinal
