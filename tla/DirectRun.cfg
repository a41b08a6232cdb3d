\* Two runs, from the queue or forced, two articles and one story they may share.
CONSTANTS
  c1 = c1
  r1 = r1
  r2 = r2
  Article <- TwoArticles
  Cluster <- OneCluster
  NoCluster = NoCluster
  MaxFaults = 2
  Run <- TwoRuns
  RunBatch = 2
  Offsets = 0
  MaxAttempts = 1
  MaxTries = 2
  Flaky <- First
  WithEntities <- First
  Embeddable <- TwoArticles
  Failing <- Calls
  LostReply <- Replies
SPECIFICATION Spec
SYMMETRY Symmetry
INVARIANTS SavedBeforeMarked StoppedRunsHandBack
