\* A call may commit and its reply be lost.
CONSTANTS
  a1 = a1
  a2 = a2
  a3 = a3
  c1 = c1
  c2 = c2
  shard = shard
  sweeper = sweeper
  Job = Job
  NoCluster = NoCluster
  Free = Free
  Article <- TwoArticles
  Cluster <- Clusters
  Saver <- Savers
  Shared <- NoArticle
  LostReplies <- SaveCalls
  MaxFaults = 1
SPECIFICATION Spec
SYMMETRY Symmetry
INVARIANTS CountedOnce
CHECK_DEADLOCK FALSE
