\* Five articles, the first two without a vector, three stories, pages of two,
\* one cluster per call, two faults.
CONSTANTS
  c1 = c1
  c2 = c2
  c3 = c3
  NoCluster = NoCluster
  Gone = Gone
  Article <- FiveArticles
  Cluster <- ThreeClusters
  Unembeddable <- FirstTwo
  Foreign <- Fourth
  Page = 2
  Chunk = 1
  MergeRounds = 2
  MaxFaults = 2
SPECIFICATION FairSpec
INVARIANTS SumsMatchMembers NoneInTombstone FileCatchesUp
PROPERTIES EveryArticleClustered
