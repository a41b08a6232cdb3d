\* Three stories can be merged one into the other and pruned.
CONSTANTS
  c1 = c1
  c2 = c2
  c3 = c3
  Article <- ThreeArticles
  Cluster <- ThreeClusters
  NoCluster = NoCluster
  PageSize = 3
  BatchSize = 2
  MaxRounds = 2
  MaxJobFaults = 2
SPECIFICATION JobsSpec
SYMMETRY Symmetry
INVARIANTS CountedOnce StoriesReadable OldIdsResolve CountsAgree
PROPERTIES StorySpec
