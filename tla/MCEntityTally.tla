---------------------------- MODULE MCEntityTally ----------------------------
(* Instances of EntityTally for TLC.                                       *)
EXTENDS EntityTally, TLC

CONSTANTS a1, a2, a3, c1, c2, shard, sweeper

Articles   == {a1, a2, a3}
TwoArticles == {a1, a2}
Clusters   == {c1, c2}
Savers     == {shard, sweeper}
NoArticle  == {}
JobCalls   == {"apply", "merge"}
SaveCalls  == {"save"}

Symmetry ==
  Permutations(Articles) \cup Permutations(Clusters) \cup Permutations(Savers)
=============================================================================
