----------------------------- MODULE MCStoryJobs -----------------------------
EXTENDS StoryJobs, TLC
CONSTANTS c1, c2, c3
ThreeArticles == {1, 2, 3}
ThreeClusters == {c1, c2, c3}
Symmetry == Permutations(ThreeClusters)
=============================================================================
