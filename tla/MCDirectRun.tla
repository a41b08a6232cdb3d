----------------------------- MODULE MCDirectRun -----------------------------
EXTENDS DirectRun, TLC
CONSTANTS c1, r1, r2
TwoArticles == {1, 2}
OneCluster == {c1}
TwoRuns == {r1, r2}
First == {1}
Calls == {"save", "release"}
Replies == {"assign"}
Symmetry == Permutations(TwoRuns)
=============================================================================
