---------------------------- MODULE MCClusterSync ----------------------------
(* Instances of ClusterSync for TLC.                                       *)
EXTENDS ClusterSync, TLC

CONSTANTS c1, c2, c3

FiveArticles  == 1 .. 5
ThreeClusters == {c1, c2, c3}
FirstTwo      == {1, 2}
Fourth        == {4}
=============================================================================
