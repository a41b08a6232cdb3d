---------------------------- MODULE MCEnrichQueue ----------------------------
(* Instances of EnrichQueue for TLC.                                       *)
EXTENDS EnrichQueue, TLC

CONSTANTS s1, s2   \* the two sweeper slots of enrichment.yml

Slots       == {s1, s2}
TwoArticles == 1 .. 2
NoArticle   == {}
First       == {1}
NoReply     == {}
AllReplies  == {"claim", "save", "release"}

ClaimAndSave == {"claim", "save"}

SlotSymmetry == Permutations(Slots)
=============================================================================
