----------------------------- MODULE MCPageCrawl -----------------------------
EXTENDS PageCrawl
CONSTANTS s1
ThreeArticles == 1 .. 3
First == {1}
Second == {2}
Third == {3}
OneSite == {s1}
AllOnOne == [a \in ThreeArticles |-> s1]
=============================================================================
