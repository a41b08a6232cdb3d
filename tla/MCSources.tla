------------------------------ MODULE MCSources ------------------------------
(***************************************************************************)
(* An instance of the three modules about where articles come from: the    *)
(* window of a sitemap, the listings of an official source, and the table  *)
(* of feeds.  They share no state, so in each behaviour one of them runs   *)
(* and the others keep their first state: TLC looks at their state spaces  *)
(* one after the other.                                                    *)
(***************************************************************************)
EXTENDS SitemapWindow, OfficialSource, FeedCatalogue

CONSTANTS e1, e2, e3, c1, c2, a, awww, b, c, p1, p2

VARIABLE part

allVars == <<part, vars, officialVars, catalogueVars>>

\* SitemapWindow
Entries == {e1, e2, e3}
OneUndated == {e3}
Children == {c1, c2}
TwoInFirst == [e \in Entry |-> IF e = e2 THEN c2 ELSE c1]
Stops == {"stop"}

\* FeedCatalogue
Addresses == {a, awww, b, c}
WithoutWww == [u \in Addresses |-> IF u = awww THEN a ELSE u]
Row(feed, final, quality) == [feed |-> feed, final |-> final, quality |-> quality]
SomeRows == {Row(a, b, 0), Row(awww, NoUrl, 1), Row(c, b, 1), Row(c, a, 0), Row(NoUrl, b, 1)}
ShortFiles == [1 .. 1 -> SomeRows] \cup [1 .. 2 -> SomeRows]
              \cup {<<Row(a, c, 0), Row(a, b, 0), Row(c, NoUrl, 1)>>}
SomeStocks == {<<>>, <<Row(b, NoUrl, 0)>>, <<Row(b, a, 0), Row(c, NoUrl, 0)>>}
Pushers == {p1, p2}
AllMishaps == {"batch", "kill"}

PartInit ==
  /\ part \in {"sitemap", "official", "catalogue"}
  /\ Init /\ (part # "sitemap" => listed = {} /\ \A e \in Entry : published[e] = 0)
  /\ OfficialInit /\ (part # "official" => kind = "pib")
  /\ CatalogueInit /\ (part # "catalogue" => table = <<>>)

SitemapMoves ==
  part = "sitemap" /\ Next /\ UNCHANGED <<part, officialVars, catalogueVars>>

\* At the bound of the clock the behaviour is over.
OfficialMoves ==
  /\ part = "official"
  /\ \/ OfficialNext
     \/ clock = LastTick /\ UNCHANGED officialVars
  /\ UNCHANGED <<part, vars, catalogueVars>>

\* Every push has been made.
CatalogueMoves ==
  /\ part = "catalogue"
  /\ \/ CatalogueNext
     \/ /\ \A p \in Push : push[p].at \notin Running /\ push[p].pushes = MaxPushes
        /\ UNCHANGED catalogueVars
  /\ UNCHANGED <<part, vars, officialVars>>

PartNext == SitemapMoves \/ OfficialMoves \/ CatalogueMoves
PartSpec == PartInit /\ [][PartNext]_allVars
=============================================================================
