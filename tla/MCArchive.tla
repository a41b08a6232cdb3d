------------------------------ MODULE MCArchive ------------------------------
(* Instances of Archive for TLC.                                           *)
EXTENDS Archive

CONSTANTS nightly, byHand   \* the scheduled archiver and one at a workstation

OneArchiver  == {nightly}
TwoArchivers == {nightly, byHand}
NoArticle    == {}
First        == {1}
TwoDays      == <<1, 1, 2>>
OneDay       == <<1, 1>>
FirstThree   == 1 .. 3
FirstTwo     == 1 .. 2
=============================================================================
