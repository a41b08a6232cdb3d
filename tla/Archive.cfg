\* Two days, a purge, failures, damaged uploads and killed runs.
CONSTANTS
  nightly = nightly
  byHand = byHand
  Archiver <- OneArchiver
  Article <- FirstThree
  DayOf <- TwoDays
  Hot = 1
  MaxDays = 2
  Page = 1
  PartRows = 1
  PruneChunk = 1
  Stranded <- NoArticle
  LastTry <- NoArticle
  OutOfScope <- First
  MaxFaults = 3
SPECIFICATION FairSpec
INVARIANTS PrunedIsArchived ArchivedAsDeleted NoDuplicateRows
PROPERTIES EveryDayLeaves
