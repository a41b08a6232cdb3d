\* A sitemap of two dated articles and an undated one in two files, whose polls are cut
\* off; an official source with three releases and one trouble over two days, whose midnight
\* falls into a poll; two pushes of files of up to three rows while a row of the table is written.
CONSTANTS
  e1 = e1
  e2 = e2
  e3 = e3
  c1 = c1
  c2 = c2
  Entry <- Entries
  Undated <- OneUndated
  Child <- Children
  Bare = {}
  ChildOf <- TwoInFirst
  Lookback = 3
  Overlap = 2
  Slack = 2
  Early = 0
  MaxChildren = 2
  Late = 1
  Ahead = 1
  Rounding = 1
  RunTime = 1
  FaultKinds <- Stops
  MaxTime = 5
  Kinds <- Kind
  Day = 11
  Night = 9
  Interval = 2
  DueAfter = 2
  JobTime = 1
  PageSize = 1
  MaxPages = 3
  TroubleKinds <- Trouble
  MaxTrouble = 1
  LastPost = 12
  MaxReleases = 3
  LastTick = 22
  a = a
  awww = awww
  b = b
  c = c
  p1 = p1
  p2 = p2
  NoUrl = NoUrl
  Url <- Addresses
  NormOf <- WithoutWww
  Files <- ShortFiles
  Stocks <- SomeStocks
  Push <- Pushers
  PageRows = 1
  BatchRows = 1
  Mishaps <- AllMishaps
  MaxPushes = 1
  MaxChanges = 1
SPECIFICATION PartSpec
INVARIANTS NoneSkipped WindowInv NothingMissed PagesAddUp CleanPushComplete
PROPERTIES NoTwinAdded
