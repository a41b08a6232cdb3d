\* Three articles of one site: a body from the feed, a paywall, a PDF.
CONSTANTS
  s1 = s1
  Article <- ThreeArticles
  FeedBody <- First
  Paywalled <- Second
  Pdf <- Third
  Site <- OneSite
  SiteOf <- AllOnOne
  Flaky <- First
  Workers = 2
  MaxRetries = 2
  Threshold = 2
  SaveEvery = 2
  FlushEvery = 2
  MaxRuns = 2
  MaxFaults = 1
SPECIFICATION Spec
INVARIANTS TypeOK CrawledHasBody FailFastJustified AnotherWayTried
PROPERTIES RunEnds
\* After MaxRuns runs the model stops.
CHECK_DEADLOCK FALSE
