\* Two feeds that share an article, every fault but a lost reply of the recording.
CONSTANTS
  hourly = hourly
  Job <- OneJob
  Feed <- TwoFeeds
  JobOf <- AllHourly
  Link <- SharedLinks
  Lists <- SharedLists
  Tracking <- Utm
  OnceStripped <- Sid
  WordsOf <- TwoTitles
  BitsOf <- WordBits
  Distance = 1
  Foreign = {}
  Slots = 2
  Batch = 2
  MaxErrors = 2
  Dormancy = 1
  Recheck = 1
  FaultKinds <- AllButRecordReply
  MaxFaults = 2
SPECIFICATION FairSpec
INVARIANTS HandedOnce DisabledOnlyAfterErrors ParkedMissedNothing
PROPERTIES ParkedOnlyWhenQuiet NoneTakenForAnother EveryArticleIngested
