---------------------------- MODULE OfficialSource ----------------------------
(***************************************************************************)
(* One official source as a feed of the poller (pipeline/official.py,      *)
(* ingest-official.yml): the releases of the Press Information Bureau, the *)
(* filings of an exchange, or SEBI's listing.  None of them keeps a        *)
(* release for long: a daily listing is empty again at midnight, SEBI's    *)
(* goes back one day.  A release counts as collected when it has a row     *)
(* before its listing is gone.  The schedule starts a run every interval,  *)
(* and the run polls the feed if its last poll, dated when it was          *)
(* recorded, is long enough ago.  Times are in ticks.                      *)
(***************************************************************************)
EXTENDS Integers, Sequences, FiniteSets

CONSTANTS
  Kinds,        \* kinds of source to look at
  Day,          \* length of a day
  Night,        \* how long after midnight the day before is read too (3 h)
  Interval,     \* of the schedule, and poll_interval_mins of the feed (15 min)
  DueAfter,     \* poll_interval_mins * FEED_DUE_TOLERANCE, rounded up
  JobTime,      \* timeout-minutes of the job, less than the interval
  PageSize,     \* rows of a page of SEBI's listing
  MaxPages,     \* max_pages of fetch_sebi_listing
  TroubleKinds, \* what may go wrong
  MaxTrouble,   \* bound on how often
  LastPost,     \* bound on the time of releases
  MaxReleases,  \* bound on their number
  LastTick      \* bound on the clock

Kind    == {"pib", "exchange", "sebi"}
Trouble == {"schedule", "stop", "fetch", "postback", "blocked", "insert"}

ASSUME KindAssumption == Kinds \subseteq Kind /\ TroubleKinds \subseteq Trouble
ASSUME ScheduleAssumption ==
  /\ Day \in Nat \ {0} /\ Night \in 0 .. Day /\ Interval \in Nat \ {0}
  /\ DueAfter \in 0 .. Interval /\ JobTime \in 0 .. (Interval - 1)
  /\ PageSize \in Nat \ {0} /\ MaxPages \in Nat \ {0}
  /\ {MaxTrouble, LastPost, MaxReleases, LastTick} \subseteq Nat

VARIABLES
  kind,      \* feed_type of the feed
  clock,     \* the time in India
  posted,    \* posted[i]: when release i appeared; they are numbered in that order
  collected, \* releases with a row in articles
  polledAt,  \* last_polled_at
  begun,     \* the last time the schedule has started a run, or failed to
  visit,     \* the poll of the feed in that run
  troubles   \* what went wrong so far

officialVars == <<kind, clock, posted, collected, polledAt, begun, visit, troubles>>

Unpolled == -Interval   \* last_polled_at is NULL: always due
NoVisit  == [at |-> "none", run |-> 0, from |-> 0, page |-> 0, count |-> 0,
             total |-> 0, rows |-> {}, listed |-> 0, whole |-> TRUE]
Release  == DOMAIN posted

DayOf(t) == t \div Day
Hour(t)  == t % Day

Goes(k) == k \in TroubleKinds /\ troubles < MaxTrouble /\ troubles' = troubles + 1

-----------------------------------------------------------------------------
(* What the sources list *)

OfDays(D) == {i \in Release : DayOf(posted[i]) \in D}

\* The date range of a SEBI query, computed when the poll begins.
SebiRows == OfDays({DayOf(visit.from) - 1, DayOf(visit.from)})

\* A page of it, newest first, as it is when it is asked for.
SebiPage(p) ==
  LET Above(i) == Cardinality({j \in SebiRows : j > i})
  IN  {i \in SebiRows : Above(i) >= p * PageSize /\ Above(i) < (p + 1) * PageSize}

-----------------------------------------------------------------------------
(* The world *)

Publication ==
  /\ clock <= LastPost /\ Len(posted) < MaxReleases
  /\ posted' = Append(posted, clock)
  /\ UNCHANGED <<kind, clock, collected, polledAt, begun, visit, troubles>>

\* A run that is due has been started, and one in progress ends before its timeout.
Minute ==
  /\ clock < LastTick
  /\ clock % Interval = 0 => begun = clock
  /\ visit.at # "none" => clock < visit.run + JobTime
  /\ clock' = clock + 1
  /\ UNCHANGED <<kind, posted, collected, polledAt, begun, visit, troubles>>

\* Mutated form of IsDue: twice the interval has to pass.
IsDueLate == clock - polledAt >= 2 * Interval

\* db._is_feed_due: 90 % of the interval have passed since the last recorded poll.
IsDue == clock - polledAt >= DueAfter

\* The schedule starts a run, which takes up the feed if it is due.  It starts when the
\* interval begins, or not at all: a start that is late is modelled as one that fails.
Schedule ==
  /\ clock % Interval = 0 /\ begun # clock
  /\ begun' = clock
  /\ \/ /\ visit' = IF IsDue THEN [NoVisit EXCEPT !.at = "queued", !.run = clock] ELSE visit
        /\ UNCHANGED troubles
     \/ Goes("schedule") /\ UNCHANGED visit
  /\ UNCHANGED <<kind, clock, posted, collected, polledAt>>

-----------------------------------------------------------------------------
(* One poll *)

\* The feed gets its slot; the date is computed before the first request.
BeginVisit ==
  /\ visit.at = "queued"
  /\ visit' = [visit EXCEPT !.at = "listing", !.from = clock, !.listed = Len(posted)]
  /\ UNCHANGED <<kind, clock, posted, collected, polledAt, begun, troubles>>

\* Mutated form of SweepsYesterday: only in the first interval of the day.
SweepsMidnight == kind = "pib" /\ Hour(visit.from) < Interval

SweepsYesterday == kind = "pib" /\ Hour(visit.from) < Night

\* fetch_pib_daily, fetch_exchange_rss: the listing of the day it is asked for.
ReadDay ==
  /\ visit.at = "listing" /\ kind # "sebi"
  /\ visit' = [visit EXCEPT !.rows = OfDays({DayOf(clock)}),
                            !.at = IF SweepsYesterday THEN "yesterday" ELSE "inserting"]
  /\ UNCHANGED <<kind, clock, posted, collected, polledAt, begun, troubles>>

\* The postback for the day before; one that is refused is passed over.
ReadYesterday ==
  /\ visit.at = "yesterday"
  /\ \/ /\ visit' = [visit EXCEPT !.rows = @ \cup OfDays({DayOf(visit.from) - 1}),
                                  !.at = "inserting"]
        /\ UNCHANGED troubles
     \/ Goes("postback") /\ visit' = [visit EXCEPT !.at = "inserting"]
  /\ UNCHANGED <<kind, clock, posted, collected, polledAt, begun>>

\* Mutated form of Total: what the first page says is believed of all.
TotalAtFirst == IF visit.page = 0 THEN Cardinality(SebiRows) ELSE visit.total

\* The number of records a page gives, as it is when the page is asked for.
Total == Cardinality(SebiRows)

\* fetch_sebi_listing, one page, until as many rows were read, repeated ones included, as
\* there are: blocked, it makes do with what it has.
ReadPage ==
  /\ visit.at = "listing" /\ kind = "sebi"
  /\ \/ LET rows  == SebiPage(visit.page)
            count == visit.count + Cardinality(rows)
            over  == rows = {} \/ count >= Total \/ visit.page + 1 = MaxPages
        IN  /\ visit' = [visit EXCEPT !.rows = @ \cup rows, !.count = count, !.total = Total,
                                      !.page = @ + 1,
                                      !.at = IF over THEN "inserting" ELSE "listing"]
            /\ UNCHANGED troubles
     \/ /\ Goes("blocked")
        /\ visit' = [visit EXCEPT !.whole = FALSE,
                                  !.at = IF visit.rows = {} THEN "recording" ELSE "inserting"]
  /\ UNCHANGED <<kind, clock, posted, collected, polledAt, begun>>

\* A request fails: the poll has no entries and is recorded as a failure.
RequestFails ==
  /\ visit.at \in {"listing", "yesterday"}
  /\ Goes("fetch")
  /\ visit' = [visit EXCEPT !.rows = {}, !.at = "recording"]
  /\ UNCHANGED <<kind, clock, posted, collected, polledAt, begun>>

\* What is not known yet is inserted; a database that is overloaded takes part of it.
Store ==
  /\ visit.at = "inserting"
  /\ \E rows \in SUBSET (visit.rows \ collected) :
       /\ \/ rows = visit.rows \ collected /\ UNCHANGED troubles
          \/ rows # visit.rows \ collected /\ Goes("insert")
       /\ collected' = collected \cup rows
  /\ visit' = [visit EXCEPT !.at = "recording"]
  /\ UNCHANGED <<kind, clock, posted, polledAt, begun>>

\* last_polled_at is the time of the record, not that of the run.
RecordVisit ==
  /\ visit.at = "recording"
  /\ polledAt' = clock
  /\ visit' = NoVisit
  /\ UNCHANGED <<kind, clock, posted, collected, begun, troubles>>

\* The time budget is spent, the run dies, or its record is lost: the feed stays due.
CutOff ==
  /\ visit.at # "none"
  /\ Goes("stop")
  /\ visit' = NoVisit
  /\ UNCHANGED <<kind, clock, posted, collected, polledAt, begun>>

-----------------------------------------------------------------------------
OfficialInit ==
  /\ kind \in Kinds
  /\ clock = 0
  /\ posted = <<>>
  /\ collected = {}
  /\ polledAt = Unpolled
  /\ begun = -1
  /\ visit = NoVisit
  /\ troubles = 0

OfficialNext ==
  \/ Publication \/ Minute \/ Schedule
  \/ BeginVisit \/ ReadDay \/ ReadYesterday \/ ReadPage \/ RequestFails
  \/ Store \/ RecordVisit \/ CutOff

OfficialSpec == OfficialInit /\ [][OfficialNext]_officialVars

-----------------------------------------------------------------------------
(* Properties *)

OfficialTypeOK ==
  /\ kind \in Kinds
  /\ clock \in 0 .. LastTick
  /\ posted \in Seq(0 .. clock)
  /\ collected \subseteq Release
  /\ polledAt \in {Unpolled} \cup 0 .. clock
  /\ begun \in -1 .. clock
  /\ visit \in [at : {"none", "queued", "listing", "yesterday", "inserting", "recording"},
                run : 0 .. clock, from : 0 .. clock, page : 0 .. MaxPages, count : Nat,
                total : Nat, rows : SUBSET Release, listed : 0 .. Len(posted), whole : BOOLEAN]
  /\ troubles \in 0 .. MaxTrouble

\* The time from which no poll can begin that finds release i listed.
GoneAt(i) ==
  CASE kind = "pib"      -> (DayOf(posted[i]) + 1) * Day + Night
    [] kind = "exchange" -> (DayOf(posted[i]) + 1) * Day
    [] kind = "sebi"     -> (DayOf(posted[i]) + 2) * Day

\* A poll recorded late in its run makes the next run pass the feed over, so that polls
\* may be two intervals apart, each trouble costs one of them, and a run may have asked
\* before the release appeared.
Patience == 2 * Interval * (MaxTrouble + 1) + JobTime

\* pipeline/official.py:16, "releases posted late in the evening are never missed": when
\* its listing is gone every release of the Bureau has been collected, and so has what
\* any source had listed for longer than a few failed polls may take, although the day may
\* change in the middle of a poll and the last poll of a day sees no evening.
NothingMissed ==
  \A i \in Release :
    clock >= GoneAt(i) /\ (kind = "pib" \/ posted[i] + Patience < GoneAt(i)) => i \in collected

\* A SEBI poll that was not blocked has every row that was there when it began, although
\* rows move from page to page as new ones appear (pipeline/official.py:238).
PagesAddUp ==
  kind = "sebi" /\ visit.at = "inserting" /\ visit.whole =>
    {i \in SebiRows : i <= visit.listed} \subseteq visit.rows
=============================================================================
