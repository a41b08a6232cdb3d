---------------------------- MODULE SitemapWindow ----------------------------
(***************************************************************************)
(* One news sitemap as a source of the poller (pipeline/sitemap.py): an    *)
(* index of child files that list articles with a publication date; a      *)
(* sitemap without an index is one file that has no date of its own.  A    *)
(* poll reads only what was published after the feed's last success, minus *)
(* an overlap, so what one poll leaves out the next must still look for.   *)
(* Times are in ticks; the statement that moves `last_success_at` is that  *)
(* of FeedPolling, here reduced to the one feed.                           *)
(***************************************************************************)
EXTENDS Integers, FiniteSets

CONSTANTS
  Entry,        \* articles of the publisher
  Undated,      \* those its sitemap lists without a date
  Child,        \* files of the sitemap index, none of them an index itself
  Bare,         \* those the index lists without a date (lastmod)
  ChildOf,      \* ChildOf[e]: the file that lists article e
  Lookback,     \* SITEMAP_LOOKBACK_HOURS
  Overlap,      \* SITEMAP_OVERLAP_HOURS
  Slack,        \* an index entry this much older than the window is still read (24 h)
  Early,        \* dates up to this far ahead are accepted (1 h)
  MaxChildren,  \* SITEMAP_MAX_CHILDREN
  Late,         \* an article is listed at most this long after its date
  Ahead,        \* and at most this long before it
  Rounding,     \* a child's lastmod is at most this far behind
  RunTime,      \* from the fetch to the recorded poll: the timeout of the job
  FaultKinds,   \* what may go wrong
  MaxTime       \* bound on the clock

Fault == {"child", "insert", "stop"}

ASSUME EntryAssumption == /\ Undated \subseteq Entry /\ ChildOf \in [Entry -> Child]
                          /\ Bare \subseteq Child
                          /\ IsFiniteSet(Child) /\ MaxChildren \in Nat \ {0}
ASSUME TimeAssumption ==
  /\ Lookback \in Nat /\ Overlap \in Nat /\ Slack \in Nat /\ Early \in Nat
  /\ Late \in Nat /\ Ahead \in Nat /\ Rounding \in Nat /\ RunTime \in Nat /\ MaxTime \in Nat
ASSUME FaultAssumption == FaultKinds \subseteq Fault

VARIABLES
  now,        \* the clock
  listed,     \* articles in the sitemap
  published,  \* published[e]: the date of article e
  lastmod,    \* lastmod[c]: date of child c in the index
  stored,     \* articles with a row
  last,       \* last_success_at of the feed
  poll        \* the poll in progress: when it fetched, the rows it inserts

vars == <<now, listed, published, lastmod, stored, last, poll>>

Never == -1 - Lookback    \* last_success_at is NULL: no window starts that early
Idle  == [at |-> "idle", fetched |-> 0, rows |-> {}]

Greater(a, b) == IF a > b THEN a ELSE b

-----------------------------------------------------------------------------
(* sitemap.since_for_feed, sitemap.fetch_news_sitemap *)

\* Mutated form of Since: no overlap.
SinceLast(t) == Greater(last, t - Lookback)

\* The start of the window of a poll at time t.
Since(t) == Greater(last - Overlap, t - Lookback)

\* Files of the index whose date is recent enough: if one has a date, those without are
\* left out; if none has, all are read.
Recent == IF Bare = Child THEN Child
          ELSE {c \in Child \ Bare : lastmod[c] >= Since(now) - Slack}

\* The newest of them, if they are too many; without dates, those listed first.
Newest(C) ==
  /\ C \subseteq Recent
  /\ Cardinality(C) <= MaxChildren
  /\ \A c \in Recent \ C : /\ Cardinality(C) = MaxChildren
                           /\ Bare = Child \/ \A d \in C : lastmod[d] >= lastmod[c]

\* What is listed in the files C.
Items(C) == {e \in listed : ChildOf[e] \in C}

\* A sitemap that dates half of its entries is trusted to date all of them.
TrustDates(I) ==
  Cardinality(I \ Undated) >= Greater(1, Cardinality(I) \div 2)

\* The entries of a poll.
Taken(I) ==
  {e \in I : IF e \in Undated THEN ~TrustDates(I)
             ELSE published[e] >= Since(now) /\ published[e] <= now + Early}

-----------------------------------------------------------------------------
\* What date article e may bear when it is listed.
Dates(e) == IF e \in Undated THEN {0} ELSE (now - Late) .. (now + Ahead)

\* The publisher adds an article to one of its files.
List(e) ==
  /\ e \notin listed
  /\ listed' = listed \cup {e}
  /\ \E p \in Dates(e) : published' = [published EXCEPT ![e] = p]
  /\ \E m \in (now - Rounding) .. now :
       lastmod' = [lastmod EXCEPT ![ChildOf[e]] = Greater(@, m)]
  /\ UNCHANGED <<now, stored, last, poll>>

Tick ==
  /\ now < MaxTime
  /\ poll.at # "idle" => now < poll.fetched + RunTime
  /\ now' = now + 1
  /\ UNCHANGED <<listed, published, lastmod, stored, last, poll>>

\* The files are read; Failed are the children that were not.  (Where none is, the
\* poll is a failure, which leaves all of this as it was.)
Fetch ==
  /\ poll.at = "idle"
  /\ \E C \in SUBSET Child : \E Failed \in SUBSET C :
       /\ Newest(C)
       /\ Failed # {} => "child" \in FaultKinds /\ Failed # C
       /\ poll' = [at |-> "inserting", fetched |-> now,
                   rows |-> Taken(Items(C \ Failed)) \ stored]
  /\ UNCHANGED <<now, listed, published, lastmod, stored, last>>

\* upsert_articles_returning: after an error some rows may not be written.
Insert ==
  /\ poll.at = "inserting"
  /\ \E saved \in SUBSET poll.rows :
       /\ saved = poll.rows \/ "insert" \in FaultKinds
       /\ stored' = stored \cup saved
  /\ poll' = [poll EXCEPT !.at = "inserted", !.rows = {}]
  /\ UNCHANGED <<now, listed, published, lastmod, last>>

\* The poll is recorded as a success, however many rows were written.
Record ==
  /\ poll.at = "inserted"
  /\ last' = now
  /\ poll' = Idle
  /\ UNCHANGED <<now, listed, published, lastmod, stored>>

\* The poll is cancelled, its run dies, or its record is not written.
Stop ==
  /\ poll.at # "idle"
  /\ "stop" \in FaultKinds
  /\ poll' = Idle
  /\ UNCHANGED <<now, listed, published, lastmod, stored, last>>

Init ==
  /\ now = 0
  /\ listed \in SUBSET Entry
  /\ published \in [Entry -> (-Lookback) .. 0]
  /\ \A e \in Entry : e \in Undated \/ e \notin listed => published[e] = 0
  /\ lastmod = [c \in Child |-> 0]
  /\ stored = {}
  /\ last = Never
  /\ poll = Idle

Next ==
  \/ \E e \in Entry : List(e)
  \/ Tick
  \/ Fetch \/ Insert \/ Record \/ Stop

Spec == Init /\ [][Next]_vars
-----------------------------------------------------------------------------
TypeOK ==
  /\ now \in 0 .. MaxTime
  /\ listed \subseteq Entry
  /\ published \in [Entry -> Int]
  /\ lastmod \in [Child -> 0 .. MaxTime]
  /\ stored \subseteq listed
  /\ last \in {Never} \cup 0 .. now
  /\ poll \in [at : {"idle", "inserting", "inserted"}, fetched : 0 .. now, rows : SUBSET listed]
  /\ poll.at # "inserting" => poll.rows = {}
  /\ \A e \in poll.rows \ Undated : published[e] <= poll.fetched + Early

\* Articles with a date that have no row yet.
Missing == listed \ (stored \cup Undated)

\* A dated article that was listed and has no row is inside the window of the next
\* poll, in a file that poll reads, for as long as the sitemap reaches back: neither
\* late listing, nor the time a run takes to record its polls, nor a poll that is
\* cut off makes the bookmark pass it (pipeline/sitemap.py:42, :239).
NoneSkipped ==
  \A e \in Missing : published[e] >= now - Lookback =>
    published[e] >= Since(now) /\ ChildOf[e] \in Recent

\* What a poll may assume of publisher and job.  An index dates all of its files or none.
Punctual ==
  /\ Late + RunTime <= Overlap
  /\ Ahead + Rounding <= Slack
  /\ Cardinality(Child) <= MaxChildren
  /\ Bare \in {{}, Child}
  /\ FaultKinds \subseteq {"stop"}

\* A run records its polls before its timeout.
OnTime == poll.at # "idle" => now <= poll.fetched + RunTime

\* No file is dated long before an article in it.
FilesDated ==
  \A e \in listed \ Undated : lastmod[ChildOf[e]] >= published[e] - Ahead - Rounding

\* The window of the next poll reaches back to every article without a row.
WindowReaches ==
  \A e \in Missing : published[e] < now - Lookback \/ published[e] >= last - Overlap

\* What the poll in progress leaves out was listed after its fetch, or is dated ahead.
LeftOutIsNew ==
  poll.at # "idle" =>
    \A e \in Missing \ poll.rows :
      published[e] < now - Lookback \/ published[e] >= poll.fetched - Late

\* The inductive invariant under which the bookmark of the poller
\* (pipeline/sitemap.py:239) never passes an article that has no row.
WindowInv == TypeOK /\ OnTime /\ FilesDated /\ WindowReaches /\ LeftOutIsNew
=============================================================================
