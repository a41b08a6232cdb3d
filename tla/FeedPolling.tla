----------------------------- MODULE FeedPolling -----------------------------
(***************************************************************************)
(* Ingestion: pipeline/poller.run_pipeline polls the due feeds of one      *)
(* cadence concurrently, inserts new articles, appends them with their     *)
(* body to the hand-off file, and records the outcome of each poll in      *)
(* `feeds`, a batch at a time.  Feeds are taken longest unpolled first     *)
(* until a time budget is spent; a grace period later the run gives up     *)
(* what is still in flight.  Rows of `feeds` are read when the run starts  *)
(* and written long after, and any call can fail or commit unnoticed.      *)
(* The crawl is deferred, as in every ingest workflow (CRAWL_AT_INGEST).   *)
(***************************************************************************)
EXTENDS Integers, FiniteSets, SequencesExt

CONSTANTS
  Job,        \* ingest workflows, one per cadence; each runs alone
  Feed,       \* ids of feeds, numbers
  JobOf,      \* JobOf[f]: the workflow that polls feed f
  Link,       \* links of entries: scheme, page, query parameters
  Lists,      \* Lists[f]: the links feed f may ever publish
  Tracking,   \* parameters that say nothing of the article (_STRIP_PARAMS)
  OnceStripped, \* those that once were taken for such (_LEGACY_STRIP_PARAMS)
  WordsOf,    \* WordsOf[u]: the words of the title of article u
  BitsOf,     \* BitsOf[w]: the bits that are 1 in the hash of word w
  Distance,   \* SIMHASH_DISTANCE_THRESHOLD
  Foreign,    \* articles in a language out of scope
  Slots,      \* MAX_CONCURRENT_FEEDS
  Batch,      \* FEED_POLL_BATCH
  MaxErrors,  \* MAX_ERRORS
  Dormancy,   \* DORMANCY_DAYS, in ticks
  Recheck,    \* DORMANT_RECHECK_INTERVAL_DAYS, in ticks
  FaultKinds, \* what may go wrong
  MaxFaults   \* bound on how often

Fault == {"titles", "rechecks", "fetch", "lookup", "entry", "overload", "badRow",
          "insertReply", "record", "recordReply", "hardStop", "kill"}

ASSUME JobAssumption == JobOf \in [Feed -> Job] /\ Feed \subseteq Nat /\ IsFiniteSet(Feed)
ASSUME ListsAssumption ==
  /\ Link \subseteq [scheme : {"http", "https"}, page : {l.page : l \in Link},
                     params : SUBSET UNION {l.params : l \in Link}]
  /\ Lists \in [Feed -> SUBSET Link]
ASSUME LimitAssumption ==
  /\ Slots \in Nat \ {0} /\ Batch \in Nat \ {0} /\ MaxErrors \in Nat \ {0}
  /\ Dormancy \in Nat \ {0} /\ Recheck \in Nat \ {0} /\ MaxFaults \in Nat
ASSUME FaultAssumption == FaultKinds \subseteq Fault

-----------------------------------------------------------------------------
(* Links and titles: dedup.py, language_scope.py *)

\* normalise_url, whose hash is url_hash: the article a link stands for.
Canonical(l) == [l EXCEPT !.scheme = "https", !.params = @ \ Tracking]

\* Mutated form of LegacyForm: nothing but the page is left of a link.
LegacyFormBare(l) == [l EXCEPT !.params = {}]

\* _legacy_normalise_url: what the same link was stored under before.
LegacyForm(l) == [l EXCEPT !.params = @ \ (Tracking \cup OnceStripped)]

\* _entry_hash_candidates: the forms under which an entry may be stored.
Candidates(l) == {Canonical(l), LegacyForm(l)}

Url == {Canonical(l) : l \in Link}

\* simhash: a bit is 1 if it is in the hashes of most words; without words there is none.
TitleHash ==
  LET Ones(u, b) == {w \in WordsOf[u] : b \in BitsOf[w]}
  IN  [u \in Url |-> {b \in UNION {BitsOf[w] : w \in WordsOf[u]} :
                        2 * Cardinality(Ones(u, b)) > Cardinality(WordsOf[u])}]

\* hamming_distance, is_near_duplicate.
NearDuplicate(p, q) == Cardinality((p \ q) \cup (q \ p)) <= Distance

\* article_language, in_scope.
InScope(u) == u \notin Foreign

ASSUME TitleAssumption ==
  /\ WordsOf \in [Url -> SUBSET DOMAIN BitsOf] /\ Foreign \subseteq Url
  /\ Distance \in Nat

-----------------------------------------------------------------------------
VARIABLES
  listed,  \* listed[f]: the entries of the feed's document
  stored,  \* stored[u]: the article's row: is_duplicate, or "no" row
  handed,  \* articles in a hand-off file
  row,     \* row[f]: circuit state, fail_count, ages of last_polled_at and last_new_article_at
  rank,    \* rank[f]: position of feed f in the order of last_polled_at
  job,     \* job[j]: the run of workflow j: feeds not begun, titles seen, poll outcomes
  task,    \* task[f]: poll_one_feed of feed f, in the run of its job
  streak,  \* history: consecutive failed polls of the feed, as recorded
  faults   \* faults so far

vars == <<listed, stored, handed, row, rank, job, task, streak, faults>>

Outcome == [feed : Feed, ok : BOOLEAN, new : BOOLEAN, wake : BOOLEAN, park : BOOLEAN]
NoRun   == [on |-> FALSE, late |-> FALSE, waiting |-> {}, titles |-> {}, items |-> {}]
NoTask  == [at |-> "none", recheck |-> FALSE, rows |-> {}, failed |-> {},
            flagged |-> {}, new |-> {}, clean |-> TRUE]
Stage   == {"none", "queued", "polling", "inserting", "inserted", "done"}

Stored  == {u \in Url : stored[u] # "no"}
Feeds(j) == {f \in Feed : JobOf[f] = j}
InFlight(j) == {f \in Feeds(j) : task[f].at \in {"polling", "inserting", "inserted"}}
AllPolled(j) == job[j].waiting = {} /\ InFlight(j) = {}

\* The row of article u as feed f brings it.
Mark(f, u) == IF u \in task[f].flagged THEN "flagged" ELSE "original"

Least(a, b) == IF a < b THEN a ELSE b

Fails(kind) == kind \in FaultKinds /\ faults < MaxFaults /\ faults' = faults + 1
Works == faults' = faults

-----------------------------------------------------------------------------
(* Reading the feeds: db.get_due_feeds *)

\* Active, and its interval of one tick is over.
Due(f) == row[f].state = "active" /\ row[f].polled >= 1

\* Dormant, and not polled for a week.
RecheckDue(f) == row[f].state = "dormant" /\ row[f].polled >= Recheck

\* Mutated form of First: in the order of the ids.
FirstById(W) == CHOOSE f \in W : \A g \in W : f <= g

\* The rows get_due_feeds returns; without the re-checks when their query fails.
DueFeeds(j, rechecks) == {f \in Feeds(j) : Due(f)} \cup rechecks

\* load_recent_simhashes: the titles of the stored articles.
RecentHashes == {TitleHash[u] : u \in Stored} \ {{}}

\* Longest unpolled first; re-checks are appended after the active feeds.
First(W) ==
  LET Active == {f \in W : ~task[f].recheck}
      W1     == IF Active # {} THEN Active ELSE W
      W2     == {f \in W1 : \A g \in W1 : rank[f] <= rank[g]}
  IN  CHOOSE f \in W2 : \A g \in W2 : f <= g

-----------------------------------------------------------------------------
(* Recording polls: wizer_record_feed_polls *)

\* Mutated form of RowAfter: a success does not end the error streak.
RowAfterNoReset(r, i) ==
  [state  |-> IF i.ok /\ i.wake THEN "active"
              ELSE IF ~i.ok /\ r.fails + 1 >= MaxErrors THEN "errors"
              ELSE IF i.ok /\ i.park THEN "dormant" ELSE r.state,
   fails  |-> IF i.ok THEN r.fails ELSE r.fails + 1,
   polled |-> 0,
   fresh  |-> IF i.ok /\ i.new THEN 0 ELSE r.fresh]

\* The row of a feed after outcome i, in either way of writing it.
RowAfter(r, i) ==
  [state  |-> IF i.ok /\ i.wake THEN "active"
              ELSE IF ~i.ok /\ r.fails + 1 >= MaxErrors THEN "errors"
              ELSE IF i.ok /\ i.park THEN "dormant" ELSE r.state,
   fails  |-> IF i.ok THEN 0 ELSE r.fails + 1,
   polled |-> 0,
   fresh  |-> IF i.ok /\ i.new THEN 0 ELSE r.fresh]

\* The row of a feed written by itself: its update and its mark as dormant may each
\* fail, and a fail_count that cannot be read counts as 0.
RowAlone(r, i, updated, uncounted, marked) ==
  LET read == IF uncounted THEN [r EXCEPT !.fails = 0] ELSE r
      new  == IF updated THEN RowAfter(read, [i EXCEPT !.park = FALSE]) ELSE r
  IN  IF marked THEN [new EXCEPT !.state = "dormant"] ELSE new

\* The outcome of feed f among I.
Of(f, I) == CHOOSE i \in I : i.feed = f

\* The rows after one statement with the outcomes I, or two of them.
Batched(I, twice) ==
  [f \in Feed |->
     IF \A i \in I : i.feed # f THEN row[f]
     ELSE LET new == RowAfter(row[f], Of(f, I))
          IN  IF twice THEN RowAfter(new, Of(f, I)) ELSE new]

\* The rows when each feed of I is written by itself.
OneByOne(I, Updated, Uncounted, Marked) ==
  [f \in Feed |->
     IF \A i \in I : i.feed # f THEN row[f]
     ELSE RowAlone(row[f], Of(f, I), Of(f, I) \in Updated, Of(f, I) \in Uncounted,
                   Of(f, I) \in Marked)]

\* The rows are written, the polls in Updated recorded.
Written(rows, Updated) ==
  LET Done == {i.feed : i \in Updated}
      late == [f \in Feed |-> IF f \in Done THEN Cardinality(Feed) ELSE rank[f]]
  IN  /\ row' = rows
      /\ streak' = [f \in Feed |-> IF f \notin Done THEN streak[f]
                                   ELSE IF Of(f, Updated).ok THEN 0 ELSE streak[f] + 1]
      /\ rank' = [f \in Feed |-> Cardinality({late[g] : g \in {h \in Feed : late[h] < late[f]}})]

-----------------------------------------------------------------------------
(* The world *)

Publish(f, l) ==
  /\ l \in Lists[f] \ listed[f]
  /\ listed' = [listed EXCEPT ![f] = @ \cup {l}]
  /\ UNCHANGED <<stored, handed, row, rank, job, task, streak, faults>>

Tick ==
  /\ \E f \in Feed : row[f].polled < Recheck \/ row[f].fresh < Dormancy
  /\ row' = [f \in Feed |-> [row[f] EXCEPT !.polled = Least(@ + 1, Recheck),
                                           !.fresh = Least(@ + 1, Dormancy)]]
  /\ UNCHANGED <<listed, stored, handed, rank, job, task, streak, faults>>

\* The manual reset of an open circuit.
Reset(f) ==
  /\ row[f].state = "errors"
  /\ row' = [row EXCEPT ![f].state = "active", ![f].fails = 0]
  /\ streak' = [streak EXCEPT ![f] = 0]
  /\ UNCHANGED <<listed, stored, handed, rank, job, task, faults>>

-----------------------------------------------------------------------------
(* poller.run_pipeline *)

\* The due feeds and the recent title hashes are loaded.
Start(j) ==
  /\ ~job[j].on
  /\ \E rechecks \in {{f \in Feeds(j) : RecheckDue(f)}, {}}, titles \in {RecentHashes, {}} :
       LET due == DueFeeds(j, rechecks) IN
       /\ due # {}
       /\ \/ Works /\ rechecks = {f \in Feeds(j) : RecheckDue(f)} /\ titles = RecentHashes
          \/ Fails("rechecks") /\ titles = RecentHashes
          \/ Fails("titles") /\ rechecks = {f \in Feeds(j) : RecheckDue(f)}
       /\ job' = [job EXCEPT ![j] = [NoRun EXCEPT !.on = TRUE, !.waiting = due,
                                                  !.titles = titles]]
       /\ task' = [f \in Feed |->
                     IF f \in due THEN [NoTask EXCEPT !.at = "queued",
                                                      !.recheck = f \in rechecks]
                                  ELSE task[f]]
  /\ UNCHANGED <<listed, stored, handed, row, rank, streak>>

\* A feed gets a slot of the semaphore.
Begin(j) ==
  /\ job[j].waiting # {}
  /\ Cardinality(InFlight(j)) < Slots
  /\ LET f == First(job[j].waiting) IN
       /\ task' = [task EXCEPT ![f].at = "polling"]
       /\ job' = [job EXCEPT ![j].waiting = @ \ {f}]
  /\ UNCHANGED <<listed, stored, handed, row, rank, streak, faults>>

\* Mutated form of Deferred: the budget is not looked at again.
DeferredNone(j) == {}

\* The feeds that find the time budget spent when they get a slot.
Deferred(j) == job[j].waiting

\* The time budget is spent: feeds not begun are left to the next run.
Deadline(j) ==
  /\ job[j].on /\ ~job[j].late
  /\ \E f \in Feeds(j) : task[f].at \notin {"none", "queued"}
  /\ job' = [job EXCEPT ![j].late = TRUE, ![j].waiting = {}]
  /\ task' = [f \in Feed |-> IF f \in Deferred(j) THEN NoTask ELSE task[f]]
  /\ UNCHANGED <<listed, stored, handed, row, rank, streak, faults>>

\* The grace period is over as well: polls in flight are cancelled.  (An insert that
\* commits after that is the Upsert before it, its answer unread.)
HardStop(j) ==
  /\ job[j].late
  /\ InFlight(j) # {}
  /\ Fails("hardStop")
  /\ task' = [f \in Feed |-> IF f \in InFlight(j) THEN NoTask ELSE task[f]]
  /\ UNCHANGED <<listed, stored, handed, row, rank, job, streak>>

\* FeedPollBatch.flush: when the batch is full, and when the run ends.
Flush(j) ==
  LET I == job[j].items IN
  /\ I # {}
  /\ Cardinality(I) >= Batch \/ AllPolled(j)
  /\ job' = [job EXCEPT ![j].items = {}]
  /\ \/ Works /\ Written(Batched(I, FALSE), I)
     \/ \* it committed, timed out and was sent again
        Fails("recordReply") /\ Written(Batched(I, TRUE), I)
     \/ \* it failed: written feed by feed, some of which fail as well
        /\ Fails("record")
        /\ \E Updated \in SUBSET I, Marked \in SUBSET {i \in I : i.park} :
             \E Uncounted \in SUBSET {i \in Updated : ~i.ok} :
               Written(OneByOne(I, Updated, Uncounted, Marked), Updated)
  /\ UNCHANGED <<listed, stored, handed, task>>

EndRun(j) ==
  /\ job[j].on /\ AllPolled(j) /\ job[j].items = {}
  /\ job' = [job EXCEPT ![j] = NoRun]
  /\ task' = [f \in Feed |-> IF JobOf[f] = j THEN NoTask ELSE task[f]]
  /\ UNCHANGED <<listed, stored, handed, row, rank, streak, faults>>

\* The process dies; the hand-off file stays and is uploaded.
Kill(j) ==
  /\ job[j].on
  /\ Fails("kill")
  /\ job' = [job EXCEPT ![j] = NoRun]
  /\ task' = [f \in Feed |-> IF JobOf[f] = j THEN NoTask ELSE task[f]]
  /\ UNCHANGED <<listed, stored, handed, row, rank, streak>>

-----------------------------------------------------------------------------
(* poller.poll_one_feed *)

Result(f, i) == job' = [job EXCEPT ![JobOf[f]].items = @ \cup {i}]

\* The feed cannot be downloaded or parsed.
FetchFails(f) ==
  /\ task[f].at = "polling"
  /\ Fails("fetch")
  /\ Result(f, [feed |-> f, ok |-> FALSE, new |-> FALSE, wake |-> FALSE, park |-> FALSE])
  /\ task' = [task EXCEPT ![f] = [NoTask EXCEPT !.at = "done"]]
  /\ UNCHANGED <<listed, stored, handed, row, rank, streak>>

\* _process_one_entry: an entry known under either form of its link is left out; one that
\* raises an error or is in a foreign language as well, but is known from then on; one
\* whose title resembles one seen before is flagged.
ProcessEntry(acc, l, raises) ==
  LET u == Canonical(l) IN
  IF Candidates(l) \cap acc.seen # {} THEN acc
  ELSE IF raises THEN [acc EXCEPT !.seen = @ \cup {u}, !.failed = @ \cup {u}]
  ELSE IF ~InScope(u) THEN [acc EXCEPT !.seen = @ \cup {u}]
  ELSE [seen    |-> acc.seen \cup {u},
        rows    |-> acc.rows \cup {u},
        failed  |-> acc.failed,
        flagged |-> IF TitleHash[u] # {} /\ \E p \in acc.titles : NearDuplicate(TitleHash[u], p)
                    THEN acc.flagged \cup {u} ELSE acc.flagged,
        titles  |-> acc.titles \cup ({TitleHash[u]} \ {{}})]

\* The entries of a document, one after the other; those in Raising raise an error.
ProcessEntries(base, entries, Raising) ==
  LET acc[n \in 0 .. Len(entries)] ==
        IF n = 0 THEN base ELSE ProcessEntry(acc[n - 1], entries[n], entries[n] \in Raising)
  IN  acc[Len(entries)]

\* In the order of the document, whatever that is, entries become rows;
\* db.existing_hashes fails open.
Read(f) ==
  LET j == JobOf[f] IN
  /\ task[f].at = "polling"
  /\ \E known \in {Stored, {}}, entries \in SetToSeqs(listed[f]), Raising \in SUBSET listed[f] :
       /\ \/ Works /\ known = Stored /\ Raising = {}
          \/ Fails("lookup") /\ known = {} /\ Raising = {}
          \/ Fails("entry") /\ known = Stored /\ Raising # {}
       /\ LET end == ProcessEntries([seen |-> known, rows |-> {}, failed |-> {}, flagged |-> {},
                                    titles |-> job[j].titles], entries, Raising)
          IN  /\ task' = [task EXCEPT ![f].rows = end.rows, ![f].failed = end.failed,
                            ![f].flagged = end.flagged,
                            ![f].at = IF end.rows = {} THEN "inserted" ELSE "inserting"]
              /\ job' = [job EXCEPT ![j].titles = end.titles]
  /\ UNCHANGED <<listed, stored, handed, row, rank, streak>>

\* Mutated form of Ignoring: the rows that were there come back as well.
IgnoringNone(rows) == rows

\* ON CONFLICT DO NOTHING: what of these rows is inserted and returned.
Ignoring(rows) == rows \ Stored

\* Mutated form of EntryErrors: only rows that raised an error count.
NoEntryErrors(rows, saved) == FALSE

\* Some rows were neither inserted nor there already.
EntryErrors(rows, saved) == rows \ (Stored \cup saved) # {}

\* upsert_articles_returning: `saved` was written, `new` is what it returned.
Upsert(f) ==
  LET rows == task[f].rows IN
  /\ task[f].at = "inserting"
  /\ \E saved \in SUBSET Ignoring(rows) : \E new \in {{}, saved}, clean \in BOOLEAN :
       /\ \/ Works /\ saved = Ignoring(rows) /\ new = saved /\ ~clean = EntryErrors(rows, saved)
          \/ \* the batch has a bad row, the others are written one by one
             Fails("badRow") /\ new = saved /\ ~clean = EntryErrors(rows, saved)
          \/ \* not written, and left to the next poll, which every row counts as an error
             Fails("overload") /\ saved = {} /\ new = {} /\ ~clean
          \/ \* written, timed out, and sent again, which inserts nothing or fails
             Fails("insertReply") /\ saved = Ignoring(rows) /\ new = {}
       /\ stored' = [u \in Url |-> IF u \in saved THEN Mark(f, u) ELSE stored[u]]
       /\ task' = [task EXCEPT ![f].at = "inserted", ![f].new = new, ![f].clean = clean]
  /\ UNCHANGED <<listed, handed, row, rank, job, streak>>

\* Mutated form of Parks: whatever the outcome of the inserts.
ParksUnclean(f) == ~task[f].recheck /\ row[f].fresh >= Dormancy

\* The dormancy check: nothing new in a clean poll of a feed silent for too long.
Parks(f) ==
  /\ task[f].new = {} /\ task[f].clean /\ task[f].failed = {} /\ ~task[f].recheck
  /\ row[f].fresh >= Dormancy

\* Bodies to the hand-off file, outcome to the batch; nothing can come between.  What a
\* poll that parks its feed had in hand is kept in `rows` until the outcome is recorded.
Collect(f) ==
  /\ task[f].at = "inserted"
  /\ handed' = handed \cup task[f].new
  /\ Result(f, [feed |-> f, ok |-> TRUE, new |-> task[f].new # {},
                wake |-> task[f].recheck /\ task[f].new # {}, park |-> Parks(f)])
  /\ task' = [task EXCEPT ![f] = [NoTask EXCEPT !.at = "done",
                                      !.rows = IF Parks(f) THEN task[f].rows \cup task[f].failed
                                                ELSE {}]]
  /\ UNCHANGED <<listed, stored, row, rank, streak, faults>>

-----------------------------------------------------------------------------
Init ==
  /\ listed = [f \in Feed |-> {}]
  /\ stored = [u \in Url |-> "no"]
  /\ handed = {}
  /\ row = [f \in Feed |-> [state |-> "active", fails |-> 0, polled |-> Recheck, fresh |-> 0]]
  /\ rank = [f \in Feed |-> 0]
  /\ job = [j \in Job |-> NoRun]
  /\ task = [f \in Feed |-> NoTask]
  /\ streak = [f \in Feed |-> 0]
  /\ faults = 0

Run(j)  == Start(j) \/ Begin(j) \/ Flush(j) \/ EndRun(j)
Poll(f) == FetchFails(f) \/ Read(f) \/ Upsert(f) \/ Collect(f)

Next ==
  \/ \E f \in Feed, l \in Link : Publish(f, l)
  \/ Tick
  \/ \E j \in Job : Run(j) \/ Deadline(j) \/ HardStop(j) \/ Kill(j)
  \/ \E f \in Feed : Poll(f) \/ Reset(f)

Spec == Init /\ [][Next]_vars

\* The schedule starts runs, and a run goes on while it is not killed.
FairSpec ==
  /\ Spec
  /\ WF_vars(Tick)
  /\ \A j \in Job : WF_vars(Run(j))
  /\ \A f \in Feed : WF_vars(Poll(f))

-----------------------------------------------------------------------------
TypeOK ==
  /\ listed \in [Feed -> SUBSET Link]
  /\ stored \in [Url -> {"no", "original", "flagged"}]
  /\ handed \subseteq Url
  /\ row \in [Feed -> [state : {"active", "dormant", "errors"}, fails : Nat,
                       polled : 0 .. Recheck, fresh : 0 .. Dormancy]]
  /\ rank \in [Feed -> Nat]
  /\ job \in [Job -> [on : BOOLEAN, late : BOOLEAN, waiting : SUBSET Feed,
                      titles : SUBSET {TitleHash[u] : u \in Url}, items : SUBSET Outcome]]
  /\ task \in [Feed -> [at : Stage, recheck : BOOLEAN, rows : SUBSET Url, failed : SUBSET Url,
                        flagged : SUBSET Url, new : SUBSET Url, clean : BOOLEAN]]
  /\ \A f \in Feed : task[f].at = "queued" <=> f \in job[JobOf[f]].waiting
  /\ streak \in [Feed -> Nat]
  /\ faults \in 0 .. MaxFaults

\* A hand-off file holds stored articles only, and no article goes into the file twice,
\* whichever feeds, runs and retries tried to insert it: shards of process.yml take no
\* claim on what the file gives them (pipeline/handoff.py, pipeline/db.py:726).
HandedOnce ==
  /\ handed \subseteq Stored
  /\ \A f \in Feed : task[f].new \subseteq Stored \ handed
  /\ \A f, g \in Feed : f # g => task[f].new \cap task[g].new = {}

\* A feed is disabled for errors only after MAX_ERRORS failed polls in a row
\* (pipeline/config.py:72); such a feed is never polled again by itself.
DisabledOnlyAfterErrors ==
  \A f \in Feed : /\ row[f].fails <= streak[f]
                  /\ row[f].state = "errors" =>
                       streak[f] >= MaxErrors /\ task[f].at \in {"none", "done"}

\* A feed is parked as dormant only if its last poll left none of its entries out of the
\* table, neither one that raised an error nor a row that failed (pipeline/poller.py:578).
ParkedMissedNothing ==
  \A j \in Job : \A i \in job[j].items : i.park => task[i.feed].rows \subseteq Stored

\* A feed becomes dormant only while its last recorded article is older than
\* DORMANCY_DAYS, although the check reads a row older than the run (pipeline/poller.py:583).
ParkedOnlyWhenQuiet ==
  [][\A f \in Feed : row[f].state = "active" /\ row'[f].state = "dormant"
                       => row'[f].fresh >= Dormancy]_vars

\* Whatever an active feed publishes in a language in scope is stored in the end,
\* although every run may stop at its budget after the first feed (pipeline/db.py:232,
\* pipeline/poller.py:433).
EveryArticleIngested ==
  \A f \in Feed : \A l \in Lists[f] :
    l \in listed[f] /\ InScope(Canonical(l)) /\ row[f].state = "active"
      ~> Canonical(l) \in Stored \/ row[f].state # "active"

\* An entry left out of a poll is an article that is stored, another entry of the same
\* poll, or one that raised an error: no article is taken for another one
\* (pipeline/dedup.py:100-107). This takes that no link once had the form another
\* article's link has now.
NoneTakenForAnother ==
  [][\A f \in Feed : task[f].at = "polling" /\ task'[f].at \in {"inserting", "inserted"}
       => \A l \in listed[f] : InScope(Canonical(l)) =>
            Canonical(l) \in Stored \cup task'[f].rows \cup task'[f].failed]_vars
=============================================================================
