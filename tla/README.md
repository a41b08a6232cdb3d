# Verification of wizer-pipeline

This directory holds TLA+ modules, TLC configurations and TLAPS proofs about the news
pipeline in this repository: feeds and sitemaps are polled into Postgres, a fleet of
short-lived GitHub Actions jobs crawls and enriches the articles, clustering jobs put them
into stories, and an archive moves old days to object storage. Paths are relative to the
repository (below `src/`).

The pipeline has no server of its own. Every actor is a job that is started by a schedule
or by another workflow, may be killed by its timeout, talks to Postgres through calls that
may time out after they committed, and is retried. What holds the system together is a
handful of protocols between those jobs and the tables they share. They are what is
modelled here.

Contents: 1 the system, 2 the modules, 3 the runs (with assumptions, bounds and fairness),
4 the proofs, 5 where the code is known to do less than its documentation says, 6 what is
not modelled, 7 the plan.

## 1. The system

### 1.1 Components

| Component | Code | State it keeps | Operations | Module |
|---|---|---|---|---|
| Feed polling | `pipeline/poller.py`, `main.py` | feeds not begun, titles seen in the run, outcomes not yet recorded | poll due feeds concurrently, insert, hand off, record, hard stop | `FeedPolling` |
| Circuit breaker, dormancy | `pipeline/circuit_breaker.py` | `is_active`, `fail_count`, `disabled_reason`, poll times of a feed row | success, failure, parking, waking, reset | `FeedPolling` |
| Ingestion writes | `pipeline/db.py` | rows of `articles`, `feeds` | insert with conflicts and fallbacks, batched and single poll records | `FeedPolling`, `SitemapWindow` |
| Deduplication | `pipeline/dedup.py` | none of its own | link forms, title hashes, known / near-duplicate / new | `FeedPolling` |
| Sitemaps | `pipeline/sitemap.py` | `last_success_at` as a bookmark | window, choice of files and entries | `SitemapWindow` |
| Hand-off file | `pipeline/handoff.py`, `.github/workflows/process.yml` | the articles of an ingest run, some with bodies | append, shard, drop | `FeedPolling`, `EnrichQueue`, `PageCrawl` |
| Page crawler | `pipeline/crawler.py` | failures in a row per site | ladder of fetch strategies, retries, deadline, fail-fast | `PageCrawl` |
| Body store | `enrichment/body_store.py` | bodies not uploaded yet | put, flush | `PageCrawl` |
| Enrichment queue | `docs/enrichment_queue_v2_migration.sql`, `docs/enrichment_queue_migration.sql` | `enriched_at`, `enrich_claimed_at`, `enrich_attempts` | claim, release, save | `EnrichQueue` |
| Enrichment runners | `enrichment/handoff_runner.py`, `enrichment/runner.py`, `enrich.py` | claimed ids, a chunk of results, the article in work | enrich one, save, release the rest, stop | `EnrichQueue`, `DirectRun`, `PageCrawl` |
| Entity tally | `docs/bulk_io_migration.sql` | `top_entities` of a story | saved batch, stamped articles, merge | `EntityTally` |
| Clustering in memory | `enrichment/cluster_job.py`, `memory_clustering.py`, `cluster_state_sync.py` | clusters in memory, a cached file with a bookmark, rows of `article_clusters` | load, delta, assign, flush, merge twins, save | `ClusterSync` |
| Clustering in SQL | `docs/clustering_v2_migration.sql`, `enrichment/clustering.py` | stories: members, sum, count, tombstones | assign, merge, reconcile, prune | `Stories`, `StoryJobs`, `DirectRun` |
| Cluster maintenance | `enrichment/cluster_maintenance.py` | a plan of merges | probe, plan, merge, reconcile, prune | `StoryJobs` |
| Archive | `archiver/*.py`, `docs/archive_migration.sql`, `docs/archive_guard_migration.sql` | `article_archive_log`, objects in a bucket | export, verify, prune a day | `Archive` |
| Official sources | `pipeline/official.py`, `.github/workflows/ingest-official.yml` | none beside the feed row; listings that are emptied at midnight | read today, sweep yesterday, read pages | `OfficialSource` |
| Feed catalogue | `push_feeds.py`, `tools/discover_sitemaps.py`, `tools/register_official_sources.py` | rows of `feeds`, a copy of their addresses | load, deduplicate, insert in batches, upsert | `FeedCatalogue` |
| Language purge | `tools/purge_languages.py` | none of its own | delete articles, delete or rescale their stories, evict the cached file | `ClusterSync`, `Archive` (archived rows) |
| NLP steps, Parquet files, coverage audit, other workstation tools | `enrichment/steps`, `archiver/parquet.py`, `tools/` | none | pure, read-only, or run by hand | none (section 6) |

### 1.2 How they interact

* An ingest run inserts articles, appends them to a hand-off file and triggers
  `process.yml`, which enriches that file in shards and runs the clustering job. The
  shards do not claim the rows they work on, so a file must not name an article twice.
* `enrichment.yml` starts sweepers every two hours in fixed slots (a concurrency group per
  slot). A sweeper claims a batch through `wizer_claim_enrichment_batch`, which leases
  a row by setting `enrich_claimed_at` and counts the attempt, saves chunks of results,
  and releases what it did not get to, with the attempt refunded.
* In both, threads fetch pages ahead of the main loop, which waits for each only so long,
  saves rows in chunks of one size and uploads bodies in batches of another.
* `enrich.py` without a file is the direct path: one article after the other, its entities
  deleted and inserted, its story assigned in SQL, `enriched_at` last.
* Clustering runs one at a time in the concurrency group `story-clustering`, together
  with `cluster.yml` and `cluster_maintenance.yml`. The in-memory job restores a cached
  file, reads what changed in the database since the file's bookmark, and writes absolute
  values. The SQL functions add to what is there, under an advisory lock.
* A saved batch and a stamped cluster both add an article's entities to its story;
  whichever comes second must do it.
* Official sources are feeds with their own adapter; their workflow runs every 15 minutes.
  `push_feeds.py` and the registering tools write to the table of feeds while the poller
  updates its rows.
* The archive exports a day when it left the hot window and every article of it is
  enriched or given up, verifies the objects, and deletes the rows.

### 1.3 What is hard

* Clients retry once after a timeout, whether or not the first call committed
  (`enrichment/db.py:103-123`). Each call must survive being applied twice.
* Jobs die at any point: leases must expire, but not under a job still working.
* Shards and sweepers meet on the same rows with no lock between them.
* A dead letter (as many attempts as `ENRICH_MAX_ATTEMPTS`) is due again by a rule of
  its own, which interacts with release and refund.
* A poll decides on a row of `feeds` that was read when the run started and writes long
  after; polls of one run insert across awaits on sets they share.
* A bookmark in time must never pass what was left out, listed late or cut off.
* Official listings are emptied at midnight: what no poll has read by then is gone, and polls
  are skipped, cut off and answered page by page while the listing grows.
* A push of feeds compares with a copy that is read page by page while the table moves.
* A thread that answers late, or never, must not stop the loop nor speak for another article.
* Merges are planned on one reading and executed on a later state; tombstones chain.
* Clustering in memory decides on a copy of the database and writes absolute sums, so a
  copy that misses one change destroys data silently.
* Enrichment, clustering and merging lock the same rows in different orders under
  READ COMMITTED.
* The archive deletes. Everything between the copy and the delete can be changed by
  others, and each step may have happened only in part.

The complete list, with the line where each hazard bites and the properties that would
catch it, is `hazards` in `PROJECT.json`.

### 1.4 What makes each component correct

* Ingestion: an article goes into hand-off files once; a feed is disabled only for errors
  in a row and parked only when it is quiet; no article is taken for another; whatever an
  active feed publishes is stored in the end. A sitemap's bookmark passes no article
  without a row. No release is lost with its listing. A push adds no feed twice, and its exit
  status tells whether every feed of the file is there.
* Crawling: a row marked as crawled has its body; a site is left alone, and a page given
  up, only for a reason; a run ends whatever its threads do.
* Queue: sweepers never share an article; an attempt is counted exactly for a try that
  was used up; enriched is final; every article is enriched in the end.
* Direct path: `enriched_at` implies entities, once, and a story; a stopped run keeps no claim.
* Tally: an active story counts each of its enriched articles once.
* Clustering: the stored sum of a story holds each of its members once and nothing else; no
  article is in a dead story; an old story id leads to where its articles are; the cached
  file can always be brought up to date; every article gets a story.
* Archive: a deleted row is in a readable, logged object, as it was when it was deleted;
  a verified day holds no row twice; every day that can be finished leaves the table.

## 2. The modules

| Module | Models | Kind |
|---|---|---|
| `FeedPolling` | a run of an ingest workflow over its feeds, deduplication, the feed rows | component |
| `SitemapWindow` | a sitemap with its bookmark | component |
| `OfficialSource` | an official source with its daily listing, its polls and their schedule | component |
| `FeedCatalogue` | the table of feeds, pushes of CSV files and the other writers | component |
| `FeedPollingProofs` | hand-off, recording and states of feeds, reading of a document | proofs |
| `SourcesProofs` | the bookmark passes no article; pages add up and no release is lost with its listing; pushes | proofs |
| `WorkClaims` | what the queue promises: exclusive ownership of unfinished work | abstract specification |
| `EnrichQueue` | the queue columns, claim and release, sweepers, hand-off shards | component, implements `WorkClaims` |
| `EnrichQueueProofs` | claims, ledger, finality, refinement | proofs |
| `PageCrawl` | threads, main loop, row batches and body store of an enrichment run | component |
| `PageCrawlProofs` | bodies, streaks and ladders | proofs |
| `Stories` | what SQL may do to the story tables | abstract specification |
| `StoryJobs` | assignment and maintenance through SQL | component, implements `Stories` |
| `DirectRun` | direct enrichment runs, on the tables of `Stories` | component, composed with `Stories`, implements it |
| `StoriesProofs` | the invariant of the story tables; both jobs and direct runs implement `Stories`; claims and marks of direct runs | proofs |
| `EntityTally` | save, apply and merge as transactions of statements with row locks | component |
| `EntityTallyProofs` | the lock discipline and the tally | proofs |
| `ClusterSync` | the in-memory clustering job, its cached file, the cluster tables | component |
| `ClusterSyncProofs` | the tables, the memory and the file | proofs |
| `Archive` | the archive run, its SQL, its bucket, and the other writers of old rows | component |
| `ArchiveProofs` | what is deleted is archived | proofs |
| `MCFeedPolling`, `MCSources`, `MCEnrichQueue`, `MCPageCrawl`, `MCStoryJobs`, `MCDirectRun`, `MCEntityTally`, `MCClusterSync`, `MCArchive` | instances for TLC | model checking |

Several operators are preceded by a *mutated form*: the same operator with a plausible
mistake in it. No action uses them. `PROJECT.json` names, for every property of a passing
run, the mutated form under which TLC finds the property violated. It is the evidence that
the property depends on the code. Variables commented as *history* are read by properties
only.

### 2.1 FeedPolling

`row[f]` is the row of a feed, `rank[f]` its place in the order of `last_polled_at`; the
two times of a row are ages in ticks that stop growing at the limit they are compared with.
`job[j]` is a run of the workflow of one cadence: the feeds that wait for a slot, the title
hashes of the run, the outcomes not yet recorded. `task[f]` is `poll_one_feed`.

* `Start` reads due feeds, re-checks and recent titles; `Begin` gives the feed that waited
  longest a slot; `Deadline` spends the budget, `HardStop` the grace period after it.
* `Read` goes through the entries of a document one after the other, in any order they may
  have (`ProcessEntries`; `ProcessEntry` is `_process_one_entry`). The look-up of known articles
  fails open; an entry that raises an error is left out and kept in `failed`, for `entry_errors`.
  `Upsert` is the insert: everything new, some rows, nothing, or everything with the reply lost.
  `Collect` appends to the hand-off file and to the batch of outcomes. Between these three
  the code awaits, so they are steps.
* `Flush` records a batch of outcomes in one call; sent twice, or failed and replaced by one
  call per feed, of which some fail too. `RowAfter` is the arithmetic both share.
* A feed's listing only grows (`Publish`): a feed that drops an entry before a poll has read it
  is not modelled.
* A link is its scheme, its page and its parameters. `Canonical` and `LegacyForm` are the
  two normalisations, `TitleHash` the SimHash of a title as the vote of its words.

### 2.2 SitemapWindow

One sitemap of several files. `last` is `last_success_at`; `Since` is the start of the
window of a poll, `Recent` and `Newest` choose files, `Taken` entries. The publisher (`List`)
may list an article late, date it ahead, and round a file's date down; a poll may be cut
off at any point (`Stop`). `Bare` are the files to which the index gives no date: next to a dated
one they are never read (`pipeline/sitemap.py:195-198`), and without any dated one all are. A file
of the index that is an index itself is passed over (`:234`) and has no place in the model.

`MCSources` puts this module, `OfficialSource` and `FeedCatalogue` into one instance. They
share no state, so a behaviour is one of one of them (`part`) while the others keep their
first state: the state spaces are added, not multiplied.

### 2.3 OfficialSource

`posted` are the releases with the time they appeared, `collected` those with a row. The
listing of a source is what `OfDays` makes of `posted`: today's releases, or for SEBI those of
yesterday and today in pages, newest first. `visit` is the poll of the feed in the current run.

* `Schedule` starts a run when an interval begins, or not at all, and takes up the feed if `IsDue`
  says so. GitHub may also start it some minutes late, which is not modelled (section 3.2);
  `Minute` lets time pass inside a run, which ends before the job's timeout.
* `BeginVisit` fixes the date a poll computes; `ReadDay` reads what is listed at the moment of
  the request, which may be after midnight. `SweepsYesterday` decides on the first of the two.
* `ReadPage` is one page of SEBI's listing as it is when asked for. `count` adds up the rows read,
  a row that was pushed to the next page twice; the paging ends when it reaches `total`, the
  number that page gave (`Total`), which grows too. A block ends the paging.
* `Store` inserts what has no row yet, or part of it; `RecordVisit` dates the poll when it is
  recorded, not when it began. `CutOff` is a spent budget, a dead job or a lost record.

The language of a release, ministries and the fund notices that are dropped are not modelled: a
release is one that the parser keeps.

### 2.4 FeedCatalogue

`table` is the table of feeds in the order in which the database returns its rows, which
nothing fixes: `RowMoves` is an update by the poller, after which the row lies behind all
others. `push[p]` is a run of `push_feeds.py`. `Firsts`, `Winners` and `NewRows` are its three
layers of deduplication on addresses (`NormOf` is `_normalise`), `LoadPage` a page of 1000 rows,
`InsertBatch` a batch, which may fail, or commit and its reply be lost; `Failed` is what the exit
status tells, which counts the rows of a failed batch that have an address. `RegisterRow` is the
upsert of the registering tools. `disturbed` is history: others have written since the push
began to load.

### 2.5 EnrichQueue

The three columns are `enriched`, `claimAge` and `attempts`. A timestamp is modelled by
its age in ticks, which stops growing just past the largest limit it is compared with;
so time is unbounded and the state space is finite. `claimAge = NoClaim` is SQL `NULL`,
and a comparison with it is not true, as in SQL. `charged` is a history variable: the
failed tries of an article.

* `ClaimPage` is one call of the claim function inside `claim_batch`; any subset of the
  rows another transaction may be touching can be skipped (`SKIP LOCKED`). Pages follow
  until the batch is full or a page is short.
* `EnrichOne`, `Deadline`, `SaveBatch`, `SaveFails`, `EndLoop`, `Release` are the loop of
  `run_handoff_enrichment` and the end of `run_sweeper`. A crash of `enrich_one` keeps the
  claim; a failed save gives the whole chunk back.
* `ClaimReplyLost`, `SaveReplyLost`, `ReleaseReplyLost` are calls that committed and whose
  client saw a timeout. A lost claim reply leases a page to nobody and is asked again
  once. A lost save reply makes the job treat enriched rows as failed.
* `ShardSave`, `ShardDrop` are the hand-off shards, which write without a claim.
* `Die` ends a run anywhere and keeps its leases. `Tick` waits for runs at their job
  timeout: GitHub kills them (`timeout-minutes`).

`Claims == INSTANCE WorkClaims` maps `owner[a]` to the run that holds the unenriched
article `a`. `ImplementsClaims` says that every step of the queue is a step of the
abstract specification or leaves it alone: no claim and no release takes an article
from a run that holds it.

### 2.6 PageCrawl

`thread[a]` is the future of an article: queued, at a strategy of the ladder, or with a
result. `streak`, `tripped` are the tracker of failing sites, `ended` the history of how
fetches ended. `run` is the main loop: what it still takes, the rows of the next save (with
`is_crawled` set or cleared), the bodies of the next upload. `Pick`, `Request`, `Late` are a
thread; `Wait`, `Take`, `Timeout`, `EndLoop`, `Flush`, `Save` the loop. Runs follow one
another: the shard of a file whose records may carry bodies, then sweepers whose rows do not.

### 2.7 Stories, StoryJobs, DirectRun

`Stories` is the abstract specification of the story tables: each SQL function is one
transaction under one advisory lock, so `AssignRows`, `MergeRows`, `Recount`, `PruneRows`
and `Delete` are single steps, and its next-state relation allows them at any time.
`sum[c][a]` says how often the vector of `a` is in `centroid_sum` of `c`. `updated_at` is
modelled by the order it puts the stories in (`before`), so "idle for a week" is any
initial segment of that order (`Idle`).

`StoryJobs` has `cluster.py run` without `--memory` (page, batches, lost replies, failed
items) and `cluster.py maintain` (`CarePlan`, `CareMerge`, `CareRound`, `CareCount`,
`CarePrune`), each deciding on what it read before, beside deletions and merges by hand.
It `EXTENDS Stories`, and `StorySpec` is checked and proved of it.

`DirectRun` composes direct runs with the same tables: a run claims or takes a forced batch
and does one article after the other, a call at a time. `kept` and `shared` are history:
claims kept because a try failed or a run died, and articles that were in two runs. That its
behaviours are behaviours of `StorySpec` is proved.

### 2.8 EntityTally

Each of the three SQL functions is a transaction of two statements. `Lock` takes one row
lock at a time, in any order; a statement reads the latest committed version of a row
once it has locked it, which is what READ COMMITTED does for an `UPDATE`. Effects become
visible at `Commit`. `Abort` is a deadlock victim, a cancelled statement or a dead job.
The entities of an article are one unit, so the tally of a story is a bag of articles. The
cut of the stored list to its 30 best entries is left out: it loses small entries by design.

### 2.9 ClusterSync

`story`, `status` and `sum` are the database; `sum[c][a]` says how often article `a` is in
`centroid_sum` and `article_count`, so a sum is a bag. `mem` is the running job's
`ClusterState`; `file` the cached one. The bookmark `synced_at` is modelled by what it
stands for: `newer`, the clusters whose `updated_at` is later. A write adds its clusters
to the `newer` of every copy; `MarkFlushed` and a delta empty that of the copy they
move. Similarities are abstracted: an article may join any live cluster or seed one, and
any touched pair may be a twin, the larger one winning. `Windows` are the clusters of the
retention window: any subset of the live ones is loaded or pruned. The work list holds every
article without a story; in the code it goes back `since_hours` only (`enrichment/cluster_job.py:181`),
72 in the workflows (`process.yml:122`, `cluster.yml:55`).

`Flush` writes one chunk, or half of one, and may have to write it again. `MergeTwins` is
one merge of a round: done, failed, or done with its reply lost, where the retry is refused
and the winner is not counted. `EndRound` reads the delta, possibly only part of it. `Save`
writes the file, unless the cache fails to take it; `Evict` loses the file; `Die` ends a run
anywhere; `Maintain` is the maintenance job's merge, in SQL only. `Purge` is
`tools/purge_languages.py` with the eviction of the cache that follows it while the workflows
are still disabled (`docs/MIGRATIONS.md:157`): the articles of `Foreign` are deleted, stories
left empty with them, and the sum of the others is scaled, for which the bag of the articles
that are kept stands (the average is what is compared).

The concurrency group makes jobs of the group exclusive, and the model takes that, with
the assumption that a call of a killed job has ended before the next job has started
(setup takes minutes, a statement is cancelled after its timeout). Left out:
reconciliation, which changes nothing as long as `SumsMatchMembers` holds; orphan pruning,
which only takes clusters idle for a week; rows deleted from a live story by hand.

### 2.10 Archive

`log` is `article_archive_log`, `store` the bucket. An object is the set of rows written
to it, `{}` when missing or damaged. `BeginDay` to `PruneDay` are the loop of
`run_archive`, a call at a time; `FailDay` is an exception in a day, `Die` a killed job.
`BeginDay` takes the log row, the guard and the day's statistics as one step.
`Enrich` and `Purge` are the table's other writers. The day limit, the part
size and the prune chunk are constants, so that partly written and partly pruned days
occur.

## 3. The runs

States are distinct states found by TLC.

| Run | Question | Result | States |
|---|---|---|---|
| `FeedPolling` | Two feeds that share an article, every fault but one: is anything handed off twice, taken for something else, disabled or parked wrongly, or never stored? | holds | 497,467 |
| `Sources` | Does the bookmark of a sitemap ever pass an article without a row? Is a release of an official source lost with its listing? Does a push of feeds add one twice, or end well without having added all? | holds | 5,629,745 |
| `PageCrawl` | Threads beside the loop: does a crawled row have its body, is giving up justified, does every run end? | holds | 434,903 |
| `EnrichQueue_reliable` | Are runs disjoint, is the counter exact, is `WorkClaims` implemented, is every article enriched in the end, with crashes, lost claim and save replies, expiring leases? | holds | 291,093 |
| `EnrichQueue_lossy` | What is left when a release may be sent twice, and a row is rejected by every save? | attempts never exceed tries; enriched rows are final | 673,441 |
| `EnrichQueue_stuck` | Can an unenriched article become unclaimable? | violated | |
| `DirectRun` | Does `enriched_at` imply entities, once, and a story; does a stopped run keep claims? | holds | 3,296,317 |
| `EntityTally_once` | Is each enriched article of a story counted once? | holds, as long as no save is sent twice | 54,579 |
| `EntityTally_retry` | And when a save is sent again after a timeout? | violated | |
| `ClusterSync` | Do the three copies of the clusters stay consistent, and does every article get a story? | holds | 322,950 |
| `StoryJobs` | Do assignment and maintenance implement `Stories`; are vectors counted once, stories readable, old ids right, counts right? | holds | 401,466 |
| `Archive` | Is what is deleted stored, intact and current; does every day leave the table? | holds, with one archiver | 61,957 |

### 3.1 Where the code and its documentation disagree

The two violated runs are `findings` in `PROJECT.json`, each with the sentence of the
repository it contradicts.

1. `EnrichQueue_stuck`. A dead letter is due again when its claim is older than
   `ENRICH_RETRY_HOURS`. The claim function compares a `NULL` claim time, and a release
   sets it to `NULL`. A sweeper that claims a dead letter and hands it back untried makes
   it unclaimable for ever.
2. `EntityTally_retry`. `wizer_save_enrichment_batch` adds to the tally every time it
   runs, and the client runs it again after a timeout.

Section 5 lists what was found beyond these.

### 3.2 What the passing runs assume

Each assumption is a constant of an instance. Changing it gives a counterexample, which
shows what it is for; each of these was tried.

| Run | Assumes | Otherwise |
|---|---|---|
| `EnrichQueue_reliable` | no release is sent twice (`LostReplies`) | `DisjointRuns` fails: a release that is sent again drops the lease that another run has taken on the row in the meantime |
| `EnrichQueue_reliable` | no row is rejected by every save (`BadRow`) | `EveryArticleEnriched` fails for *other* articles: the chunk with the row is released with refunds (`enrichment/handoff_runner.py:118`) and, being the oldest, claimed together again, although `enrichment/runner.py:39` says "one bad article can never block the queue" |
| `EnrichQueue_reliable` | fewer faults than attempts (`MaxFaults < MaxAttempts`) | an article that every run dies on is given up, by design |
| `EntityTally_once` | no article is enriched by two jobs (`Shared`) | `CountedOnce` fails: both add its entities |
| `EntityTally_once` | replies of saves arrive (`LostReplies <- JobCalls`) | finding 2 |
| `Archive` | one archiver | `PrunedIsArchived` fails: one exports a day the other is pruning and overwrites its objects. The workflow has a concurrency group; a run from a workstation (`tools/archive_local.py`) is outside it |
| `Archive` | a run takes as many days as wait (`MaxDays`) | `EveryDayLeaves` fails: `days[:max_days]` is cut (`archiver/runner.py:189`) before days are found to wait (`:208`), so a day that waits for ever keeps its place; the same when the time budget is spent after it |
| `Archive` | no article is on its last try when its day is exported (`LastTry`) | `ArchivedAsDeleted` fails, section 5 |
| `FeedPolling` | the reply of a batched record arrives (`recordReply`) | `DisabledOnlyAfterErrors` fails: two failures are counted for one |
| `FeedPolling` | no link once had the form another one has now | `NoneTakenForAnother` fails (`Link <- StoryLinks`), section 5 |
| `Sources` (sitemap) | every chosen file is read, or none (`"child"`) | `NoneSkipped` fails: a poll with one unread file is a success (`pipeline/sitemap.py:204`) and moves the window |
| `Sources` (sitemap) | inserts are complete (`"insert"`) | `NoneSkipped` fails, section 5 |
| `Sources` (sitemap) | the index dates all of its files or none (`Bare`) | `NoneSkipped` fails: files without a date next to one with a date are never read |
| `Sources` (sitemap) | the publisher is `Punctual`: listed no later after its date than the overlap minus a run's length, dated ahead no more than the slack | an article listed later than that is outside every later window |
| `Sources` (official) | the sweep of yesterday (`Night`) lasts as long as two polls that are passed over or fail (`Patience`) | `NothingMissed` fails for the Bureau; in the code it is 3 hours, twelve intervals |
| `Sources` (official) | exchange filings and SEBI's rows appear that long before their listing is gone (a conjunct of `NothingMissed`) | it fails: nothing sweeps their last minutes, section 5 |
| `Sources` (feeds) | nobody else writes while a push loads and inserts (`disturbed`, in `NoTwinAdded`) | it fails: a row that moves behind the offset of the load is on no page, and its twin is added |
| `Sources` (feeds) | no row wins over a twin without having a feed address itself (in `CleanPushComplete`) | it fails, section 5 |
| `DirectRun` | deleting and inserting entities and assigning do not fail for good, and an insert's reply arrives | `SavedBeforeMarked` fails, section 5 |

Three more assumptions are in the actions and not constants.

* Runs for official sources start when an interval begins or not at all (`Schedule`). A late start,
  which the tolerance of `pipeline/db.py:361` allows for, widens the gap between two polls by its
  delay, and by an interval if it makes the feed not due for the next run. Neither the run nor
  the theorem covers this; the Bureau's sweep is twelve intervals long in the code, and with one
  trouble four and the length of a run suffice when runs are on time.
* An ingest feed drops no entry before it was polled (section 2.1), and an article gets its story
  before it is older than the work list goes back (section 2.9): `EveryArticleIngested` and
  `EveryArticleClustered` speak of such articles.
* An official run ends before the next interval (`Minute`, with `JobTime`): its timeout is 14 of
  the 15 minutes, and the concurrency group lets no two overlap.

### 3.3 Bounds

Bounds on faults count *kinds of misfortune that must coincide*; two are enough to lose a
call and its retry, or to kill a run that lost one.

* `FeedPolling`: two feeds of one cadence that carry an article under different links, a
  second article of the same page told apart by a parameter, titles that differ in a word;
  two slots, batches of two; two errors disable, one tick makes dormant or due. So two
  polls can decide on the same article, the streak can be broken or not, and a run can
  stop after the first feed.
* `Sources`, sitemap: two dated articles and an undated one in two files; every limit is one or
  two ticks, the overlap exactly as long as late listing and run together, five ticks of
  time, enough for a cut-off poll, a good one and the article that was late for both. The
  theorem of section 4 removes the bounds.
* `Sources`, official: each kind of source, three releases in the first day and the first minutes
  of the next, one trouble, pages of one row; an interval of two ticks, days of eleven. So a poll
  can be passed over and the next fail; midnight falls into a poll, as eleven is odd and runs start
  at even ticks; and with two releases on pages of one row the third can appear between the
  first page and the second, push a row on and have it counted twice.
* `Sources`, feeds: files of one to three rows out of six, of which two differ only in spelling,
  some share a target and one has no address; an empty table or one of up to two rows, pages
  and batches of one row, two pushes, one write by others.
* `PageCrawl`: one site, three articles (one with a body from its feed, one behind a paywall,
  one PDF), two workers, two tries, two failures to give a site up, batches of two rows
  and of two bodies that do not fill together, two runs (the shard and a sweeper after it), one fault.
* Queue: two articles, two slots, `PageSize` 1 and `BatchSize` 2, so that a batch takes
  two pages and two runs compete for them; two regular attempts and one retry, so that
  the regular, the dead-letter and the given-up phases all occur; a lease as long as the
  job timeout, the tightest the assumption allows; one fault in the run with liveness, two in
  the lossy one. The two slots are interchangeable (symmetry, in the run without liveness).
* `DirectRun`: two runs over two articles that may meet in one story, batches of two, one
  regular attempt and one retry. Of the articles one has entities and may crash. The offset
  of a forced run is 0, since it can only make runs overlap less.
* Tally: three articles, two stories, two enrichment jobs and the clustering job; two
  faults. Two stories are enough for a merge; three articles for a batch of two next to another.
* `ClusterSync`: five articles of which two get no vector, three stories, pages of two, one
  cluster per chunk, two merge rounds, two faults; the fourth article may be purged. The first page holds only articles
  without a vector, so a work list that does not advance never reaches the others. Three
  stories allow a winner to be merged away itself, and a round with two results.
* `StoryJobs`: three articles, three stories, pages of three, batches of two, two rounds, two
  faults: a chain of two merges and a tombstone that is pruned.
* Archive: three articles on two days, parts and prune chunks of one row, three faults.
  A day of two rows can be half exported and half pruned; one row is out of the purge's scope
  or deleted by it.

`CHECK_DEADLOCK FALSE` is set where the system really stops: in the `EntityTally` instances
once every article is enriched and in a story, in `PageCrawl` after `MaxRuns` runs. Row
locks taken in opposite order do deadlock in Postgres; `Abort` is the victim, so this is
not a state without a successor.

### 3.4 Fairness

* `FeedPolling`: time passes; the schedule starts a run of each cadence and the run goes on
  (`Run`); each poll comes to its end (`Poll`), as every call has a timeout. Not fair are new
  articles, the reset of a feed, the budget, the hard stop and the kill.
* `PageCrawl`: only the main loop. No thread is fair: the property is that none is needed.
* Queue: time passes; each slot's job is started by cron and goes on (`Advance`); a
  hand-off job ends (`Shard`). No fault is fair, and none is needed.
* `ClusterSync`: `WF(Advance)`: the two-hourly schedule keeps starting the job and the job goes
  on. The time budget may stop a run only after its first article that could be assigned:
  the budget is 50 minutes, loading and the pages before that take a few. Without this, a
  budget used up by loading alone would starve the list.
* Archive: days pass, the queue enriches each row it still hands out, a run goes on;
  strong fairness for the nightly start, which dispatched `no_prune` runs disable now and
  then but not for ever.

The other runs check safety only and state no fairness.

## 4. The proofs

Eight modules of theorems, about thirteen thousand obligations, hold for every value of the
constants that meets the named assumptions (`ASSUME`) of the component's module, which TLC
evaluates in its runs, and for every bound on faults. Every invariant, every action property and
every refinement that a passing run checks is the subject of a theorem; liveness is not
(section 4.9). Where a theorem has hypotheses beyond the assumptions of the constants, they are
the named conditions of section 3.2, without which TLC shows the property violated, or the
listings' dimensions named in section 4.2.

| Module | Hypotheses of some of its theorems | Meaning |
|---|---|---|
| `EnrichQueueProofs` | `"release" \notin LostReplies` | no release is sent twice |
| `SourcesProofs` | `Punctual` | the publisher of a sitemap lists in time, its index dates all files or none, every chosen file is read, inserts are complete |
| | `PagesSuffice` | the releases fit into the pages a poll may read |
| | `NightIsLong` | the Bureau's listing is swept as long as the failures that are allowed for may take |
| `StoriesProofs` | `CallsAnswered` | entities are deleted and inserted and articles assigned in the end, and inserts answered |
| `EntityTallyProofs` | `SavedOnce` | no article is handed out twice and no save is sent twice |
| `ArchiveProofs` | `OneArchiver`, and `LastTry = {}` for `ArchivedAsDeleted` only | one archive run at a time; no last try ends between export and deletion |
| `FeedPollingProofs` | `AnswersArrive`, `OldFormsApart` | answers of the recording arrive; no link once had the form of another |

Proving corrected the models in two ways TLC had not noticed. Guards of a `CASE` overlapped
where the code has an `if`/`elif` chain (in `FeedPolling` and `PageCrawl`), so that the value
was not determined; they are chains now. And the boundary of
what `NothingMissed` promises was off by a tick.

### 4.1 EnrichQueueProofs

* `TypeCorrect`: `Spec => []TypeOK`. Beyond ranges of types it bounds the attempts: a
  claim needs an attempt left, a refund stops at zero.
* `ClaimsHold`: `Spec => []ClaimInv`, if a release is never sent twice; `RunsAreDisjoint`
  and `LedgerIsExact` are its consequences.
* `LossyClaimsHold`: `Spec => []LossyInv`, whatever replies are lost; `NeverOverchargedHolds`
  is its consequence.
* `EnrichedStaysFinal`: `Spec => EnrichedIsFinal`.
* `QueueImplementsClaims`: `Spec => ImplementsClaims`, if a release is never sent twice.

`DisjointRuns` is not inductive: that a claim takes no row of another run depends on that
row's lease, the lease on the age of the run, and the age on the job timeout. `ClaimInv`
states this chain:

1. `PhaseHolds`: what a run can hold in each phase; an idle slot holds nothing.
2. `HeldOnce`, `Exclusive`: an article is in one place of one run.
3. `LeaseCoversRun`: the lease on each unenriched article a run holds is no older than the run.
4. `AttemptLedger`: attempts are failed tries plus one while held.

The core lemma is `EligibleIsFree`: an eligible row is held by nobody, because its lease is
older than `Lease`, hence than `RunTimeout`, hence than any run (`TimeAssumption`; it is
the comment at `.github/workflows/enrichment.yml:32`). With it each action is a short
step: a claim adds free rows, a save removes rows from the ledger, a release refunds rows
that are held and leased, a death charges what was held. Only `ReleaseReplyLost` breaks
`LeaseCoversRun`. What survives it is `LossyInv`: a claim that is left is no older than any run
that has the row (`ClaimsYoung`), and what a row is charged beyond its failed tries goes with
its claim (`ChargeWithClaim`). The refinement follows from `ClaimInv`: each action acquires free
rows for one run, drops rows of its own, completes rows, or leaves all owners (`OwnerAcquire`,
`OwnerDrop`, `OwnerComplete`, `OwnerSame`).

### 4.2 SourcesProofs

The sitemap: `WindowHolds` (`Spec => []WindowInv`) and `NothingSkipped` (`Spec =>
[]NoneSkipped`), both if `Punctual`. `NoneSkipped` speaks of the next poll; what a poll that
succeeds must guarantee about the one after it is `LeftOutIsNew`: what it leaves out was listed
after it fetched, or is dated ahead, hence at most `Late` before the fetch. Recording happens at
most `RunTime` later (`OnTime`), so the overlap covers both (`WindowReaches`); `FilesDated` is
the same for files.

Official sources: `NoPageSlips` is `PagesAddUp` for listings of any length and pages of any
size. `SebiRead` is its invariant: of the rows above the next page, all that existed when the
poll began have been taken. A new release pushes rows down, never up, so none moves to a page
that has been read; the number of rows the page gives ends the paging no sooner than they are
exhausted. `NothingIsMissed` is `NothingMissed` for every interval, day and number of troubles.
`TimelyInv` says at each step of a poll that a release still without a row will be seen by this
poll, or that this poll began so early that the next begins in time (`Timely`, with `Latest` as
the deadline, which moves by two intervals with each trouble, `LatestMoves`). Arithmetic on
intervals and days (`DayOf`, the next multiple of an interval) is in lemmas of its own.

The feed catalogue: `CleanPushes` and `NoTwins` rest on `CatalogueInv`: `Loaded` (an undisturbed
load knows each row before its offset), `Served` (a winner of the file is still to be inserted,
or the table has one of its forms, or the push has failed) and `Unrivalled` (an undisturbed push
has nothing left to insert whose target the table has). A batch removes what it inserts from
`todo`, so a retry and a lost reply insert nothing again. `BestExists`, the choice of a winner
among finitely many rivals, is by least numbers.

### 4.3 StoriesProofs

`StoryInv` is inductive for `Stories`: `CountedOnce`, `StoriesReadable`, `OldIdsResolve`, that a
story not yet created has no trace of an article (`FreshEmpty`), and that a tombstone was
touched no later than the story it points at (`MergedBefore`), without which pruning by age
could delete a story and leave a younger tombstone pointing at it. `SummedOnce`,
`NoneInADeadStory` and `PointersResolve` are its consequences. `CountsAreRight` needs more:
`article_count` lies between the members of a story and all it ever had (`CountWithin`), which
adds up in a merge only because no article was ever summed in two active stories
(`SummedApart`).

`JobsImplementStories` (`JobsSpec => StorySpec`) carries all of this over to both jobs, for
every size of page, batch and plan: their state outside the tables is read by guards only, and
whatever they planned, the SQL checks again. `RunsImplementStories` (`Spec => StorySpec`) does
so for direct runs.

`ClaimsHandedBack` is `StoppedRunsHandBack`, whatever fails. `MarkedLast` is
`SavedBeforeMarked`, if `CallsAnswered`. `SavedInv` says what a run has written of its current
article at each step: no entities when it is about to insert them and one copy afterwards
(`EntitiesWritten`), a story when it is about to mark it, and a story for what it remembers as
assigned (`StoryWritten`). `Alone` keeps it inductive: an article that is not in `shared` is in
one run, and not yet enriched.

### 4.4 ClusterSyncProofs

`SumsAreRight`, `NoArticleInTombstone` and `FileIsCaughtUp` are the three safety properties of
the run, without hypotheses. `SyncInv` is the relation of the three copies. A copy differs from
the tables in two ways only. In what it has not read yet: where a story is not in the `newer` of
a copy, its sum there is that of the tables (`Right`). And, for the memory of a job, in what it
has not written yet: until the last flush its sums are the tables' plus the moves that wait
(`Ahead`), a flushed story has no waiting move (`FlushedDone`), and a page is in no story and in
no move while it is assigned (`PageFree`). `Blank` keeps a story that has no row yet out of
every copy, so that creating it changes none.

### 4.5 ArchiveProofs

`NothingIsLost`, `NothingIsStale` and `NothingIsDoubled` follow from `ArchiveInv`. Its core is
`SealedKept`: a day whose log says verified or pruned has exactly the objects the log names, and
they hold each of its rows, deleted or not. The rest follows a run to that point: `Exporting` (a
day being exported is not sealed, and its rows are done with), `Reading` (the rows up to the
last one read are in the parts, each once), `Written` (parts, then entities, then log, then
verification each make sure of one more conjunct). `Numbered` is why the next part takes the
place of no other; that the objects of an earlier attempt that the log does not name are gone
before the day is verified is part of `Written`. `LastTry` appears in `ArchiveInv` row by row:
the rows of a last try are promised to be archived, not to be archived as they are in the end.

### 4.6 FeedPollingProofs

`HandedOverOnce` needs the types only, but those with their relation: what waits in a run is
what is queued (`Matched`). `NothingLeftOut` and `ParkedWhenQuiet` rest on `Noted`, which says
of every outcome waiting to be recorded what was true when it was decided and still is, and on
`Underway`. `DisabledAfterErrors` needs `Counted`: the database counts no more failures in a row
than there were; a lost reply breaks it. `NoneMistaken` is about the document, not about a step:
the function `ProcessEntries` is unfolded by least numbers (`ReadingExists`, and the invariant
of one entry after the other), for documents of any length and order and any links, if
`OldFormsApart`.

### 4.7 EntityTallyProofs

`CountedRight` (`CountedOnce`, if `SavedOnce`) is the proof of the lock discipline. A
transaction counts with what it read before, so what it read must not change until it commits:
`SaverFits` says that a save which computes holds the locks of all its articles and that what it
is about to count is what they bring; `JobFits` the same of assignments and merges, an
assignment being about to count the enriched ones among the articles it moves. No step of
another transaction changes a row that is held (`SaverStays`, `JobStays`), and an abort forgets
everything. `Apart` is where `Shared = {}` enters.

### 4.8 PageCrawlProofs

`BodiesKept` is `CrawledHasBody`: the body of a crawled article is at every moment at a `Home`:
with its record, in the run's store, in the bucket, or known as lost. `LeftAloneForFailures` is
`FailFastJustified`: the streak of a site is the length of the last run of failures in the
history of its fetches (`StreakInv`), for any number of threads that record in any order.
`NoWayLeft` is `AnotherWayTried`: `LadderInv` says what a thread has asked for by the rung it
stands on.

### 4.9 Only model-checked

Liveness: `EveryArticleEnriched`, `EveryArticleClustered`, `EveryArticleIngested`,
`EveryDayLeaves` and `RunEnds` depend on fairness and `ENABLED`, which are out of the prover's
reach. What a run with two or three articles shows of them is all that is shown. Sums and counts
over data are proved through cardinalities and least numbers; what no theorem says is what an
operator computes where a run does not depend on it (the order of `Winners`, the tie-breaks of a
merge).

## 5. Known deviations

Met while modelling, and not kept as violated runs of their own. Where the models show one,
the constant that does so is named.

*Ingestion*

* `pipeline/poller.py:341-345`: an entry is known under either form of its link. The legacy
  form strips parameters that tell articles apart on some sites (`pipeline/dedup.py:100-107`),
  so one article can be taken for another stored under that form (`Link <- StoryLinks`,
  `Lists <- AllList`). `FeedPolling` starts with an empty table and so has no rows that are
  stored *only* under a legacy form.
* `pipeline/db.py:754`: an insert that the database is too busy for is left "for the next poll"
  (`:751`, "Nothing is lost"), but the poll is a success and moves the window of a sitemap past
  the articles (`"insert"`).
* `pipeline/sitemap.py:195`: a file that an index does not date is never read if another is dated
  (`Bare`); the docstring (`:23`) only says "newest children first".
* `pipeline/poller.py:764`: a hard stop, or the lost reply of an insert, leaves articles stored
  that are in no hand-off file; the sweeper has to enrich them without a body.
* `pipeline/poller.py:386`: two feeds take the same new article, one of them after a third has
  brought its title; the copy that reaches the table first may be the one flagged
  `is_duplicate`, and no original is left (`docs/migration.sql:114`).
* `pipeline/db.py:320`: re-checks of dormant feeds come after all active ones, so a run that
  always spends its budget never re-checks. `EveryArticleIngested` speaks of active feeds.

* `pipeline/db.py:379`: a poll that is recorded later than 90 seconds into its run makes the
  feed not due for the next run, 15 minutes after: it is polled every half hour, although
  `docs/OFFICIAL_SOURCES.md` and the workflow say every 15 minutes. The tolerance was chosen for
  hourly runs (`:355-367`).
* `pipeline/official.py`: what an exchange files after its last poll of the day is never read;
  only the Bureau's listing has a sweep.
* `push_feeds.py:409`: a row without `feed_url` can win over its twin with one by quality and is
  then left out by the safety check (`:469`), with it the feed; the exit status is 0.
* `tools/register_official_sources.py:118`, `tools/discover_sitemaps.py:205`: registering a feed
  anew makes a disabled one active and keeps its `fail_count`, so that the next failed poll
  disables it again. `FeedPolling` has `Reset`, but not this.

*Crawl and bodies*

* `enrichment/body_store.py` says a body that fails to upload is still in the hand-off
  artifact; that is so for bodies from feeds, not for crawled ones.
* `recrawl.py`, to which `pipeline/crawler.py:314` and `pipeline/db.py:965` leave the articles of a
  site given up, is not in the repository: they keep title and summary.
* `pipeline/handoff.py:56` says a run killed by its job timeout keeps everything it had
  inserted. A kill in the middle of a member leaves a truncated gzip stream, on which `read`
  (`:129`) raises for the whole file: every shard (`enrich.py:163`) and the clustering job's
  `--bodies` (`cluster.py:82`) fail on it, and the sweepers take all its articles.
* A kill between the save of a chunk and the upload of its bodies leaves rows that say
  `is_crawled` without a body, and a sweeper that takes over an article whose body was in the
  file has none. `CrawledHasBody` excludes these as `lost`.
* A later crawl that fails clears `is_crawled` of a row that had a body.

*Enrichment and stories*

* `enrichment/runner.py:37`, "enriched_at is written LAST": it is, but failures to save entities
  or to assign a story before it are only logged, so a marked article may have neither
  (`Failing` with `"insert"`, `"assign"`), or its entities twice (`"delete"`; and `LostReply` with
  `"insert"`, which is not idempotent, `enrichment/db.py:285`).
* On the direct path an article that already has a story never gets into the tally of the story.
* A direct run that assigns in SQL while the in-memory job runs would be overwritten by the
  absolute sums of the job. The workflow sets `CLUSTERING_ENABLED=false`, which prevents it.
* `wizer_reconcile_cluster_counts` lowers `article_count` after deletions and leaves
  `centroid_sum`. `CountsAgree` states what does hold.
* `wizer_prune_orphan_clusters` takes no advisory lock; its deletion is one statement, and a
  story it may take has been idle for a week.

*Archive*

* `docs/archive_guard_migration.sql:31`: an article with all attempts counted is taken for given
  up, but an attempt is counted when it starts. An enrichment that succeeds between export and
  delete is deleted unarchived (`LastTry <- First`), against `:15` of the same file.

## 6. Not modelled

* Language tables, Parquet encoding, NLP steps, extractors, parsers of listings: functions of
  one input. What an extractor makes of a page is a choice in `PageCrawl`.
* The crawl at ingestion, dry runs, the run log, the article cap (as deletions in `DirectRun` only).
* The append and shard arithmetic of the hand-off file: the file is a set.
* The text-only retry of an embedding batch; how far back the work list of the clustering job goes.
* Sitemap indexes within indexes; late starts of official runs; entries a feed drops unread (3.2).
* Coverage reports, which only read; `tools/cronjob_setup.py` and `tools/db_migrations.py`, thin
  clients of other services; the effect on the poller of registering a feed anew (section 5).
* Numerical behaviour of similarities: 768-dimensional floating point. Which story is near
  enough is left open, so the properties hold for every outcome.
* `PageCrawl` has one run at a time (runs beside each other are `EnrichQueue`'s), `DirectRun`
  no merges beside it (`StoryJobs`'), `ClusterSync` no SQL assignment (section 5).

The definitions in `map` of `PROJECT.json` stand for about 6,500 lines of Python, SQL and
workflow files.

## 7. Plan

Done: `WorkClaims`, `EnrichQueue`; `EntityTally`; `Archive`; `ClusterSync`; `FeedPolling`;
`SitemapWindow`; `Stories`, `StoryJobs`; `DirectRun`; `PageCrawl`; `OfficialSource`; `FeedCatalogue`; the
purge in `ClusterSync`; the refinements of `WorkClaims` and `Stories`; theorems for every safety
property and action property of the passing runs.

Left:

1. An abstract specification of the clusters that `ClusterSync` implements when its memory and its file
   are hidden: the tables step as in `Stories`. Its sums are absolute where those of `Stories` are added to, so
   the mapping goes through `Ahead`.
2. What still holds without the hypotheses of section 4: how far a tally can be off by saves sent
   twice (`SavedOnce`), what a second archiver can lose (`OneArchiver`), as theorems of the kind of
   `LossyClaimsHold`.
3. The effect on the poller of registering a feed anew (section 5), as an action of `FeedPolling`.
4. The append and shard arithmetic of the hand-off file, and the crawl at ingestion.
