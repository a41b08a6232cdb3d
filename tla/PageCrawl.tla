------------------------------ MODULE PageCrawl ------------------------------
(***************************************************************************)
(* Deferred crawling (run_handoff_enrichment of                            *)
(* enrichment/handoff_runner.py): a pool of threads fetches the pages of   *)
(* the articles of a run while the main loop takes them in order, enriches *)
(* them, keeps their bodies for the Storage bucket and saves them in       *)
(* batches.  A thread climbs a ladder of fetch strategies until one        *)
(* returns the page or the article's deadline is reached; a site that      *)
(* fails too often in a row is left alone for the rest of the run.  A      *)
(* thread may be wedged; the loop waits for it only so long.               *)
(*                                                                         *)
(* Runs follow one another: the shard of a hand-off file, whose records    *)
(* may carry the body from the feed, and sweeper runs, whose rows do not.  *)
(* Runs at the same time are the matter of EnrichQueue.                    *)
(***************************************************************************)
EXTENDS Integers, Sequences, FiniteSets

CONSTANTS
  Article,      \* numbered in the order of a run
  FeedBody,     \* articles whose feed carries the full text
  Paywalled,    \* articles behind a known paywall
  Pdf,          \* articles whose page is a PDF
  Site,
  SiteOf,       \* SiteOf[a]: domain of the page of a
  Flaky,        \* articles on which enrich_one() may raise
  Workers,      \* ENRICH_CRAWL_WORKERS
  MaxRetries,   \* MAX_FETCH_RETRIES
  Threshold,    \* CRAWL_DOMAIN_FAIL_THRESHOLD
  SaveEvery,    \* ENRICH_SAVE_EVERY
  FlushEvery,   \* BODY_FLUSH_EVERY
  MaxRuns,      \* bound on runs
  MaxFaults     \* bound on lost files, failed calls and killed runs

ASSUME CrawlAssumption ==
  /\ Article \subseteq Nat /\ IsFiniteSet(Article)
  /\ FeedBody \cup Paywalled \cup Pdf \cup Flaky \subseteq Article
  /\ SiteOf \in [Article -> Site]
  /\ {Workers, MaxRetries, Threshold, SaveEvery, FlushEvery} \subseteq Nat \ {0}
  /\ MaxRuns \in Nat /\ MaxFaults \in Nat

VARIABLES
  handoff,   \* articles of the hand-off file that no shard has read
  enriched,  \* articles with enriched_at
  crawled,   \* articles with is_crawled
  bucket,    \* articles whose body is in the Storage bucket
  run,       \* local variables of the run
  thread,    \* thread[a]: the future of a
  streak,    \* streak[s]: hard failures in a row
  tripped,   \* sites left alone
  ended,     \* history: ended[s], how fetches of this run from s ended, in order
  lost,      \* history: bodies that were dropped with a file, an upload or a run
  runs,      \* runs so far
  faults     \* faults so far

table   == <<enriched, crawled>>
tracker == <<streak, tripped, ended>>
bounds  == <<runs, faults>>
vars    == <<handoff, table, bucket, run, thread, tracker, lost, bounds>>

NoRun    == [at |-> "idle", fed |-> {}, todo |-> {}, batch |-> {}, mark |-> {}, unmark |-> {},
             pending |-> {}, last |-> FALSE]
NoFuture == [at |-> "none", try |-> 0, asked |-> {}]

Strategy == {"default", "googlebot", "amp", "wayback", "pdf"}
Result   == {"body", "empty", "failed", "late", "skipped", "fed"}
Reply    == {"useful", "useless", "permanent", "gone"}

Fault   == faults < MaxFaults /\ faults' = faults + 1
Current == {a \in run.todo : \A b \in run.todo : a <= b}
Running == {a \in Article : thread[a].at \in Strategy}

-----------------------------------------------------------------------------
(* A thread: crawl_record *)

\* Mutated form of Record: a success does not end the streak.
RecordNoReset(s, ok) ==
  LET n == IF ok THEN streak[s] ELSE streak[s] + 1
  IN /\ streak' = [streak EXCEPT ![s] = n]
     /\ tripped' = IF ~ok /\ n >= Threshold THEN tripped \cup {s} ELSE tripped
     /\ ended' = [ended EXCEPT ![s] = Append(@, ok)]

\* DomainFailureTracker.record.
Record(s, ok) ==
  LET n == IF ok THEN 0 ELSE streak[s] + 1
  IN /\ streak' = [streak EXCEPT ![s] = n]
     /\ tripped' = IF ~ok /\ n >= Threshold THEN tripped \cup {s} ELSE tripped
     /\ ended' = [ended EXCEPT ![s] = Append(@, ok)]

\* What the extractors make of a page: a text, or none.
Extracted == {"body", "empty"}

\* A PDF has a text or is no answer; a thin page may link one.
Found(t) == IF t.at = "pdf" THEN {"body"} ELSE Extracted

\* The record carries a body, or the site is left alone, or the first request is due.
FirstStep(a) ==
  IF a \in run.fed THEN "fed"
  ELSE IF SiteOf[a] \in tripped THEN "skipped"
  ELSE IF a \in Pdf THEN "pdf"
  ELSE IF a \in Paywalled THEN "googlebot" ELSE "default"

\* Futures are started in the order of the records.
Pick(a) ==
  /\ thread[a].at = "queued"
  /\ \A b \in Article : thread[b].at = "queued" => a <= b
  /\ Cardinality(Running) < Workers
  /\ thread' = [thread EXCEPT ![a] = [NoFuture EXCEPT !.at = FirstStep(a)]]
  /\ UNCHANGED <<handoff, table, bucket, run, tracker, lost, bounds>>

\* Mutated form of NextStrategy: a client error ends the ladder.
NextStrategyStops(at, reply) ==
  IF reply \in {"permanent", "gone"} THEN "failed"
  ELSE CASE at = "default"   -> "googlebot"
         [] at = "googlebot" -> "amp"
         [] at = "amp"       -> "wayback"
         [] OTHER            -> "failed"

\* A page that is gone is not asked for again under another name.
NextStrategy(at, reply) ==
  CASE at = "default"   -> IF reply = "gone" THEN "amp" ELSE "googlebot"
    [] at = "googlebot" -> "amp"
    [] at = "amp"       -> "wayback"
    [] OTHER            -> "failed"

\* Mutated form of Retried: one try too many.
RetriedOnceMore(t, reply) ==
  t.at \in {"default", "googlebot"} /\ reply = "useless" /\ t.try < MaxRetries

\* The two names of the crawler retry what may pass; the other ways are one try.
Retried(t, reply) ==
  t.at \in {"default", "googlebot"} /\ reply = "useless" /\ t.try + 1 < MaxRetries

\* What has been asked for, and whether the page is gone.
Asked(t, reply) == t.asked \cup {t.at} \cup (IF reply = "gone" THEN {"gone"} ELSE {})

Ended(a, result, asked) ==
  /\ thread' = [thread EXCEPT ![a] = [at |-> result, try |-> 0, asked |-> asked]]
  /\ Record(SiteOf[a], result \in Extracted)

\* A request, and what follows from its answer.
Request(a) ==
  /\ thread[a].at \in Strategy
  /\ \E reply \in Reply :
       LET t    == thread[a]
           next == NextStrategy(t.at, reply)
       IN \/ /\ reply = "useful"
             /\ \E result \in Found(t) : Ended(a, result, {})
          \/ /\ Retried(t, reply)
             /\ thread' = [thread EXCEPT ![a].try = @ + 1, ![a].asked = Asked(t, reply)]
             /\ UNCHANGED tracker
          \/ /\ reply # "useful" /\ ~Retried(t, reply) /\ next # "failed"
             /\ thread' = [thread EXCEPT ![a] = [at |-> next, try |-> 0, asked |-> Asked(t, reply)]]
             /\ UNCHANGED tracker
          \/ /\ reply # "useful" /\ ~Retried(t, reply) /\ next = "failed"
             /\ Ended(a, "failed", Asked(t, reply))
  /\ UNCHANGED <<handoff, table, bucket, run, lost, bounds>>

\* The article's deadline has passed before a request of the ladder.
Late(a) ==
  /\ thread[a].at \in Strategy \ {"pdf"}
  /\ thread[a].asked # {}
  /\ Ended(a, "late", {})
  /\ UNCHANGED <<handoff, table, bucket, run, lost, bounds>>

-----------------------------------------------------------------------------
(* The main loop *)

Started(S, fed) ==
  /\ run' = [NoRun EXCEPT !.at = "loop", !.todo = S, !.fed = fed]
  /\ thread' = [a \in Article |-> IF a \in S THEN [NoFuture EXCEPT !.at = "queued"] ELSE NoFuture]
  /\ streak' = [s \in Site |-> 0] /\ tripped' = {} /\ ended' = [s \in Site |-> <<>>]
  /\ runs < MaxRuns /\ runs' = runs + 1

\* A shard reads the file; a record has the body its feed gave.
StartShard ==
  /\ run.at = "idle" /\ handoff # {}
  /\ handoff' = {}
  /\ Started(handoff, handoff \cap FeedBody)
  /\ UNCHANGED <<table, bucket, lost, faults>>

\* The sweeper claims what is still unenriched.
StartSweep ==
  /\ run.at = "idle"
  /\ Article \ (enriched \cup handoff) # {}
  /\ Started(Article \ (enriched \cup handoff), {})
  /\ UNCHANGED <<handoff, table, bucket, lost, faults>>

LoseFile ==
  /\ run.at = "idle" /\ handoff # {} /\ Fault
  /\ handoff' = {}
  /\ lost' = lost \cup (handoff \cap FeedBody)
  /\ UNCHANGED <<table, bucket, run, thread, tracker, runs>>

\* Where the loop goes on: a full store is uploaded, then a full batch saved.
AfterTake(r) ==
  IF Cardinality(r.pending) >= FlushEvery THEN "flush"
  ELSE IF Cardinality(r.batch) >= SaveEvery THEN "save" ELSE "loop"

\* Mutated form of Marked: a page that was fetched counts as crawled.
MarkedFetched(at) == at \in Extracted

Marked(at) == at = "body"

\* enrich_one answers: the body is kept, the row is put into the batch, with
\* is_crawled when the page was fetched, or not, and without when nobody asked.
Taken(a, at) ==
  LET body == at \in {"body", "fed"}
      r == [run EXCEPT !.todo = @ \ {a}, !.batch = @ \cup {a},
              !.pending = IF body THEN @ \cup {a} ELSE @,
              !.mark = IF Marked(at) THEN @ \cup {a} ELSE @,
              !.unmark = IF ~Marked(at) /\ at \in Result \ {"fed"} THEN @ \cup {a} ELSE @]
  IN /\ run' = [r EXCEPT !.at = AfterTake(r)]
     /\ lost' = IF body THEN lost \ {a} ELSE lost

\* enrich_one raises: the article is left to another run.
Crashed(a) ==
  /\ a \in Flaky
  /\ run' = [run EXCEPT !.at = "loop", !.todo = @ \ {a}]
  /\ lost' = lost \cup (run.fed \cap {a})

\* There is time left: the loop waits for the next future.
Wait ==
  /\ run.at = "loop" /\ run.todo # {}
  /\ run' = [run EXCEPT !.at = "wait"]
  /\ UNCHANGED <<handoff, table, bucket, thread, tracker, lost, bounds>>

\* The next future is done.
Take(a) ==
  /\ run.at = "wait" /\ thread[a].at \in Result
  /\ Taken(a, thread[a].at) \/ Crashed(a)
  /\ thread' = [thread EXCEPT ![a] = NoFuture]
  /\ UNCHANGED <<handoff, table, bucket, tracker, bounds>>

\* Mutated form of Timeout: the loop waits as long as it takes.
TimeoutNever(a) == FALSE /\ UNCHANGED vars

\* It is not done in time, wedged or still in the queue: the article goes on
\* without it, with the body of the record if there is one.
Timeout(a) ==
  /\ run.at = "wait" /\ thread[a].at \notin Result
  /\ Taken(a, IF a \in run.fed THEN "fed" ELSE "none") \/ Crashed(a)
  /\ UNCHANGED <<handoff, table, bucket, thread, tracker, bounds>>

\* All articles are taken, or the time budget is used up.
EndLoop ==
  /\ run.at = "loop"
  /\ run' = [run EXCEPT !.at = "save", !.last = TRUE, !.todo = {}]
  /\ lost' = lost \cup (run.fed \cap run.todo)
  /\ UNCHANGED <<handoff, table, bucket, thread, tracker, bounds>>

\* BodyStore.flush: what a failed upload held is dropped.
Flush ==
  /\ run.at = "flush"
  /\ \/ /\ bucket' = bucket \cup run.pending
        /\ UNCHANGED <<lost, faults>>
     \/ /\ run.pending # {} /\ Fault
        /\ lost' = lost \cup (run.pending \ bucket)
        /\ UNCHANGED bucket
  /\ run' = IF run.last THEN NoRun
            ELSE [run EXCEPT !.pending = {},
                    !.at = IF Cardinality(run.batch) >= SaveEvery THEN "save" ELSE "loop"]
  /\ thread' = IF run.last THEN [a \in Article |-> NoFuture] ELSE thread
  /\ UNCHANGED <<handoff, table, tracker, runs>>

\* save(): the call commits, or raises and its rows stay unenriched.
Save ==
  /\ run.at = "save"
  /\ \/ /\ enriched' = enriched \cup run.batch
        /\ crawled' = (crawled \cup run.mark) \ run.unmark
        /\ UNCHANGED faults
     \/ run.batch # {} /\ Fault /\ UNCHANGED table
  /\ run' = [run EXCEPT !.batch = {}, !.mark = {}, !.unmark = {},
                        !.at = IF run.last THEN "flush" ELSE "loop"]
  /\ UNCHANGED <<handoff, bucket, thread, tracker, lost, runs>>

\* The job is killed.
Kill ==
  /\ run.at # "idle" /\ Fault
  /\ lost' = lost \cup ((run.pending \cup (run.fed \cap run.todo)) \ bucket)
  /\ run' = NoRun
  /\ thread' = [a \in Article |-> NoFuture]
  /\ UNCHANGED <<handoff, table, bucket, tracker, runs>>

-----------------------------------------------------------------------------
Init ==
  /\ handoff = Article /\ enriched = {} /\ crawled = FeedBody /\ bucket = {} /\ lost = {}
  /\ run = NoRun /\ thread = [a \in Article |-> NoFuture]
  /\ streak = [s \in Site |-> 0] /\ tripped = {} /\ ended = [s \in Site |-> <<>>]
  /\ runs = 0 /\ faults = 0

Start == StartShard \/ StartSweep

Loop ==
  \/ \E a \in Current : Take(a) \/ Timeout(a)
  \/ Wait \/ EndLoop \/ Flush \/ Save

Threads == \E a \in Article : Pick(a) \/ Request(a) \/ Late(a)

Next == Start \/ Loop \/ Threads \/ Kill \/ LoseFile

\* The main loop goes on, whatever its threads do.
Spec == Init /\ [][Next]_vars /\ WF_vars(Loop)

-----------------------------------------------------------------------------
(* Properties *)

TypeOK ==
  /\ handoff \cup enriched \cup crawled \cup bucket \cup lost \subseteq Article
  /\ run \in [at : {"idle", "loop", "wait", "flush", "save"}, fed : SUBSET FeedBody, todo : SUBSET Article,
              batch : SUBSET (Article \ enriched), mark : SUBSET run.batch,
              unmark : SUBSET (run.batch \ run.mark), pending : SUBSET Article, last : BOOLEAN]
  /\ thread \in [Article -> [at : {"none", "queued"} \cup Strategy \cup Result,
                             try : 0 .. MaxRetries - 1, asked : SUBSET (Strategy \cup {"gone"})]]
  /\ streak \in [Site -> Nat] /\ tripped \subseteq Site
  /\ ended \in [Site -> Seq(BOOLEAN)]
  /\ runs \in 0 .. MaxRuns /\ faults \in 0 .. MaxFaults

\* enrichment/body_store.py, "the permanent home of article BODIES": an enriched
\* row that says is_crawled has its body in the bucket, or still in the store of
\* the run, unless a file, an upload or a run that held it was lost.
CrawledHasBody ==
  \A a \in enriched \cap crawled : a \in bucket \cup run.pending \cup lost

\* pipeline/crawler.py:309-315: a site is left alone only after Threshold fetches
\* from it have failed one right after the other, in whatever order the threads end.
FailFastJustified ==
  \A s \in tripped : \E i \in 1 .. Len(ended[s]) - Threshold + 1 :
    \A j \in i .. i + Threshold - 1 : ~ended[s][j]

\* pipeline/crawler.py:478-487: a page is given up before its deadline only after
\* every way that could have worked was tried.
AnotherWayTried ==
  \A a \in Article \ Pdf : thread[a].at = "failed" =>
    /\ {"amp", "wayback"} \subseteq thread[a].asked
    /\ "googlebot" \in thread[a].asked \/ "gone" \in thread[a].asked

\* enrichment/handoff_runner.py:47: wedged threads do not keep a run from its end.
RunEnds == run.at # "idle" ~> run.at = "idle"
=============================================================================
