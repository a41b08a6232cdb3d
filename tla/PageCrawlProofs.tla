--------------------------- MODULE PageCrawlProofs ---------------------------
(***************************************************************************)
(* Theorems about deferred crawling, for any articles, sites, pool of      *)
(* threads, batch sizes and number of runs and faults: the types, that     *)
(* every crawled article has its body somewhere unless it was lost in a    *)
(* known way, that a site is left alone only for failures in a row, and    *)
(* that no page is given up before every way to it was tried.              *)
(***************************************************************************)
EXTENDS PageCrawl, TLAPS

-----------------------------------------------------------------------------
(* Types *)

RunSet == [at : {"idle", "loop", "wait", "flush", "save"}, fed : SUBSET FeedBody,
           todo : SUBSET Article, batch : SUBSET Article, mark : SUBSET Article,
           unmark : SUBSET Article, pending : SUBSET Article, last : BOOLEAN]

FutureSet == [at : {"none", "queued"} \cup Strategy \cup Result,
              try : 0 .. MaxRetries - 1, asked : SUBSET (Strategy \cup {"gone"})]

\* TypeOK with the dependent fields of run said one by one.
Typed ==
  /\ handoff \cup enriched \cup crawled \cup bucket \cup lost \subseteq Article
  /\ run \in RunSet
  /\ run.batch \cap enriched = {}
  /\ run.mark \cup run.unmark \subseteq run.batch
  /\ run.mark \cap run.unmark = {}
  /\ thread \in [Article -> FutureSet]
  /\ streak \in [Site -> Nat] /\ tripped \subseteq Site
  /\ ended \in [Site -> Seq(BOOLEAN)]
  /\ runs \in 0 .. MaxRuns /\ faults \in 0 .. MaxFaults

\* An article is in the file, to be taken, in the batch, or enriched; an idle run
\* has nothing, and a run that ends has nothing more to take.
Apart ==
  /\ handoff \cap (enriched \cup run.todo \cup run.batch) = {}
  /\ run.todo \cap (enriched \cup run.batch) = {}
  /\ run.at = "idle" => run = NoRun
  /\ run.last => run.todo = {}

LEMMA TypedIsTypeOK == Typed => TypeOK
<1>. SUFFICES ASSUME Typed PROVE TypeOK
  OBVIOUS
<1>1. run \in [at : {"idle", "loop", "wait", "flush", "save"}, fed : SUBSET FeedBody,
               todo : SUBSET Article, batch : SUBSET (Article \ enriched), mark : SUBSET run.batch,
               unmark : SUBSET (run.batch \ run.mark), pending : SUBSET Article, last : BOOLEAN]
  BY DEF Typed, RunSet
<1>. QED BY <1>1 DEF Typed, TypeOK, FutureSet

LEMMA NoRunTyped ==
  /\ NoRun \in RunSet
  /\ NoRun.at = "idle" /\ NoRun.fed = {} /\ NoRun.todo = {} /\ NoRun.batch = {} /\ NoRun.mark = {}
  /\ NoRun.unmark = {} /\ NoRun.pending = {} /\ NoRun.last = FALSE
BY DEF NoRun, RunSet

LEMMA NoFutureTyped ==
  /\ NoFuture \in FutureSet /\ NoFuture.at = "none"
  /\ [NoFuture EXCEPT !.at = "queued"] \in FutureSet
BY CrawlAssumption DEF NoFuture, FutureSet

LEMMA FaultTyped == Typed /\ Fault => faults' \in 0 .. MaxFaults
BY CrawlAssumption DEF Typed, Fault

-----------------------------------------------------------------------------
(* What the operators do *)

LEMMA RecordIs ==
  ASSUME Typed, NEW s \in Site, NEW ok \in BOOLEAN, Record(s, ok)
  PROVE  /\ streak' \in [Site -> Nat]
         /\ streak'[s] = IF ok THEN 0 ELSE streak[s] + 1
         /\ ended' \in [Site -> Seq(BOOLEAN)]
         /\ ended'[s] = Append(ended[s], ok)
         /\ \A r \in Site \ {s} : streak'[r] = streak[r] /\ ended'[r] = ended[r]
         /\ tripped' = IF ~ok /\ streak'[s] >= Threshold THEN tripped \cup {s} ELSE tripped
         /\ tripped' \subseteq Site
<1>. DEFINE n == IF ok THEN 0 ELSE streak[s] + 1
<1>1. n \in Nat
  BY DEF Typed
<1>2. /\ streak' = [streak EXCEPT ![s] = n]
      /\ tripped' = IF ~ok /\ n >= Threshold THEN tripped \cup {s} ELSE tripped
      /\ ended' = [ended EXCEPT ![s] = Append(@, ok)]
  BY DEF Record
<1>3. streak \in [Site -> Nat] /\ ended \in [Site -> Seq(BOOLEAN)] /\ tripped \subseteq Site
  BY DEF Typed
<1>4. Append(ended[s], ok) \in Seq(BOOLEAN)
  BY <1>3
<1>5. streak'[s] = n /\ streak' \in [Site -> Nat]
  BY <1>1, <1>2, <1>3
<1>6. /\ ended' \in [Site -> Seq(BOOLEAN)] /\ ended'[s] = Append(ended[s], ok)
      /\ \A r \in Site \ {s} : ended'[r] = ended[r]
  BY <1>2, <1>3, <1>4
<1>7. \A r \in Site \ {s} : streak'[r] = streak[r]
  BY <1>2, <1>3
<1>8. tripped' = IF ~ok /\ streak'[s] >= Threshold THEN tripped \cup {s} ELSE tripped
  BY <1>2, <1>5
<1>9. tripped' \subseteq Site
  BY <1>3, <1>8
<1>. QED BY <1>5, <1>6, <1>7, <1>8, <1>9

\* A thread is given a well-formed future.
LEMMA FutureGiven ==
  ASSUME Typed, NEW a \in Article, NEW future \in FutureSet,
         thread' = [thread EXCEPT ![a] = future]
  PROVE  /\ thread' \in [Article -> FutureSet]
         /\ thread'[a] = future
         /\ \A b \in Article \ {a} : thread'[b] = thread[b]
BY DEF Typed

LEMMA StrategyIs == Strategy \cap Result = {} /\ {"none", "queued"} \cap (Strategy \cup Result) = {}
BY DEF Strategy, Result

LEMMA AskedTyped ==
  ASSUME NEW t \in FutureSet, t.at \in Strategy, NEW reply \in Reply
  PROVE  Asked(t, reply) \in SUBSET (Strategy \cup {"gone"})
BY DEF Asked, FutureSet

LEMMA EndedIs ==
  ASSUME Typed, NEW a \in Article, NEW result \in {"body", "empty", "failed", "late"},
         NEW asked \in SUBSET (Strategy \cup {"gone"}), Ended(a, result, asked)
  PROVE  /\ thread' \in [Article -> FutureSet]
         /\ thread'[a].at = result
         /\ thread'[a].asked = asked
         /\ \A b \in Article \ {a} : thread'[b] = thread[b]
         /\ SiteOf[a] \in Site
         /\ \E ok \in BOOLEAN : Record(SiteOf[a], ok)
<1>1. [at |-> result, try |-> 0, asked |-> asked] \in FutureSet
  BY CrawlAssumption DEF FutureSet, Result
<1>2. thread' = [thread EXCEPT ![a] = [at |-> result, try |-> 0, asked |-> asked]]
  BY DEF Ended
<1>3. /\ thread' \in [Article -> FutureSet]
      /\ thread'[a] = [at |-> result, try |-> 0, asked |-> asked]
      /\ \A b \in Article \ {a} : thread'[b] = thread[b]
  BY <1>1, <1>2, FutureGiven
<1>4. (result \in Extracted) \in BOOLEAN /\ Record(SiteOf[a], result \in Extracted)
  BY DEF Ended
<1>5. \E ok \in BOOLEAN : Record(SiteOf[a], ok)
  BY <1>4, Zenon
<1>6. SiteOf[a] \in Site
  BY CrawlAssumption
<1>. QED BY <1>3, <1>5, <1>6

\* What a request does to its future: an answer, another try, another way, or the end.
LEMMA RequestIs ==
  ASSUME Typed, NEW a \in Article, Request(a)
  PROVE  /\ thread[a].at \in Strategy
         /\ thread' \in [Article -> FutureSet]
         /\ \A b \in Article \ {a} : thread'[b] = thread[b]
         /\ \/ /\ thread'[a].at \in {"body", "empty"}
               /\ SiteOf[a] \in Site /\ \E ok \in BOOLEAN : Record(SiteOf[a], ok)
            \/ /\ thread'[a].at = thread[a].at /\ thread[a].asked \subseteq thread'[a].asked
               /\ UNCHANGED tracker
            \/ \E reply \in Reply :
                 /\ reply # "useful" /\ thread'[a].at = NextStrategy(thread[a].at, reply)
                 /\ thread'[a].at \in Strategy
                 /\ thread'[a].asked = Asked(thread[a], reply)
                 /\ UNCHANGED tracker
            \/ \E reply \in Reply :
                 /\ reply # "useful" /\ NextStrategy(thread[a].at, reply) = "failed"
                 /\ thread'[a].at = "failed"
                 /\ thread'[a].asked = Asked(thread[a], reply)
                 /\ SiteOf[a] \in Site /\ \E ok \in BOOLEAN : Record(SiteOf[a], ok)
<1>1. thread[a].at \in Strategy /\ thread[a] \in FutureSet
  BY DEF Request, Typed
<1>2. PICK reply \in Reply :
        \/ /\ reply = "useful"
           /\ \E result \in Found(thread[a]) : Ended(a, result, {})
        \/ /\ Retried(thread[a], reply)
           /\ thread' = [thread EXCEPT ![a].try = @ + 1, ![a].asked = Asked(thread[a], reply)]
           /\ UNCHANGED tracker
        \/ /\ reply # "useful" /\ NextStrategy(thread[a].at, reply) # "failed"
           /\ thread' = [thread EXCEPT ![a] =
                [at |-> NextStrategy(thread[a].at, reply), try |-> 0, asked |-> Asked(thread[a], reply)]]
           /\ UNCHANGED tracker
        \/ /\ reply # "useful" /\ NextStrategy(thread[a].at, reply) = "failed"
           /\ Ended(a, "failed", Asked(thread[a], reply))
  BY DEF Request
<1>3. Asked(thread[a], reply) \in SUBSET (Strategy \cup {"gone"})
  BY <1>1, AskedTyped
<1>4. CASE reply = "useful" /\ \E result \in Found(thread[a]) : Ended(a, result, {})
  <2>1. PICK result \in {"body", "empty"} : Ended(a, result, {})
    BY <1>4 DEF Found, Extracted
  <2>2. /\ thread' \in [Article -> FutureSet]
        /\ thread'[a].at = result
        /\ \A b \in Article \ {a} : thread'[b] = thread[b]
        /\ SiteOf[a] \in Site
        /\ \E ok \in BOOLEAN : Record(SiteOf[a], ok)
    BY <2>1, EndedIs
  <2>. QED BY <2>2, <1>1
<1>5. CASE /\ Retried(thread[a], reply)
           /\ thread' = [thread EXCEPT ![a].try = @ + 1, ![a].asked = Asked(thread[a], reply)]
           /\ UNCHANGED tracker
  <2>. DEFINE future == [thread[a] EXCEPT !.try = @ + 1, !.asked = Asked(thread[a], reply)]
  <2>1. thread[a].try + 1 \in 0 .. MaxRetries - 1
    BY <1>1, <1>5, CrawlAssumption DEF Retried, FutureSet
  <2>2. future \in FutureSet /\ future.at = thread[a].at /\ future.asked = Asked(thread[a], reply)
    BY <2>1, <1>1, <1>3 DEF FutureSet
  <2>3. thread' = [thread EXCEPT ![a] = future]
    <3>1. thread \in [Article -> FutureSet]
      BY DEF Typed
    <3>. QED BY <3>1, <1>1, <1>5, <2>2 DEF FutureSet
  <2>. HIDE DEF future
  <2>4. /\ thread' \in [Article -> FutureSet]
        /\ thread'[a] = future
        /\ \A b \in Article \ {a} : thread'[b] = thread[b]
    BY <2>2, <2>3, FutureGiven
  <2>5. thread[a].asked \subseteq Asked(thread[a], reply)
    BY DEF Asked
  <2>. QED BY <2>2, <2>4, <2>5, <1>1, <1>5
<1>6. CASE /\ reply # "useful" /\ NextStrategy(thread[a].at, reply) # "failed"
           /\ thread' = [thread EXCEPT ![a] =
                [at |-> NextStrategy(thread[a].at, reply), try |-> 0, asked |-> Asked(thread[a], reply)]]
           /\ UNCHANGED tracker
  <2>1. NextStrategy(thread[a].at, reply) \in Strategy
    BY <1>6, <1>1 DEF NextStrategy, Strategy
  <2>. DEFINE future == [at |-> NextStrategy(thread[a].at, reply), try |-> 0, asked |-> Asked(thread[a], reply)]
  <2>2. future \in FutureSet
    BY <2>1, <1>3, CrawlAssumption DEF FutureSet
  <2>3. /\ thread' \in [Article -> FutureSet]
        /\ thread'[a] = future
        /\ \A b \in Article \ {a} : thread'[b] = thread[b]
    BY <2>2, <1>6, FutureGiven
  <2>. QED BY <2>1, <2>3, <1>1, <1>6
<1>7. CASE /\ reply # "useful" /\ NextStrategy(thread[a].at, reply) = "failed"
           /\ Ended(a, "failed", Asked(thread[a], reply))
  <2>1. /\ thread' \in [Article -> FutureSet]
        /\ thread'[a].at = "failed"
        /\ thread'[a].asked = Asked(thread[a], reply)
        /\ \A b \in Article \ {a} : thread'[b] = thread[b]
        /\ SiteOf[a] \in Site
        /\ \E ok \in BOOLEAN : Record(SiteOf[a], ok)
    BY <1>3, <1>7, EndedIs
  <2>. QED BY <2>1, <1>1, <1>7
<1>. QED BY <1>2, <1>4, <1>5, <1>6, <1>7

LEMMA PickIs ==
  ASSUME Typed, NEW a \in Article, Pick(a)
  PROVE  /\ thread[a].at = "queued"
         /\ thread' \in [Article -> FutureSet]
         /\ thread'[a].at = FirstStep(a)
         /\ \A b \in Article \ {a} : thread'[b] = thread[b]
         /\ UNCHANGED <<handoff, table, bucket, run, tracker, lost, bounds>>
<1>1. FirstStep(a) \in {"fed", "skipped", "pdf", "googlebot", "default"}
  BY DEF FirstStep
<1>2. [NoFuture EXCEPT !.at = FirstStep(a)] \in FutureSet
  BY <1>1, CrawlAssumption DEF NoFuture, FutureSet, Strategy, Result
<1>3. thread' = [thread EXCEPT ![a] = [NoFuture EXCEPT !.at = FirstStep(a)]]
  BY DEF Pick
<1>4. [NoFuture EXCEPT !.at = FirstStep(a)].at = FirstStep(a)
  BY DEF NoFuture
<1>5. /\ thread' \in [Article -> FutureSet]
      /\ thread'[a] = [NoFuture EXCEPT !.at = FirstStep(a)]
      /\ \A b \in Article \ {a} : thread'[b] = thread[b]
  BY <1>2, <1>3, FutureGiven
<1>. QED BY <1>4, <1>5 DEF Pick

LEMMA LateIs ==
  ASSUME Typed, NEW a \in Article, Late(a)
  PROVE  /\ thread[a].at \in Strategy
         /\ thread' \in [Article -> FutureSet]
         /\ thread'[a].at = "late"
         /\ \A b \in Article \ {a} : thread'[b] = thread[b]
         /\ SiteOf[a] \in Site
         /\ \E ok \in BOOLEAN : Record(SiteOf[a], ok)
         /\ UNCHANGED <<handoff, table, bucket, run, lost, bounds>>
<1>1. Ended(a, "late", {})
  BY DEF Late
<1>2. /\ thread' \in [Article -> FutureSet]
      /\ thread'[a].at = "late"
      /\ \A b \in Article \ {a} : thread'[b] = thread[b]
      /\ SiteOf[a] \in Site
      /\ \E ok \in BOOLEAN : Record(SiteOf[a], ok)
  BY <1>1, EndedIs
<1>. QED BY <1>2 DEF Late

LEMMA CurrentIs == ASSUME NEW a \in Current PROVE a \in run.todo
BY DEF Current

\* What enriching an article does to the run: "body" and "fed" are the ways to
\* have its body, and only "body" marks it as crawled.
LEMMA TakenIs ==
  ASSUME Typed, NEW a \in run.todo, NEW at, Taken(a, at)
  PROVE  /\ run' \in RunSet
         /\ run'.at \in {"flush", "save", "loop"}
         /\ run'.fed = run.fed
         /\ run'.todo = run.todo \ {a}
         /\ run'.batch = run.batch \cup {a}
         /\ at \in {"body", "fed"} => run'.pending = run.pending \cup {a} /\ lost' = lost \ {a}
         /\ at \notin {"body", "fed"} => run'.pending = run.pending /\ lost' = lost
         /\ at = "body" => run'.mark = run.mark \cup {a} /\ run'.unmark = run.unmark
         /\ at # "body" => run'.mark = run.mark /\ run'.unmark \subseteq run.unmark \cup {a}
         /\ run'.last = run.last
<1>1. run \in RunSet /\ a \in Article
  BY DEF Typed, RunSet
<1>2. PICK S \in SUBSET Article : S = IF at \in {"body", "fed"} THEN run.pending \cup {a} ELSE run.pending
  BY <1>1 DEF RunSet
<1>3. PICK M \in SUBSET Article : M = IF Marked(at) THEN run.mark \cup {a} ELSE run.mark
  BY <1>1 DEF RunSet
<1>4. PICK U \in SUBSET Article :
        U = IF ~Marked(at) /\ at \in Result \ {"fed"} THEN run.unmark \cup {a} ELSE run.unmark
  BY <1>1 DEF RunSet
<1>. DEFINE r == [run EXCEPT !.todo = run.todo \ {a}, !.batch = run.batch \cup {a},
                             !.pending = S, !.mark = M, !.unmark = U]
<1>5. run' = [r EXCEPT !.at = AfterTake(r)]
  BY <1>2, <1>3, <1>4 DEF Taken
<1>6. lost' = IF at \in {"body", "fed"} THEN lost \ {a} ELSE lost
  BY DEF Taken
<1>7. /\ r \in RunSet
      /\ r.fed = run.fed /\ r.todo = run.todo \ {a} /\ r.batch = run.batch \cup {a}
      /\ r.pending = S /\ r.mark = M /\ r.unmark = U /\ r.last = run.last
  BY <1>1 DEF RunSet
<1>8. AfterTake(r) \in {"flush", "save", "loop"}
  BY DEF AfterTake
<1>. HIDE DEF r
<1>9. /\ run' \in RunSet /\ run'.at \in {"flush", "save", "loop"}
      /\ run'.fed = r.fed /\ run'.todo = r.todo /\ run'.batch = r.batch
      /\ run'.pending = r.pending /\ run'.mark = r.mark /\ run'.unmark = r.unmark /\ run'.last = r.last
  BY <1>5, <1>7, <1>8 DEF RunSet
<1>. QED BY <1>2, <1>3, <1>4, <1>6, <1>7, <1>9 DEF Marked

LEMMA CrashedIs ==
  ASSUME Typed, NEW a \in run.todo, Crashed(a)
  PROVE  /\ run' \in RunSet
         /\ run'.at = "loop"
         /\ run'.fed = run.fed
         /\ run'.todo = run.todo \ {a}
         /\ run'.batch = run.batch /\ run'.pending = run.pending
         /\ run'.mark = run.mark /\ run'.unmark = run.unmark /\ run'.last = run.last
         /\ lost' = lost \cup (run.fed \cap {a})
BY DEF Crashed, Typed, RunSet

LEMMA SaveIs ==
  ASSUME Typed, Save
  PROVE  /\ run.at = "save"
         /\ run' \in RunSet
         /\ run'.at # "idle"
         /\ run'.fed = run.fed /\ run'.todo = run.todo
         /\ run'.batch = {} /\ run'.mark = {} /\ run'.unmark = {}
         /\ run'.pending = run.pending /\ run'.last = run.last
         /\ \/ enriched' = enriched \cup run.batch /\ crawled' = (crawled \cup run.mark) \ run.unmark
            \/ UNCHANGED table
         /\ faults' \in 0 .. MaxFaults
         /\ UNCHANGED <<handoff, bucket, thread, tracker, lost, runs>>
<1>1. faults' \in 0 .. MaxFaults
  BY FaultTyped DEF Save, Typed
<1>2. run' = [run EXCEPT !.batch = {}, !.mark = {}, !.unmark = {},
                         !.at = IF run.last THEN "flush" ELSE "loop"]
  BY DEF Save
<1>3. /\ run' \in RunSet
      /\ run'.at # "idle"
      /\ run'.fed = run.fed /\ run'.todo = run.todo
      /\ run'.batch = {} /\ run'.mark = {} /\ run'.unmark = {}
      /\ run'.pending = run.pending /\ run'.last = run.last
  BY <1>2 DEF Typed, RunSet
<1>. QED BY <1>1, <1>3 DEF Save

LEMMA FlushIs ==
  ASSUME Typed, Flush
  PROVE  /\ run.at = "flush"
         /\ \/ bucket' = bucket \cup run.pending /\ lost' = lost
            \/ bucket' = bucket /\ lost' = lost \cup (run.pending \ bucket)
         /\ run.last => run' = NoRun /\ \A a \in Article : thread'[a] = NoFuture
         /\ ~run.last => /\ run'.at # "idle" /\ run'.fed = run.fed /\ run'.todo = run.todo
                         /\ run'.batch = run.batch /\ run'.mark = run.mark
                         /\ run'.unmark = run.unmark /\ run'.pending = {} /\ run'.last = run.last
                         /\ thread' = thread
         /\ run' \in RunSet
         /\ thread' \in [Article -> FutureSet]
         /\ faults' \in 0 .. MaxFaults
         /\ UNCHANGED <<handoff, table, tracker, runs>>
<1>1. faults' \in 0 .. MaxFaults
  BY FaultTyped DEF Flush, Typed
<1>2. CASE run.last
  <2>1. run' = NoRun /\ thread' = [a \in Article |-> NoFuture]
    BY <1>2 DEF Flush
  <2>. QED BY <1>1, <1>2, <2>1, NoRunTyped, NoFutureTyped DEF Flush
<1>3. CASE ~run.last
  <2>1. /\ run' = [run EXCEPT !.pending = {},
                     !.at = IF Cardinality(run.batch) >= SaveEvery THEN "save" ELSE "loop"]
        /\ thread' = thread
    BY <1>3 DEF Flush
  <2>2. PICK at \in {"save", "loop"} : run' = [run EXCEPT !.pending = {}, !.at = at]
    BY <2>1
  <2>3. /\ run' \in RunSet
        /\ run'.at # "idle" /\ run'.fed = run.fed /\ run'.todo = run.todo
        /\ run'.batch = run.batch /\ run'.mark = run.mark
        /\ run'.unmark = run.unmark /\ run'.pending = {} /\ run'.last = run.last
    BY <2>2 DEF Typed, RunSet
  <2>4. thread' \in [Article -> FutureSet]
    BY <2>1 DEF Typed
  <2>. QED BY <1>1, <1>3, <2>1, <2>3, <2>4 DEF Flush
<1>. QED BY <1>2, <1>3 DEF Typed, RunSet

LEMMA StartedIs ==
  ASSUME Typed, NEW S \in SUBSET Article, NEW fed \in SUBSET FeedBody, Started(S, fed)
  PROVE  /\ run' \in RunSet
         /\ run'.at = "loop" /\ run'.todo = S /\ run'.fed = fed
         /\ run'.batch = {} /\ run'.mark = {} /\ run'.unmark = {} /\ run'.pending = {}
         /\ run'.last = FALSE
         /\ thread' \in [Article -> FutureSet]
         /\ \A a \in Article : thread'[a].at \in {"queued", "none"}
         /\ streak' = [s \in Site |-> 0] /\ tripped' = {} /\ ended' = [s \in Site |-> <<>>]
         /\ runs' \in 0 .. MaxRuns
<1>1. /\ run' \in RunSet
      /\ run'.at = "loop" /\ run'.todo = S /\ run'.fed = fed
      /\ run'.batch = {} /\ run'.mark = {} /\ run'.unmark = {} /\ run'.pending = {}
      /\ run'.last = FALSE
  BY DEF Started, NoRun, RunSet
<1>2. thread' = [a \in Article |-> IF a \in S THEN [NoFuture EXCEPT !.at = "queued"] ELSE NoFuture]
  BY DEF Started
<1>3. [NoFuture EXCEPT !.at = "queued"].at = "queued" /\ NoFuture.at = "none"
  BY DEF NoFuture
<1>4. /\ thread' \in [Article -> FutureSet]
      /\ \A a \in Article : thread'[a].at \in {"queued", "none"}
  BY <1>2, <1>3, NoFutureTyped
<1>5. runs' \in 0 .. MaxRuns
  BY CrawlAssumption DEF Started, Typed
<1>. QED BY <1>1, <1>4, <1>5 DEF Started

-----------------------------------------------------------------------------
(* Every step keeps the types, and each article in one place *)

Shape == Typed /\ Apart

LEMMA ShapeInit == Init => Shape
<1>. SUFFICES ASSUME Init PROVE Shape
  OBVIOUS
<1>1. thread \in [Article -> FutureSet]
  BY NoFutureTyped DEF Init
<1>2. /\ streak \in [Site -> Nat] /\ ended \in [Site -> Seq(BOOLEAN)]
      /\ runs \in 0 .. MaxRuns /\ faults \in 0 .. MaxFaults
  BY CrawlAssumption DEF Init
<1>3. FeedBody \subseteq Article
  BY CrawlAssumption
<1>. QED BY <1>1, <1>2, <1>3, NoRunTyped DEF Init, Shape, Typed, Apart

LEMMA ShapeRecord ==
  ASSUME Typed, NEW s \in Site, \E ok \in BOOLEAN : Record(s, ok)
  PROVE  streak' \in [Site -> Nat] /\ tripped' \subseteq Site /\ ended' \in [Site -> Seq(BOOLEAN)]
<1>1. PICK ok \in BOOLEAN : Record(s, ok)
  OBVIOUS
<1>. QED BY <1>1, RecordIs

LEMMA ShapeStart ==
  ASSUME Shape, NEW S \in SUBSET Article, NEW fed \in SUBSET FeedBody, Started(S, fed),
         handoff' \subseteq handoff, S \cap (handoff' \cup enriched) = {}, lost' \subseteq Article,
         UNCHANGED <<table, bucket, faults>>
  PROVE  Shape'
<1>1. /\ run' \in RunSet
      /\ run'.at = "loop" /\ run'.todo = S
      /\ run'.batch = {} /\ run'.mark = {} /\ run'.unmark = {}
      /\ run'.last = FALSE
      /\ thread' \in [Article -> FutureSet]
      /\ streak' = [s \in Site |-> 0] /\ tripped' = {} /\ ended' = [s \in Site |-> <<>>]
      /\ runs' \in 0 .. MaxRuns
  BY StartedIs DEF Shape
<1>2. streak' \in [Site -> Nat] /\ tripped' \subseteq Site /\ ended' \in [Site -> Seq(BOOLEAN)]
  BY <1>1
<1>3. Typed'
  BY <1>1, <1>2 DEF Shape, Typed, table
<1>4. Apart'
  BY <1>1 DEF Shape, Apart, table
<1>. QED BY <1>3, <1>4 DEF Shape

LEMMA ShapeThread ==
  ASSUME Shape, thread' \in [Article -> FutureSet],
         \/ UNCHANGED tracker
         \/ \E s \in Site : \E ok \in BOOLEAN : Record(s, ok),
         UNCHANGED <<handoff, table, bucket, run, lost, bounds>>
  PROVE  Shape'
<1>1. streak' \in [Site -> Nat] /\ tripped' \subseteq Site /\ ended' \in [Site -> Seq(BOOLEAN)]
  BY ShapeRecord DEF Shape, Typed, tracker
<1>2. Typed'
  BY <1>1 DEF Shape, Typed, table, bounds
<1>3. Apart'
  BY DEF Shape, Apart, table
<1>. QED BY <1>2, <1>3 DEF Shape

\* The loop takes an article: it goes to the batch, or is left for another run.
LEMMA ShapeTake ==
  ASSUME Shape, NEW a \in run.todo, NEW at, Taken(a, at) \/ Crashed(a),
         run.at = "wait", thread' \in [Article -> FutureSet],
         UNCHANGED <<handoff, table, bucket, tracker, bounds>>
  PROVE  Shape'
<1>1. /\ run' \in RunSet /\ run'.at # "idle"
      /\ run'.todo = run.todo \ {a}
      /\ run'.last = run.last
      /\ \/ /\ run'.batch = run.batch \cup {a}
            /\ run'.mark \subseteq run.mark \cup {a} /\ run'.unmark \subseteq run.unmark \cup {a}
            /\ run'.mark = run.mark \/ run'.unmark = run.unmark
         \/ /\ run'.batch = run.batch
            /\ run'.mark = run.mark /\ run'.unmark = run.unmark
      /\ lost' \subseteq lost \cup {a}
  <2>1. CASE Taken(a, at)
    BY <2>1, TakenIs DEF Shape
  <2>2. CASE Crashed(a)
    BY <2>2, CrashedIs DEF Shape
  <2>. QED BY <2>1, <2>2
<1>2. a \in Article /\ a \notin enriched /\ a \notin run.batch /\ a \notin handoff
  BY DEF Shape, Typed, RunSet, Apart
<1>3. run'.batch \cap enriched = {}
  BY <1>1, <1>2 DEF Shape, Typed
<1>4. run'.mark \cup run'.unmark \subseteq run'.batch
  BY <1>1 DEF Shape, Typed
<1>5. run'.mark \cap run'.unmark = {}
  BY <1>1, <1>2 DEF Shape, Typed
<1>6. Typed'
  BY <1>1, <1>2, <1>3, <1>4, <1>5 DEF Shape, Typed, table, tracker, bounds
<1>7. Apart'
  BY <1>1, <1>2 DEF Shape, Apart, table
<1>. QED BY <1>6, <1>7 DEF Shape

LEMMA WaitIs ==
  ASSUME Typed, Wait
  PROVE  /\ run' \in RunSet /\ run'.at = "wait" /\ run.at = "loop"
         /\ run'.fed = run.fed /\ run'.todo = run.todo /\ run'.batch = run.batch
         /\ run'.mark = run.mark /\ run'.unmark = run.unmark
         /\ run'.pending = run.pending /\ run'.last = run.last
         /\ UNCHANGED <<handoff, table, bucket, thread, tracker, lost, bounds>>
BY DEF Wait, Typed, RunSet

LEMMA EndLoopIs ==
  ASSUME Typed, EndLoop
  PROVE  /\ run' \in RunSet /\ run'.at = "save" /\ run'.todo = {}
         /\ run'.fed = run.fed /\ run'.batch = run.batch
         /\ run'.mark = run.mark /\ run'.unmark = run.unmark
         /\ run'.pending = run.pending
         /\ lost' = lost \cup (run.fed \cap run.todo)
         /\ UNCHANGED <<handoff, table, bucket, thread, tracker, bounds>>
BY DEF EndLoop, Typed, RunSet

LEMMA KillIs ==
  ASSUME Typed, Kill
  PROVE  /\ run' = NoRun /\ thread' \in [Article -> FutureSet]
         /\ \A a \in Article : thread'[a] = NoFuture
         /\ lost' = lost \cup ((run.pending \cup (run.fed \cap run.todo)) \ bucket)
         /\ faults' \in 0 .. MaxFaults
         /\ UNCHANGED <<handoff, table, bucket, tracker, runs>>
<1>1. faults' \in 0 .. MaxFaults
  BY FaultTyped DEF Kill
<1>. QED BY <1>1, NoFutureTyped DEF Kill

LEMMA ShapeStep == Shape /\ [Next]_vars => Shape'
<1>. SUFFICES ASSUME Shape, [Next]_vars PROVE Shape'
  OBVIOUS
<1>0. Typed /\ Apart /\ FeedBody \subseteq Article
  BY CrawlAssumption DEF Shape
<1>1. CASE UNCHANGED vars
  BY <1>0, <1>1 DEF vars, table, tracker, bounds, Shape, Typed, Apart
<1>2. CASE StartShard
  <2>1. /\ Started(handoff, handoff \cap FeedBody) /\ handoff' = {}
        /\ UNCHANGED <<table, bucket, lost, faults>>
    BY <1>2 DEF StartShard
  <2>2. handoff \subseteq Article /\ lost \subseteq Article /\ handoff \cap enriched = {}
    BY <1>0 DEF Typed, Apart
  <2>3. handoff \cap FeedBody \in SUBSET FeedBody
    OBVIOUS
  <2>. QED BY <2>1, <2>2, <2>3, ShapeStart
<1>3. CASE StartSweep
  <2>1. /\ Started(Article \ (enriched \cup handoff), {})
        /\ UNCHANGED <<handoff, table, bucket, lost, faults>>
    BY <1>3 DEF StartSweep
  <2>2. lost \subseteq Article
    BY <1>0 DEF Typed
  <2>. QED BY <2>1, <2>2, ShapeStart
<1>4. CASE LoseFile
  <2>1. faults' \in 0 .. MaxFaults
    BY <1>0, <1>4, FaultTyped DEF LoseFile
  <2>2. /\ handoff' = {} /\ lost' = lost \cup (handoff \cap FeedBody)
        /\ UNCHANGED <<table, bucket, run, thread, tracker, runs>>
    BY <1>4 DEF LoseFile
  <2>. QED BY <1>0, <2>1, <2>2 DEF table, tracker, Shape, Typed, Apart
<1>5. ASSUME NEW a \in Current, Take(a) PROVE Shape'
  <2>1. a \in run.todo /\ a \in Article
    BY <1>0, CurrentIs DEF Typed, RunSet
  <2>2. thread' \in [Article -> FutureSet]
    BY <1>0, <1>5, NoFutureTyped, <2>1, FutureGiven DEF Take
  <2>. QED BY <1>5, <2>1, <2>2, ShapeTake DEF Take
<1>6. ASSUME NEW a \in Current, Timeout(a) PROVE Shape'
  <2>1. a \in run.todo
    BY CurrentIs
  <2>2. thread' \in [Article -> FutureSet]
    BY <1>0, <1>6 DEF Typed, Timeout
  <2>3. PICK at : Taken(a, at) \/ Crashed(a)
    BY <1>6 DEF Timeout
  <2>4. run.at = "wait" /\ UNCHANGED <<handoff, table, bucket, tracker, bounds>>
    BY <1>6 DEF Timeout
  <2>. QED BY <2>1, <2>2, <2>3, <2>4, ShapeTake
<1>7. CASE Wait
  <2>1. Typed'
    BY <1>0, <1>7, WaitIs DEF Typed, table, tracker, bounds
  <2>2. Apart'
    BY <1>0, <1>7, WaitIs DEF Apart, table
  <2>. QED BY <2>1, <2>2 DEF Shape
<1>8. CASE EndLoop
  <2>0. run.fed \cap run.todo \subseteq Article
    BY <1>0 DEF Typed, RunSet
  <2>1. Typed'
    BY <1>0, <2>0, <1>8, EndLoopIs DEF Typed, table, tracker, bounds
  <2>2. Apart'
    BY <1>0, <1>8, EndLoopIs DEF Apart, table
  <2>. QED BY <2>1, <2>2 DEF Shape
<1>9. CASE Flush
  <2>0. run.pending \subseteq Article
    BY <1>0 DEF Typed, RunSet
  <2>1. CASE run.last
    <3>1. Typed'
      BY <1>0, <1>9, <2>0, <2>1, FlushIs, NoRunTyped DEF Typed, table, tracker
    <3>2. Apart'
      BY <1>0, <1>9, <2>1, FlushIs, NoRunTyped DEF Apart, table
    <3>. QED BY <3>1, <3>2 DEF Shape
  <2>2. CASE ~run.last
    <3>1. Typed'
      BY <1>0, <1>9, <2>0, <2>2, FlushIs DEF Typed, table, tracker
    <3>2. Apart'
      BY <1>0, <1>9, <2>2, FlushIs DEF Apart, table
    <3>. QED BY <3>1, <3>2 DEF Shape
  <2>. QED BY <2>1, <2>2
<1>10. CASE Save
  <2>1. run.batch \subseteq Article /\ run.mark \subseteq Article
    BY <1>0 DEF Typed, RunSet
  <2>2. Typed'
    BY <1>0, <1>10, <2>1, SaveIs DEF Typed, table, tracker
  <2>3. Apart'
    BY <1>0, <1>10, SaveIs DEF Apart, table
  <2>. QED BY <2>2, <2>3 DEF Shape
<1>11. ASSUME NEW a \in Article, Pick(a) PROVE Shape'
  BY <1>0, <1>11, PickIs, ShapeThread
<1>12. ASSUME NEW a \in Article, Request(a) PROVE Shape'
  <2>1. thread' \in [Article -> FutureSet]
    BY <1>0, <1>12, RequestIs
  <2>2. UNCHANGED tracker \/ \E s \in Site : \E ok \in BOOLEAN : Record(s, ok)
    BY <1>0, <1>12, RequestIs
  <2>3. UNCHANGED <<handoff, table, bucket, run, lost, bounds>>
    BY <1>12 DEF Request
  <2>. QED BY <2>1, <2>2, <2>3, ShapeThread
<1>13. ASSUME NEW a \in Article, Late(a) PROVE Shape'
  <2>1. thread' \in [Article -> FutureSet]
    BY <1>0, <1>13, LateIs
  <2>2. \E s \in Site : \E ok \in BOOLEAN : Record(s, ok)
    BY <1>0, <1>13, LateIs
  <2>3. UNCHANGED <<handoff, table, bucket, run, lost, bounds>>
    BY <1>0, <1>13, LateIs
  <2>. QED BY <2>1, <2>2, <2>3, ShapeThread
<1>14. CASE Kill
  <2>0. run.pending \cup (run.fed \cap run.todo) \subseteq Article
    BY <1>0 DEF Typed, RunSet
  <2>1. Typed'
    BY <1>0, <1>14, <2>0, KillIs, NoRunTyped DEF Typed, table, tracker
  <2>2. Apart'
    BY <1>0, <1>14, KillIs, NoRunTyped DEF Apart, table
  <2>. QED BY <2>1, <2>2 DEF Shape
<1>. QED BY <1>1, <1>2, <1>3, <1>4, <1>5, <1>6, <1>7, <1>8, <1>9, <1>10, <1>11, <1>12, <1>13, <1>14
         DEF Next, Start, Loop, Threads

\* Every variable stays in its range: what a run is about to save is unenriched,
\* and no row is both marked and unmarked as crawled.
THEOREM TypeCorrect == Spec => []TypeOK
<1>1. Shape => TypeOK
  BY TypedIsTypeOK DEF Shape
<1>. QED BY ShapeInit, ShapeStep, <1>1, PTL DEF Spec

-----------------------------------------------------------------------------
(* Bodies *)

\* Where the body of a crawled article may be: with its record before it is taken,
\* then in the store of the run, then in the bucket; or it was lost.
Home(a) == a \in bucket \cup run.pending \cup lost \cup (handoff \cap FeedBody) \cup (run.fed \cap run.todo)

BodyInv ==
  /\ \A a \in crawled \cup run.mark : Home(a)
  /\ \A a \in run.fed : thread[a].at \in {"none", "queued", "fed"}

LEMMA BodyInit == Init => BodyInv
<1>. SUFFICES ASSUME Init PROVE BodyInv
  OBVIOUS
<1>1. /\ run.fed = {} /\ run.mark = {} /\ crawled = FeedBody /\ handoff = Article
  BY NoRunTyped DEF Init
<1>2. FeedBody \subseteq Article
  BY CrawlAssumption
<1>. QED BY <1>1, <1>2 DEF BodyInv, Home

\* The loop takes an article whose body, if its record had one, is not forgotten.
LEMMA BodyTake ==
  ASSUME Shape, BodyInv, NEW a \in run.todo, NEW at, Taken(a, at) \/ Crashed(a),
         a \in run.fed => at = "fed",
         UNCHANGED <<handoff, table, bucket>>
  PROVE  /\ \A b \in crawled' \cup run'.mark : Home(b)'
         /\ run'.fed = run.fed
<1>0. Typed
  BY DEF Shape
<1>1. CASE Taken(a, at)
  <2>1. /\ run'.fed = run.fed
        /\ run'.todo = run.todo \ {a}
        /\ at \in {"body", "fed"} => run'.pending = run.pending \cup {a} /\ lost' = lost \ {a}
        /\ at \notin {"body", "fed"} => run'.pending = run.pending /\ lost' = lost
        /\ at = "body" => run'.mark = run.mark \cup {a}
        /\ at # "body" => run'.mark = run.mark
    BY <1>0, <1>1, TakenIs
  <2>2. ASSUME NEW b, Home(b) PROVE Home(b)'
    <3>1. CASE b = a /\ at \in {"body", "fed"}
      BY <2>1, <3>1 DEF Home
    <3>2. CASE b = a /\ at \notin {"body", "fed"}
      BY <2>1, <2>2, <3>2 DEF Home
    <3>3. CASE b # a
      BY <2>1, <2>2, <3>3 DEF Home
    <3>. QED BY <3>1, <3>2, <3>3
  <2>3. at = "body" => Home(a)'
    BY <2>1 DEF Home
  <2>4. crawled' = crawled
    BY DEF table
  <2>. QED BY <2>1, <2>2, <2>3, <2>4 DEF BodyInv
<1>2. CASE Crashed(a)
  <2>1. /\ run'.fed = run.fed /\ run'.todo = run.todo \ {a}
        /\ run'.pending = run.pending /\ run'.mark = run.mark
        /\ lost' = lost \cup (run.fed \cap {a})
    BY <1>0, <1>2, CrashedIs
  <2>2. ASSUME NEW b, Home(b) PROVE Home(b)'
    BY <2>1, <2>2 DEF Home
  <2>3. crawled' = crawled
    BY DEF table
  <2>. QED BY <2>1, <2>2, <2>3 DEF BodyInv
<1>. QED BY <1>1, <1>2

LEMMA BodyStep == Shape /\ BodyInv /\ [Next]_vars => BodyInv'
<1>. SUFFICES ASSUME Shape, BodyInv, [Next]_vars PROVE BodyInv'
  OBVIOUS
<1>0. /\ Typed /\ Apart /\ FeedBody \subseteq Article
      /\ run.fed \subseteq Article /\ run.todo \subseteq Article
  BY CrawlAssumption DEF Shape, Typed, RunSet
<1>1. CASE UNCHANGED vars
  BY <1>1 DEF vars, table, BodyInv, Home
<1>2. CASE StartShard
  <2>1. /\ Started(handoff, handoff \cap FeedBody) /\ handoff' = {}
        /\ UNCHANGED <<table, bucket, lost, faults>> /\ run.at = "idle"
    BY <1>2 DEF StartShard
  <2>2. /\ run'.todo = handoff /\ run'.fed = handoff \cap FeedBody /\ run'.mark = {}
        /\ \A a \in Article : thread'[a].at \in {"queued", "none"}
    BY <1>0, <2>1, StartedIs DEF Typed
  <2>3. run.pending = {} /\ run.fed = {}
    BY <1>0, <2>1, NoRunTyped DEF Apart
  <2>4. crawled' = crawled
    BY <2>1 DEF table
  <2>. QED BY <1>0, <2>1, <2>2, <2>3, <2>4 DEF BodyInv, Home
<1>3. CASE StartSweep
  <2>1. /\ Started(Article \ (enriched \cup handoff), {})
        /\ UNCHANGED <<handoff, table, bucket, lost, faults>> /\ run.at = "idle"
    BY <1>3 DEF StartSweep
  <2>2. run'.fed = {} /\ run'.mark = {}
    <3>1. Article \ (enriched \cup handoff) \in SUBSET Article /\ {} \in SUBSET FeedBody
      OBVIOUS
    <3>. QED BY <1>0, <2>1, <3>1, StartedIs
  <2>3. run.pending = {} /\ run.fed = {}
    BY <1>0, <2>1, NoRunTyped DEF Apart
  <2>4. crawled' = crawled
    BY <2>1 DEF table
  <2>. QED BY <2>1, <2>2, <2>3, <2>4 DEF BodyInv, Home
<1>4. CASE LoseFile
  BY <1>4 DEF LoseFile, BodyInv, Home, table
<1>5. ASSUME NEW a \in Current, Take(a) PROVE BodyInv'
  <2>1. a \in run.todo /\ a \in Article
    BY <1>0, CurrentIs
  <2>2. /\ thread[a].at \in Result
        /\ Taken(a, thread[a].at) \/ Crashed(a)
        /\ thread' = [thread EXCEPT ![a] = NoFuture]
        /\ UNCHANGED <<handoff, table, bucket>>
    BY <1>5 DEF Take
  <2>3. a \in run.fed => thread[a].at = "fed"
    BY <2>2 DEF BodyInv, Result
  <2>4. (\A b \in crawled' \cup run'.mark : Home(b)') /\ run'.fed = run.fed
    BY <2>1, <2>2, <2>3, BodyTake
  <2>5. \A b \in run.fed : thread'[b].at \in {"none", "queued", "fed"}
    BY <1>0, <2>1, <2>2, NoFutureTyped DEF BodyInv, Typed
  <2>. QED BY <2>4, <2>5 DEF BodyInv
<1>6. ASSUME NEW a \in Current, Timeout(a) PROVE BodyInv'
  <2>1. a \in run.todo
    BY CurrentIs
  <2>2. PICK at : (Taken(a, at) \/ Crashed(a)) /\ (a \in run.fed => at = "fed")
    BY <1>6 DEF Timeout
  <2>3. UNCHANGED <<handoff, table, bucket, thread>>
    BY <1>6 DEF Timeout
  <2>4. (\A b \in crawled' \cup run'.mark : Home(b)') /\ run'.fed = run.fed
    BY <2>1, <2>2, <2>3, BodyTake
  <2>. QED BY <2>3, <2>4 DEF BodyInv
<1>7. CASE Wait
  BY <1>0, <1>7, WaitIs DEF BodyInv, Home, table
<1>8. CASE EndLoop
  BY <1>0, <1>8, EndLoopIs DEF BodyInv, Home, table
<1>9. CASE Flush
  <2>1. CASE run.last
    <3>1. run.todo = {}
      BY <1>0, <2>1 DEF Apart
    <3>2. /\ run' = NoRun /\ crawled' = crawled /\ handoff' = handoff
          /\ \/ bucket' = bucket \cup run.pending /\ lost' = lost
             \/ bucket' = bucket /\ lost' = lost \cup (run.pending \ bucket)
      BY <1>0, <1>9, <2>1, FlushIs DEF table
    <3>. QED BY <3>1, <3>2, NoRunTyped DEF BodyInv, Home
  <2>2. CASE ~run.last
    BY <1>0, <1>9, <2>2, FlushIs DEF BodyInv, Home, table
  <2>. QED BY <2>1, <2>2
<1>10. CASE Save
  <2>1. /\ run'.fed = run.fed /\ run'.todo = run.todo
        /\ run'.mark = {} /\ run'.pending = run.pending
        /\ crawled' \subseteq crawled \cup run.mark
        /\ UNCHANGED <<handoff, bucket, thread, lost>>
    BY <1>0, <1>10, SaveIs DEF table
  <2>. QED BY <2>1 DEF BodyInv, Home
<1>11. ASSUME NEW a \in Article, Pick(a) PROVE BodyInv'
  <2>1. /\ thread'[a].at = FirstStep(a)
        /\ \A b \in Article \ {a} : thread'[b] = thread[b]
        /\ UNCHANGED <<handoff, table, bucket, run, lost>>
    BY <1>0, <1>11, PickIs
  <2>2. a \in run.fed => thread'[a].at = "fed"
    BY <2>1 DEF FirstStep
  <2>. QED BY <1>0, <2>1, <2>2 DEF BodyInv, Home, table
<1>12. ASSUME NEW a \in Article, Request(a) \/ Late(a) PROVE BodyInv'
  <2>1. /\ thread[a].at \in Strategy
        /\ \A b \in Article \ {a} : thread'[b] = thread[b]
        /\ UNCHANGED <<handoff, table, bucket, run, lost>>
    BY <1>0, <1>12, RequestIs, LateIs DEF Request
  <2>2. a \notin run.fed
    BY <2>1 DEF BodyInv, Strategy
  <2>. QED BY <1>0, <2>1, <2>2 DEF BodyInv, Home, table
<1>13. CASE Kill
  <2>1. /\ run' = NoRun /\ crawled' = crawled /\ handoff' = handoff /\ bucket' = bucket
        /\ lost' = lost \cup ((run.pending \cup (run.fed \cap run.todo)) \ bucket)
    BY <1>0, <1>13, KillIs DEF table
  <2>. QED BY <2>1, NoRunTyped DEF BodyInv, Home
<1>. QED BY <1>1, <1>2, <1>3, <1>4, <1>5, <1>6, <1>7, <1>8, <1>9, <1>10, <1>11, <1>12, <1>13
         DEF Next, Start, Loop, Threads

\* An enriched row that says is_crawled has its body in the bucket or in the store
\* of the run, unless a file, an upload or a run that held it was lost
\* (enrichment/body_store.py), for any batch sizes and order of the threads.
THEOREM BodiesKept == Spec => []CrawledHasBody
<1>1. Shape /\ BodyInv => CrawledHasBody
  BY DEF Shape, Apart, BodyInv, Home, CrawledHasBody
<1>. QED BY ShapeInit, ShapeStep, BodyInit, BodyStep, <1>1, PTL DEF Spec

-----------------------------------------------------------------------------
(* Sites left alone *)

\* The streak of a site counts the failures its fetches ended with; a site is left
\* alone for as many of them, one after the other, as it takes.
StreakInv ==
  /\ \A s \in Site : /\ streak[s] <= Len(ended[s])
                     /\ \A j \in Len(ended[s]) - streak[s] + 1 .. Len(ended[s]) : ~ended[s][j]
  /\ FailFastJustified

LEMMA StreakInit == Init => StreakInv
BY DEF Init, StreakInv, FailFastJustified

LEMMA StreakRecord ==
  ASSUME Typed, StreakInv, NEW s \in Site, NEW ok \in BOOLEAN, Record(s, ok)
  PROVE  StreakInv'
<1>1. /\ streak'[s] = IF ok THEN 0 ELSE streak[s] + 1
      /\ ended'[s] = Append(ended[s], ok)
      /\ \A r \in Site \ {s} : streak'[r] = streak[r] /\ ended'[r] = ended[r]
      /\ tripped' = IF ~ok /\ streak'[s] >= Threshold THEN tripped \cup {s} ELSE tripped
  BY RecordIs
<1>2. streak[s] \in Nat /\ ended[s] \in Seq(BOOLEAN) /\ tripped \subseteq Site /\ Threshold \in Nat \ {0}
  BY CrawlAssumption DEF Typed
<1>3. /\ Len(ended'[s]) = Len(ended[s]) + 1 /\ Len(ended[s]) \in Nat
      /\ \A j \in 1 .. Len(ended[s]) : ended'[s][j] = ended[s][j]
      /\ ended'[s][Len(ended[s]) + 1] = ok
  BY <1>1, <1>2
<1>4. /\ streak[s] <= Len(ended[s])
      /\ \A j \in Len(ended[s]) - streak[s] + 1 .. Len(ended[s]) : ~ended[s][j]
  BY DEF StreakInv
<1>5. /\ streak'[s] <= Len(ended'[s])
      /\ \A j \in Len(ended'[s]) - streak'[s] + 1 .. Len(ended'[s]) : ~ended'[s][j]
  <2>1. CASE ok
    BY <2>1, <1>1, <1>3
  <2>2. CASE ~ok
    <3>1. streak'[s] = streak[s] + 1
      BY <2>2, <1>1
    <3>2. ASSUME NEW j \in Len(ended'[s]) - streak'[s] + 1 .. Len(ended'[s]) PROVE ~ended'[s][j]
      <4>1. j = Len(ended[s]) + 1 \/ j \in Len(ended[s]) - streak[s] + 1 .. Len(ended[s])
        BY <3>1, <1>2, <1>3
      <4>2. j \in Len(ended[s]) - streak[s] + 1 .. Len(ended[s]) => j \in 1 .. Len(ended[s])
        BY <1>2, <1>3, <1>4
      <4>. QED BY <4>1, <4>2, <2>2, <1>3, <1>4
    <3>. QED BY <3>1, <3>2, <1>2, <1>3, <1>4
  <2>. QED BY <2>1, <2>2
<1>6. ASSUME NEW r \in tripped' 
      PROVE  \E i \in 1 .. Len(ended'[r]) - Threshold + 1 :
               \A j \in i .. i + Threshold - 1 : ~ended'[r][j]
  <2>1. CASE r \in tripped
    <3>1. PICK i \in 1 .. Len(ended[r]) - Threshold + 1 :
            \A j \in i .. i + Threshold - 1 : ~ended[r][j]
      BY <2>1 DEF StreakInv, FailFastJustified
    <3>2. CASE r # s
      <4>1. ended'[r] = ended[r]
        BY <2>1, <3>2, <1>1, <1>2
      <4>. QED BY <3>1, <4>1
    <3>3. CASE r = s
      <4>1. i \in 1 .. Len(ended'[s]) - Threshold + 1
        BY <3>1, <3>3, <1>2, <1>3
      <4>2. \A j \in i .. i + Threshold - 1 : j \in 1 .. Len(ended[s])
        BY <3>1, <3>3, <1>2, <1>3
      <4>3. \A j \in i .. i + Threshold - 1 : ~ended'[s][j]
        BY <3>1, <3>3, <4>2, <1>3
      <4>. QED BY <3>3, <4>1, <4>3
    <3>. QED BY <3>2, <3>3
  <2>2. CASE r \notin tripped
    <3>1. r = s /\ ~ok /\ streak'[s] >= Threshold
      BY <2>2, <1>1
    <3>2. streak'[s] \in Nat /\ streak'[s] <= Len(ended'[s])
      BY <1>1, <1>2, <1>5
    <3>. DEFINE i == Len(ended'[s]) - Threshold + 1
    <3>3. i \in 1 .. Len(ended'[s]) - Threshold + 1
      BY <3>1, <3>2, <1>2, <1>3
    <3>4. \A j \in i .. i + Threshold - 1 : j \in Len(ended'[s]) - streak'[s] + 1 .. Len(ended'[s])
      BY <3>1, <3>2, <1>2, <1>3
    <3>5. \A j \in i .. i + Threshold - 1 : ~ended'[s][j]
      BY <3>4, <1>5
    <3>. QED BY <3>1, <3>3, <3>5
  <2>. QED BY <2>1, <2>2
<1>7. FailFastJustified'
  BY <1>6 DEF FailFastJustified
<1>8. \A r \in Site : /\ streak'[r] <= Len(ended'[r])
                      /\ \A j \in Len(ended'[r]) - streak'[r] + 1 .. Len(ended'[r]) : ~ended'[r][j]
  BY <1>1, <1>5 DEF StreakInv
<1>. QED BY <1>7, <1>8 DEF StreakInv

LEMMA StreakStep == Shape /\ StreakInv /\ [Next]_vars => StreakInv'
<1>. SUFFICES ASSUME Shape, StreakInv, [Next]_vars PROVE StreakInv'
  OBVIOUS
<1>0. Typed
  BY DEF Shape
<1>1. ASSUME UNCHANGED tracker PROVE StreakInv'
  BY <1>1 DEF tracker, StreakInv, FailFastJustified
<1>2. ASSUME NEW s \in Site, \E ok \in BOOLEAN : Record(s, ok) PROVE StreakInv'
  BY <1>0, <1>2, StreakRecord
<1>3. ASSUME NEW S \in SUBSET Article, NEW fed \in SUBSET FeedBody, Started(S, fed) PROVE StreakInv'
  <2>1. streak' = [s \in Site |-> 0] /\ tripped' = {} /\ ended' = [s \in Site |-> <<>>]
    BY <1>0, <1>3, StartedIs
  <2>. QED BY <2>1 DEF StreakInv, FailFastJustified
<1>4. CASE StartShard
  <2>1. handoff \in SUBSET Article /\ handoff \cap FeedBody \in SUBSET FeedBody
    BY <1>0 DEF Typed
  <2>. QED BY <1>3, <1>4, <2>1 DEF StartShard
<1>5. CASE StartSweep
  <2>1. Started(Article \ (enriched \cup handoff), {})
    BY <1>5 DEF StartSweep
  <2>2. Article \ (enriched \cup handoff) \in SUBSET Article /\ {} \in SUBSET FeedBody
    OBVIOUS
  <2>. QED BY <1>3, <2>1, <2>2
<1>6. CASE UNCHANGED vars \/ LoseFile \/ Kill \/ Wait \/ EndLoop \/ Flush \/ Save
  BY <1>1, <1>6 DEF vars, LoseFile, Kill, Wait, EndLoop, Flush, Save
<1>7. ASSUME NEW a \in Current, Take(a) \/ Timeout(a) PROVE StreakInv'
  BY <1>1, <1>7 DEF Take, Timeout
<1>8. ASSUME NEW a \in Article, Pick(a) PROVE StreakInv'
  BY <1>1, <1>8 DEF Pick
<1>9. ASSUME NEW a \in Article, Request(a) PROVE StreakInv'
  BY <1>0, <1>1, <1>2, <1>9, RequestIs
<1>10. ASSUME NEW a \in Article, Late(a) PROVE StreakInv'
  BY <1>0, <1>2, <1>10, LateIs
<1>. QED BY <1>4, <1>5, <1>6, <1>7, <1>8, <1>9, <1>10 DEF Next, Start, Loop, Threads

\* A site is left alone only after Threshold fetches from it have failed one right
\* after the other (pipeline/crawler.py:309-315), in whatever order the threads end.
THEOREM LeftAloneForFailures == Spec => []FailFastJustified
<1>1. StreakInv => FailFastJustified
  BY DEF StreakInv
<1>. QED BY ShapeInit, ShapeStep, StreakInit, StreakStep, <1>1, PTL DEF Spec

-----------------------------------------------------------------------------
(* The ladder *)

\* What has been asked for by the time a thread stands on a rung.
LadderInv ==
  \A a \in Article \ Pdf :
    /\ thread[a].at # "pdf"
    /\ thread[a].at \in {"amp", "wayback", "failed"} =>
         "googlebot" \in thread[a].asked \/ "gone" \in thread[a].asked
    /\ thread[a].at \in {"wayback", "failed"} => "amp" \in thread[a].asked
    /\ thread[a].at = "failed" => "wayback" \in thread[a].asked

LEMMA LadderInit == Init => LadderInv
BY NoFutureTyped DEF Init, LadderInv

LEMMA LadderStays ==
  ASSUME LadderInv, \A a \in Article \ Pdf :
           thread'[a] = thread[a] \/ thread'[a].at \in {"none", "queued", "fed", "skipped", "googlebot",
                                                        "default", "body", "empty", "late"}
  PROVE  LadderInv'
BY DEF LadderInv

LEMMA LadderRequest ==
  ASSUME Typed, LadderInv, NEW a \in Article, Request(a)
  PROVE  LadderInv'
<1>1. \A b \in Article \ {a} : thread'[b] = thread[b]
  BY RequestIs
<1>2. CASE a \in Pdf
  BY <1>1, <1>2, LadderStays
<1>3. CASE thread'[a].at \in {"body", "empty"}
  BY <1>1, <1>3, LadderStays
<1>4. CASE thread'[a].at = thread[a].at /\ thread[a].asked \subseteq thread'[a].asked
  BY <1>1, <1>4 DEF LadderInv
<1>5. ASSUME a \notin Pdf, NEW reply \in Reply,
             reply # "useful", thread'[a].at = NextStrategy(thread[a].at, reply),
             thread'[a].asked = Asked(thread[a], reply)
      PROVE  LadderInv'
  <2>1. /\ thread[a].at \in {"default", "googlebot", "amp", "wayback"}
        /\ thread[a].at \in {"amp", "wayback"} =>
             "googlebot" \in thread[a].asked \/ "gone" \in thread[a].asked
        /\ thread[a].at = "wayback" => "amp" \in thread[a].asked
    BY <1>5, RequestIs DEF LadderInv, Strategy
  <2>2. thread[a].asked \cup {thread[a].at} \subseteq thread'[a].asked
    BY <1>5 DEF Asked
  <2>3. CASE thread[a].at = "default"
    <3>1. CASE reply = "gone"
      <4>1. thread'[a].at = "amp" /\ "gone" \in thread'[a].asked
        BY <1>5, <2>3, <3>1 DEF NextStrategy, Asked
      <4>. QED BY <1>1, <4>1 DEF LadderInv
    <3>2. CASE reply # "gone"
      <4>1. thread'[a].at = "googlebot"
        BY <1>5, <2>3, <3>2 DEF NextStrategy
      <4>. QED BY <1>1, <4>1, LadderStays
    <3>. QED BY <3>1, <3>2
  <2>4. CASE thread[a].at = "googlebot"
    <3>1. thread'[a].at = "amp"
      BY <1>5, <2>4 DEF NextStrategy
    <3>. QED BY <1>1, <2>2, <2>4, <3>1 DEF LadderInv
  <2>5. CASE thread[a].at = "amp"
    <3>1. thread'[a].at = "wayback"
      BY <1>5, <2>5 DEF NextStrategy
    <3>. QED BY <1>1, <2>1, <2>2, <2>5, <3>1 DEF LadderInv
  <2>6. CASE thread[a].at = "wayback"
    <3>1. thread'[a].at = "failed"
      BY <1>5, <2>6 DEF NextStrategy
    <3>. QED BY <1>1, <2>1, <2>2, <2>6, <3>1 DEF LadderInv
  <2>. QED BY <2>1, <2>3, <2>4, <2>5, <2>6
<1>. QED BY <1>2, <1>3, <1>4, <1>5, RequestIs

LEMMA LadderStep == Shape /\ LadderInv /\ [Next]_vars => LadderInv'
<1>. SUFFICES ASSUME Shape, LadderInv, [Next]_vars PROVE LadderInv'
  OBVIOUS
<1>0. Typed /\ NoFuture.at = "none"
  BY NoFutureTyped DEF Shape
<1>1. ASSUME UNCHANGED thread PROVE LadderInv'
  BY <1>1, LadderStays
<1>2. ASSUME NEW S \in SUBSET Article, NEW fed \in SUBSET FeedBody, Started(S, fed) PROVE LadderInv'
  <2>1. \A a \in Article : thread'[a].at \in {"queued", "none"}
    BY <1>0, <1>2, StartedIs
  <2>. QED BY <2>1, LadderStays
<1>3. CASE StartShard
  <2>1. handoff \in SUBSET Article /\ handoff \cap FeedBody \in SUBSET FeedBody
    BY <1>0 DEF Typed
  <2>. QED BY <1>2, <1>3, <2>1 DEF StartShard
<1>4. CASE StartSweep
  <2>1. Started(Article \ (enriched \cup handoff), {})
    BY <1>4 DEF StartSweep
  <2>2. Article \ (enriched \cup handoff) \in SUBSET Article /\ {} \in SUBSET FeedBody
    OBVIOUS
  <2>. QED BY <1>2, <2>1, <2>2
<1>5. CASE UNCHANGED vars \/ LoseFile \/ Wait \/ EndLoop \/ Save
  BY <1>1, <1>5 DEF vars, LoseFile, Wait, EndLoop, Save
<1>6. CASE Kill
  <2>1. \A a \in Article : thread'[a].at = "none"
    BY <1>0, <1>6, KillIs
  <2>. QED BY <2>1, LadderStays
<1>7. CASE Flush
  <2>1. thread' = thread \/ \A a \in Article : thread'[a].at = "none"
    BY <1>0, <1>7, FlushIs
  <2>. QED BY <1>1, <2>1, LadderStays
<1>8. ASSUME NEW a \in Current, Take(a) PROVE LadderInv'
  <2>1. thread' = [thread EXCEPT ![a] = NoFuture] /\ thread \in [Article -> FutureSet]
    BY <1>0, <1>8 DEF Take, Typed
  <2>2. \A b \in Article : thread'[b] = thread[b] \/ thread'[b] = NoFuture
    BY <2>1
  <2>. QED BY <1>0, <2>2, LadderStays
<1>9. ASSUME NEW a \in Current, Timeout(a) PROVE LadderInv'
  BY <1>1, <1>9 DEF Timeout
<1>10. ASSUME NEW a \in Article, Pick(a) PROVE LadderInv'
  <2>1. /\ thread'[a].at = FirstStep(a)
        /\ \A b \in Article \ {a} : thread'[b] = thread[b]
    BY <1>0, <1>10, PickIs
  <2>2. a \notin Pdf => FirstStep(a) \in {"fed", "skipped", "googlebot", "default"}
    BY DEF FirstStep
  <2>. QED BY <2>1, <2>2, LadderStays
<1>11. ASSUME NEW a \in Article, Request(a) PROVE LadderInv'
  BY <1>0, <1>11, LadderRequest
<1>12. ASSUME NEW a \in Article, Late(a) PROVE LadderInv'
  BY <1>0, <1>12, LateIs, LadderStays
<1>. QED BY <1>3, <1>4, <1>5, <1>6, <1>7, <1>8, <1>9, <1>10, <1>11, <1>12 DEF Next, Start, Loop, Threads

\* A page is given up before its deadline only after every way that could have
\* worked was tried (pipeline/crawler.py:478-487), whatever the site answers.
THEOREM NoWayLeft == Spec => []AnotherWayTried
<1>1. LadderInv => AnotherWayTried
  BY DEF LadderInv, AnotherWayTried
<1>. QED BY ShapeInit, ShapeStep, LadderInit, LadderStep, <1>1, PTL DEF Spec
=============================================================================
