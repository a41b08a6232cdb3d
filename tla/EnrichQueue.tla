----------------------------- MODULE EnrichQueue -----------------------------
(***************************************************************************)
(* The enrichment work queue: the queue columns of the table `articles`    *)
(* (enriched_at, enrich_claimed_at, enrich_attempts), the SQL functions    *)
(* that claim and release rows, the sweeper runs that work on claimed rows *)
(* (enrichment/handoff_runner.run_sweeper) and the hand-off shards of      *)
(* process.yml, which work on the same rows without claiming them.         *)
(*                                                                         *)
(* A timestamp is modelled by its age in ticks, saturating just past the   *)
(* largest bound it is compared with, so that time itself is unbounded.    *)
(* An article's number is its place in ingestion order.                    *)
(***************************************************************************)
EXTENDS Integers, FiniteSets

CONSTANTS
  Article,      \* articles with a title, numbered in ingestion order
  Runner,       \* sweeper slots; the concurrency group runs one job per slot
  Lease,        \* ENRICH_CLAIM_LEASE_MINUTES
  RunTimeout,   \* timeout-minutes of the sweeper job
  MaxAttempts,  \* ENRICH_MAX_ATTEMPTS
  MaxRetries,   \* ENRICH_MAX_RETRIES
  RetryAfter,   \* ENRICH_RETRY_HOURS
  MinAge,       \* ENRICH_MIN_AGE_HOURS of the sweeper
  BatchSize,    \* ENRICH_BATCH_SIZE
  PageSize,     \* _CLAIM_PAGE
  SaveEvery,    \* ENRICH_SAVE_EVERY
  Flaky,        \* articles on which enrich_one() may raise
  BadRow,       \* articles whose row the batch save rejects every time
  LostReplies,  \* calls that may commit while the client sees a timeout
  MaxFaults,    \* bound on kills, failed saves and lost replies
  Nobody        \* the owner of an article no run holds

ASSUME ArticleAssumption == Article \subseteq Nat
ASSUME TimeAssumption ==
  /\ Lease \in Nat /\ RunTimeout \in Nat /\ RetryAfter \in Nat /\ MinAge \in Nat
  /\ RunTimeout <= Lease       \* the lease outlives the job (enrichment.yml:32)
  /\ Lease <= RetryAfter
ASSUME LimitAssumption ==
  /\ MaxAttempts \in Nat \ {0} /\ MaxRetries \in Nat
  /\ BatchSize \in Nat \ {0} /\ PageSize \in Nat \ {0} /\ SaveEvery \in Nat \ {0}
  /\ MaxFaults \in Nat
ASSUME FaultAssumption ==
  /\ Flaky \subseteq Article
  /\ BadRow \subseteq Article
  /\ LostReplies \subseteq {"claim", "save", "release"}
ASSUME NobodyAssumption == Nobody \notin Runner

VARIABLES
  age,       \* age[a]: ticks since ingestion, NotIngested before it
  enriched,  \* articles with enriched_at set
  claimAge,  \* claimAge[a]: age of enrich_claimed_at, NoClaim when it is NULL
  attempts,  \* attempts[a]: enrich_attempts
  handoff,   \* articles an ingest run handed to the shards, not finished yet
  pc,        \* pc[r]: where the run in slot r is
  runAge,    \* runAge[r]: ticks since that run started
  todo,      \* todo[r]: claimed articles it has not started
  batch,     \* batch[r]: articles computed, not saved
  back,      \* back[r]: articles it will hand back to the queue
  charged,   \* history: failed tries of a, one per claim that ended in a crash
             \* of enrich_one or was abandoned with its run
  faults     \* faults so far

dbVars  == <<age, enriched, claimAge, attempts>>
runVars == <<pc, runAge, todo, batch, back>>
vars    == <<age, enriched, claimAge, attempts, handoff, pc, runAge, todo,
             batch, back, charged, faults>>

NotIngested == -1
NoClaim     == -1
MaxTries    == MaxAttempts + MaxRetries

Location == {"idle", "claim", "claimRetry", "start", "work", "final",
             "release", "releaseRetry"}

Held(r) == todo[r] \cup batch[r] \cup back[r]

InRun(a) == \E r \in Runner : a \in Held(r)

-----------------------------------------------------------------------------
(* SQL: the rows a claim may take, and the effect of claim and release.    *)

\* Mutated forms of Eligible: without the bound on attempts, without the lease,
\* and without lease expiry.
EligibleUncapped ==
  {a \in Article \ enriched :
     /\ age[a] # NotIngested /\ age[a] >= MinAge
     /\ claimAge[a] = NoClaim \/ claimAge[a] > Lease}

EligibleUnleased ==
  {a \in Article \ enriched :
     age[a] # NotIngested /\ age[a] >= MinAge /\ attempts[a] < MaxAttempts}

EligibleUnclaimed ==
  {a \in Article \ enriched :
     /\ age[a] # NotIngested /\ age[a] >= MinAge
     /\ claimAge[a] = NoClaim /\ attempts[a] < MaxAttempts}

\* The WHERE clause of wizer_claim_enrichment_batch, with p_max_age_hours = 0.
\* A comparison with a NULL enrich_claimed_at is not true.
Eligible ==
  {a \in Article \ enriched :
     /\ age[a] # NotIngested /\ age[a] >= MinAge
     /\ claimAge[a] = NoClaim \/ claimAge[a] > Lease
     /\ \/ attempts[a] < MaxAttempts
        \/ /\ attempts[a] < MaxTries
           /\ claimAge[a] # NoClaim /\ claimAge[a] > RetryAfter}

\* ORDER BY ingestion time LIMIT n.
Oldest(S, n) == {a \in S : Cardinality({b \in S : b < a}) < n}

\* Rows another transaction may have locked when run r claims (SKIP LOCKED).
Lockable(r) == handoff \cup UNION {Held(q) : q \in Runner \ {r}}

LeaseRows(S) ==
  /\ claimAge' = [a \in Article |-> IF a \in S THEN 0 ELSE claimAge[a]]
  /\ attempts' = [a \in Article |-> IF a \in S THEN attempts[a] + 1 ELSE attempts[a]]

\* Mutated form of Releasable: enriched rows are not left alone.
ReleasableAny(S) == {a \in S : claimAge[a] # NoClaim}

\* Mutated form of ReleaseRows: the attempt is not refunded.
ReleaseRowsUnrefunded(S) ==
  /\ claimAge' = [a \in Article |-> IF a \in S \ enriched THEN NoClaim ELSE claimAge[a]]
  /\ UNCHANGED attempts

\* wizer_release_enrichment_claims: only unenriched rows that hold a claim.
Releasable(S) == {a \in S \ enriched : claimAge[a] # NoClaim}

ReleaseRows(S) ==
  /\ claimAge' = [a \in Article |->
                    IF a \in Releasable(S) THEN NoClaim ELSE claimAge[a]]
  /\ attempts' = [a \in Article |->
                    IF a \in Releasable(S) /\ attempts[a] > 0
                    THEN attempts[a] - 1 ELSE attempts[a]]

Charge(S) ==
  charged' = [a \in Article |-> IF a \in S THEN charged[a] + 1 ELSE charged[a]]

Fault == faults < MaxFaults /\ faults' = faults + 1

-----------------------------------------------------------------------------
(* The environment: ingestion, time, the hand-off shards.                  *)

\* An ingest run inserts the next article; its hand-off file may be lost.
Ingest ==
  \E a \in Article :
    /\ age[a] = NotIngested
    /\ \A b \in Article : b < a => age[b] # NotIngested
    /\ age' = [age EXCEPT ![a] = 0]
    /\ \/ handoff' = handoff \cup {a}
       \/ handoff' = handoff
    /\ UNCHANGED <<enriched, claimAge, attempts, runVars, charged, faults>>

\* Time passes. A run that has reached the job timeout ends (Die) before more
\* time passes.
Tick ==
  /\ \A r \in Runner : pc[r] # "idle" => runAge[r] < RunTimeout
  /\ age' = [a \in Article |->
               IF age[a] # NotIngested /\ age[a] < MinAge THEN age[a] + 1 ELSE age[a]]
  /\ claimAge' = [a \in Article |->
                    IF claimAge[a] # NoClaim /\ claimAge[a] <= RetryAfter
                    THEN claimAge[a] + 1 ELSE claimAge[a]]
  /\ runAge' = [r \in Runner |-> IF pc[r] # "idle" THEN runAge[r] + 1 ELSE runAge[r]]
  /\ UNCHANGED <<enriched, attempts, handoff, pc, todo, batch, back, charged, faults>>

\* A shard saves one chunk of its articles: they need no claim.
ShardSave(S) ==
  /\ S # {} /\ Cardinality(S) <= SaveEvery
  /\ S \cap BadRow = {}
  /\ handoff' = handoff \ S
  /\ enriched' = enriched \cup S
  /\ UNCHANGED <<age, claimAge, attempts, runVars, charged, faults>>

\* A shard leaves articles unenriched: enrich_one raised, the time budget ran
\* out, the chunk could not be saved, or the job died.
ShardDrop(S) ==
  /\ S # {}
  /\ handoff' = handoff \ S
  /\ UNCHANGED <<dbVars, runVars, charged, faults>>

-----------------------------------------------------------------------------
(* A sweeper run: claim_batch, the enrich loop of run_handoff_enrichment,  *)
(* the release at the end of run_sweeper.                                  *)

\* A sweeper of slot r starts, every two hours; nothing is held.
Start(r) ==
  /\ pc[r] = "idle"
  /\ pc' = [pc EXCEPT ![r] = "claim"]
  /\ runAge' = [runAge EXCEPT ![r] = 0]
  /\ UNCHANGED <<dbVars, handoff, todo, batch, back, charged, faults>>

PageOf(r) == IF PageSize < BatchSize - Cardinality(todo[r])
             THEN PageSize ELSE BatchSize - Cardinality(todo[r])

\* Rows one call of the claim function can take.
Claimable(r) ==
  {Oldest(Eligible \ skipped, PageOf(r)) : skipped \in SUBSET Lockable(r)}

\* One page of claim_batch: it goes on until the batch is full or a page is
\* short; an empty batch ends the run.
ClaimPage(r) ==
  /\ pc[r] \in {"claim", "claimRetry"}
  /\ \E page \in Claimable(r) :
       /\ LeaseRows(page)
       /\ todo' = [todo EXCEPT ![r] = @ \cup page]
       /\ pc' = [pc EXCEPT ![r] =
            IF /\ Cardinality(page) = PageOf(r)
               /\ Cardinality(todo[r] \cup page) < BatchSize
            THEN "claim"
            ELSE IF todo[r] \cup page = {} THEN "idle" ELSE "start"]
  /\ UNCHANGED <<age, enriched, handoff, runAge, batch, back, charged, faults>>

\* The run is over without handing anything back: its claims stay leased.
Abandon(r, lost) ==
  /\ pc' = [pc EXCEPT ![r] = "idle"]
  /\ todo' = [todo EXCEPT ![r] = {}]
  /\ batch' = [batch EXCEPT ![r] = {}]
  /\ back' = [back EXCEPT ![r] = {}]
  /\ Charge(Held(r) \cup lost)

\* The claim commits but its reply times out: the page is leased to nobody.
\* _run_with_retry asks once more; a second timeout ends the run.
ClaimReplyLost(r) ==
  /\ "claim" \in LostReplies
  /\ Fault
  /\ \E page \in Claimable(r) :
       /\ LeaseRows(page)
       /\ \/ /\ pc[r] = "claim"
             /\ pc' = [pc EXCEPT ![r] = "claimRetry"]
             /\ Charge(page)
             /\ UNCHANGED <<todo, batch, back>>
          \/ pc[r] = "claimRetry" /\ Abandon(r, page)
  /\ UNCHANGED <<age, enriched, handoff, runAge>>

\* enrich_one on the oldest article not started. When it raises, the article
\* keeps its claim and the run goes on (an enrich_error is recorded for people).
EnrichOne(r) ==
  /\ pc[r] \in {"start", "work"}
  /\ Cardinality(batch[r]) < SaveEvery
  /\ pc' = [pc EXCEPT ![r] = "work"]
  /\ \E a \in todo[r] :
       /\ \A b \in todo[r] : a <= b
       /\ todo' = [todo EXCEPT ![r] = @ \ {a}]
       /\ \/ /\ batch' = [batch EXCEPT ![r] = @ \cup {a}]
             /\ UNCHANGED charged
          \/ /\ a \in Flaky
             /\ Charge({a})
             /\ UNCHANGED batch
  /\ UNCHANGED <<dbVars, handoff, runAge, back, faults>>

\* The time budget runs out before the next article, after at least one.
Deadline(r) ==
  /\ pc[r] = "work"
  /\ todo[r] # {}
  /\ Cardinality(batch[r]) < SaveEvery
  /\ pc' = [pc EXCEPT ![r] = "final"]
  /\ UNCHANGED <<dbVars, handoff, runAge, todo, batch, back, charged, faults>>

\* save(): the batch is full, or the loop is over.
SaveDue(r) ==
  /\ pc[r] \in {"work", "final"}
  /\ batch[r] # {}
  /\ Cardinality(batch[r]) >= SaveEvery \/ todo[r] = {} \/ pc[r] = "final"

SaveBatch(r) ==
  /\ SaveDue(r)
  /\ batch[r] \cap BadRow = {}
  /\ enriched' = enriched \cup batch[r]
  /\ batch' = [batch EXCEPT ![r] = {}]
  /\ UNCHANGED <<age, claimAge, attempts, handoff, pc, runAge, todo, back, charged, faults>>

\* The call raises: every article of the batch stays unenriched.
SaveFails(r) ==
  /\ SaveDue(r)
  /\ \/ batch[r] \cap BadRow # {} /\ UNCHANGED faults
     \/ Fault
  /\ batch' = [batch EXCEPT ![r] = {}]
  /\ back' = [back EXCEPT ![r] = @ \cup batch[r]]
  /\ UNCHANGED <<dbVars, handoff, pc, runAge, todo, charged>>

\* The save commits but the client sees timeouts and takes it for a failure.
SaveReplyLost(r) ==
  /\ "save" \in LostReplies
  /\ Fault
  /\ SaveDue(r)
  /\ batch[r] \cap BadRow = {}
  /\ enriched' = enriched \cup batch[r]
  /\ batch' = [batch EXCEPT ![r] = {}]
  /\ back' = [back EXCEPT ![r] = @ \cup batch[r]]
  /\ UNCHANGED <<age, claimAge, attempts, handoff, pc, runAge, todo, charged>>

\* After the loop: what was claimed and neither saved nor crashed is released.
EndLoop(r) ==
  /\ pc[r] \in {"work", "final"}
  /\ batch[r] = {}
  /\ todo[r] = {} \/ pc[r] = "final"
  /\ back' = [back EXCEPT ![r] = @ \cup todo[r]]
  /\ todo' = [todo EXCEPT ![r] = {}]
  /\ pc' = [pc EXCEPT ![r] = IF back[r] \cup todo[r] = {} THEN "idle" ELSE "release"]
  /\ UNCHANGED <<dbVars, handoff, runAge, batch, charged, faults>>

Release(r) ==
  /\ pc[r] \in {"release", "releaseRetry"}
  /\ ReleaseRows(back[r])
  /\ back' = [back EXCEPT ![r] = {}]
  /\ pc' = [pc EXCEPT ![r] = "idle"]
  /\ UNCHANGED <<age, enriched, handoff, runAge, todo, batch, charged, faults>>

\* The release commits but its reply times out: it is sent once more.
ReleaseReplyLost(r) ==
  /\ "release" \in LostReplies
  /\ Fault
  /\ pc[r] = "release"
  /\ ReleaseRows(back[r])
  /\ pc' = [pc EXCEPT ![r] = "releaseRetry"]
  /\ UNCHANGED <<age, enriched, handoff, runAge, todo, batch, back, charged>>

\* The job dies at any point (OOM, timeout, an exception outside the handlers,
\* or the release itself fails).
Die(r) ==
  /\ pc[r] # "idle"
  /\ Fault
  /\ Abandon(r, {})
  /\ UNCHANGED <<dbVars, handoff, runAge>>

-----------------------------------------------------------------------------
Init ==
  /\ age = [a \in Article |-> NotIngested]
  /\ enriched = {}
  /\ claimAge = [a \in Article |-> NoClaim]
  /\ attempts = [a \in Article |-> 0]
  /\ handoff = {}
  /\ pc = [r \in Runner |-> "idle"]
  /\ runAge = [r \in Runner |-> 0]
  /\ todo = [r \in Runner |-> {}]
  /\ batch = [r \in Runner |-> {}]
  /\ back = [r \in Runner |-> {}]
  /\ charged = [a \in Article |-> 0]
  /\ faults = 0

\* What a job does of itself, without any fault.
Advance(r) ==
  \/ Start(r) \/ ClaimPage(r) \/ EnrichOne(r) \/ Deadline(r) \/ SaveBatch(r)
  \/ SaveFails(r) \/ EndLoop(r) \/ Release(r)

RunnerFault(r) == ClaimReplyLost(r) \/ SaveReplyLost(r) \/ ReleaseReplyLost(r) \/ Die(r)

Shard == \E S \in SUBSET handoff : ShardSave(S) \/ ShardDrop(S)

Next ==
  \/ Ingest \/ Tick \/ Shard
  \/ \E r \in Runner : Advance(r) \/ RunnerFault(r)

Spec == Init /\ [][Next]_vars

\* The cron keeps starting jobs, a started job goes on, a hand-off job ends.
FairSpec == Spec /\ WF_vars(Tick) /\ WF_vars(Shard) /\ \A r \in Runner : WF_vars(Advance(r))

-----------------------------------------------------------------------------
(* Properties                                                              *)

TypeOK ==
  /\ age \in [Article -> NotIngested .. MinAge]
  /\ enriched \subseteq Article
  /\ claimAge \in [Article -> NoClaim .. RetryAfter + 1]
  /\ attempts \in [Article -> 0 .. MaxTries]
  /\ handoff \subseteq Article
  /\ pc \in [Runner -> Location]
  /\ runAge \in [Runner -> 0 .. RunTimeout]
  /\ todo \in [Runner -> SUBSET Article]
  /\ batch \in [Runner -> SUBSET Article]
  /\ back \in [Runner -> SUBSET Article]
  /\ charged \in [Article -> Nat]
  /\ faults \in 0 .. MaxFaults

\* README.md:117: concurrent sweeper runs never work on the same article, even
\* when runs die and their leases expire.
DisjointRuns ==
  \A q, r \in Runner : q # r => (todo[q] \cup batch[q]) \cap (todo[r] \cup batch[r]) = {}

\* enrich_attempts counts exactly the tries that were used up, plus one while a
\* run holds the article: a refund is given once, for an untried article, and a
\* crash is never refunded.
AttemptLedger ==
  \A a \in Article \ enriched :
    attempts[a] = charged[a] + (IF InRun(a) THEN 1 ELSE 0)

\* Why the runs are disjoint: a run holds claims only while it is alive, and the
\* lease of everything it holds began no earlier than the run, so it cannot
\* expire before the job's own timeout.
PhaseHolds ==
  \A r \in Runner :
    /\ pc[r] = "idle" => Held(r) = {}
    /\ pc[r] \in {"claim", "claimRetry", "start"} => batch[r] = {} /\ back[r] = {}
    /\ pc[r] \in {"release", "releaseRetry"} => todo[r] = {} /\ batch[r] = {}
    /\ pc[r] # "releaseRetry"

HeldOnce ==
  \A r \in Runner :
    todo[r] \cap batch[r] = {} /\ todo[r] \cap back[r] = {} /\ batch[r] \cap back[r] = {}

Exclusive == \A q, r \in Runner : q # r => Held(q) \cap Held(r) = {}

LeaseCoversRun ==
  \A r \in Runner : \A a \in Held(r) \ enriched :
    claimAge[a] # NoClaim /\ claimAge[a] <= runAge[r]

ClaimInv ==
  /\ PhaseHolds
  /\ HeldOnce
  /\ Exclusive
  /\ LeaseCoversRun
  /\ AttemptLedger

\* Whatever replies are lost, no article is given up (or becomes a dead letter)
\* before that many of its claims really failed or are still being worked on.
NeverOvercharged ==
  \A a \in Article \ enriched : attempts[a] <= charged[a] + (IF InRun(a) THEN 1 ELSE 0)

\* Why, even when a late release drops the lease of a row another run works on: what
\* the row is charged beyond its failed tries goes with its claim, and a claim that is
\* left is no older than any run that has the article.
RunsHold ==
  \A r \in Runner :
    /\ pc[r] = "idle" => Held(r) = {}
    /\ pc[r] \in {"claim", "claimRetry", "start"} => batch[r] = {} /\ back[r] = {}
    /\ pc[r] \in {"release", "releaseRetry"} => todo[r] = {} /\ batch[r] = {}

ClaimsYoung == \A r \in Runner : \A a \in Held(r) \ enriched : claimAge[a] <= runAge[r]

ChargeWithClaim ==
  \A a \in Article \ enriched :
    attempts[a] <= charged[a] + (IF InRun(a) /\ claimAge[a] # NoClaim THEN 1 ELSE 0)

LossyInv == RunsHold /\ ClaimsYoung /\ ChargeWithClaim

\* The run that holds an unenriched article, for the refinement of WorkClaims.
Owner ==
  [a \in Article |->
     IF a \notin enriched /\ InRun(a) THEN CHOOSE r \in Runner : a \in Held(r) ELSE Nobody]

Claims == INSTANCE WorkClaims WITH done <- enriched, owner <- Owner

\* The queue implements exclusive claims: an article a run holds is taken from
\* it by nobody, neither by another run's claim nor by a late release.
ImplementsClaims == Claims!Spec

\* An enriched article stays enriched and no later claim, release or refund
\* touches its queue columns, although shards and sweepers save and release
\* the same article without knowing of each other.
EnrichedIsFinal ==
  [][\A a \in enriched :
       /\ a \in enriched'
       /\ attempts'[a] = attempts[a]
       /\ claimAge'[a] = NoClaim <=> claimAge[a] = NoClaim]_vars

\* enrichment/runner.py:18, "nothing is lost or stuck": an unenriched article
\* that is not given up can be claimed again, now or once enough time passed.
NothingStuck ==
  \A a \in Article \ enriched :
    (attempts[a] < MaxTries /\ ~InRun(a)) => (attempts[a] < MaxAttempts \/ claimAge[a] # NoClaim)

\* README.md:114, "every article": as long as fewer runs fail than an article has
\* attempts, every ingested article is enriched in the end, those apart on which
\* enrich_one itself may fail.
EveryArticleEnriched ==
  \A a \in Article \ Flaky : age[a] # NotIngested ~> a \in enriched
=============================================================================
