------------------------------ MODULE DirectRun ------------------------------
(***************************************************************************)
(* Direct enrichment runs (enrichment/runner.py, run_enrichment): a run    *)
(* takes a batch of articles, by claiming them from the queue or, with     *)
(* --force, whatever there is, and writes one article after the other:     *)
(* entities deleted, entities inserted, story assigned, enriched_at last.  *)
(* Several runs go on at a time, while others assign and merge stories and *)
(* delete articles.                                                        *)
(*                                                                         *)
(* Every write is a call that may fail, or commit with its reply lost and  *)
(* be made once more.  A lease may expire at any time: a run without a     *)
(* time budget outlives it.                                                *)
(***************************************************************************)
EXTENDS Stories

CONSTANTS
  Run,          \* slots of runs that go on at a time
  RunBatch,     \* ENRICH_BATCH_SIZE
  Offsets,      \* largest --offset of a forced run
  MaxAttempts,  \* ENRICH_MAX_ATTEMPTS
  MaxTries,     \* with the daily retries of a dead letter
  Flaky,        \* articles on which enrich_one() may raise
  WithEntities, \* articles in which NER finds entities
  Embeddable,   \* articles the model returns a vector for
  Failing,      \* calls that may fail for good
  LostReply,    \* calls whose reply may be lost
  MaxFaults     \* bound on failed calls, lost replies and killed runs

ASSUME RunAssumption ==
  /\ RunBatch \in Nat \ {0} /\ Offsets \in Nat /\ MaxAttempts \in Nat \ {0} /\ MaxTries \in Nat
  /\ MaxAttempts <= MaxTries
  /\ Flaky \subseteq Article /\ WithEntities \subseteq Article /\ Embeddable \subseteq Article
ASSUME CallAssumption ==
  /\ Failing \subseteq {"delete", "insert", "assign", "save", "release"}
  /\ LostReply \subseteq {"insert", "assign"}
  /\ MaxFaults \in Nat

VARIABLES
  enriched,  \* articles with enriched_at
  leased,    \* articles with a claim that has not expired
  attempts,  \* attempts[a]: enrich_attempts
  error,     \* articles with enrich_error
  copies,    \* copies[a]: how often the entities of a are in article_entities
  run,       \* run[r]: local variables of run r
  kept,      \* history: articles whose claim was kept on purpose or by accident:
             \* the try failed, the run was killed, the release failed
  shared,    \* history: articles that were in two runs at a time, or done again
  faults     \* faults so far

marks == <<enriched, leased, attempts, error>>
vars  == <<rows, marks, copies, run, kept, shared, faults>>

NoRun == [at |-> "idle", forced |-> FALSE, todo |-> {}, known |-> {}, final |-> {}]
Step  == {"idle", "next", "delete", "insert", "insertAgain", "assign", "assignAgain", "save"}

\* The article a run is at: they are done in publication order.
Current(r) == {a \in run[r].todo : \A b \in run[r].todo : a <= b}

At(r, step) == [run EXCEPT ![r].at = step]
\* The article leaves the list of pending ones; after the last the run is over.
Popped(r, a) ==
  [run EXCEPT ![r] =
     IF run[r].todo = {a} THEN NoRun
     ELSE [run[r] EXCEPT !.at = "next", !.todo = @ \ {a}, !.known = @ \ {a}, !.final = @ \ {a}]]
\* The story is left out when the fetched row had one or there is no vector.
AfterEntities(r, a) ==
  At(r, IF a \in Embeddable \ run[r].known THEN "assign" ELSE "save")
Fault       == faults < MaxFaults /\ faults' = faults + 1
Fails(call) == call \in Failing /\ Fault
Loses(call) == call \in LostReply /\ Fault

-----------------------------------------------------------------------------
(* Taking articles *)

\* Mutated form of Eligible: the tries of an article are not counted.
EligibleEver == (stored \ enriched) \ leased

\* wizer_claim_enrichment_batch, oldest first; its times are those of EnrichQueue.
Eligible == {a \in (stored \ enriched) \ leased : attempts[a] < MaxTries}

Claimed == {a \in Eligible : Cardinality({b \in Eligible : b < a}) < RunBatch}

\* fetch_unenriched_batch_forced: newest first, after an offset.
Fetched(offset) ==
  {a \in stored : Cardinality({b \in stored : b > a}) \in offset .. offset + RunBatch - 1}

InOtherRun(r) == UNION {run[q].todo : q \in Run \ {r}}

\* A claimed row carries its story and its attempts; those of a forced run do not.
Claim(r) ==
  /\ run[r].at = "idle" /\ Claimed # {}
  /\ leased' = leased \cup Claimed
  /\ attempts' = [a \in Article |-> IF a \in Claimed THEN attempts[a] + 1 ELSE attempts[a]]
  /\ kept' = kept \ Claimed
  /\ shared' = shared \cup (Claimed \cap InOtherRun(r))
  /\ run' = [run EXCEPT ![r] =
       [at |-> "next", forced |-> FALSE, todo |-> Claimed,
        known |-> {a \in Claimed : story[a] # NoCluster},
        final |-> {a \in Claimed : attempts[a] + 1 >= MaxAttempts}]]
  /\ UNCHANGED <<rows, enriched, error, copies, faults>>

ForceRun(r) ==
  /\ run[r].at = "idle"
  /\ \E offset \in 0 .. Offsets :
       /\ Fetched(offset) # {}
       /\ shared' = shared \cup Fetched(offset)
       /\ run' = [run EXCEPT ![r] =
            [at |-> "next", forced |-> TRUE, todo |-> Fetched(offset),
             known |-> {}, final |-> {}]]
  /\ UNCHANGED <<rows, marks, copies, kept, faults>>

Expire(a) ==
  /\ a \in leased
  /\ leased' = leased \ {a}
  /\ UNCHANGED <<rows, enriched, attempts, error, copies, run, kept, shared, faults>>

-----------------------------------------------------------------------------
(* _process_article *)

\* enrich_one: a step that raises leaves its columns out; when it raises itself
\* the article is given up for now, on the last attempt with an enrich_error.
Enrich(r, a) ==
  /\ run[r].at = "next"
  /\ \/ /\ run' = IF a \in WithEntities THEN At(r, "delete") ELSE AfterEntities(r, a)
        /\ UNCHANGED <<error, kept>>
     \/ /\ a \in Flaky
        /\ error' = IF a \in run[r].final \cap stored THEN error \cup {a} ELSE error
        /\ kept' = kept \cup {a}
        /\ run' = Popped(r, a)
  /\ UNCHANGED <<rows, enriched, leased, attempts, copies, shared, faults>>

\* Mutated form of Cleared: the rows of an earlier try stay.
ClearedNone(a) == copies

Cleared(a) == [copies EXCEPT ![a] = 0]

\* save_entities: what an earlier run has left is deleted first; a failure is ignored.
DeleteEntities(r, a) ==
  /\ run[r].at = "delete"
  /\ \/ copies' = Cleared(a) /\ UNCHANGED faults
     \/ Fails("delete") /\ UNCHANGED copies
  /\ run' = At(r, "insert")
  /\ UNCHANGED <<rows, marks, kept, shared>>

\* The rows of an article that is gone are refused by the foreign key.
Inserted(a) == IF a \in stored THEN [copies EXCEPT ![a] = @ + 1] ELSE copies

InsertEntities(r, a) ==
  /\ run[r].at \in {"insert", "insertAgain"}
  /\ \/ /\ copies' = Inserted(a)
        /\ \/ run' = AfterEntities(r, a) /\ UNCHANGED faults
           \/ run[r].at = "insert" /\ Loses("insert") /\ run' = At(r, "insertAgain")
     \/ Fails("insert") /\ run' = AfterEntities(r, a) /\ UNCHANGED copies
  /\ UNCHANGED <<rows, marks, kept, shared>>

AssignStory(r, a) ==
  /\ run[r].at \in {"assign", "assignAgain"}
  /\ \/ /\ \E f \in Choices({a}) : AssignRows(f)
        /\ \/ run' = At(r, "save") /\ UNCHANGED faults
           \/ run[r].at = "assign" /\ Loses("assign") /\ run' = At(r, "assignAgain")
     \/ Fails("assign") /\ run' = At(r, "save") /\ UNCHANGED rows
  /\ UNCHANGED <<marks, copies, kept, shared>>

ClearsError(a) == error \ {a}

\* save_article_enrichment; when it fails, the article keeps its claim.
SaveArticle(r, a) ==
  /\ run[r].at = "save"
  /\ \/ /\ enriched' = enriched \cup ({a} \cap stored)
        /\ error' = ClearsError(a)
        /\ UNCHANGED <<kept, faults>>
     \/ /\ Fails("save")
        /\ kept' = kept \cup {a}
        /\ UNCHANGED <<enriched, error>>
  /\ run' = Popped(r, a)
  /\ UNCHANGED <<rows, leased, attempts, copies, shared>>

-----------------------------------------------------------------------------
(* The end of a run *)

\* Mutated form of ReleaseRows: what was tried is not told from what is pending.
ReleaseNone(B) == UNCHANGED <<leased, attempts>>

\* wizer_release_enrichment_claims.
ReleaseRows(B) ==
  LET back == {a \in B \cap leased : a \in stored \ enriched}
  IN /\ leased' = leased \ back
     /\ attempts' = [a \in Article |->
          IF a \in back /\ attempts[a] > 0 THEN attempts[a] - 1 ELSE attempts[a]]

\* Stopped before the next article, by a signal or the time budget, or by an
\* exception at any point: the pending articles, the current one among them, are
\* released.
Stop(r) ==
  /\ run[r].at # "idle"
  /\ \/ /\ ~run[r].forced
        /\ ReleaseRows(run[r].todo)
        /\ UNCHANGED <<kept, faults>>
     \/ /\ ~run[r].forced
        /\ Fails("release")
        /\ kept' = kept \cup run[r].todo
        /\ UNCHANGED <<leased, attempts>>
     \/ run[r].forced /\ UNCHANGED <<leased, attempts, kept, faults>>
  /\ run' = [run EXCEPT ![r] = NoRun]
  /\ UNCHANGED <<rows, enriched, error, copies, shared>>

\* Killed outright: its claims expire.
Kill(r) ==
  /\ run[r].at # "idle"
  /\ Fault
  /\ kept' = kept \cup run[r].todo
  /\ run' = [run EXCEPT ![r] = NoRun]
  /\ UNCHANGED <<rows, marks, copies, shared>>

-----------------------------------------------------------------------------
\* A deleted article takes its columns and its entities with it.
Deleted(a) ==
  /\ Delete(a)
  /\ enriched' = enriched \ {a} /\ leased' = leased \ {a} /\ error' = error \ {a}
  /\ copies' = [copies EXCEPT ![a] = 0]
  /\ UNCHANGED <<attempts, run, kept, shared, faults>>

Init ==
  /\ StoryInit
  /\ enriched = {} /\ leased = {} /\ error = {}
  /\ attempts = [a \in Article |-> 0]
  /\ copies = [a \in Article |-> 0]
  /\ run = [r \in Run |-> NoRun]
  /\ kept = {} /\ shared = {} /\ faults = 0

RunStep(r) ==
  \/ Claim(r) \/ ForceRun(r) \/ Stop(r) \/ Kill(r)
  \/ \E a \in Current(r) :
       \/ Enrich(r, a) \/ DeleteEntities(r, a) \/ InsertEntities(r, a)
       \/ AssignStory(r, a) \/ SaveArticle(r, a)

\* The clustering job assigns an article. (What it merges is the matter of StoryJobs.)
Others ==
  /\ \E a \in Article : \E f \in Choices({a}) : AssignRows(f)
  /\ UNCHANGED <<marks, copies, run, kept, shared, faults>>

Next ==
  \/ \E r \in Run : RunStep(r)
  \/ \E a \in Article : Expire(a) \/ Deleted(a)
  \/ Others

Spec == Init /\ [][Next]_vars

-----------------------------------------------------------------------------
(* Properties *)

TypeOK ==
  /\ StoryTypeOK
  /\ enriched \subseteq stored /\ leased \subseteq stored /\ error \subseteq stored
  /\ attempts \in [Article -> 0 .. MaxTries]
  /\ copies \in [Article -> Nat]
  /\ run \in [Run -> [at : Step, forced : BOOLEAN, todo : SUBSET Article,
                      known : SUBSET Article, final : SUBSET Article]]
  /\ kept \subseteq Article /\ shared \subseteq Article
  /\ faults \in 0 .. MaxFaults

\* enrichment/runner.py:37, "enriched_at is written LAST": an article that is marked
\* has its entities, once, and its story, however often it was tried and whatever
\* run was killed where.
SavedBeforeMarked ==
  \A a \in enriched :
    /\ a \in WithEntities \ shared => copies[a] = 1
    /\ a \in Embeddable => story[a] # NoCluster

\* enrichment/runner.py:16-20, "nothing is lost or stuck": a claim nobody works on
\* belongs to an article that was tried, or to a run that died; a run that is
\* stopped leaves none behind.
StoppedRunsHandBack ==
  \A a \in leased \ enriched : a \in kept \/ \E r \in Run : ~run[r].forced /\ a \in run[r].todo
=============================================================================
