-------------------------- MODULE EnrichQueueProofs --------------------------
(***************************************************************************)
(* Proofs about the enrichment queue for every set of articles and slots   *)
(* and every limit.                                                        *)
(***************************************************************************)
EXTENDS EnrichQueue, TLAPS

-----------------------------------------------------------------------------
(* What a claim and a release do to the queue columns.                     *)

\* A page of claims holds only rows the WHERE clause accepts.
LEMMA PageIsEligible ==
  ASSUME NEW r \in Runner, NEW page \in Claimable(r)
  PROVE  page \subseteq Eligible
  BY DEF Claimable, Oldest

\* The limits, as the arithmetic leaves of the proofs need them.
LEMMA Limits ==
  /\ Lease \in Nat /\ RunTimeout \in Nat /\ RetryAfter \in Nat /\ MinAge \in Nat
  /\ RunTimeout <= Lease /\ Lease <= RetryAfter
  /\ MaxTries \in Nat /\ MaxAttempts \in Nat /\ MaxAttempts <= MaxTries
  /\ MaxFaults \in Nat
  BY TimeAssumption, LimitAssumption DEF MaxTries

\* Claiming eligible rows keeps their lease age and their attempts in range.
LEMMA LeaseRowsType ==
  ASSUME TypeOK, NEW page \in SUBSET Eligible, LeaseRows(page)
  PROVE  /\ claimAge' \in [Article -> NoClaim .. RetryAfter + 1]
         /\ attempts' \in [Article -> 0 .. MaxTries]
  <1>1. claimAge' \in [Article -> NoClaim .. RetryAfter + 1]
    BY Limits DEF LeaseRows, TypeOK, NoClaim
  <1>2. \A a \in page : attempts[a] \in 0 .. MaxTries /\ attempts[a] < MaxTries
    BY Limits DEF Eligible, TypeOK
  <1>3. attempts' \in [Article -> 0 .. MaxTries]
    BY <1>2, Limits DEF LeaseRows, TypeOK
  <1>4. QED BY <1>1, <1>3

\* Releasing rows keeps both columns in range: the refund never goes below zero.
LEMMA ReleaseRowsType ==
  ASSUME TypeOK, NEW S \in SUBSET Article, ReleaseRows(S)
  PROVE  /\ claimAge' \in [Article -> NoClaim .. RetryAfter + 1]
         /\ attempts' \in [Article -> 0 .. MaxTries]
  <1>1. claimAge' \in [Article -> NoClaim .. RetryAfter + 1]
    BY Limits DEF ReleaseRows, TypeOK, NoClaim
  <1>2. attempts' \in [Article -> 0 .. MaxTries]
    BY Limits DEF ReleaseRows, TypeOK
  <1>3. QED BY <1>1, <1>2

\* Recording failed tries keeps the history well typed.
LEMMA ChargeType ==
  ASSUME TypeOK, NEW S, Charge(S)
  PROVE  charged' \in [Article -> Nat]
  BY DEF Charge, TypeOK

\* A fault that is taken stays within the bound.
LEMMA FaultType ==
  ASSUME TypeOK, Fault
  PROVE  faults' \in 0 .. MaxFaults
  BY Limits DEF Fault, TypeOK

\* A run that ends without a release leaves well-typed run variables.
LEMMA AbandonType ==
  ASSUME TypeOK, NEW r \in Runner, NEW lost, Abandon(r, lost)
  PROVE  /\ pc' \in [Runner -> Location]
         /\ todo' \in [Runner -> SUBSET Article]
         /\ batch' \in [Runner -> SUBSET Article]
         /\ back' \in [Runner -> SUBSET Article]
         /\ charged' \in [Article -> Nat]
  <1>1. charged' \in [Article -> Nat]
    BY ChargeType DEF Abandon
  <1>2. QED BY <1>1 DEF Abandon, TypeOK, Location

-----------------------------------------------------------------------------
(* Type correctness.                                                       *)

\* The initial state is well typed.
LEMMA InitType == Init => TypeOK
  BY Limits DEF Init, TypeOK, NotIngested, NoClaim, Location

\* Ingestion, time and the shards keep every variable in its range.
LEMMA EnvironmentType ==
  ASSUME TypeOK, Ingest \/ Tick \/ Shard
  PROVE  TypeOK'
  <1>1. CASE Ingest
    BY <1>1, Limits DEF Ingest, TypeOK, runVars, NotIngested
  <1>2. CASE Tick
    <2>1. age' \in [Article -> NotIngested .. MinAge]
      BY <1>2, Limits DEF Tick, TypeOK, NotIngested
    <2>2. claimAge' \in [Article -> NoClaim .. RetryAfter + 1]
      BY <1>2, Limits DEF Tick, TypeOK, NoClaim
    <2>3. runAge' \in [Runner -> 0 .. RunTimeout]
      BY <1>2, Limits DEF Tick, TypeOK
    <2>4. QED BY <1>2, <2>1, <2>2, <2>3 DEF Tick, TypeOK
  <1>3. CASE Shard
    <2>1. PICK S \in SUBSET handoff : ShardSave(S) \/ ShardDrop(S)
      BY <1>3 DEF Shard
    <2>2. CASE ShardSave(S)
      BY <2>2 DEF ShardSave, TypeOK, runVars
    <2>3. CASE ShardDrop(S)
      BY <2>3 DEF ShardDrop, TypeOK, runVars, dbVars
    <2>4. QED BY <2>1, <2>2, <2>3
  <1>4. QED BY <1>1, <1>2, <1>3

\* So does a claim, answered or not: a claimed row has an attempt left.
LEMMA ClaimType ==
  ASSUME TypeOK, NEW r \in Runner, ClaimPage(r) \/ ClaimReplyLost(r)
  PROVE  TypeOK'
  <1>1. CASE ClaimPage(r)
    <2>1. PICK page \in Claimable(r) :
            /\ LeaseRows(page)
            /\ todo' = [todo EXCEPT ![r] = @ \cup page]
            /\ pc' = [pc EXCEPT ![r] =
                 IF /\ Cardinality(page) = PageOf(r)
                    /\ Cardinality(todo[r] \cup page) < BatchSize
                 THEN "claim"
                 ELSE IF todo[r] \cup page = {} THEN "idle" ELSE "start"]
      BY <1>1 DEF ClaimPage
    <2>2. page \subseteq Eligible /\ page \subseteq Article
      BY PageIsEligible DEF Eligible
    <2>3. /\ claimAge' \in [Article -> NoClaim .. RetryAfter + 1]
          /\ attempts' \in [Article -> 0 .. MaxTries]
      BY <2>1, <2>2, LeaseRowsType
    <2>4. todo' \in [Runner -> SUBSET Article] /\ pc' \in [Runner -> Location]
      BY <2>1, <2>2 DEF TypeOK, Location
    <2>5. QED BY <1>1, <2>3, <2>4 DEF ClaimPage, TypeOK
  <1>2. CASE ClaimReplyLost(r)
    <2>1. PICK page \in Claimable(r) :
            /\ LeaseRows(page)
            /\ \/ /\ pc[r] = "claim"
                  /\ pc' = [pc EXCEPT ![r] = "claimRetry"]
                  /\ Charge(page)
                  /\ UNCHANGED <<todo, batch, back>>
               \/ pc[r] = "claimRetry" /\ Abandon(r, page)
      BY <1>2 DEF ClaimReplyLost
    <2>2. /\ claimAge' \in [Article -> NoClaim .. RetryAfter + 1]
          /\ attempts' \in [Article -> 0 .. MaxTries]
      BY <2>1, PageIsEligible, LeaseRowsType
    <2>3. faults' \in 0 .. MaxFaults
      BY <1>2, FaultType DEF ClaimReplyLost
    <2>4. /\ pc' \in [Runner -> Location]
          /\ todo' \in [Runner -> SUBSET Article]
          /\ batch' \in [Runner -> SUBSET Article]
          /\ back' \in [Runner -> SUBSET Article]
          /\ charged' \in [Article -> Nat]
      <3>1. CASE Abandon(r, page)
        BY <3>1, AbandonType
      <3>2. CASE /\ pc' = [pc EXCEPT ![r] = "claimRetry"]
                 /\ Charge(page)
                 /\ UNCHANGED <<todo, batch, back>>
        BY <3>2, ChargeType DEF TypeOK, Location
      <3>3. QED BY <2>1, <3>1, <3>2
    <2>5. QED BY <1>2, <2>2, <2>3, <2>4 DEF ClaimReplyLost, TypeOK
  <1>3. QED BY <1>1, <1>2

\* So does the enrich loop.
LEMMA LoopType ==
  ASSUME TypeOK, NEW r \in Runner,
         Start(r) \/ EnrichOne(r) \/ Deadline(r) \/ EndLoop(r)
  PROVE  TypeOK'
  <1>1. CASE Start(r)
    BY <1>1, Limits DEF Start, TypeOK, dbVars, Location
  <1>2. CASE EnrichOne(r)
    <2>1. PICK a \in todo[r] :
            /\ todo' = [todo EXCEPT ![r] = @ \ {a}]
            /\ \/ /\ batch' = [batch EXCEPT ![r] = @ \cup {a}]
                  /\ UNCHANGED charged
               \/ Charge({a}) /\ UNCHANGED batch
      BY <1>2 DEF EnrichOne
    <2>2. a \in Article
      BY <2>1 DEF TypeOK
    <2>3. charged' \in [Article -> Nat]
      BY <2>1, ChargeType DEF TypeOK
    <2>4. /\ todo' \in [Runner -> SUBSET Article]
          /\ batch' \in [Runner -> SUBSET Article]
      BY <2>1, <2>2 DEF TypeOK
    <2>5. QED BY <1>2, <2>3, <2>4 DEF EnrichOne, TypeOK, dbVars, Location
  <1>3. CASE Deadline(r)
    BY <1>3 DEF Deadline, TypeOK, dbVars, Location
  <1>4. CASE EndLoop(r)
    BY <1>4 DEF EndLoop, TypeOK, dbVars, Location
  <1>5. QED BY <1>1, <1>2, <1>3, <1>4

\* So does a save, done, failed or unanswered.
LEMMA SaveType ==
  ASSUME TypeOK, NEW r \in Runner,
         SaveBatch(r) \/ SaveFails(r) \/ SaveReplyLost(r)
  PROVE  TypeOK'
  <1>1. CASE SaveBatch(r)
    BY <1>1 DEF SaveBatch, TypeOK
  <1>2. CASE SaveFails(r)
    <2>1. faults' \in 0 .. MaxFaults
      BY <1>2, FaultType DEF SaveFails, TypeOK
    <2>2. QED BY <1>2, <2>1 DEF SaveFails, TypeOK, dbVars
  <1>3. CASE SaveReplyLost(r)
    <2>1. faults' \in 0 .. MaxFaults
      BY <1>3, FaultType DEF SaveReplyLost
    <2>2. QED BY <1>3, <2>1 DEF SaveReplyLost, TypeOK
  <1>4. QED BY <1>1, <1>2, <1>3

\* So does the end of a run: the loop, the release, a death.
LEMMA EndType ==
  ASSUME TypeOK, NEW r \in Runner,
         Release(r) \/ ReleaseReplyLost(r) \/ Die(r)
  PROVE  TypeOK'
  <1>1. back[r] \in SUBSET Article
    BY DEF TypeOK
  <1>2. CASE Release(r)
    <2>1. /\ claimAge' \in [Article -> NoClaim .. RetryAfter + 1]
          /\ attempts' \in [Article -> 0 .. MaxTries]
      BY <1>1, <1>2, ReleaseRowsType DEF Release
    <2>2. QED BY <1>2, <2>1 DEF Release, TypeOK, Location
  <1>3. CASE ReleaseReplyLost(r)
    <2>1. /\ claimAge' \in [Article -> NoClaim .. RetryAfter + 1]
          /\ attempts' \in [Article -> 0 .. MaxTries]
      BY <1>1, <1>3, ReleaseRowsType DEF ReleaseReplyLost
    <2>2. faults' \in 0 .. MaxFaults
      BY <1>3, FaultType DEF ReleaseReplyLost
    <2>3. QED BY <1>3, <2>1, <2>2 DEF ReleaseReplyLost, TypeOK, Location
  <1>4. CASE Die(r)
    <2>1. /\ pc' \in [Runner -> Location]
          /\ todo' \in [Runner -> SUBSET Article]
          /\ batch' \in [Runner -> SUBSET Article]
          /\ back' \in [Runner -> SUBSET Article]
          /\ charged' \in [Article -> Nat]
      BY <1>4, AbandonType DEF Die
    <2>2. faults' \in 0 .. MaxFaults
      BY <1>4, FaultType DEF Die
    <2>3. QED BY <1>4, <2>1, <2>2 DEF Die, TypeOK, dbVars
  <1>5. QED BY <1>2, <1>3, <1>4

\* Every state of the queue is well typed; in particular no article is ever
\* claimed more than MaxAttempts + MaxRetries times, and no run outlives its
\* job timeout.
THEOREM TypeCorrect == Spec => []TypeOK
  <1>1. TypeOK /\ [Next]_vars => TypeOK'
    <2> SUFFICES ASSUME TypeOK, [Next]_vars PROVE TypeOK'
      OBVIOUS
    <2>1. CASE Ingest \/ Tick \/ Shard
      BY <2>1, EnvironmentType
    <2>2. ASSUME NEW r \in Runner, Advance(r) \/ RunnerFault(r)
          PROVE  TypeOK'
      BY <2>2, ClaimType, LoopType, SaveType, EndType DEF Advance, RunnerFault
    <2>3. CASE UNCHANGED vars
      BY <2>3 DEF vars, TypeOK
    <2>4. QED BY <2>1, <2>2, <2>3 DEF Next
  <1>2. QED BY InitType, <1>1, PTL DEF Spec
-----------------------------------------------------------------------------
(* Exclusive work.                                                         *)

\* A row the claim may take is held by no run: the lease of a held row is as
\* young as its run, and no run is older than its timeout.
LEMMA EligibleIsFree ==
  ASSUME TypeOK, ClaimInv, NEW a \in Eligible, NEW r \in Runner
  PROVE  a \notin Held(r)
  <1> SUFFICES ASSUME a \in Held(r) PROVE FALSE
    OBVIOUS
  <1>1. a \in Article /\ a \notin enriched
    BY DEF Eligible
  <1>2. claimAge[a] # NoClaim /\ claimAge[a] <= runAge[r]
    BY <1>1 DEF ClaimInv, LeaseCoversRun
  <1>3. claimAge[a] > Lease
    BY <1>2 DEF Eligible
  <1>4. /\ claimAge[a] \in Int /\ runAge[r] \in Nat
        /\ runAge[r] <= RunTimeout
    BY <1>1, Limits DEF TypeOK, NoClaim
  <1>5. QED BY <1>2, <1>3, <1>4, Limits

\* Nothing is held or charged at first.
LEMMA InitClaimInv == Init => ClaimInv
  BY DEF Init, ClaimInv, PhaseHolds, HeldOnce, Exclusive, LeaseCoversRun,
         AttemptLedger, Held, InRun

\* Ingestion, shards and the clock: what runs hold stays leased, and the lease
\* of what they hold ages with them.
LEMMA EnvironmentClaimInv ==
  ASSUME TypeOK, ClaimInv, Ingest \/ Tick \/ Shard
  PROVE  ClaimInv'
  <1>1. CASE Ingest
    BY <1>1 DEF Ingest, runVars, ClaimInv, PhaseHolds, HeldOnce, Exclusive,
                LeaseCoversRun, AttemptLedger, Held, InRun
  <1>2. CASE Tick
    <2>1. \A r \in Runner : Held(r)' = Held(r)
      BY <1>2 DEF Tick, Held
    <2>2. PhaseHolds' /\ HeldOnce' /\ Exclusive' /\ AttemptLedger'
      BY <1>2, <2>1 DEF Tick, ClaimInv, PhaseHolds, HeldOnce, Exclusive,
                        AttemptLedger, InRun
    <2>3. ASSUME NEW r \in Runner, NEW a \in Held(r) \ enriched
          PROVE  claimAge'[a] # NoClaim /\ claimAge'[a] <= runAge'[r]
      <3>1. pc[r] # "idle"
        BY <2>3 DEF ClaimInv, PhaseHolds
      <3>2. a \in Article /\ claimAge[a] # NoClaim /\ claimAge[a] <= runAge[r]
        BY <2>3 DEF ClaimInv, LeaseCoversRun, Held, TypeOK
      <3>3. claimAge[a] \in Nat /\ runAge[r] \in Nat
        BY <3>2, Limits DEF TypeOK, NoClaim
      <3>4. /\ runAge'[r] = runAge[r] + 1
            /\ claimAge'[a] \in {claimAge[a], claimAge[a] + 1}
        BY <1>2, <3>1, <3>2 DEF Tick, TypeOK
      <3>5. QED BY <3>2, <3>3, <3>4 DEF NoClaim
    <2>4. LeaseCoversRun'
      BY <1>2, <2>1, <2>3 DEF LeaseCoversRun, Tick
    <2>5. QED BY <1>2, <2>2, <2>4 DEF ClaimInv, Tick
  <1>3. CASE Shard
    <2>1. /\ UNCHANGED <<claimAge, attempts, pc, runAge, todo, batch, back, charged>>
          /\ enriched \subseteq enriched'
      BY <1>3 DEF Shard, ShardSave, ShardDrop, runVars, dbVars
    <2>2. QED BY <2>1 DEF ClaimInv, PhaseHolds, HeldOnce, Exclusive,
                          LeaseCoversRun, AttemptLedger, Held, InRun
  <1>4. QED BY <1>1, <1>2, <1>3

\* The rows of a page were held by nobody; from now on run r holds them, under
\* a lease younger than the run, with one attempt more.
LEMMA LeaseRowsClaimInv ==
  ASSUME TypeOK, ClaimInv, NEW page \in SUBSET Eligible, LeaseRows(page),
         NEW r \in Runner, NEW a \in Article \ enriched
  PROVE  /\ a \in page => ~InRun(a) /\ attempts'[a] = charged[a] + 1 /\ claimAge'[a] = 0
         /\ a \notin page => attempts'[a] = attempts[a] /\ claimAge'[a] = claimAge[a]
  <1>1. a \in page => ~InRun(a)
    BY EligibleIsFree DEF InRun
  <1>2. a \in page => attempts[a] = charged[a]
    BY <1>1 DEF ClaimInv, AttemptLedger, TypeOK
  <1>3. QED BY <1>1, <1>2 DEF LeaseRows, TypeOK

\* A claimed page was free, so it has one holder; its lease begins now.
LEMMA ClaimPageClaimInv ==
  ASSUME TypeOK, ClaimInv, NEW r \in Runner, ClaimPage(r)
  PROVE  ClaimInv'
  <1>1. PICK page \in Claimable(r) :
          /\ LeaseRows(page)
          /\ todo' = [todo EXCEPT ![r] = @ \cup page]
          /\ pc' = [pc EXCEPT ![r] =
               IF /\ Cardinality(page) = PageOf(r)
                  /\ Cardinality(todo[r] \cup page) < BatchSize
               THEN "claim"
               ELSE IF todo[r] \cup page = {} THEN "idle" ELSE "start"]
    BY DEF ClaimPage
  <1>2. page \subseteq Eligible /\ page \subseteq Article
    BY PageIsEligible DEF Eligible
  <1>3. UNCHANGED <<enriched, runAge, batch, back, charged>>
    BY DEF ClaimPage
  <1>4. /\ Held(r)' = Held(r) \cup page
        /\ \A q \in Runner \ {r} : Held(q)' = Held(q)
    BY <1>1, <1>3 DEF Held, TypeOK
  <1>5. \A q \in Runner : page \cap Held(q) = {}
    BY <1>2, EligibleIsFree
  <1>6. /\ \A a \in Article \ enriched :
             /\ a \in page => ~InRun(a) /\ attempts'[a] = charged[a] + 1 /\ claimAge'[a] = 0
             /\ a \notin page => attempts'[a] = attempts[a] /\ claimAge'[a] = claimAge[a]
    BY <1>1, <1>2, LeaseRowsClaimInv
  <1>7. batch[r] = {} /\ back[r] = {}
    BY DEF ClaimPage, ClaimInv, PhaseHolds
  <1>8. PhaseHolds'
    BY <1>1, <1>3, <1>7 DEF PhaseHolds, Held, ClaimInv, TypeOK
  <1>9. HeldOnce'
    BY <1>1, <1>3, <1>5 DEF HeldOnce, ClaimInv, Held, TypeOK
  <1>10. Exclusive'
    BY <1>4, <1>5 DEF Exclusive, ClaimInv
  <1>11. LeaseCoversRun'
    <2>1. ASSUME NEW q \in Runner, NEW a \in Held(q)' \ enriched
          PROVE  claimAge'[a] # NoClaim /\ claimAge'[a] <= runAge[q]
      <3>1. a \in Article \ enriched
        BY <2>1, <1>2, <1>4 DEF Held, TypeOK
      <3>2. CASE a \in page
        <4>1. runAge[q] \in Nat
          BY DEF TypeOK
        <4>2. QED BY <1>6, <3>1, <3>2, <4>1 DEF NoClaim
      <3>3. CASE a \notin page
        BY <1>4, <1>6, <2>1, <3>1, <3>3 DEF ClaimInv, LeaseCoversRun
      <3>4. QED BY <3>2, <3>3
    <2>2. QED BY <1>3, <2>1 DEF LeaseCoversRun
  <1>12. AttemptLedger'
    <2>1. ASSUME NEW a \in Article \ enriched
          PROVE  attempts'[a] = charged[a] + (IF InRun(a)' THEN 1 ELSE 0)
      <3>1. InRun(a)' <=> InRun(a) \/ a \in page
        BY <1>4 DEF InRun
      <3>2. QED BY <1>6, <3>1 DEF ClaimInv, AttemptLedger
    <2>2. QED BY <1>3, <2>1 DEF AttemptLedger
  <1>13. QED BY <1>8, <1>9, <1>10, <1>11, <1>12 DEF ClaimInv
\* A run that ends with claims in hand: what it held, and a page leased to
\* nobody, becomes a failed try of each article.
LEMMA AbandonClaimInv ==
  ASSUME TypeOK, ClaimInv, NEW r \in Runner, NEW page \in SUBSET Eligible,
         LeaseRows(page), Abandon(r, page), UNCHANGED <<enriched, runAge>>
  PROVE  ClaimInv'
  <1>1. page \subseteq Article
    BY DEF Eligible
  <1>2. /\ Held(r)' = {}
        /\ \A q \in Runner \ {r} : Held(q)' = Held(q)
    BY DEF Abandon, Held, TypeOK
  <1>3. \A q \in Runner : page \cap Held(q) = {}
    BY EligibleIsFree
  <1>4. \A a \in Article \ enriched :
          /\ a \in page => ~InRun(a) /\ attempts'[a] = charged[a] + 1 /\ claimAge'[a] = 0
          /\ a \notin page => attempts'[a] = attempts[a] /\ claimAge'[a] = claimAge[a]
    BY LeaseRowsClaimInv
  <1>5. PhaseHolds' /\ HeldOnce'
    BY <1>2 DEF Abandon, PhaseHolds, HeldOnce, ClaimInv, Held, TypeOK
  <1>6. Exclusive'
    BY <1>2 DEF Exclusive, ClaimInv
  <1>7. LeaseCoversRun'
    <2>1. ASSUME NEW q \in Runner, NEW a \in Held(q)' \ enriched
          PROVE  claimAge'[a] # NoClaim /\ claimAge'[a] <= runAge[q]
      <3>1. q # r /\ a \in Held(q) /\ a \notin page
        BY <1>2, <1>3, <2>1
      <3>2. a \in Article \ enriched
        BY <2>1, <3>1 DEF Held, TypeOK
      <3>3. QED BY <1>4, <3>1, <3>2 DEF ClaimInv, LeaseCoversRun
    <2>2. QED BY <2>1 DEF LeaseCoversRun
  <1>8. AttemptLedger'
    <2>1. ASSUME NEW a \in Article \ enriched
          PROVE  attempts'[a] = charged'[a] + (IF InRun(a)' THEN 1 ELSE 0)
      <3>1. attempts[a] = charged[a] + (IF InRun(a) THEN 1 ELSE 0) /\ charged[a] \in Nat
        BY DEF ClaimInv, AttemptLedger, TypeOK
      <3>2. CASE a \in Held(r)
        <4>1. ~InRun(a)' /\ InRun(a) /\ a \notin page
          BY <1>2, <1>3, <3>2 DEF InRun, ClaimInv, Exclusive
        <4>2. charged'[a] = charged[a] + 1
          BY <3>2 DEF Abandon, Charge
        <4>3. QED BY <1>4, <3>1, <4>1, <4>2
      <3>3. CASE a \in page
        <4>1. ~InRun(a)'
          BY <1>2, <1>3, <3>3 DEF InRun
        <4>2. charged'[a] = charged[a] + 1
          BY <3>3 DEF Abandon, Charge
        <4>3. QED BY <1>4, <3>1, <3>3, <4>1, <4>2
      <3>4. CASE a \notin Held(r) /\ a \notin page
        <4>1. InRun(a)' <=> InRun(a)
          BY <1>2, <3>4 DEF InRun
        <4>2. charged'[a] = charged[a]
          BY <3>4 DEF Abandon, Charge
        <4>3. QED BY <1>4, <3>1, <3>4, <4>1, <4>2
      <3>5. QED BY <3>2, <3>3, <3>4
    <2>2. QED BY <2>1 DEF AttemptLedger
  <1>9. QED BY <1>5, <1>6, <1>7, <1>8 DEF ClaimInv

\* Leasing no rows changes no row.
LEMMA NoRowsLeased ==
  ASSUME TypeOK, UNCHANGED <<claimAge, attempts>>
  PROVE  LeaseRows({})
  BY DEF LeaseRows, TypeOK

\* A page whose reply is lost is charged and held by nobody.
LEMMA ClaimReplyLostClaimInv ==
  ASSUME TypeOK, ClaimInv, NEW r \in Runner, ClaimReplyLost(r)
  PROVE  ClaimInv'
  <1>1. PICK page \in Claimable(r) :
          /\ LeaseRows(page)
          /\ \/ /\ pc[r] = "claim"
                /\ pc' = [pc EXCEPT ![r] = "claimRetry"]
                /\ Charge(page)
                /\ UNCHANGED <<todo, batch, back>>
             \/ pc[r] = "claimRetry" /\ Abandon(r, page)
    BY DEF ClaimReplyLost
  <1>2. page \subseteq Eligible /\ page \subseteq Article
    BY PageIsEligible DEF Eligible
  <1>3. UNCHANGED <<enriched, runAge>>
    BY DEF ClaimReplyLost
  <1>4. CASE Abandon(r, page)
    BY <1>1, <1>2, <1>3, <1>4, AbandonClaimInv
  <1>5. CASE /\ pc[r] = "claim"
             /\ pc' = [pc EXCEPT ![r] = "claimRetry"]
             /\ Charge(page)
             /\ UNCHANGED <<todo, batch, back>>
    <2>1. \A q \in Runner : Held(q)' = Held(q) /\ page \cap Held(q) = {}
      BY <1>2, <1>5, EligibleIsFree DEF Held
    <2>2. \A a \in Article \ enriched :
            /\ a \in page => ~InRun(a) /\ attempts'[a] = charged[a] + 1 /\ claimAge'[a] = 0
            /\ a \notin page => attempts'[a] = attempts[a] /\ claimAge'[a] = claimAge[a]
      BY <1>1, <1>2, LeaseRowsClaimInv
    <2>3. PhaseHolds' /\ HeldOnce' /\ Exclusive'
      BY <1>5, <2>1 DEF PhaseHolds, HeldOnce, Exclusive, ClaimInv, TypeOK
    <2>4. LeaseCoversRun'
      <3>1. ASSUME NEW q \in Runner, NEW a \in Held(q) \ enriched
            PROVE  claimAge'[a] # NoClaim /\ claimAge'[a] <= runAge[q]
        <4>1. a \in Article \ enriched /\ a \notin page
          BY <2>1, <3>1 DEF Held, TypeOK
        <4>2. QED BY <2>2, <3>1, <4>1 DEF ClaimInv, LeaseCoversRun
      <3>2. QED BY <1>3, <2>1, <3>1 DEF LeaseCoversRun
    <2>5. AttemptLedger'
      <3>1. ASSUME NEW a \in Article \ enriched
            PROVE  attempts'[a] = charged'[a] + (IF InRun(a) THEN 1 ELSE 0)
        <4>1. attempts[a] = charged[a] + (IF InRun(a) THEN 1 ELSE 0) /\ charged[a] \in Nat
          BY DEF ClaimInv, AttemptLedger, TypeOK
        <4>2. charged'[a] = IF a \in page THEN charged[a] + 1 ELSE charged[a]
          BY <1>5 DEF Charge
        <4>3. QED BY <2>2, <4>1, <4>2
      <3>2. \A a : InRun(a)' <=> InRun(a)
        BY <2>1 DEF InRun
      <3>3. QED BY <1>3, <3>1, <3>2 DEF AttemptLedger
    <2>6. QED BY <2>3, <2>4, <2>5 DEF ClaimInv
  <1>6. QED BY <1>1, <1>4, <1>5

\* A run that dies is a run that abandons what it holds.
LEMMA DieClaimInv ==
  ASSUME TypeOK, ClaimInv, NEW r \in Runner, Die(r)
  PROVE  ClaimInv'
  <1>1. LeaseRows({}) /\ UNCHANGED <<enriched, runAge>>
    BY NoRowsLeased DEF Die, dbVars
  <1>2. QED BY <1>1, AbandonClaimInv DEF Die

\* Steps that move articles between todo, batch and back of one run, or start
\* or end it, and leave the queue columns alone.
LEMMA MoveClaimInv ==
  ASSUME TypeOK, ClaimInv, NEW r \in Runner,
         Start(r) \/ Deadline(r) \/ SaveFails(r) \/ EndLoop(r)
  PROVE  ClaimInv'
  <1>1. UNCHANGED <<enriched, claimAge, attempts, charged>>
    BY DEF Start, Deadline, SaveFails, EndLoop, dbVars
  <1>2. \A q \in Runner : Held(q)' = Held(q)
    BY DEF Start, Deadline, SaveFails, EndLoop, Held, TypeOK
  <1>3. PhaseHolds' /\ HeldOnce'
    <2>1. CASE Start(r)
      BY <1>2, <2>1 DEF Start, PhaseHolds, HeldOnce, ClaimInv, Held, TypeOK
    <2>2. CASE Deadline(r)
      BY <1>2, <2>2 DEF Deadline, PhaseHolds, HeldOnce, ClaimInv, TypeOK
    <2>3. CASE SaveFails(r)
      BY <1>2, <2>3 DEF SaveFails, SaveDue, PhaseHolds, HeldOnce, ClaimInv, TypeOK
    <2>4. CASE EndLoop(r)
      BY <1>2, <2>4 DEF EndLoop, PhaseHolds, HeldOnce, ClaimInv, Held, TypeOK
    <2>5. QED BY <2>1, <2>2, <2>3, <2>4
  <1>4. Exclusive' /\ AttemptLedger'
    BY <1>1, <1>2 DEF Exclusive, AttemptLedger, ClaimInv, InRun
  <1>5. LeaseCoversRun'
    <2>1. \A q \in Runner : Held(q) # {} => runAge'[q] = runAge[q]
      BY DEF Start, Deadline, SaveFails, EndLoop, ClaimInv, PhaseHolds, TypeOK
    <2>2. QED BY <1>1, <1>2, <2>1 DEF LeaseCoversRun, ClaimInv
  <1>6. QED BY <1>3, <1>4, <1>5 DEF ClaimInv

\* Computing an article moves it within its run; a crash charges it.
LEMMA EnrichOneClaimInv ==
  ASSUME TypeOK, ClaimInv, NEW r \in Runner, EnrichOne(r)
  PROVE  ClaimInv'
  <1>1. PICK a \in todo[r] :
          /\ todo' = [todo EXCEPT ![r] = @ \ {a}]
          /\ \/ /\ batch' = [batch EXCEPT ![r] = @ \cup {a}]
                /\ UNCHANGED charged
             \/ Charge({a}) /\ UNCHANGED batch
    BY DEF EnrichOne
  <1>2. UNCHANGED <<enriched, claimAge, attempts, runAge, back>>
    BY DEF EnrichOne, dbVars
  <1>3. /\ pc' = [pc EXCEPT ![r] = "work"]
        /\ a \notin batch[r] /\ a \notin back[r] /\ a \in Held(r) /\ a \in Article
    BY <1>1 DEF EnrichOne, ClaimInv, HeldOnce, Held, TypeOK
  <1>4. \A q \in Runner \ {r} : Held(q)' = Held(q) /\ a \notin Held(q)
    BY <1>1, <1>2, <1>3 DEF Held, ClaimInv, Exclusive, TypeOK
  <1>5. PhaseHolds' /\ HeldOnce'
    BY <1>1, <1>2, <1>3, <1>4 DEF PhaseHolds, HeldOnce, ClaimInv, Held, TypeOK
  <1>6. CASE batch' = [batch EXCEPT ![r] = @ \cup {a}] /\ UNCHANGED charged
    <2>1. \A q \in Runner : Held(q)' = Held(q)
      BY <1>1, <1>2, <1>4, <1>6 DEF Held, TypeOK
    <2>2. QED BY <1>2, <1>5, <1>6, <2>1 DEF ClaimInv, Exclusive, LeaseCoversRun,
                                            AttemptLedger, InRun
  <1>7. CASE Charge({a}) /\ UNCHANGED batch
    <2>1. Held(r)' = Held(r) \ {a}
      BY <1>1, <1>2, <1>3, <1>7 DEF Held, TypeOK
    <2>2. Exclusive' /\ LeaseCoversRun'
      BY <1>2, <1>4, <2>1 DEF ClaimInv, Exclusive, LeaseCoversRun
    <2>3. ASSUME NEW b \in Article \ enriched
          PROVE  attempts[b] = charged'[b] + (IF InRun(b)' THEN 1 ELSE 0)
      <3>1. attempts[b] = charged[b] + (IF InRun(b) THEN 1 ELSE 0) /\ charged[b] \in Nat
        BY DEF ClaimInv, AttemptLedger, TypeOK
      <3>2. charged'[b] = IF b = a THEN charged[b] + 1 ELSE charged[b]
        BY <1>7 DEF Charge
      <3>3. b = a => InRun(b) /\ ~InRun(b)'
        BY <1>3, <1>4, <2>1 DEF InRun
      <3>4. b # a => (InRun(b)' <=> InRun(b))
        BY <1>4, <2>1 DEF InRun
      <3>5. QED BY <3>1, <3>2, <3>3, <3>4
    <2>4. AttemptLedger'
      BY <1>2, <2>3 DEF AttemptLedger
    <2>5. QED BY <1>5, <2>2, <2>4 DEF ClaimInv
  <1>8. QED BY <1>1, <1>6, <1>7

\* A saved article leaves the ledger, a failed save hands its rows back.
LEMMA SaveClaimInv ==
  ASSUME TypeOK, ClaimInv, NEW r \in Runner, SaveBatch(r) \/ SaveReplyLost(r)
  PROVE  ClaimInv'
  <1>1. /\ UNCHANGED <<claimAge, attempts, pc, runAge, todo, charged>>
        /\ enriched' = enriched \cup batch[r]
        /\ batch' = [batch EXCEPT ![r] = {}]
        /\ pc[r] \in {"work", "final"}
    BY DEF SaveBatch, SaveReplyLost, SaveDue
  <1>2. /\ \A q \in Runner \ {r} : Held(q)' = Held(q)
        /\ Held(r)' \subseteq Held(r)
        /\ Held(r) \subseteq Held(r)' \cup enriched'
    BY <1>1 DEF SaveBatch, SaveReplyLost, Held, TypeOK
  <1>3. PhaseHolds' /\ HeldOnce'
    BY <1>1, <1>2 DEF SaveBatch, SaveReplyLost, PhaseHolds, HeldOnce, ClaimInv, TypeOK
  <1>4. Exclusive' /\ LeaseCoversRun'
    BY <1>1, <1>2 DEF ClaimInv, Exclusive, LeaseCoversRun
  <1>5. \A a \in Article \ enriched' : InRun(a)' <=> InRun(a)
    BY <1>2 DEF InRun
  <1>6. AttemptLedger'
    BY <1>1, <1>5 DEF ClaimInv, AttemptLedger
  <1>7. QED BY <1>3, <1>4, <1>6 DEF ClaimInv

\* A release refunds the attempt of each row the run held and not of others.
LEMMA ReleaseClaimInv ==
  ASSUME TypeOK, ClaimInv, NEW r \in Runner, Release(r)
  PROVE  ClaimInv'
  <1>1. /\ UNCHANGED <<enriched, runAge, todo, batch, charged>>
        /\ ReleaseRows(back[r])
        /\ back' = [back EXCEPT ![r] = {}]
        /\ pc' = [pc EXCEPT ![r] = "idle"]
        /\ back[r] \subseteq Article
    BY DEF Release, TypeOK
  <1>2. /\ \A q \in Runner \ {r} : Held(q)' = Held(q)
        /\ Held(r)' = {} /\ Held(r) = back[r]
    BY <1>1 DEF Release, Held, ClaimInv, PhaseHolds, TypeOK
  <1>3. PhaseHolds' /\ HeldOnce' /\ Exclusive'
    BY <1>1, <1>2 DEF PhaseHolds, HeldOnce, Exclusive, ClaimInv, Held, TypeOK
  <1>4. \A a \in Article \ back[r] : claimAge'[a] = claimAge[a] /\ attempts'[a] = attempts[a]
    BY <1>1 DEF ReleaseRows, Releasable
  <1>5. LeaseCoversRun'
    <2>1. ASSUME NEW q \in Runner, NEW a \in Held(q)' \ enriched
          PROVE  claimAge'[a] # NoClaim /\ claimAge'[a] <= runAge[q]
      <3>1. q # r /\ a \in Held(q) /\ a \in Article \ back[r]
        BY <1>2, <2>1 DEF ClaimInv, Exclusive, Held, TypeOK
      <3>2. QED BY <1>4, <2>1, <3>1 DEF ClaimInv, LeaseCoversRun
    <2>2. QED BY <1>1, <2>1 DEF LeaseCoversRun
  <1>6. AttemptLedger'
    <2>1. ASSUME NEW a \in Article \ enriched
          PROVE  attempts'[a] = charged[a] + (IF InRun(a)' THEN 1 ELSE 0)
      <3>1. attempts[a] = charged[a] + (IF InRun(a) THEN 1 ELSE 0) /\ charged[a] \in Nat
        BY DEF ClaimInv, AttemptLedger, TypeOK
      <3>2. CASE a \in back[r]
        <4>1. InRun(a) /\ ~InRun(a)'
          BY <1>2, <3>2 DEF InRun, ClaimInv, Exclusive
        <4>2. a \in Releasable(back[r])
          BY <1>2, <3>2 DEF Releasable, ClaimInv, LeaseCoversRun
        <4>3. attempts'[a] = attempts[a] - 1
          BY <1>1, <3>1, <4>1, <4>2 DEF ReleaseRows
        <4>4. QED BY <3>1, <4>1, <4>3
      <3>3. CASE a \notin back[r]
        <4>1. InRun(a)' <=> InRun(a)
          BY <1>2, <3>3 DEF InRun
        <4>2. QED BY <1>4, <3>1, <3>3, <4>1
      <3>4. QED BY <3>2, <3>3
    <2>2. QED BY <1>1, <2>1 DEF AttemptLedger
  <1>7. QED BY <1>3, <1>5, <1>6 DEF ClaimInv

\* As long as no release is sent twice (its reply is never lost after it
\* committed), the claim invariant holds: each held article is leased to the one
\* run that holds it, and its attempts count exactly its failed tries.
THEOREM ClaimsHold ==
  ASSUME "release" \notin LostReplies
  PROVE  Spec => []ClaimInv
  <1>1. TypeOK /\ ClaimInv /\ [Next]_vars => ClaimInv'
    <2> SUFFICES ASSUME TypeOK, ClaimInv, [Next]_vars PROVE ClaimInv'
      OBVIOUS
    <2>1. CASE Ingest \/ Tick \/ Shard
      BY <2>1, EnvironmentClaimInv
    <2>2. ASSUME NEW r \in Runner, Advance(r) \/ RunnerFault(r)
          PROVE  ClaimInv'
      <3>1. ~ReleaseReplyLost(r)
        BY DEF ReleaseReplyLost
      <3>2. QED BY <2>2, <3>1, ClaimPageClaimInv, ClaimReplyLostClaimInv, DieClaimInv,
                   MoveClaimInv, EnrichOneClaimInv, SaveClaimInv, ReleaseClaimInv
                   DEF Advance, RunnerFault
    <2>3. CASE UNCHANGED vars
      BY <2>3 DEF vars, ClaimInv, PhaseHolds, HeldOnce, Exclusive, LeaseCoversRun,
                  AttemptLedger, Held, InRun
    <2>4. QED BY <2>1, <2>2, <2>3 DEF Next
  <1>2. QED BY InitClaimInv, TypeCorrect, <1>1, PTL DEF Spec

\* Two runs never work on the same article, whatever dies and whichever claims
\* and saves time out, unless a release is sent twice.
THEOREM RunsAreDisjoint ==
  ASSUME "release" \notin LostReplies
  PROVE  Spec => []DisjointRuns
  <1>1. ClaimInv => DisjointRuns
    BY DEF ClaimInv, Exclusive, DisjointRuns, Held
  <1>2. QED BY ClaimsHold, <1>1, PTL

\* The attempts counter is an exact ledger under the same condition.
THEOREM LedgerIsExact ==
  ASSUME "release" \notin LostReplies
  PROVE  Spec => []AttemptLedger
  <1>1. ClaimInv => AttemptLedger
    BY DEF ClaimInv
  <1>2. QED BY ClaimsHold, <1>1, PTL
-----------------------------------------------------------------------------
(* What holds whatever replies are lost, releases included.                *)

\* Nothing is held or charged at first.
LEMMA InitLossyInv == Init => LossyInv
  BY DEF Init, LossyInv, RunsHold, ClaimsYoung, ChargeWithClaim, Held, InRun

\* The invariant of one row, with the numbers the arithmetic leaves need.
LEMMA RowCharge ==
  ASSUME TypeOK, ChargeWithClaim, NEW a \in Article \ enriched
  PROVE  /\ attempts[a] \in Nat /\ charged[a] \in Nat /\ claimAge[a] \in Int
         /\ attempts[a] <= charged[a] + 1
         /\ ~InRun(a) \/ claimAge[a] = NoClaim => attempts[a] <= charged[a]
  <1>1. attempts[a] \in Nat /\ charged[a] \in Nat /\ claimAge[a] \in Int
    BY Limits DEF TypeOK, NoClaim
  <1>2. attempts[a] <= charged[a] + (IF InRun(a) /\ claimAge[a] # NoClaim THEN 1 ELSE 0)
    BY DEF ChargeWithClaim
  <1>3. QED BY <1>1, <1>2

\* A row a claim may take has no charge beyond its failed tries: either its claim was
\* given back, or the lease outlived every run that had it.
LEMMA EligibleIsPaid ==
  ASSUME TypeOK, LossyInv, NEW a \in Eligible
  PROVE  a \in Article \ enriched /\ attempts[a] <= charged[a]
  <1>1. a \in Article \ enriched
    BY DEF Eligible
  <1>2. CASE claimAge[a] = NoClaim
    BY <1>1, <1>2, RowCharge DEF LossyInv
  <1>3. CASE claimAge[a] > Lease
    <2>1. ~InRun(a)
      <3> SUFFICES ASSUME NEW r \in Runner, a \in Held(r) PROVE FALSE
        BY DEF InRun
      <3>1. claimAge[a] <= runAge[r]
        BY <1>1 DEF LossyInv, ClaimsYoung
      <3>2. claimAge[a] \in Int /\ runAge[r] \in Nat /\ runAge[r] <= RunTimeout
        BY <1>1, RowCharge, Limits DEF LossyInv, TypeOK
      <3>3. QED BY <1>3, <3>1, <3>2, Limits
    <2>2. QED BY <1>1, <2>1, RowCharge DEF LossyInv
  <1>4. QED BY <1>1, <1>2, <1>3 DEF Eligible

\* A page of claims costs each of its rows one attempt it had not been charged for.
LEMMA LeaseRowsCharge ==
  ASSUME TypeOK, LossyInv, NEW page \in SUBSET Eligible, LeaseRows(page),
         NEW a \in Article \ enriched
  PROVE  /\ a \in page => attempts'[a] <= charged[a] + 1 /\ claimAge'[a] = 0
         /\ a \notin page => attempts'[a] = attempts[a] /\ claimAge'[a] = claimAge[a]
  <1>1. a \in page => attempts[a] <= charged[a]
    BY EligibleIsPaid
  <1>2. attempts[a] \in Nat /\ charged[a] \in Nat
    BY RowCharge DEF LossyInv
  <1>3. QED BY <1>1, <1>2 DEF LeaseRows, TypeOK

\* A claim leaves every held row as young as its holders.
LEMMA LeaseRowsYoung ==
  ASSUME TypeOK, LossyInv, NEW page \in SUBSET Eligible, LeaseRows(page),
         NEW q \in Runner, NEW a \in Article \ enriched, a \in Held(q) \cup page
  PROVE  claimAge'[a] <= runAge[q]
  <1>1. runAge[q] \in Nat
    BY DEF TypeOK
  <1>2. CASE a \in page
    BY <1>1, <1>2, LeaseRowsCharge
  <1>3. CASE a \notin page
    BY <1>3, LeaseRowsCharge DEF LossyInv, ClaimsYoung
  <1>4. QED BY <1>2, <1>3

\* Ingestion, shards and the clock.
LEMMA EnvironmentLossyInv ==
  ASSUME TypeOK, LossyInv, Ingest \/ Tick \/ Shard
  PROVE  LossyInv'
  <1>1. CASE Ingest
    BY <1>1 DEF Ingest, runVars, LossyInv, RunsHold, ClaimsYoung, ChargeWithClaim,
                Held, InRun
  <1>2. CASE Tick
    <2>1. \A r \in Runner : Held(r)' = Held(r)
      BY <1>2 DEF Tick, Held
    <2>2. \A a \in Article : claimAge'[a] = NoClaim <=> claimAge[a] = NoClaim
      BY <1>2, Limits DEF Tick, TypeOK, NoClaim
    <2>3. RunsHold' /\ ChargeWithClaim'
      BY <1>2, <2>1, <2>2 DEF Tick, LossyInv, RunsHold, ChargeWithClaim, InRun
    <2>4. ASSUME NEW r \in Runner, NEW a \in Held(r) \ enriched
          PROVE  claimAge'[a] <= runAge'[r]
      <3>1. pc[r] # "idle" /\ a \in Article /\ claimAge[a] <= runAge[r]
        BY <2>4 DEF LossyInv, RunsHold, ClaimsYoung, Held, TypeOK
      <3>2. claimAge[a] \in Int /\ runAge[r] \in Nat
        BY <3>1, Limits DEF TypeOK, NoClaim
      <3>3. /\ runAge'[r] = runAge[r] + 1
            /\ claimAge'[a] \in {claimAge[a], claimAge[a] + 1}
        BY <1>2, <3>1 DEF Tick, TypeOK
      <3>4. QED BY <3>1, <3>2, <3>3
    <2>5. ClaimsYoung'
      BY <1>2, <2>1, <2>4 DEF ClaimsYoung, Tick
    <2>6. QED BY <2>3, <2>5 DEF LossyInv
  <1>3. CASE Shard
    <2>1. /\ UNCHANGED <<claimAge, attempts, pc, runAge, todo, batch, back, charged>>
          /\ enriched \subseteq enriched'
      BY <1>3 DEF Shard, ShardSave, ShardDrop, runVars, dbVars
    <2>2. QED BY <2>1 DEF LossyInv, RunsHold, ClaimsYoung, ChargeWithClaim, Held, InRun
  <1>4. QED BY <1>1, <1>2, <1>3

\* An answered claim: the extra attempt goes with the new claim.
LEMMA ClaimPageLossyInv ==
  ASSUME TypeOK, LossyInv, NEW r \in Runner, ClaimPage(r)
  PROVE  LossyInv'
  <1>1. PICK page \in Claimable(r) :
          /\ LeaseRows(page)
          /\ todo' = [todo EXCEPT ![r] = @ \cup page]
          /\ pc' = [pc EXCEPT ![r] =
               IF /\ Cardinality(page) = PageOf(r)
                  /\ Cardinality(todo[r] \cup page) < BatchSize
               THEN "claim"
               ELSE IF todo[r] \cup page = {} THEN "idle" ELSE "start"]
    BY DEF ClaimPage
  <1>2. page \subseteq Eligible /\ page \subseteq Article
    BY PageIsEligible DEF Eligible
  <1>3. UNCHANGED <<enriched, runAge, batch, back, charged>>
    BY DEF ClaimPage
  <1>4. /\ Held(r)' = Held(r) \cup page
        /\ \A q \in Runner \ {r} : Held(q)' = Held(q)
    BY <1>1, <1>3 DEF Held, TypeOK
  <1>5. batch[r] = {} /\ back[r] = {}
    BY DEF ClaimPage, LossyInv, RunsHold
  <1>6. RunsHold'
    <2>1. pc'[r] = "idle" => Held(r)' = {}
      BY <1>1, <1>4, <1>5 DEF Held, TypeOK
    <2>2. pc'[r] \in {"idle", "claim", "start"} /\ batch'[r] = {} /\ back'[r] = {}
      BY <1>1, <1>3, <1>5 DEF TypeOK
    <2>3. \A q \in Runner \ {r} : pc'[q] = pc[q] /\ todo'[q] = todo[q]
      BY <1>1 DEF TypeOK
    <2>4. QED BY <1>3, <1>4, <2>1, <2>2, <2>3 DEF RunsHold, LossyInv
  <1>7. ClaimsYoung'
    <2>1. ASSUME NEW q \in Runner, NEW a \in Held(q)' \ enriched
          PROVE  claimAge'[a] <= runAge[q]
      <3>1. a \in Article \ enriched /\ a \in Held(q) \cup page
        BY <2>1, <1>2, <1>4 DEF Held, TypeOK
      <3>2. QED BY <1>1, <1>2, <3>1, LeaseRowsYoung
    <2>2. QED BY <1>3, <2>1 DEF ClaimsYoung
  <1>8. ChargeWithClaim'
    <2>1. ASSUME NEW a \in Article \ enriched
          PROVE  attempts'[a] <= charged[a]
                   + (IF InRun(a)' /\ claimAge'[a] # NoClaim THEN 1 ELSE 0)
      <3>1. InRun(a)' <=> InRun(a) \/ a \in page
        BY <1>4 DEF InRun
      <3>2. CASE a \in page
        BY <1>1, <1>2, <3>1, <3>2, LeaseRowsCharge DEF NoClaim
      <3>3. CASE a \notin page
        BY <1>1, <1>2, <3>1, <3>3, LeaseRowsCharge DEF LossyInv, ChargeWithClaim
      <3>4. QED BY <3>2, <3>3
    <2>2. QED BY <1>3, <2>1 DEF ChargeWithClaim
  <1>9. QED BY <1>6, <1>7, <1>8 DEF LossyInv

\* A run that ends with claims in hand charges what it held and the page it lost.
LEMMA AbandonLossyInv ==
  ASSUME TypeOK, LossyInv, NEW r \in Runner, NEW page \in SUBSET Eligible,
         LeaseRows(page), Abandon(r, page), UNCHANGED <<enriched, runAge>>
  PROVE  LossyInv'
  <1>1. /\ Held(r)' = {}
        /\ \A q \in Runner \ {r} : Held(q)' = Held(q)
    BY DEF Abandon, Held, TypeOK
  <1>2. RunsHold'
    BY <1>1 DEF Abandon, RunsHold, LossyInv, Held, TypeOK
  <1>3. ClaimsYoung'
    <2>1. ASSUME NEW q \in Runner, NEW a \in Held(q)' \ enriched
          PROVE  claimAge'[a] <= runAge[q]
      <3>1. a \in Article \ enriched /\ a \in Held(q)
        BY <1>1, <2>1 DEF Held, TypeOK
      <3>2. QED BY <3>1, LeaseRowsYoung
    <2>2. QED BY <2>1 DEF ClaimsYoung
  <1>4. ChargeWithClaim'
    <2>1. ASSUME NEW a \in Article \ enriched
          PROVE  attempts'[a] <= charged'[a]
                   + (IF InRun(a)' /\ claimAge'[a] # NoClaim THEN 1 ELSE 0)
      <3>1. attempts'[a] \in Nat /\ charged[a] \in Nat
        BY LeaseRowsType, RowCharge DEF LossyInv
      <3>2. CASE a \in Held(r) \cup page
        <4>1. charged'[a] = charged[a] + 1
          BY <3>2 DEF Abandon, Charge
        <4>2. attempts'[a] <= charged[a] + 1
          BY LeaseRowsCharge, RowCharge DEF LossyInv
        <4>3. QED BY <3>1, <4>1, <4>2
      <3>3. CASE a \notin Held(r) \cup page
        <4>1. InRun(a)' <=> InRun(a)
          BY <1>1, <3>3 DEF InRun
        <4>2. charged'[a] = charged[a]
          BY <3>3 DEF Abandon, Charge
        <4>3. QED BY <3>3, <4>1, <4>2, LeaseRowsCharge DEF LossyInv, ChargeWithClaim
      <3>4. QED BY <3>2, <3>3
    <2>2. QED BY <2>1 DEF ChargeWithClaim
  <1>5. QED BY <1>2, <1>3, <1>4 DEF LossyInv

\* An unanswered claim charges its page at once.
LEMMA ClaimReplyLostLossyInv ==
  ASSUME TypeOK, LossyInv, NEW r \in Runner, ClaimReplyLost(r)
  PROVE  LossyInv'
  <1>1. PICK page \in Claimable(r) :
          /\ LeaseRows(page)
          /\ \/ /\ pc[r] = "claim"
                /\ pc' = [pc EXCEPT ![r] = "claimRetry"]
                /\ Charge(page)
                /\ UNCHANGED <<todo, batch, back>>
             \/ pc[r] = "claimRetry" /\ Abandon(r, page)
    BY DEF ClaimReplyLost
  <1>2. page \subseteq Eligible
    BY PageIsEligible
  <1>3. UNCHANGED <<enriched, runAge>>
    BY DEF ClaimReplyLost
  <1>4. CASE Abandon(r, page)
    BY <1>1, <1>2, <1>3, <1>4, AbandonLossyInv
  <1>5. CASE /\ pc[r] = "claim"
             /\ pc' = [pc EXCEPT ![r] = "claimRetry"]
             /\ Charge(page)
             /\ UNCHANGED <<todo, batch, back>>
    <2>1. \A q \in Runner : Held(q)' = Held(q)
      BY <1>5 DEF Held
    <2>2. RunsHold'
      BY <1>5, <2>1 DEF RunsHold, LossyInv, TypeOK
    <2>3. ClaimsYoung'
      <3>1. ASSUME NEW q \in Runner, NEW a \in Held(q) \ enriched
            PROVE  claimAge'[a] <= runAge[q]
        <4>1. a \in Article \ enriched
          BY <3>1 DEF Held, TypeOK
        <4>2. QED BY <1>1, <1>2, <3>1, <4>1, LeaseRowsYoung
      <3>2. QED BY <1>3, <2>1, <3>1 DEF ClaimsYoung
    <2>4. ChargeWithClaim'
      <3>1. ASSUME NEW a \in Article \ enriched
            PROVE  attempts'[a] <= charged'[a]
                     + (IF InRun(a) /\ claimAge'[a] # NoClaim THEN 1 ELSE 0)
        <4>1. attempts'[a] \in Nat /\ charged[a] \in Nat
          BY <1>1, <1>2, LeaseRowsType, RowCharge DEF LossyInv
        <4>2. CASE a \in page
          <5>1. charged'[a] = charged[a] + 1
            BY <1>5, <4>2 DEF Charge
          <5>2. attempts'[a] <= charged[a] + 1
            BY <1>1, <1>2, <4>2, LeaseRowsCharge
          <5>3. QED BY <4>1, <5>1, <5>2
        <4>3. CASE a \notin page
          <5>1. charged'[a] = charged[a]
            BY <1>5, <4>3 DEF Charge
          <5>2. QED BY <1>1, <1>2, <4>3, <5>1, LeaseRowsCharge DEF LossyInv, ChargeWithClaim
        <4>4. QED BY <4>2, <4>3
      <3>2. \A a : InRun(a)' <=> InRun(a)
        BY <2>1 DEF InRun
      <3>3. QED BY <1>3, <3>1, <3>2 DEF ChargeWithClaim
    <2>5. QED BY <2>2, <2>3, <2>4 DEF LossyInv
  <1>6. QED BY <1>1, <1>4, <1>5

\* A run that dies abandons what it holds.
LEMMA DieLossyInv ==
  ASSUME TypeOK, LossyInv, NEW r \in Runner, Die(r)
  PROVE  LossyInv'
  <1>1. LeaseRows({}) /\ UNCHANGED <<enriched, runAge>>
    BY NoRowsLeased DEF Die, dbVars
  <1>2. QED BY <1>1, AbandonLossyInv DEF Die

\* Steps that start a run, end it or move articles within it.
LEMMA MoveLossyInv ==
  ASSUME TypeOK, LossyInv, NEW r \in Runner,
         Start(r) \/ Deadline(r) \/ SaveFails(r) \/ EndLoop(r)
  PROVE  LossyInv'
  <1>1. UNCHANGED <<enriched, claimAge, attempts, charged>>
    BY DEF Start, Deadline, SaveFails, EndLoop, dbVars
  <1>2. \A q \in Runner : Held(q)' = Held(q)
    BY DEF Start, Deadline, SaveFails, EndLoop, Held, TypeOK
  <1>3. RunsHold'
    <2>1. CASE Start(r)
      BY <1>2, <2>1 DEF Start, RunsHold, LossyInv, Held, TypeOK
    <2>2. CASE Deadline(r)
      BY <1>2, <2>2 DEF Deadline, RunsHold, LossyInv, TypeOK
    <2>3. CASE SaveFails(r)
      BY <1>2, <2>3 DEF SaveFails, SaveDue, RunsHold, LossyInv, TypeOK
    <2>4. CASE EndLoop(r)
      BY <1>2, <2>4 DEF EndLoop, RunsHold, LossyInv, Held, TypeOK
    <2>5. QED BY <2>1, <2>2, <2>3, <2>4
  <1>4. ChargeWithClaim'
    BY <1>1, <1>2 DEF ChargeWithClaim, LossyInv, InRun
  <1>5. ClaimsYoung'
    <2>1. \A q \in Runner : Held(q) # {} => runAge'[q] = runAge[q]
      BY DEF Start, Deadline, SaveFails, EndLoop, LossyInv, RunsHold, TypeOK
    <2>2. QED BY <1>1, <1>2, <2>1 DEF ClaimsYoung, LossyInv
  <1>6. QED BY <1>3, <1>4, <1>5 DEF LossyInv

\* A crash of enrich_one charges the article that its run lets go.
LEMMA EnrichOneLossyInv ==
  ASSUME TypeOK, LossyInv, NEW r \in Runner, EnrichOne(r)
  PROVE  LossyInv'
  <1>1. PICK a \in todo[r] :
          /\ todo' = [todo EXCEPT ![r] = @ \ {a}]
          /\ \/ /\ batch' = [batch EXCEPT ![r] = @ \cup {a}]
                /\ UNCHANGED charged
             \/ Charge({a}) /\ UNCHANGED batch
    BY DEF EnrichOne
  <1>2. UNCHANGED <<enriched, claimAge, attempts, runAge, back>>
    BY DEF EnrichOne, dbVars
  <1>3. pc' = [pc EXCEPT ![r] = "work"] /\ a \in Held(r) /\ a \in Article
    BY <1>1 DEF EnrichOne, Held, TypeOK
  <1>4. \A q \in Runner \ {r} : Held(q)' = Held(q)
    BY <1>1, <1>2 DEF Held, TypeOK
  <1>5. RunsHold'
    BY <1>1, <1>2, <1>3, <1>4 DEF RunsHold, LossyInv, Held, TypeOK
  <1>6. CASE batch' = [batch EXCEPT ![r] = @ \cup {a}] /\ UNCHANGED charged
    <2>1. \A q \in Runner : Held(q)' = Held(q)
      BY <1>1, <1>2, <1>4, <1>6 DEF Held, TypeOK
    <2>2. QED BY <1>2, <1>5, <1>6, <2>1 DEF LossyInv, ClaimsYoung, ChargeWithClaim, InRun
  <1>7. CASE Charge({a}) /\ UNCHANGED batch
    <2>1. Held(r)' \subseteq Held(r) /\ Held(r) \ {a} \subseteq Held(r)'
      BY <1>1, <1>2, <1>7 DEF Held, TypeOK
    <2>2. ClaimsYoung'
      BY <1>2, <1>4, <2>1 DEF LossyInv, ClaimsYoung
    <2>3. ASSUME NEW b \in Article \ enriched
          PROVE  attempts[b] <= charged'[b]
                   + (IF InRun(b)' /\ claimAge[b] # NoClaim THEN 1 ELSE 0)
      <3>1. attempts[b] \in Nat /\ charged[b] \in Nat /\ attempts[b] <= charged[b] + 1
        BY RowCharge DEF LossyInv
      <3>2. charged'[b] = IF b = a THEN charged[b] + 1 ELSE charged[b]
        BY <1>7 DEF Charge
      <3>3. CASE b = a
        BY <3>1, <3>2, <3>3
      <3>4. CASE b # a
        <4>1. InRun(b)' <=> InRun(b)
          BY <1>4, <2>1, <3>4 DEF InRun
        <4>2. QED BY <3>2, <3>4, <4>1 DEF LossyInv, ChargeWithClaim
      <3>5. QED BY <3>3, <3>4
    <2>4. ChargeWithClaim'
      BY <1>2, <2>3 DEF ChargeWithClaim
    <2>5. QED BY <1>5, <2>2, <2>4 DEF LossyInv
  <1>8. QED BY <1>1, <1>6, <1>7

\* A saved article leaves the ledger, whether or not the run learns of it.
LEMMA SaveLossyInv ==
  ASSUME TypeOK, LossyInv, NEW r \in Runner, SaveBatch(r) \/ SaveReplyLost(r)
  PROVE  LossyInv'
  <1>1. /\ UNCHANGED <<claimAge, attempts, pc, runAge, todo, charged>>
        /\ enriched' = enriched \cup batch[r]
        /\ batch' = [batch EXCEPT ![r] = {}]
        /\ pc[r] \in {"work", "final"}
    BY DEF SaveBatch, SaveReplyLost, SaveDue
  <1>2. /\ \A q \in Runner \ {r} : Held(q)' = Held(q)
        /\ Held(r)' \subseteq Held(r)
        /\ Held(r) \subseteq Held(r)' \cup enriched'
    BY <1>1 DEF SaveBatch, SaveReplyLost, Held, TypeOK
  <1>3. RunsHold'
    BY <1>1, <1>2 DEF SaveBatch, SaveReplyLost, RunsHold, LossyInv, TypeOK
  <1>4. ClaimsYoung'
    BY <1>1, <1>2 DEF LossyInv, ClaimsYoung
  <1>5. \A a \in Article \ enriched' : InRun(a)' <=> InRun(a)
    BY <1>2 DEF InRun
  <1>6. ChargeWithClaim'
    BY <1>1, <1>5 DEF LossyInv, ChargeWithClaim
  <1>7. QED BY <1>3, <1>4, <1>6 DEF LossyInv

\* A release takes the claim and its attempt together, from whichever run has them.
LEMMA ReleaseRowsCharge ==
  ASSUME TypeOK, LossyInv, NEW S \in SUBSET Article, ReleaseRows(S),
         NEW a \in Article \ enriched
  PROVE  /\ a \in S => claimAge'[a] = NoClaim /\ attempts'[a] <= charged[a]
         /\ a \notin S => claimAge'[a] = claimAge[a] /\ attempts'[a] = attempts[a]
         /\ claimAge'[a] \in {NoClaim, claimAge[a]}
  <1>1. /\ attempts[a] \in Nat /\ charged[a] \in Nat
        /\ attempts[a] <= charged[a] + 1
        /\ claimAge[a] = NoClaim => attempts[a] <= charged[a]
    BY RowCharge DEF LossyInv
  <1>2. a \in S => claimAge'[a] = NoClaim /\ attempts'[a] <= charged[a]
    BY <1>1 DEF ReleaseRows, Releasable, TypeOK
  <1>3. a \notin S => claimAge'[a] = claimAge[a] /\ attempts'[a] = attempts[a]
    BY DEF ReleaseRows, Releasable, TypeOK
  <1>4. QED BY <1>2, <1>3

\* Both the release and its repetition keep the invariant.
LEMMA ReleaseLossyInv ==
  ASSUME TypeOK, LossyInv, NEW r \in Runner, Release(r) \/ ReleaseReplyLost(r)
  PROVE  LossyInv'
  <1>1. /\ UNCHANGED <<enriched, runAge, todo, batch, charged>>
        /\ ReleaseRows(back[r])
        /\ back[r] \in SUBSET Article
        /\ Held(r) = back[r]
    BY DEF Release, ReleaseReplyLost, LossyInv, RunsHold, Held, TypeOK
  <1>2. /\ \A q \in Runner \ {r} : Held(q)' = Held(q)
        /\ Held(r)' \subseteq Held(r)
    BY <1>1 DEF Release, ReleaseReplyLost, Held, TypeOK
  <1>3. RunsHold'
    <2>1. CASE Release(r)
      BY <1>1, <1>2, <2>1 DEF Release, RunsHold, LossyInv, Held, TypeOK
    <2>2. CASE ReleaseReplyLost(r)
      BY <1>1, <1>2, <2>2 DEF ReleaseReplyLost, RunsHold, LossyInv, Held, TypeOK
    <2>3. QED BY <2>1, <2>2
  <1>4. ClaimsYoung'
    <2>1. ASSUME NEW q \in Runner, NEW a \in Held(q)' \ enriched
          PROVE  claimAge'[a] <= runAge[q]
      <3>1. a \in Held(q) /\ a \in Article \ enriched
        BY <1>2, <2>1 DEF Held, TypeOK
      <3>2. claimAge[a] <= runAge[q] /\ runAge[q] \in Nat
        BY <3>1 DEF LossyInv, ClaimsYoung, TypeOK
      <3>3. claimAge'[a] \in {NoClaim, claimAge[a]}
        BY <1>1, <3>1, ReleaseRowsCharge
      <3>4. QED BY <3>2, <3>3 DEF NoClaim
    <2>2. QED BY <1>1, <2>1 DEF ClaimsYoung
  <1>5. ChargeWithClaim'
    <2>1. ASSUME NEW a \in Article \ enriched
          PROVE  attempts'[a] <= charged[a]
                   + (IF InRun(a)' /\ claimAge'[a] # NoClaim THEN 1 ELSE 0)
      <3>1. CASE a \in back[r]
        BY <1>1, <3>1, ReleaseRowsCharge, RowCharge DEF LossyInv
      <3>2. CASE a \notin back[r]
        <4>1. InRun(a)' <=> InRun(a)
          BY <1>1, <1>2, <3>2 DEF InRun
        <4>2. QED BY <1>1, <3>2, <4>1, ReleaseRowsCharge DEF LossyInv, ChargeWithClaim
      <3>3. QED BY <3>1, <3>2
    <2>2. QED BY <1>1, <2>1 DEF ChargeWithClaim
  <1>6. QED BY <1>3, <1>4, <1>5 DEF LossyInv

\* Whatever dies and whatever replies are lost: what a row is charged beyond its
\* failed tries goes with a claim that is younger than every run that has the row.
THEOREM LossyClaimsHold == Spec => []LossyInv
  <1>1. TypeOK /\ LossyInv /\ [Next]_vars => LossyInv'
    <2> SUFFICES ASSUME TypeOK, LossyInv, [Next]_vars PROVE LossyInv'
      OBVIOUS
    <2>1. CASE Ingest \/ Tick \/ Shard
      BY <2>1, EnvironmentLossyInv
    <2>2. ASSUME NEW r \in Runner, Advance(r) \/ RunnerFault(r)
          PROVE  LossyInv'
      BY <2>2, ClaimPageLossyInv, ClaimReplyLostLossyInv, DieLossyInv, MoveLossyInv,
         EnrichOneLossyInv, SaveLossyInv, ReleaseLossyInv DEF Advance, RunnerFault
    <2>3. CASE UNCHANGED vars
      BY <2>3 DEF vars, LossyInv, RunsHold, ClaimsYoung, ChargeWithClaim, Held, InRun
    <2>4. QED BY <2>1, <2>2, <2>3 DEF Next
  <1>2. QED BY InitLossyInv, TypeCorrect, <1>1, PTL DEF Spec

\* No article is given up before that many of its claims failed or are being worked
\* on, whatever replies are lost, those of releases included.
THEOREM NeverOverchargedHolds == Spec => []NeverOvercharged
  <1>1. TypeOK /\ LossyInv => NeverOvercharged
    <2> SUFFICES ASSUME TypeOK, LossyInv, NEW a \in Article \ enriched
                 PROVE  attempts[a] <= charged[a] + (IF InRun(a) THEN 1 ELSE 0)
      BY DEF NeverOvercharged
    <2>1. QED BY RowCharge DEF LossyInv
  <1>2. QED BY TypeCorrect, LossyClaimsHold, <1>1, PTL

\* An enriched article is final for every action: claims and releases choose
\* unenriched rows only, a save only adds to the enriched ones, and time alone
\* changes the age of a claim.
THEOREM EnrichedStaysFinal == Spec => EnrichedIsFinal
  <1> DEFINE Final == \A a \in enriched :
                        /\ a \in enriched'
                        /\ attempts'[a] = attempts[a]
                        /\ claimAge'[a] = NoClaim <=> claimAge[a] = NoClaim
  <1>1. TypeOK /\ [Next]_vars => Final
    <2> SUFFICES ASSUME TypeOK, [Next]_vars, NEW a \in enriched
                 PROVE  /\ a \in enriched'
                        /\ attempts'[a] = attempts[a]
                        /\ claimAge'[a] = NoClaim <=> claimAge[a] = NoClaim
      BY DEF Final
    <2>1. a \in Article /\ a \notin Eligible
      BY DEF TypeOK, Eligible
    <2>2. CASE Tick
      BY <2>1, <2>2, Limits DEF Tick, TypeOK, NoClaim
    <2>3. CASE Ingest \/ Shard
      BY <2>3 DEF Ingest, Shard, ShardSave, ShardDrop, dbVars
    <2>4. ASSUME NEW r \in Runner, ClaimPage(r) \/ ClaimReplyLost(r)
          PROVE  enriched' = enriched /\ attempts'[a] = attempts[a] /\ claimAge'[a] = claimAge[a]
      <3>1. PICK page \in Claimable(r) : LeaseRows(page)
        BY <2>4 DEF ClaimPage, ClaimReplyLost
      <3>2. a \notin page
        BY <2>1, PageIsEligible
      <3>3. QED BY <2>1, <2>4, <3>1, <3>2 DEF LeaseRows, ClaimPage, ClaimReplyLost
    <2>5. ASSUME NEW r \in Runner, Release(r) \/ ReleaseReplyLost(r)
          PROVE  enriched' = enriched /\ attempts'[a] = attempts[a] /\ claimAge'[a] = claimAge[a]
      BY <2>1, <2>5 DEF Release, ReleaseReplyLost, ReleaseRows, Releasable
    <2>6. ASSUME NEW r \in Runner,
                 \/ Start(r) \/ EnrichOne(r) \/ Deadline(r) \/ EndLoop(r)
                 \/ SaveBatch(r) \/ SaveFails(r) \/ SaveReplyLost(r) \/ Die(r)
          PROVE  enriched \subseteq enriched' /\ UNCHANGED <<attempts, claimAge>>
      BY <2>6 DEF Start, EnrichOne, Deadline, EndLoop, SaveBatch, SaveFails,
                  SaveReplyLost, Die, dbVars
    <2>7. CASE UNCHANGED vars
      BY <2>7 DEF vars
    <2>8. QED BY <2>2, <2>3, <2>4, <2>5, <2>6, <2>7 DEF Next, Advance, RunnerFault
  <1>2. Spec => [][Final]_vars
    BY TypeCorrect, <1>1, PTL DEF Spec
  <1>3. QED BY <1>2 DEF EnrichedIsFinal
-----------------------------------------------------------------------------
(* The queue implements WorkClaims.                                        *)

\* What Owner says when no two runs hold the same article.
OwnerFact ==
  /\ Owner \in [Article -> Runner \cup {Nobody}]
  /\ \A a \in Article :
       /\ \A r \in Runner : a \in Held(r) \ enriched => Owner[a] = r
       /\ a \in enriched \/ ~InRun(a) => Owner[a] = Nobody

\* The owner of an unenriched article is the run that holds it.
LEMMA OwnerIs == Exclusive => OwnerFact
  <1> SUFFICES ASSUME Exclusive PROVE OwnerFact
    OBVIOUS
  <1>1. ASSUME NEW a \in Article, NEW r \in Runner, a \in Held(r), a \notin enriched
        PROVE  Owner[a] = r
    <2>1. InRun(a) /\ \A q \in Runner : a \in Held(q) => q = r
      BY <1>1 DEF InRun, Exclusive
    <2>2. (CHOOSE q \in Runner : a \in Held(q)) = r
      BY <1>1, <2>1
    <2>3. QED BY <1>1, <2>1, <2>2 DEF Owner
  <1>2. ASSUME NEW a \in Article, a \in enriched \/ ~InRun(a)
        PROVE  Owner[a] = Nobody
    BY <1>2 DEF Owner
  <1>3. ASSUME NEW a \in Article PROVE Owner[a] \in Runner \cup {Nobody}
    BY <1>1, <1>2 DEF InRun
  <1>4. Owner \in [Article -> Runner \cup {Nobody}]
    BY <1>3 DEF Owner
  <1>5. QED BY <1>1, <1>2, <1>4 DEF OwnerFact

\* A step that changes who holds what in none of these ways is a stutter.
LEMMA OwnerSame ==
  ASSUME OwnerFact, OwnerFact', enriched' = enriched,
         \A q \in Runner : Held(q)' = Held(q)
  PROVE  UNCHANGED <<enriched, Owner>>
  <1>1. ASSUME NEW a \in Article PROVE Owner'[a] = Owner[a]
    <2>1. CASE \E r \in Runner : a \in Held(r) \ enriched
      BY <2>1 DEF OwnerFact
    <2>2. CASE a \in enriched \/ ~InRun(a)
      <3>1. a \in enriched' \/ ~InRun(a)'
        BY <2>2 DEF InRun
      <3>2. QED BY <2>2, <3>1 DEF OwnerFact
    <2>3. QED BY <2>1, <2>2 DEF InRun
  <1>2. Owner' = Owner
    BY <1>1 DEF OwnerFact
  <1>3. QED BY <1>2

\* A run that comes to hold free articles acquires them.
LEMMA OwnerAcquire ==
  ASSUME OwnerFact, OwnerFact', enriched' = enriched,
         NEW r \in Runner, NEW S \in SUBSET (Article \ enriched),
         \A q \in Runner : S \cap Held(q) = {},
         Held(r)' = Held(r) \cup S, \A q \in Runner \ {r} : Held(q)' = Held(q)
  PROVE  Claims!Acquire(r, S)
  <1>1. \A a \in S : a \notin enriched /\ Owner[a] = Nobody
    BY DEF OwnerFact, InRun
  <1>2. ASSUME NEW a \in Article PROVE Owner'[a] = IF a \in S THEN r ELSE Owner[a]
    <2>1. CASE a \in S
      BY <2>1 DEF OwnerFact
    <2>2. CASE a \notin S /\ \E q \in Runner : a \in Held(q) \ enriched
      BY <2>2 DEF OwnerFact
    <2>3. CASE a \notin S /\ (a \in enriched \/ ~InRun(a))
      <3>1. a \in enriched' \/ ~InRun(a)'
        BY <2>3 DEF InRun
      <3>2. QED BY <2>3, <3>1 DEF OwnerFact
    <2>4. QED BY <2>1, <2>2, <2>3 DEF InRun
  <1>3. Owner' = [a \in Article |-> IF a \in S THEN r ELSE Owner[a]]
    BY <1>2 DEF OwnerFact
  <1>4. QED BY <1>1, <1>3 DEF Claims!Acquire

\* A run that lets articles go drops those that are not enriched.
LEMMA OwnerDrop ==
  ASSUME OwnerFact, OwnerFact', Exclusive, enriched' = enriched,
         NEW r \in Runner, Held(r)' \subseteq Held(r), Held(r) \subseteq Article,
         \A q \in Runner \ {r} : Held(q)' = Held(q)
  PROVE  \E S \in SUBSET Article : Claims!Drop(r, S)
  <1>0. PICK S \in SUBSET Article : S = (Held(r) \ Held(r)') \ enriched
    OBVIOUS
  <1>1. \A a \in S : Owner[a] = r
    BY <1>0 DEF OwnerFact
  <1>2. ASSUME NEW a \in Article PROVE Owner'[a] = IF a \in S THEN Nobody ELSE Owner[a]
    <2>1. CASE a \in S
      <3>1. ~InRun(a)'
        BY <1>0, <2>1 DEF InRun, Exclusive
      <3>2. QED BY <1>0, <2>1, <3>1 DEF OwnerFact
    <2>2. CASE a \notin S /\ \E q \in Runner : a \in Held(q) \ enriched
      BY <1>0, <2>2 DEF OwnerFact
    <2>3. CASE a \notin S /\ (a \in enriched \/ ~InRun(a))
      <3>1. a \in enriched' \/ ~InRun(a)'
        BY <1>0, <2>3 DEF InRun
      <3>2. QED BY <2>3, <3>1 DEF OwnerFact
    <2>4. QED BY <1>0, <2>1, <2>2, <2>3 DEF InRun
  <1>3. Owner' = [a \in Article |-> IF a \in S THEN Nobody ELSE Owner[a]]
    BY <1>2 DEF OwnerFact
  <1>4. QED BY <1>1, <1>3 DEF Claims!Drop

\* Articles that are saved are completed, whoever holds them.
LEMMA OwnerComplete ==
  ASSUME OwnerFact, OwnerFact', NEW S \in SUBSET Article, enriched' = enriched \cup S,
         \A q \in Runner : Held(q)' \ enriched' = Held(q) \ enriched'
  PROVE  Claims!Complete(S)
  <1>1. ASSUME NEW a \in Article PROVE Owner'[a] = IF a \in S THEN Nobody ELSE Owner[a]
    <2>1. CASE a \in S
      BY <2>1 DEF OwnerFact
    <2>2. CASE a \notin S /\ \E q \in Runner : a \in Held(q) \ enriched
      BY <2>2 DEF OwnerFact
    <2>3. CASE a \notin S /\ (a \in enriched \/ ~InRun(a))
      <3>1. a \in enriched' \/ ~InRun(a)'
        BY <2>3 DEF InRun
      <3>2. QED BY <2>3, <3>1 DEF OwnerFact
    <2>4. QED BY <2>1, <2>2, <2>3 DEF InRun
  <1>2. Owner' = [a \in Article |-> IF a \in S THEN Nobody ELSE Owner[a]]
    BY <1>1 DEF OwnerFact
  <1>3. QED BY <1>2 DEF Claims!Complete

\* Every step of the environment completes articles or changes no owner.
LEMMA EnvironmentImplements ==
  ASSUME TypeOK, OwnerFact, OwnerFact', Ingest \/ Tick \/ Shard
  PROVE  [Claims!Next]_<<enriched, Owner>>
  <1>1. CASE Ingest \/ Tick
    <2>1. enriched' = enriched /\ \A q \in Runner : Held(q)' = Held(q)
      BY <1>1 DEF Ingest, Tick, Held, runVars
    <2>2. QED BY <2>1, OwnerSame
  <1>2. CASE Shard
    <2>1. PICK S \in SUBSET handoff : ShardSave(S) \/ ShardDrop(S)
      BY <1>2 DEF Shard
    <2>2. \A q \in Runner : Held(q)' = Held(q)
      BY <2>1 DEF ShardSave, ShardDrop, Held, runVars
    <2>3. CASE ShardSave(S)
      <3>1. S \in SUBSET Article /\ enriched' = enriched \cup S
        BY <2>3 DEF ShardSave, TypeOK
      <3>2. Claims!Complete(S)
        BY <2>2, <3>1, OwnerComplete
      <3>3. QED BY <3>1, <3>2 DEF Claims!Next
    <2>4. CASE ShardDrop(S)
      BY <2>2, <2>4, OwnerSame DEF ShardDrop, dbVars
    <2>5. QED BY <2>1, <2>3, <2>4
  <1>3. QED BY <1>1, <1>2

\* An answered claim acquires its page; a lost one at most drops what the run has.
LEMMA ClaimImplements ==
  ASSUME TypeOK, ClaimInv, OwnerFact, OwnerFact', NEW r \in Runner,
         ClaimPage(r) \/ ClaimReplyLost(r)
  PROVE  [Claims!Next]_<<enriched, Owner>>
  <1>1. Held(r) \subseteq Article
    BY DEF Held, TypeOK
  <1>2. CASE ClaimPage(r)
    <2>1. PICK page \in Claimable(r) : todo' = [todo EXCEPT ![r] = @ \cup page]
      BY <1>2 DEF ClaimPage
    <2>2. page \subseteq Eligible /\ page \in SUBSET (Article \ enriched)
      BY PageIsEligible DEF Eligible
    <2>3. UNCHANGED <<enriched, batch, back>>
      BY <1>2 DEF ClaimPage
    <2>4. /\ Held(r)' = Held(r) \cup page
          /\ \A q \in Runner \ {r} : Held(q)' = Held(q)
      BY <2>1, <2>3 DEF Held, TypeOK
    <2>5. \A q \in Runner : page \cap Held(q) = {}
      BY <2>2, EligibleIsFree
    <2>6. Claims!Acquire(r, page)
      BY <2>2, <2>3, <2>4, <2>5, OwnerAcquire
    <2>7. QED BY <2>2, <2>6 DEF Claims!Next
  <1>3. CASE ClaimReplyLost(r)
    <2>1. enriched' = enriched
      BY <1>3 DEF ClaimReplyLost
    <2>2. CASE UNCHANGED <<todo, batch, back>>
      <3>1. \A q \in Runner : Held(q)' = Held(q)
        BY <2>2 DEF Held
      <3>2. QED BY <2>1, <3>1, OwnerSame
    <2>3. CASE \E page : Abandon(r, page)
      <3>1. /\ Held(r)' \subseteq Held(r)
            /\ \A q \in Runner \ {r} : Held(q)' = Held(q)
        BY <2>3 DEF Abandon, Held, TypeOK
      <3>2. \E S \in SUBSET Article : Claims!Drop(r, S)
        BY <1>1, <2>1, <3>1, OwnerDrop DEF ClaimInv
      <3>3. QED BY <1>1, <3>2 DEF Claims!Next
    <2>4. QED BY <1>3, <2>2, <2>3 DEF ClaimReplyLost
  <1>4. QED BY <1>2, <1>3

\* The rest of a run completes articles, drops them or keeps them.
LEMMA RunImplements ==
  ASSUME TypeOK, ClaimInv, OwnerFact, OwnerFact', NEW r \in Runner,
         \/ Start(r) \/ EnrichOne(r) \/ Deadline(r) \/ SaveBatch(r) \/ SaveFails(r)
         \/ SaveReplyLost(r) \/ EndLoop(r) \/ Release(r) \/ Die(r)
  PROVE  [Claims!Next]_<<enriched, Owner>>
  <1>1. Held(r) \subseteq Article /\ batch[r] \subseteq Article
    BY DEF Held, TypeOK
  <1>2. CASE Start(r) \/ Deadline(r) \/ SaveFails(r) \/ EndLoop(r)
    <2>1. enriched' = enriched /\ \A q \in Runner : Held(q)' = Held(q)
      BY <1>2 DEF Start, Deadline, SaveFails, EndLoop, Held, dbVars, TypeOK
    <2>2. QED BY <2>1, OwnerSame
  <1>3. CASE SaveBatch(r) \/ SaveReplyLost(r)
    <2>1. enriched' = enriched \cup batch[r]
      BY <1>3 DEF SaveBatch, SaveReplyLost
    <2>2. \A q \in Runner : Held(q)' \ enriched' = Held(q) \ enriched'
      BY <1>3, <2>1 DEF SaveBatch, SaveReplyLost, Held, TypeOK
    <2>3. Claims!Complete(batch[r])
      BY <1>1, <2>1, <2>2, OwnerComplete
    <2>4. QED BY <1>1, <2>3 DEF Claims!Next
  <1>4. CASE EnrichOne(r) \/ Release(r) \/ Die(r)
    <2>1. enriched' = enriched
      BY <1>4 DEF EnrichOne, Release, Die, dbVars
    <2>2. /\ Held(r)' \subseteq Held(r)
          /\ \A q \in Runner \ {r} : Held(q)' = Held(q)
      <3>1. CASE EnrichOne(r)
        <4>1. PICK a \in todo[r] :
                /\ todo' = [todo EXCEPT ![r] = @ \ {a}]
                /\ batch' = [batch EXCEPT ![r] = @ \cup {a}] \/ UNCHANGED batch
          BY <3>1 DEF EnrichOne
        <4>2. back' = back
          BY <3>1 DEF EnrichOne
        <4>3. QED BY <4>1, <4>2 DEF Held, TypeOK
      <3>2. CASE Release(r)
        BY <3>2 DEF Release, Held, TypeOK
      <3>3. CASE Die(r)
        BY <3>3 DEF Die, Abandon, Held, TypeOK
      <3>4. QED BY <1>4, <3>1, <3>2, <3>3
    <2>3. \E S \in SUBSET Article : Claims!Drop(r, S)
      BY <1>1, <2>1, <2>2, OwnerDrop DEF ClaimInv
    <2>4. QED BY <1>1, <2>3 DEF Claims!Next
  <1>5. QED BY <1>2, <1>3, <1>4

\* The queue, with its leases, attempts, crashes and lost replies, implements the
\* exclusive claims of WorkClaims, as long as no release is sent twice: what a run
\* owns is taken from it by nobody, and completed work is never undone.
THEOREM QueueImplementsClaims ==
  ASSUME "release" \notin LostReplies
  PROVE  Spec => ImplementsClaims
  <1>1. Init => Claims!Init
    <2> SUFFICES ASSUME Init PROVE Claims!Init
      OBVIOUS
    <2>1. \A a \in Article : ~InRun(a)
      BY DEF Init, InRun, Held
    <2>2. Owner = [a \in Article |-> Nobody]
      BY <2>1 DEF Owner
    <2>3. QED BY <2>2 DEF Init, Claims!Init
  <1>2. ClaimInv => OwnerFact
    BY OwnerIs DEF ClaimInv
  <1>3. TypeOK /\ ClaimInv /\ OwnerFact /\ OwnerFact' /\ [Next]_vars
          => [Claims!Next]_<<enriched, Owner>>
    <2> SUFFICES ASSUME TypeOK, ClaimInv, OwnerFact, OwnerFact', [Next]_vars
                 PROVE  [Claims!Next]_<<enriched, Owner>>
      OBVIOUS
    <2>1. CASE Ingest \/ Tick \/ Shard
      BY <2>1, EnvironmentImplements
    <2>2. ASSUME NEW r \in Runner, Advance(r) \/ RunnerFault(r)
          PROVE  [Claims!Next]_<<enriched, Owner>>
      <3>1. ~ReleaseReplyLost(r)
        BY DEF ReleaseReplyLost
      <3>2. QED BY <2>2, <3>1, ClaimImplements, RunImplements DEF Advance, RunnerFault
    <2>3. CASE UNCHANGED vars
      <3>1. enriched' = enriched /\ \A q \in Runner : Held(q)' = Held(q)
        BY <2>3 DEF vars, Held
      <3>2. QED BY <3>1, OwnerSame
    <2>4. QED BY <2>1, <2>2, <2>3 DEF Next
  <1>4. QED BY TypeCorrect, ClaimsHold, <1>1, <1>2, <1>3, PTL
            DEF Spec, ImplementsClaims, Claims!Spec
=============================================================================
