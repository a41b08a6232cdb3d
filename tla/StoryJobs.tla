------------------------------ MODULE StoryJobs ------------------------------
(***************************************************************************)
(* The two jobs of cluster.py that work on the stories through SQL, one of *)
(* each: `run` assigns what has no story, page by page; `maintain` merges  *)
(* twins, reconciles the counts and prunes.  Both decide on what they read *)
(* before: the page may have been assigned by others, the planned merge    *)
(* may no longer be possible, articles may be gone.                        *)
(***************************************************************************)
EXTENDS Stories

CONSTANTS
  PageSize,     \* --batch of cluster.py run
  BatchSize,    \* BATCH_SIZE of assign_clusters_batch
  MaxRounds,    \* _MAX_ROUNDS of merge_duplicates
  MaxJobFaults  \* bound on failed calls, lost replies and killed jobs

ASSUME LimitAssumption ==
  /\ PageSize \in Nat \ {0} /\ BatchSize \in Nat \ {0} /\ MaxRounds \in Nat \ {0}
  /\ MaxJobFaults \in Nat

VARIABLES
  job,       \* `cluster.py run` without --memory
  care,      \* `cluster.py maintain`
  jobFaults  \* faults so far

jobsVars == <<rows, job, care, jobFaults>>

NoJob  == [at |-> "idle", after |-> -1, page |-> {}]
NoCare == [at |-> "idle", plan |-> {}, round |-> 0, merged |-> FALSE]

Unclustered == {a \in stored : story[a] = NoCluster}
JobFault    == jobFaults < MaxJobFaults /\ jobFaults' = jobFaults + 1

\* The first n articles of S, and the last one.
First(S, n) == {a \in S : Cardinality({b \in S : b < a}) < n}
Last(S)     == CHOOSE a \in S : \A b \in S : b <= a

-----------------------------------------------------------------------------
(* cluster.py run: fetch a page, embed it, assign it in batches *)

JobPage ==
  /\ job.page = {}
  /\ LET page == First({a \in Unclustered : a > job.after}, PageSize)
     IN IF page = {}
        THEN job' = NoJob
        ELSE job' = [at |-> "run", after |-> Last(page), page |-> page]
  /\ UNCHANGED <<rows, care, jobFaults>>

\* One call of wizer_assign_cluster_batch: an item that fails is reported, the
\* others commit; a call whose reply is lost is made once more.
JobAssign ==
  /\ job.page # {}
  /\ LET chunk == First(job.page, BatchSize)
     IN \/ /\ \E f \in Choices(chunk) : AssignRows(f)
           /\ \/ job' = [job EXCEPT !.page = @ \ chunk] /\ UNCHANGED jobFaults
              \/ JobFault /\ UNCHANGED job
        \/ /\ JobFault
           /\ \E bad \in SUBSET chunk :
                \E f \in Choices(chunk \ bad) : AssignRows(f)
           /\ job' = [job EXCEPT !.page = @ \ chunk]
  /\ UNCHANGED care

\* The time budget is used up, or the job dies.
JobEnd ==
  /\ job.at = "run"
  /\ job' = NoJob
  /\ UNCHANGED <<rows, care, jobFaults>>

-----------------------------------------------------------------------------
(* cluster.py maintain: merge twins round by round, reconcile, prune *)

\* plan_merges: conflict-free pairs, the larger story wins.
Pairs == {p \in Cluster \X Cluster : MayMerge(p[1], p[2]) /\ count[p[1]] >= count[p[2]]}
Plans ==
  {P \in SUBSET Pairs : \A p, q \in P : p # q => {p[1], p[2]} \cap {q[1], q[2]} = {}}

\* A round: probe, and plan; without a plan the merging is over.
CarePlan ==
  /\ care.at \in {"idle", "probe"}
  /\ \E P \in Plans :
       care' = IF P = {} THEN [NoCare EXCEPT !.at = "count"]
               ELSE [at |-> "merge", plan |-> P, round |-> care.round + 1, merged |-> FALSE]
  /\ UNCHANGED <<rows, job, jobFaults>>

\* Mutated form of CareMerge: the plan is trusted.
CareMergeUnchecked ==
  /\ care.at = "merge"
  /\ \E p \in care.plan :
       /\ MergeRows(p[1], p[2])
       /\ care' = [care EXCEPT !.plan = @ \ {p}, !.merged = TRUE]
  /\ UNCHANGED <<job, jobFaults>>

\* One planned merge. A call that fails is logged; of one made twice, because its
\* first reply was lost, only the second answer is known, and that is false.
CareMerge ==
  /\ care.at = "merge"
  /\ \E p \in care.plan :
       LET left == [care EXCEPT !.plan = @ \ {p}]
       IN \/ /\ MayMerge(p[1], p[2])
             /\ MergeRows(p[1], p[2])
             /\ \/ care' = [left EXCEPT !.merged = TRUE] /\ UNCHANGED jobFaults
                \/ care' = left /\ JobFault
          \/ /\ ~MayMerge(p[1], p[2])
             /\ care' = left
             /\ UNCHANGED <<rows, jobFaults>>
          \/ /\ JobFault
             /\ care' = left
             /\ UNCHANGED rows
  /\ UNCHANGED job

CareRound ==
  /\ care.at = "merge" /\ care.plan = {}
  /\ care' = IF care.merged /\ care.round < MaxRounds
             THEN [care EXCEPT !.at = "probe"] ELSE [NoCare EXCEPT !.at = "count"]
  /\ UNCHANGED <<rows, job, jobFaults>>

CareCount ==
  /\ care.at = "count"
  /\ \E old \in Idle : Recount(old)
  /\ care' = [care EXCEPT !.at = "prune"]
  /\ UNCHANGED <<job, jobFaults>>

CarePrune ==
  /\ care.at = "prune"
  /\ \E old \in Idle : PruneRows(old)
  /\ care' = NoCare
  /\ UNCHANGED <<job, jobFaults>>

\* It dies, or a call outside the merges raises.
CareEnd ==
  /\ care.at # "idle"
  /\ JobFault
  /\ care' = NoCare
  /\ UNCHANGED <<rows, job>>

-----------------------------------------------------------------------------
JobsInit == StoryInit /\ job = NoJob /\ care = NoCare /\ jobFaults = 0

\* Articles are deleted, direct runs assign one now and then, and a pass of
\* `maintain` somebody has started by hand merges stories.
OtherWriters ==
  /\ \/ \E a \in Article : Delete(a) \/ \E f \in Choices({a}) : AssignRows(f)
     \/ \E w, l \in Cluster : MayMerge(w, l) /\ MergeRows(w, l)
  /\ UNCHANGED <<job, care, jobFaults>>

JobsNext ==
  \/ JobPage \/ JobAssign \/ JobEnd
  \/ CarePlan \/ CareMerge \/ CareRound \/ CareCount \/ CarePrune \/ CareEnd
  \/ OtherWriters

JobsSpec == JobsInit /\ [][JobsNext]_jobsVars

-----------------------------------------------------------------------------
(* Properties *)

JobsTypeOK ==
  /\ StoryTypeOK
  /\ job \in [at : {"idle", "run"}, after : Int, page : SUBSET Article]
  /\ care \in [at : {"idle", "probe", "merge", "count", "prune"},
               plan : SUBSET {p \in Cluster \X Cluster : p[1] # p[2]},
               round : 0 .. MaxRounds, merged : BOOLEAN]
  /\ jobFaults \in 0 .. MaxJobFaults
=============================================================================
