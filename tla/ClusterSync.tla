----------------------------- MODULE ClusterSync -----------------------------
(***************************************************************************)
(* The story clustering job (enrichment/cluster_job.py).  Clusters live in *)
(* memory, are kept between runs in a cached file and written to Postgres  *)
(* in chunks; the runs of the concurrency group story-clustering follow    *)
(* one another, but any of them may die, and the cache may lose the file.  *)
(* What keeps the three copies together is the bookmark synced_at: a delta *)
(* reads the clusters whose updated_at is later.  A bookmark is modelled   *)
(* by what it stands for, the set of clusters changed after it.  The       *)
(* centroid sum of a cluster is the bag of articles added to it, and       *)
(* article_count the size of that bag.                                     *)
(***************************************************************************)
EXTENDS Integers, FiniteSets, FiniteSetsExt

CONSTANTS
  Article,      \* numbered in ingestion order
  Cluster,      \* uuids
  NoCluster,    \* cluster_id IS NULL
  Gone,         \* the article has been deleted
  Unembeddable, \* articles the model returns no vector for
  Foreign,      \* articles in a language that went out of scope
  Page,         \* page of run_memory_clustering
  Chunk,        \* CHUNK_CLUSTERS
  MergeRounds,  \* MERGE_ROUNDS
  MaxFaults     \* bound on killed jobs, failed calls and lost replies

ASSUME NameAssumption ==
  /\ Article \subseteq Nat /\ IsFiniteSet(Article)
  /\ Unembeddable \subseteq Article /\ Foreign \subseteq Article
  /\ NoCluster \notin Cluster /\ Gone \notin Cluster \cup {NoCluster}
ASSUME LimitAssumption ==
  /\ Page \in Nat \ {0} /\ Chunk \in Nat \ {0} /\ MergeRounds \in Nat \ {0}
  /\ MaxFaults \in Nat

VARIABLES
  story,    \* story[a]: articles.cluster_id
  status,   \* status[c]: "none" before the row is inserted
  sum,      \* sum[c][a]: how often a is counted in centroid_sum and article_count
  mem,      \* the running job's ClusterState: [live, sum, newer]
  cached,   \* the cache holds a file
  file,     \* that file, like mem
  pc,       \* where the job is
  job,      \* its other local variables
  faults    \* faults so far

db   == <<story, status, sum>>
vars == <<story, status, sum, mem, cached, file, pc, job, faults>>

Empty == [c \in Cluster |-> [a \in Article |-> 0]]
NoState == [live |-> {}, sum |-> Empty, newer |-> {}]
NoJob == [after |-> -1, page |-> {}, dirty |-> {}, created |-> {}, moves |-> {},
          left |-> {}, touched |-> {}, used |-> {}, winners |-> {}, round |-> 0]
Location == {"idle", "fetch", "assign", "flush", "merge", "save"}

Active(c)    == status[c] = "active"
Members(c)   == {a \in Article : story[a] = c}
Unclustered  == {a \in Article : story[a] = NoCluster}
Size(c)      == MapThenSumSet(LAMBDA a : mem.sum[c][a], Article)
Lowest(S, n) == {a \in S : Cardinality({b \in S : b < a}) < n}
Fault        == faults < MaxFaults /\ faults' = faults + 1
Touched(state, S) == [state EXCEPT !.newer = @ \cup S]

-----------------------------------------------------------------------------
(* SQL *)

\* Mutated form of Upserted: tombstones are not dropped.
UpsertedAll(state, S) ==
  [state EXCEPT !.live = @ \cup S,
                !.sum = [c \in Cluster |-> IF c \in S THEN sum[c] ELSE state.sum[c]]]

\* The rows S of wizer_cluster_state, applied by upsert_row.
Upserted(state, S) ==
  [state EXCEPT !.live = {c \in @ \cup S : c \in S => Active(c)},
                !.sum = [c \in Cluster |-> IF c \in S THEN sum[c] ELSE state.sum[c]]]

\* wizer_apply_cluster_changes for the clusters S with their articles: a new row
\* that is there already is left as it is, a tombstone is never revived.
Inserted(S) == {c \in S \cap job.created : status[c] = "none"}
Updated(S)  == {c \in S \ job.created : Active(c)}

Stamped(S) == {m \in job.moves : m[2] \in S /\ story[m[1]] = NoCluster}

ApplyChanges(S) ==
  /\ status' = [c \in Cluster |-> IF c \in Inserted(S) THEN "active" ELSE status[c]]
  /\ sum' = [c \in Cluster |-> IF c \in Inserted(S) \cup Updated(S) THEN mem.sum[c] ELSE sum[c]]
  /\ story' = [a \in Article |->
                 IF \E c \in S : <<a, c>> \in Stamped(S)
                 THEN CHOOSE c \in S : <<a, c>> \in Stamped(S) ELSE story[a]]
  /\ file' = Touched(file, Inserted(S) \cup Updated(S))
  /\ mem' = Touched(mem, Inserted(S) \cup Updated(S))

\* wizer_merge_clusters: returns false and changes nothing unless both are active.
MayMerge(w, l) == w # l /\ Active(w) /\ Active(l)

MergeRows(w, l) ==
  /\ MayMerge(w, l)
  /\ story' = [a \in Article |-> IF story[a] = l THEN w ELSE story[a]]
  /\ sum' = [sum EXCEPT ![w] = [a \in Article |-> @[a] + sum[l][a]]]
  /\ status' = [status EXCEPT ![l] = "merged"]
  /\ file' = Touched(file, {w, l})

-----------------------------------------------------------------------------
(* Between the runs *)

\* cluster_maintenance.yml runs in the same group: it merges in SQL alone.
Maintain ==
  /\ pc = "idle"
  /\ \E w, l \in Cluster : MergeRows(w, l)
  /\ UNCHANGED <<mem, cached, pc, job, faults>>

\* Mutated form of Evicted: the cache keeps its file.
EvictedLater == cached' = cached /\ file' = file

\* The operator evicts the cache before a job may run again.
Evicted == cached' = FALSE /\ file' = NoState

\* tools/purge_languages.py, run while the workflows are disabled: the articles of the
\* languages given up are deleted, and with them every story that keeps none.  What is
\* left of the sum of another, scaled to their number, stands for its members.
Purge ==
  /\ pc = "idle"
  /\ \E a \in Foreign : story[a] # Gone
  /\ story' = [a \in Article |-> IF a \in Foreign THEN Gone ELSE story[a]]
  /\ LET Kept(c) == Members(c) \ Foreign IN
       /\ status' = [c \in Cluster |-> IF Members(c) # {} /\ Kept(c) = {}
                                       THEN "gone" ELSE status[c]]
       /\ sum' = [c \in Cluster |-> IF Members(c) = Kept(c) THEN sum[c]
                                     ELSE [a \in Article |-> IF a \in Kept(c) THEN 1 ELSE 0]]
  /\ Evicted
  /\ UNCHANGED <<mem, pc, job, faults>>

\* The cache drops the file.
Evict ==
  /\ pc = "idle" /\ cached
  /\ cached' = FALSE
  /\ file' = NoState
  /\ UNCHANGED <<db, mem, pc, job, faults>>

-----------------------------------------------------------------------------
(* One run of run_memory_clustering *)

\* wizer_cluster_state without a bookmark: the active clusters seen in the window.
Windows == SUBSET {c \in Cluster : Active(c)}

\* load_state: the file and the delta, or every active cluster of the window.
Load ==
  /\ pc = "idle"
  /\ pc' = "fetch"
  /\ \/ cached /\ mem' = [Upserted(file, file.newer) EXCEPT !.newer = {}]
     \/ /\ ~cached
        /\ \E window \in Windows : mem' = Upserted(NoState, window)
  /\ UNCHANGED <<db, cached, file, job, faults>>

\* Mutated form of NextPage: the keyset does not advance.
NextPageAgain == Lowest(Unclustered, Page)

NextPage == Lowest({a \in Unclustered : a > job.after}, Page)

\* The next page of the work list; at its end, or when the time budget is used
\* up, the twins are merged. The budget is longer than the way to the first
\* article that can be embedded.
Fetch ==
  /\ pc = "fetch"
  /\ \/ /\ NextPage # {}
        /\ pc' = "assign"
        /\ job' = [job EXCEPT !.page = NextPage, !.after = Max(NextPage)]
     \/ /\ NextPage = {} \/ job.touched # {}
        /\ pc' = "merge"
        /\ job' = [job EXCEPT !.round = 1]
  /\ UNCHANGED <<db, mem, cached, file, faults>>

\* ClusterState.assign: the article seeds a cluster or joins a live one.
Assign(a) ==
  /\ pc = "assign" /\ a \in job.page
  /\ \/ /\ a \in Unembeddable
        /\ job' = [job EXCEPT !.page = @ \ {a}]
        /\ UNCHANGED mem
     \/ /\ a \notin Unembeddable
        /\ \E c \in Cluster :
             /\ c \in mem.live \/ status[c] = "none"
             /\ mem' = [mem EXCEPT !.live = @ \cup {c}, !.sum[c][a] = @ + 1]
             /\ job' = [job EXCEPT
                  !.page = @ \ {a}, !.dirty = @ \cup {c}, !.touched = @ \cup {c},
                  !.created = IF c \in mem.live THEN @ ELSE @ \cup {c},
                  !.moves = @ \cup {<<a, c>>}]
  /\ UNCHANGED <<db, cached, file, pc, faults>>

\* The page is assigned: flush it.
BeginFlush ==
  /\ pc = "assign" /\ job.page = {}
  /\ pc' = "flush"
  /\ job' = [job EXCEPT !.left = job.dirty]
  /\ UNCHANGED <<db, mem, cached, file, faults>>

\* One chunk, or half of one that timed out.
Flush ==
  /\ pc = "flush"
  /\ \E S \in SUBSET job.left :
       /\ S # {} /\ Cardinality(S) <= Chunk
       /\ ApplyChanges(S)
       /\ \/ job' = [job EXCEPT !.left = @ \ S] /\ UNCHANGED faults
          \/ Fault /\ UNCHANGED job   \* it committed, the reply timed out: once more
  /\ UNCHANGED <<cached, pc>>

\* Mutated form of MarkFlushed: what was written stays on the list.
MarkUnflushed ==
  /\ pc = "flush" /\ job.left = {}
  /\ pc' = "fetch"
  /\ mem' = [mem EXCEPT !.newer = {}]
  /\ UNCHANGED <<db, cached, file, job, faults>>

\* Every chunk is written: the bookmark moves to the last one's time.
MarkFlushed ==
  /\ pc = "flush" /\ job.left = {}
  /\ pc' = "fetch"
  /\ mem' = [mem EXCEPT !.newer = IF job.dirty = {} THEN @ ELSE {}]
  /\ job' = [job EXCEPT !.dirty = {}, !.created = {}, !.moves = {}]
  /\ UNCHANGED <<db, cached, file, faults>>

\* Pairs plan_merges may pick: of live clusters, one of them touched, each
\* cluster once in a round, the larger one wins.
Twins ==
  {p \in mem.live \X mem.live :
     /\ p[1] # p[2]
     /\ p[1] \in job.touched \/ p[2] \in job.touched
     /\ p[1] \notin job.used /\ p[2] \notin job.used
     /\ Size(p[1]) >= Size(p[2])}

\* A merge: done, failed without effect, or done with its reply lost, in which
\* case the retry is refused and the winner is not known as one.
MergeTwins ==
  /\ pc = "merge"
  /\ \E p \in Twins :
       \/ /\ MergeRows(p[1], p[2])
          /\ mem' = Touched(mem, {p[1], p[2]})
          /\ \/ UNCHANGED faults
                /\ job' = [job EXCEPT !.used = @ \cup {p[1], p[2]}, !.winners = @ \cup {p[1]}]
             \/ Fault /\ job' = [job EXCEPT !.used = @ \cup {p[1], p[2]}]
       \/ /\ Fault
          /\ job' = [job EXCEPT !.used = @ \cup {p[1], p[2]}]
          /\ UNCHANGED <<db, file, mem>>
  /\ UNCHANGED <<cached, pc>>

\* A round without a merge ends the merging; otherwise a delta brings the merged
\* rows back and the winners are probed. A delta that fails part of the way is
\* caught: its bookmark has not moved.
EndRound ==
  /\ pc = "merge"
  /\ \/ /\ job.winners = {}
        /\ pc' = "save"
        /\ UNCHANGED <<mem, job, faults>>
     \/ /\ job.winners # {}
        /\ mem' = [Upserted(mem, mem.newer) EXCEPT !.newer = {}]
        /\ pc' = IF job.round < MergeRounds THEN "merge" ELSE "save"
        /\ job' = [job EXCEPT !.round = @ + 1, !.touched = job.winners,
                              !.used = {}, !.winners = {}]
        /\ UNCHANGED faults
     \/ /\ job.winners # {}
        /\ Fault
        /\ \E S \in SUBSET mem.newer : mem' = Upserted(mem, S)
        /\ pc' = "save"
        /\ UNCHANGED job
  /\ UNCHANGED <<db, cached, file>>

EndJob == mem' = NoState /\ job' = NoJob /\ pc' = "idle"

\* Mutated form of Bookmark: the time of the save.
BookmarkNow == {}

\* The bookmark in the file is the one of the state.
Bookmark == mem.newer

\* prune drops clusters last seen long ago; the state is saved, but the cache
\* may fail to take the file.
Save ==
  /\ pc = "save" /\ job.dirty = {}
  /\ \/ \E old \in SUBSET mem.live :
          /\ file' = [mem EXCEPT !.live = @ \ old, !.newer = Bookmark]
          /\ cached' = TRUE
          /\ UNCHANGED faults
     \/ Fault /\ UNCHANGED <<file, cached>>
  /\ EndJob
  /\ UNCHANGED db

\* The job is killed, or a call fails for good outside merge_twins.
Die ==
  /\ pc # "idle"
  /\ Fault
  /\ EndJob
  /\ UNCHANGED <<db, cached, file>>

-----------------------------------------------------------------------------
Init ==
  /\ story = [a \in Article |-> NoCluster]
  /\ status = [c \in Cluster |-> "none"]
  /\ sum = Empty
  /\ mem = NoState
  /\ cached = FALSE
  /\ file = NoState
  /\ pc = "idle"
  /\ job = NoJob
  /\ faults = 0

Advance ==
  \/ Load \/ Fetch \/ (\E a \in Article : Assign(a)) \/ BeginFlush \/ Flush
  \/ MarkFlushed \/ MergeTwins \/ EndRound \/ Save

Next == Advance \/ Die \/ Maintain \/ Purge \/ Evict

Spec == Init /\ [][Next]_vars

\* Jobs keep being started and go on.
FairSpec == Spec /\ WF_vars(Advance)

-----------------------------------------------------------------------------
(* Properties *)

State == [live : SUBSET Cluster, sum : [Cluster -> [Article -> Nat]], newer : SUBSET Cluster]

TypeOK ==
  /\ story \in [Article -> Cluster \cup {NoCluster, Gone}]
  /\ status \in [Cluster -> {"none", "active", "merged", "gone"}]
  /\ sum \in [Cluster -> [Article -> Nat]]
  /\ mem \in State /\ file \in State
  /\ cached \in BOOLEAN
  /\ pc \in Location
  /\ job \in [after : Int, page : SUBSET Article, dirty : SUBSET Cluster,
              created : SUBSET Cluster, moves : SUBSET (Article \X Cluster),
              left : SUBSET Cluster, touched : SUBSET Cluster, used : SUBSET Cluster,
              winners : SUBSET Cluster, round : 0 .. MergeRounds + 1]
  /\ faults \in 0 .. MaxFaults
  /\ pc \in {"fetch", "merge", "save"} => job.dirty = {}

\* docs/clustering_v2_migration.sql:721, "under normal operation this fixes
\* nothing": the sum and the count of a story hold each of its articles exactly
\* once and nothing else, whatever was written twice, lost or merged.
SumsMatchMembers ==
  \A c \in Cluster : Active(c) =>
    \A a \in Article : sum[c][a] = IF story[a] = c THEN 1 ELSE 0

\* No article is put into a story that is not there or is a tombstone, where no
\* reader finds it, although the job decides on a copy that others change.
NoneInTombstone == \A a \in Article : story[a] \in Cluster => Active(story[a])

\* The cached file may be as old as it likes: what changed in the database since
\* is what its bookmark lets the next delta read, and the rest is the same.
FileCatchesUp ==
  \A c \in file.live \ file.newer : Active(c) /\ file.sum[c] = sum[c]

\* process.yml:9, "a superseded pending run loses nothing": every article that can
\* be embedded gets a story in the end, or is purged, across killed runs and lost files.
\* The work list only goes back since_hours (cluster_job.py:181), which is not modelled:
\* this is about articles that get their story before they are older than that.
EveryArticleClustered ==
  \A a \in Article \ Unembeddable : <>(story[a] # NoCluster)
=============================================================================
