------------------------------- MODULE Stories -------------------------------
(***************************************************************************)
(* Story clusters as the SQL functions of clustering_v2_migration.sql keep *)
(* them: the abstract specification of what may happen to the tables.      *)
(* Whoever assigns an article or merges two stories does it in one         *)
(* transaction under one advisory lock, so each is a single step.  Who     *)
(* does so, when, and what from, is the matter of the modules StoryJobs    *)
(* and DirectRun, which implement this one.                                *)
(*                                                                         *)
(* Which story an article joins is a matter of similarity: any active one, *)
(* or a new one.  updated_at is modelled by the order it puts the stories  *)
(* in.  A story nobody has touched for a week, the prune horizon, is no    *)
(* candidate of an article being assigned.                                 *)
(***************************************************************************)
EXTENDS Integers, FiniteSets

CONSTANTS
  Article,    \* numbered in publication order
  Cluster,    \* uuids
  NoCluster   \* cluster_id IS NULL

ASSUME StoryAssumption ==
  /\ Article \subseteq Nat /\ IsFiniteSet(Article)
  /\ NoCluster \notin Cluster

VARIABLES
  stored,  \* articles in the table
  story,   \* story[a]: cluster_id
  status,  \* status[c]: "none" before the row is inserted, "pruned" after it is deleted
  into,    \* into[c]: merged_into
  sum,     \* sum[c][a]: how often the vector of a is in centroid_sum
  count,   \* count[c]: article_count
  before   \* pairs <<c, d>>: updated_at of c is not later than that of d

rows == <<stored, story, status, into, sum, count, before>>

Active(c)   == status[c] = "active"
Members(c)  == {a \in stored : story[a] = c}

\* updated_at = now() for the clusters S.
Touch(S) == before' = {p \in before : p[1] \notin S} \cup (Cluster \X S)

-----------------------------------------------------------------------------
(* SQL *)

\* Mutated form of Placed: an article that has a story is assigned again.
PlacedAgain(f) == {a \in DOMAIN f : a \in stored}

\* The articles wizer_assign_cluster places: it raises for one that does not exist
\* and returns 'existing' for one that has a story.
Placed(f) == {a \in DOMAIN f : a \in stored /\ story[a] = NoCluster}

\* Where articles may go: the seed of a new story or a candidate.
Choices(S) == [S -> {c \in Cluster : status[c] \in {"none", "active"}}]

Joining(f, c) == {a \in Placed(f) : f[a] = c}

\* wizer_assign_cluster for each article of f, in one transaction.
AssignRows(f) ==
  /\ status' = [c \in Cluster |-> IF Joining(f, c) # {} THEN "active" ELSE status[c]]
  /\ story' = [a \in Article |-> IF a \in Placed(f) THEN f[a] ELSE story[a]]
  /\ sum' = [c \in Cluster |-> [a \in Article |->
               IF a \in Joining(f, c) THEN sum[c][a] + 1 ELSE sum[c][a]]]
  /\ count' = [c \in Cluster |-> count[c] + Cardinality(Joining(f, c))]
  /\ Touch({c \in Cluster : Joining(f, c) # {}})
  /\ UNCHANGED <<stored, into>>

\* wizer_merge_clusters returns false unless both are active and distinct.
MayMerge(w, l) == w # l /\ Active(w) /\ Active(l)

\* Mutated form of Repointed: older tombstones keep pointing at the loser.
RepointedLoser(w, l) == [c \in Cluster |-> IF c = l THEN w ELSE into[c]]

Repointed(w, l) == [c \in Cluster |-> IF c = l \/ into[c] = l THEN w ELSE into[c]]

\* Mutated form of MergedCount: the winner keeps its own count.
MergedCountOwn(w, l) == count[w]

MergedCount(w, l) == count[w] + count[l]

MergeRows(w, l) ==
  /\ story' = [a \in Article |-> IF story[a] = l THEN w ELSE story[a]]
  /\ sum' = [sum EXCEPT ![w] = [a \in Article |-> sum[w][a] + sum[l][a]]]
  /\ count' = [count EXCEPT ![w] = MergedCount(w, l)]
  /\ status' = [status EXCEPT ![l] = "merged"]
  /\ into' = Repointed(w, l)
  /\ Touch({w, l})
  /\ UNCHANGED stored

\* The clusters with updated_at before some moment.
Idle == {S \in SUBSET Cluster : \A p \in before : p[2] \in S => p[1] \in S}

\* wizer_reconcile_cluster_counts for the clusters touched since: the inner join
\* leaves out a story without articles.
Recount(old) ==
  /\ count' = [c \in Cluster |->
       IF Active(c) /\ c \notin old /\ Members(c) # {} THEN Cardinality(Members(c)) ELSE count[c]]
  /\ UNCHANGED <<stored, story, status, into, sum, before>>

\* Mutated form of Orphans: clusters that still have articles go too.
OrphansAll(old) == {c \in old : status[c] \in {"active", "merged"}}

\* wizer_prune_orphan_clusters: idle for long, and no article points at them.
Orphans(old) == {c \in old : status[c] \in {"active", "merged"} /\ Members(c) = {}}

PruneRows(old) ==
  /\ status' = [c \in Cluster |-> IF c \in Orphans(old) THEN "pruned" ELSE status[c]]
  /\ UNCHANGED <<stored, story, into, sum, count, before>>

\* The archive or the table-size cap deletes an article.
Delete(a) ==
  /\ a \in stored
  /\ stored' = stored \ {a}
  /\ story' = [story EXCEPT ![a] = NoCluster]
  /\ UNCHANGED <<status, into, sum, count, before>>

-----------------------------------------------------------------------------
StoryInit ==
  /\ stored = Article
  /\ story = [a \in Article |-> NoCluster]
  /\ status = [c \in Cluster |-> "none"]
  /\ into = [c \in Cluster |-> NoCluster]
  /\ sum = [c \in Cluster |-> [a \in Article |-> 0]]
  /\ count = [c \in Cluster |-> 0]
  /\ before = Cluster \X Cluster

StoryNext ==
  \/ \E a \in Article : Delete(a)
  \/ \E S \in SUBSET Article : \E f \in Choices(S) : AssignRows(f)
  \/ \E w, l \in Cluster : MayMerge(w, l) /\ MergeRows(w, l)
  \/ \E old \in Idle : Recount(old) \/ PruneRows(old)

StorySpec == StoryInit /\ [][StoryNext]_rows

-----------------------------------------------------------------------------
(* Properties *)

StoryTypeOK ==
  /\ stored \subseteq Article
  /\ story \in [Article -> Cluster \cup {NoCluster}]
  /\ status \in [Cluster -> {"none", "active", "merged", "pruned"}]
  /\ into \in [Cluster -> Cluster \cup {NoCluster}]
  /\ sum \in [Cluster -> [Article -> Nat]]
  /\ count \in [Cluster -> Nat]
  /\ before \subseteq Cluster \X Cluster

\* clustering_v2_migration.sql:247, "can never double-count": the sum of an active
\* story holds each of its articles once and no other article that still exists,
\* whatever is assigned or merged twice.
CountedOnce ==
  \A c \in Cluster, a \in stored :
    Active(c) => sum[c][a] = IF story[a] = c THEN 1 ELSE 0

\* No article is left in a story that has been merged away or deleted, although
\* the merges are planned and the idle stories pruned on what was read before.
StoriesReadable == \A a \in stored : story[a] # NoCluster => Active(story[a])

\* docs/CLUSTERING.md:113, :250: a story id somebody has kept still resolves: the
\* pointer of a tombstone leads, in one step, to a live story, and that is where
\* the articles that were in it are.
OldIdsResolve ==
  \A c \in Cluster : status[c] = "merged" =>
    /\ into[c] \in Cluster /\ Active(into[c])
    /\ \A a \in stored : sum[c][a] > 0 => story[a] = into[c]

\* clustering_v2_migration.sql:721, "under normal operation this fixes nothing":
\* the count of an active story is the number of its articles unless one of them
\* has been deleted, and it never falls short of it.
CountsAgree ==
  \A c \in Cluster : Active(c) =>
    /\ count[c] >= Cardinality(Members(c))
    /\ (\A a \in Article \ stored : sum[c][a] = 0) => count[c] = Cardinality(Members(c))
=============================================================================
