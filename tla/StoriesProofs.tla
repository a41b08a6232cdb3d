---------------------------- MODULE StoriesProofs ----------------------------
(***************************************************************************)
(* The story tables keep their promises under any sequence of the SQL      *)
(* functions, for any number of articles and stories.  The jobs of         *)
(* cluster.py and the direct runs implement them: whatever they have read  *)
(* before, every step of theirs is a step of StorySpec or changes no row,  *)
(* and what is proved of the tables holds while they run.  Direct runs     *)
(* keep the claims of what is pending, and mark an article only when its   *)
(* entities and its story are written.                                     *)
(***************************************************************************)
EXTENDS StoryJobs, DirectRun, FiniteSetTheorems, TLAPS

-----------------------------------------------------------------------------
(* The story tables: Stories *)

\* A story that is not there yet has no vectors in its sum.
FreshEmpty == \A c \in Cluster, a \in Article : status[c] = "none" => sum[c][a] = 0

\* A tombstone was touched no later than the story it points at.
MergedBefore == \A c \in Cluster : status[c] = "merged" => <<c, into[c]>> \in before

StoryInv ==
  /\ StoryTypeOK /\ CountedOnce /\ StoriesReadable /\ OldIdsResolve
  /\ FreshEmpty /\ MergedBefore

LEMMA Sizes == \A S \in SUBSET Article : Cardinality(S) \in Nat
  BY StoryAssumption, FS_Subset, FS_CardinalityType

LEMMA InitInv == StoryInit => StoryInv
  BY StoryAssumption DEF StoryInit, StoryInv, StoryTypeOK, CountedOnce, StoriesReadable,
     OldIdsResolve, FreshEmpty, MergedBefore, Active

LEMMA DeleteInv ==
  ASSUME StoryInv, NEW a \in Article, Delete(a)
  PROVE  StoryInv'
  <1>1. StoryTypeOK'
    BY DEF StoryInv, StoryTypeOK, Delete
  <1>2. \A b \in stored' : b \in stored /\ b # a /\ story'[b] = story[b]
    BY DEF StoryInv, StoryTypeOK, Delete
  <1>3. UNCHANGED <<status, into, sum, before>>
    BY DEF Delete
  <1>4. CountedOnce' /\ StoriesReadable'
    BY <1>2, <1>3 DEF StoryInv, CountedOnce, StoriesReadable, Active
  <1>5. OldIdsResolve'
    BY <1>2, <1>3 DEF StoryInv, OldIdsResolve, Active
  <1>6. FreshEmpty' /\ MergedBefore'
    BY <1>3 DEF StoryInv, FreshEmpty, MergedBefore
  <1> QED
    BY <1>1, <1>4, <1>5, <1>6 DEF StoryInv

-----------------------------------------------------------------------------
(* Assigning articles *)

LEMMA AssignInv ==
  ASSUME StoryInv, NEW S \in SUBSET Article, NEW f \in Choices(S), AssignRows(f)
  PROVE  StoryInv'
  <1> DEFINE P == Placed(f)
  <1>1. /\ P \subseteq S /\ P \subseteq stored /\ S \subseteq Article
        /\ \A a \in P : f[a] \in Cluster /\ status[f[a]] \in {"none", "active"}
        /\ \A a \in P : story[a] = NoCluster
    BY DEF Placed, Choices
  <1>2. \A c \in Cluster : Joining(f, c) = {a \in P : f[a] = c}
    BY DEF Joining
  <1>3. /\ \A a \in Article : story'[a] = IF a \in P THEN f[a] ELSE story[a]
        /\ stored' = stored /\ into' = into
    BY DEF AssignRows
  <1>4. \A c \in Cluster, a \in Article :
          sum'[c][a] = IF a \in P /\ f[a] = c THEN sum[c][a] + 1 ELSE sum[c][a]
    BY <1>2 DEF AssignRows
  <1>5. \A c \in Cluster : status'[c] = IF Joining(f, c) # {} THEN "active" ELSE status[c]
    BY DEF AssignRows
  <1>6. \A c \in Cluster : status[c] \in {"merged", "pruned"} =>
          status'[c] = status[c] /\ Joining(f, c) = {}
    BY <1>1, <1>2, <1>5
  <1>7. \A c \in Cluster : status[c] = "active" => status'[c] = "active"
    BY <1>5
  <1>8. \A a \in P : status'[f[a]] = "active"
    BY <1>1, <1>2, <1>5
  <1>9. NoCluster \notin Cluster
    BY StoryAssumption
  <1>10. StoryTypeOK'
    <2>1. story' \in [Article -> Cluster \cup {NoCluster}]
      BY <1>1 DEF AssignRows, StoryInv, StoryTypeOK
    <2>2. status' \in [Cluster -> {"none", "active", "merged", "pruned"}]
      BY DEF AssignRows, StoryInv, StoryTypeOK
    <2>3. sum' \in [Cluster -> [Article -> Nat]]
      <3>1. \A c \in Cluster, a \in Article :
              (IF a \in Joining(f, c) THEN sum[c][a] + 1 ELSE sum[c][a]) \in Nat
        BY DEF StoryInv, StoryTypeOK
      <3> QED
        BY <3>1 DEF AssignRows
    <2>4. count' \in [Cluster -> Nat]
      <3>1. \A c \in Cluster : Joining(f, c) \in SUBSET Article
        BY <1>1, <1>2
      <3>2. \A c \in Cluster : Cardinality(Joining(f, c)) \in Nat
        BY <3>1, Sizes
      <3> QED
        BY <3>2 DEF AssignRows, StoryInv, StoryTypeOK
    <2>5. before' \subseteq Cluster \X Cluster
      BY DEF AssignRows, Touch, StoryInv, StoryTypeOK
    <2> QED
      BY <1>3, <2>1, <2>2, <2>3, <2>4, <2>5 DEF StoryInv, StoryTypeOK
  <1>11. CountedOnce'
    <2> SUFFICES ASSUME NEW c \in Cluster, NEW a \in stored, status'[c] = "active"
                 PROVE  sum'[c][a] = IF story'[a] = c THEN 1 ELSE 0
      BY <1>3 DEF CountedOnce, Active
    <2>1. a \in Article
      BY DEF StoryInv, StoryTypeOK
    <2>2. status[c] \in {"none", "active"}
      BY <1>6 DEF StoryInv, StoryTypeOK
    <2>3. sum[c][a] = IF story[a] = c THEN 1 ELSE 0
      <3>1. CASE status[c] = "active"
        BY <3>1 DEF StoryInv, CountedOnce, Active
      <3>2. CASE status[c] = "none"
        <4>1. sum[c][a] = 0
          BY <2>1, <3>2 DEF StoryInv, FreshEmpty
        <4>2. story[a] # c
          BY <1>9, <3>2 DEF StoryInv, StoriesReadable, Active
        <4> QED
          BY <4>1, <4>2
      <3> QED
        BY <2>2, <3>1, <3>2
    <2>4. CASE a \in P
      BY <1>1, <1>3, <1>4, <1>9, <2>1, <2>3, <2>4
    <2>5. CASE a \notin P
      BY <1>3, <1>4, <2>1, <2>3, <2>5
    <2> QED
      BY <2>4, <2>5
  <1>12. StoriesReadable'
    <2> SUFFICES ASSUME NEW a \in stored, story'[a] # NoCluster
                 PROVE  status'[story'[a]] = "active"
      BY <1>3 DEF StoriesReadable, Active
    <2>1. a \in Article
      BY DEF StoryInv, StoryTypeOK
    <2>2. CASE a \in P
      BY <1>3, <1>8, <2>1, <2>2
    <2>3. CASE a \notin P
      BY <1>3, <1>7, <2>1, <2>3 DEF StoryInv, StoryTypeOK, StoriesReadable, Active
    <2> QED
      BY <2>2, <2>3
  <1>13. \A c \in Cluster : status'[c] = "merged" => status[c] = "merged"
    BY <1>5
  <1>14. OldIdsResolve'
    <2> SUFFICES ASSUME NEW c \in Cluster, status'[c] = "merged"
                 PROVE  /\ into[c] \in Cluster /\ status'[into[c]] = "active"
                        /\ \A a \in stored : sum'[c][a] > 0 => story'[a] = into[c]
      BY <1>3 DEF OldIdsResolve, Active
    <2>1. status[c] = "merged"
      BY <1>13
    <2>2. /\ into[c] \in Cluster /\ status[into[c]] = "active"
          /\ \A a \in stored : sum[c][a] > 0 => story[a] = into[c]
      BY <2>1 DEF StoryInv, OldIdsResolve, Active
    <2>3. status'[into[c]] = "active"
      BY <1>7, <2>2
    <2>4. ASSUME NEW a \in stored, sum'[c][a] > 0 PROVE story'[a] = into[c]
      <3>1. a \in Article
        BY DEF StoryInv, StoryTypeOK
      <3>2. ~(a \in P /\ f[a] = c)
        BY <1>1, <2>1
      <3>3. sum[c][a] > 0
        BY <1>4, <2>4, <3>1, <3>2
      <3>4. story[a] = into[c]
        BY <2>2, <3>3
      <3>5. a \notin P
        BY <1>1, <1>9, <2>2, <3>4
      <3> QED
        BY <1>3, <3>1, <3>4, <3>5
    <2> QED
      BY <2>2, <2>3, <2>4
  <1>15. FreshEmpty'
    <2> SUFFICES ASSUME NEW c \in Cluster, NEW a \in Article, status'[c] = "none"
                 PROVE  sum'[c][a] = 0
      BY DEF FreshEmpty
    <2>1. status[c] = "none" /\ Joining(f, c) = {}
      BY <1>5
    <2> QED
      BY <1>2, <1>4, <2>1 DEF StoryInv, FreshEmpty
  <1>16. MergedBefore'
    <2> SUFFICES ASSUME NEW c \in Cluster, status'[c] = "merged"
                 PROVE  <<c, into[c]>> \in before'
      BY <1>3 DEF MergedBefore
    <2>1. status[c] = "merged"
      BY <1>13
    <2>2. Joining(f, c) = {}
      BY <1>6, <2>1
    <2>3. <<c, into[c]>> \in before
      BY <2>1 DEF StoryInv, MergedBefore
    <2> QED
      BY <2>2, <2>3 DEF AssignRows, Touch
  <1> QED
    BY <1>10, <1>11, <1>12, <1>14, <1>15, <1>16 DEF StoryInv

-----------------------------------------------------------------------------
(* Merging stories *)

LEMMA MergeInv ==
  ASSUME StoryInv, NEW w \in Cluster, NEW l \in Cluster, MayMerge(w, l), MergeRows(w, l)
  PROVE  StoryInv'
  <1>1. w # l /\ status[w] = "active" /\ status[l] = "active"
    BY DEF MayMerge, Active
  <1>2. /\ \A a \in Article : story'[a] = IF story[a] = l THEN w ELSE story[a]
        /\ stored' = stored
    BY DEF MergeRows
  <1>3. \A c \in Cluster, a \in Article :
          sum'[c][a] = IF c = w THEN sum[w][a] + sum[l][a] ELSE sum[c][a]
    BY DEF MergeRows, StoryInv, StoryTypeOK
  <1>4. \A c \in Cluster : status'[c] = IF c = l THEN "merged" ELSE status[c]
    BY DEF MergeRows, StoryInv, StoryTypeOK
  <1>5. \A c \in Cluster : into'[c] = IF c = l \/ into[c] = l THEN w ELSE into[c]
    BY DEF MergeRows, Repointed
  <1>6. NoCluster \notin Cluster
    BY StoryAssumption
  <1>7. \A a \in stored : a \in Article
    BY DEF StoryInv, StoryTypeOK
  <1>8. \A a \in stored : /\ sum[w][a] = IF story[a] = w THEN 1 ELSE 0
                          /\ sum[l][a] = IF story[a] = l THEN 1 ELSE 0
    BY <1>1 DEF StoryInv, CountedOnce, Active
  <1>9. StoryTypeOK'
    <2>1. story' \in [Article -> Cluster \cup {NoCluster}]
      BY DEF MergeRows, StoryInv, StoryTypeOK
    <2>2. status' \in [Cluster -> {"none", "active", "merged", "pruned"}]
      BY DEF MergeRows, StoryInv, StoryTypeOK
    <2>3. sum' \in [Cluster -> [Article -> Nat]]
      <3>1. [a \in Article |-> sum[w][a] + sum[l][a]] \in [Article -> Nat]
        BY DEF StoryInv, StoryTypeOK
      <3> QED
        BY <3>1 DEF MergeRows, StoryInv, StoryTypeOK
    <2>4. count' \in [Cluster -> Nat]
      BY DEF MergeRows, MergedCount, StoryInv, StoryTypeOK
    <2>5. into' \in [Cluster -> Cluster \cup {NoCluster}]
      BY DEF MergeRows, Repointed, StoryInv, StoryTypeOK
    <2>6. before' \subseteq Cluster \X Cluster
      BY DEF MergeRows, Touch, StoryInv, StoryTypeOK
    <2> QED
      BY <1>2, <2>1, <2>2, <2>3, <2>4, <2>5, <2>6 DEF StoryInv, StoryTypeOK
  <1>10. CountedOnce'
    <2> SUFFICES ASSUME NEW c \in Cluster, NEW a \in stored, status'[c] = "active"
                 PROVE  sum'[c][a] = IF story'[a] = c THEN 1 ELSE 0
      BY <1>2 DEF CountedOnce, Active
    <2>1. c # l /\ status[c] = "active"
      BY <1>4
    <2>2. sum[c][a] = IF story[a] = c THEN 1 ELSE 0
      BY <2>1 DEF StoryInv, CountedOnce, Active
    <2>3. CASE c = w
      BY <1>1, <1>2, <1>3, <1>7, <1>8, <2>3
    <2>4. CASE c # w
      BY <1>2, <1>3, <1>7, <2>1, <2>2, <2>4
    <2> QED
      BY <2>3, <2>4
  <1>11. StoriesReadable'
    BY <1>1, <1>2, <1>4, <1>7 DEF StoryInv, StoryTypeOK, StoriesReadable, Active
  <1>12. OldIdsResolve'
    <2> SUFFICES ASSUME NEW c \in Cluster, status'[c] = "merged"
                 PROVE  /\ into'[c] \in Cluster /\ status'[into'[c]] = "active"
                        /\ \A a \in stored : sum'[c][a] > 0 => story'[a] = into'[c]
      BY <1>2 DEF OldIdsResolve, Active
    <2>1. c # w
      BY <1>1, <1>4
    <2>2. CASE c = l
      BY <1>1, <1>2, <1>3, <1>4, <1>5, <1>7, <1>8, <2>2
    <2>3. CASE c # l
      <3>1. /\ into[c] \in Cluster /\ status[into[c]] = "active"
            /\ \A a \in stored : sum[c][a] > 0 => story[a] = into[c]
        BY <1>4, <2>3 DEF StoryInv, OldIdsResolve, Active
      <3>2. \A a \in stored : sum'[c][a] > 0 => story[a] = into[c]
        BY <1>3, <1>7, <2>1, <3>1
      <3> QED
        BY <1>1, <1>2, <1>4, <1>5, <1>7, <2>3, <3>1, <3>2
    <2> QED
      BY <2>2, <2>3
  <1>13. FreshEmpty'
    BY <1>1, <1>3, <1>4 DEF StoryInv, FreshEmpty
  <1>14. MergedBefore'
    <2> SUFFICES ASSUME NEW c \in Cluster, status'[c] = "merged"
                 PROVE  <<c, into'[c]>> \in before'
      BY DEF MergedBefore
    <2>1. before' = {p \in before : p[1] \notin {w, l}} \cup (Cluster \X {w, l})
      BY DEF MergeRows, Touch
    <2>2. CASE into'[c] = w
      BY <2>1, <2>2
    <2>3. CASE into'[c] # w
      <3>1. c # l /\ into'[c] = into[c] /\ status[c] = "merged"
        BY <1>4, <1>5, <2>3
      <3>2. c # w
        BY <1>1, <3>1
      <3>3. <<c, into[c]>> \in before
        BY <3>1 DEF StoryInv, MergedBefore
      <3> QED
        BY <2>1, <3>1, <3>2, <3>3
    <2> QED
      BY <2>2, <2>3
  <1> QED
    BY <1>9, <1>10, <1>11, <1>12, <1>13, <1>14 DEF StoryInv

-----------------------------------------------------------------------------
(* Maintenance *)

LEMMA RecountInv ==
  ASSUME StoryInv, NEW old \in SUBSET Cluster, Recount(old)
  PROVE  StoryInv'
  <1>1. UNCHANGED <<stored, story, status, into, sum, before>>
    BY DEF Recount
  <1>2. count' \in [Cluster -> Nat]
    <2>1. \A c \in Cluster : Members(c) \in SUBSET Article
      BY DEF Members, StoryInv, StoryTypeOK
    <2>2. \A c \in Cluster : Cardinality(Members(c)) \in Nat
      BY <2>1, Sizes
    <2> QED
      BY <2>2 DEF Recount, StoryInv, StoryTypeOK
  <1> QED
    BY <1>1, <1>2 DEF StoryInv, StoryTypeOK, CountedOnce, StoriesReadable, OldIdsResolve,
       FreshEmpty, MergedBefore, Active

\* A story that goes takes the tombstones that point at it along: they have been
\* idle for longer, and have no articles.
LEMMA PruneInv ==
  ASSUME StoryInv, NEW old \in Idle, PruneRows(old)
  PROVE  StoryInv'
  <1>1. UNCHANGED <<stored, story, into, sum, count, before>>
    BY DEF PruneRows
  <1>2. \A c \in Cluster : status'[c] = IF c \in Orphans(old) THEN "pruned" ELSE status[c]
    BY DEF PruneRows
  <1>3. StoryTypeOK'
    BY <1>1 DEF PruneRows, StoryInv, StoryTypeOK
  <1>4. CountedOnce'
    BY <1>1, <1>2 DEF StoryInv, CountedOnce, Active
  <1>5. StoriesReadable'
    <2> SUFFICES ASSUME NEW a \in stored, story[a] # NoCluster
                 PROVE  status'[story[a]] = "active"
      BY <1>1 DEF StoriesReadable, Active
    <2>1. story[a] \in Cluster
      BY DEF StoryInv, StoryTypeOK
    <2>2. story[a] \notin Orphans(old)
      BY DEF Orphans, Members
    <2> QED
      BY <1>2, <2>1, <2>2 DEF StoryInv, StoriesReadable, Active
  <1>6. OldIdsResolve'
    <2> SUFFICES ASSUME NEW c \in Cluster, status'[c] = "merged"
                 PROVE  /\ into[c] \in Cluster /\ status'[into[c]] = "active"
                        /\ \A a \in stored : sum[c][a] > 0 => story[a] = into[c]
      BY <1>1 DEF OldIdsResolve, Active
    <2>1. status[c] = "merged" /\ c \notin Orphans(old)
      BY <1>2
    <2>2. /\ into[c] \in Cluster /\ status[into[c]] = "active"
          /\ \A a \in stored : sum[c][a] > 0 => story[a] = into[c]
      BY <2>1 DEF StoryInv, OldIdsResolve, Active
    <2>3. Members(c) = {}
      BY <2>1, StoryAssumption DEF Members, StoryInv, StoriesReadable, Active
    <2>4. c \notin old
      BY <2>1, <2>3 DEF Orphans
    <2>5. into[c] \notin old
      <3>1. <<c, into[c]>> \in before
        BY <2>1 DEF StoryInv, MergedBefore
      <3> QED
        BY <2>4, <3>1 DEF Idle
    <2>6. status'[into[c]] = "active"
      BY <1>2, <2>2, <2>5 DEF Orphans
    <2> QED
      BY <2>2, <2>6
  <1>7. FreshEmpty' /\ MergedBefore'
    BY <1>1, <1>2 DEF StoryInv, FreshEmpty, MergedBefore
  <1> QED
    BY <1>3, <1>4, <1>5, <1>6, <1>7 DEF StoryInv

-----------------------------------------------------------------------------
LEMMA StepInv == StoryInv /\ [StoryNext]_rows => StoryInv'
  <1> SUFFICES ASSUME StoryInv, [StoryNext]_rows PROVE StoryInv'
    OBVIOUS
  <1>1. ASSUME NEW a \in Article, Delete(a) PROVE StoryInv'
    BY <1>1, DeleteInv
  <1>2. ASSUME NEW S \in SUBSET Article, NEW f \in Choices(S), AssignRows(f) PROVE StoryInv'
    BY <1>2, AssignInv
  <1>3. ASSUME NEW w \in Cluster, NEW l \in Cluster, MayMerge(w, l) /\ MergeRows(w, l)
        PROVE  StoryInv'
    BY <1>3, MergeInv
  <1>4. ASSUME NEW old \in Idle, Recount(old) PROVE StoryInv'
    <2>1. old \in SUBSET Cluster
      BY DEF Idle
    <2> QED
      BY <1>4, <2>1, RecountInv
  <1>5. ASSUME NEW old \in Idle, PruneRows(old) PROVE StoryInv'
    BY <1>5, PruneInv
  <1>6. CASE UNCHANGED rows
    BY <1>6 DEF rows, StoryInv, StoryTypeOK, CountedOnce, StoriesReadable, OldIdsResolve,
       FreshEmpty, MergedBefore, Active
  <1> QED
    BY <1>1, <1>2, <1>3, <1>4, <1>5, <1>6 DEF StoryNext

\* The tables keep their types, and the invariant the others rest on.
THEOREM StoriesInvariant == StorySpec => []StoryInv
  BY InitInv, StepInv, PTL DEF StorySpec

\* No vector is summed twice (docs/clustering_v2_migration.sql, "can never
\* double-count").
THEOREM SummedOnce == StorySpec => []CountedOnce
  <1>1. StoryInv => CountedOnce
    BY DEF StoryInv
  <1> QED
    BY <1>1, StoriesInvariant, PTL

\* No article is left in a story that is gone.
THEOREM NoneInADeadStory == StorySpec => []StoriesReadable
  <1>1. StoryInv => StoriesReadable
    BY DEF StoryInv
  <1> QED
    BY <1>1, StoriesInvariant, PTL

\* Pointers of tombstones lead to a live story in one step (docs/CLUSTERING.md).
THEOREM PointersResolve == StorySpec => []OldIdsResolve
  <1>1. StoryInv => OldIdsResolve
    BY DEF StoryInv
  <1> QED
    BY <1>1, StoriesInvariant, PTL

-----------------------------------------------------------------------------
(* Counts *)

\* The articles that were ever added to a story, deleted ones included.
Summed(c) == {a \in Article : sum[c][a] > 0}

\* No article, deleted or not, was added to two active stories.
SummedApart ==
  \A c, d \in Cluster : Active(c) /\ Active(d) /\ c # d => Summed(c) \cap Summed(d) = {}

\* The count of an active story lies between the articles it has and all it ever had;
\* the reconciliation may have taken the deleted ones out of it or not.
CountWithin ==
  \A c \in Cluster : Active(c) =>
    Cardinality(Members(c)) <= count[c] /\ count[c] <= Cardinality(Summed(c))

\* A story that is not there yet counts nothing.
FreshCount == \A c \in Cluster : status[c] = "none" => count[c] = 0

CountInv == SummedApart /\ CountWithin /\ FreshCount

LEMMA PartsOfArticles ==
  ASSUME StoryInv, NEW c \in Cluster
  PROVE  /\ Members(c) \in SUBSET Article /\ Summed(c) \in SUBSET Article
         /\ Active(c) => Members(c) \subseteq Summed(c)
         /\ status[c] = "none" => Members(c) = {} /\ Summed(c) = {}
  <1>1. Members(c) \in SUBSET Article /\ Summed(c) \in SUBSET Article
    BY DEF StoryInv, StoryTypeOK, Members, Summed
  <1>2. ASSUME Active(c), NEW a \in Members(c) PROVE a \in Summed(c)
    <2>1. sum[c][a] = 1
      BY <1>2 DEF Members, StoryInv, CountedOnce
    <2> QED
      BY <1>1, <2>1 DEF Summed
  <1>3. status[c] = "none" => Members(c) = {}
    BY StoryAssumption DEF StoryInv, StoriesReadable, Members, Active
  <1>4. status[c] = "none" => Summed(c) = {}
    BY DEF StoryInv, FreshEmpty, Summed
  <1> QED
    BY <1>1, <1>2, <1>3, <1>4

LEMMA SubsetSize ==
  ASSUME NEW S \in SUBSET Article, NEW T \in SUBSET S
  PROVE  /\ IsFiniteSet(S) /\ IsFiniteSet(T)
         /\ Cardinality(S) \in Nat /\ Cardinality(T) \in Nat
         /\ Cardinality(T) <= Cardinality(S)
  BY StoryAssumption, FS_Subset, FS_CardinalityType

LEMMA DisjointSize ==
  ASSUME NEW S \in SUBSET Article, NEW T \in SUBSET Article, S \cap T = {}
  PROVE  Cardinality(S \cup T) = Cardinality(S) + Cardinality(T)
  <1>1. IsFiniteSet(S) /\ IsFiniteSet(T)
    BY StoryAssumption, FS_Subset
  <1>2. Cardinality(S) \in Nat /\ Cardinality(T) \in Nat
    BY <1>1, FS_CardinalityType
  <1>3. Cardinality(S \cap T) = 0
    BY FS_EmptySet
  <1>4. Cardinality(S \cup T) = Cardinality(S) + Cardinality(T) - Cardinality(S \cap T)
    BY <1>1, FS_Union
  <1> QED
    BY <1>2, <1>3, <1>4

LEMMA InitCounts == StoryInit => CountInv
  BY DEF StoryInit, CountInv, SummedApart, CountWithin, FreshCount, Active

LEMMA DeleteCounts ==
  ASSUME StoryInv, CountInv, NEW a \in Article, Delete(a)
  PROVE  CountInv'
  <1>1. UNCHANGED <<status, sum, count>>
    BY DEF Delete
  <1>2. \A c \in Cluster : Summed(c)' = Summed(c) /\ Members(c)' \in SUBSET Members(c)
    BY StoryAssumption, <1>1 DEF Summed, Members, Delete, StoryInv, StoryTypeOK
  <1>3. \A c \in Cluster : Cardinality(Members(c)') \in Nat
                           /\ Cardinality(Members(c)) \in Nat
                           /\ Cardinality(Members(c)') <= Cardinality(Members(c))
    BY <1>2, PartsOfArticles, SubsetSize
  <1>4. CountWithin'
    <2> SUFFICES ASSUME NEW c \in Cluster, Active(c)
                 PROVE  Cardinality(Members(c)') <= count[c] /\ count[c] <= Cardinality(Summed(c))
      BY <1>1, <1>2 DEF CountWithin, Active
    <2> QED
      BY <1>3 DEF CountInv, CountWithin, StoryInv, StoryTypeOK
  <1> QED
    BY <1>1, <1>2, <1>4 DEF CountInv, SummedApart, FreshCount, Active

LEMMA AssignCounts ==
  ASSUME StoryInv, CountInv, NEW S \in SUBSET Article, NEW f \in Choices(S), AssignRows(f)
  PROVE  CountInv'
  <1>1. \A c \in Cluster : /\ Joining(f, c) \in SUBSET stored
                           /\ \A a \in Joining(f, c) : story[a] = NoCluster /\ f[a] = c
                           /\ Joining(f, c) # {} => status[c] \in {"none", "active"}
    BY DEF Joining, Placed, Choices
  <1>2. /\ \A c \in Cluster : status'[c] = IF Joining(f, c) # {} THEN "active" ELSE status[c]
        /\ \A c \in Cluster : count'[c] = count[c] + Cardinality(Joining(f, c))
        /\ stored' = stored
    BY DEF AssignRows
  <1>3. \A c \in Cluster : Members(c)' = Members(c) \cup Joining(f, c)
    <2> SUFFICES ASSUME NEW c \in Cluster, NEW a \in stored
                 PROVE  story'[a] = c <=> story[a] = c \/ a \in Joining(f, c)
      BY <1>1, <1>2 DEF Members
    <2>1. a \in Article
      BY DEF StoryInv, StoryTypeOK
    <2>2. story'[a] = IF a \in Placed(f) THEN f[a] ELSE story[a]
      BY <2>1 DEF AssignRows
    <2>3. a \in Placed(f) => story[a] = NoCluster /\ NoCluster # c
      BY StoryAssumption DEF Placed
    <2> QED
      BY <2>2, <2>3 DEF Joining
  <1>4. \A c \in Cluster : Summed(c)' = Summed(c) \cup Joining(f, c)
    <2> SUFFICES ASSUME NEW c \in Cluster, NEW a \in Article
                 PROVE  sum'[c][a] > 0 <=> sum[c][a] > 0 \/ a \in Joining(f, c)
      BY <1>1 DEF Summed, StoryInv, StoryTypeOK
    <2>1. sum[c][a] \in Nat
      BY DEF StoryInv, StoryTypeOK
    <2>2. sum'[c][a] = IF a \in Joining(f, c) THEN sum[c][a] + 1 ELSE sum[c][a]
      BY DEF AssignRows
    <2> QED
      BY <2>1, <2>2
  <1>5. \A a \in stored : a \in Article
    BY DEF StoryInv, StoryTypeOK
  <1>6. \A c, d \in Cluster : status[c] \in {"none", "active"} => Summed(c) \cap Joining(f, d) = {}
    <2> SUFFICES ASSUME NEW c \in Cluster, NEW d \in Cluster, NEW a \in Joining(f, d),
                        status[c] \in {"none", "active"}
                 PROVE  sum[c][a] = 0
      BY DEF Summed
    <2>1. a \in stored /\ a \in Article /\ story[a] = NoCluster /\ NoCluster # c
      BY <1>1, <1>5, StoryAssumption
    <2> QED
      BY <2>1 DEF StoryInv, CountedOnce, FreshEmpty, Active
  <1>7. \A c \in Cluster : status'[c] = "active" => status[c] \in {"none", "active"}
    BY <1>1, <1>2 DEF StoryInv, StoryTypeOK
  <1>8. SummedApart'
    <2> SUFFICES ASSUME NEW c \in Cluster, NEW d \in Cluster, c # d,
                        status'[c] = "active", status'[d] = "active"
                 PROVE  (Summed(c) \cup Joining(f, c)) \cap (Summed(d) \cup Joining(f, d)) = {}
      BY <1>4 DEF SummedApart, Active
    <2>1. Summed(c) \cap Summed(d) = {}
      BY <1>7, PartsOfArticles DEF CountInv, SummedApart, Active
    <2>2. Joining(f, c) \cap Joining(f, d) = {}
      BY <1>1
    <2> QED
      BY <1>6, <1>7, <2>1, <2>2
  <1>9. CountWithin'
    <2> SUFFICES ASSUME NEW c \in Cluster, status'[c] = "active"
                 PROVE  /\ Cardinality(Members(c) \cup Joining(f, c)) <= count'[c]
                        /\ count'[c] <= Cardinality(Summed(c) \cup Joining(f, c))
      BY <1>3, <1>4 DEF CountWithin, Active
    <2> DEFINE J == Joining(f, c)
    <2>1. status[c] \in {"none", "active"}
      BY <1>7
    <2>2. J \in SUBSET Article /\ Members(c) \in SUBSET Article /\ Summed(c) \in SUBSET Article
      BY <1>1, <1>5, PartsOfArticles
    <2>3. Members(c) \cap J = {} /\ Summed(c) \cap J = {}
      BY <1>1, <1>6, <2>1, StoryAssumption DEF Members
    <2>4. Cardinality(Members(c)) <= count[c] /\ count[c] <= Cardinality(Summed(c))
      <3>1. CASE status[c] = "active"
        BY <3>1 DEF CountInv, CountWithin, Active
      <3>2. CASE status[c] = "none"
        BY <3>2, PartsOfArticles, FS_EmptySet DEF CountInv, FreshCount
      <3> QED
        BY <2>1, <3>1, <3>2
    <2>5. /\ Cardinality(Members(c)) \in Nat /\ Cardinality(Summed(c)) \in Nat
          /\ Cardinality(J) \in Nat /\ count[c] \in Nat
      BY <2>2, Sizes DEF StoryInv, StoryTypeOK
    <2>6. count'[c] = count[c] + Cardinality(J)
      BY <1>2
    <2> HIDE DEF J
    <2>7. /\ Cardinality(Members(c) \cup J) = Cardinality(Members(c)) + Cardinality(J)
          /\ Cardinality(Summed(c) \cup J) = Cardinality(Summed(c)) + Cardinality(J)
      BY <2>2, <2>3, DisjointSize
    <2>8. Cardinality(Members(c) \cup J) <= count'[c] /\ count'[c] <= Cardinality(Summed(c) \cup J)
      BY <2>4, <2>5, <2>6, <2>7
    <2> QED
      BY <2>8 DEF J
  <1>10. FreshCount'
    <2> SUFFICES ASSUME NEW c \in Cluster, status'[c] = "none" PROVE count'[c] = 0
      BY DEF FreshCount
    <2>1. Joining(f, c) = {} /\ status[c] = "none"
      BY <1>2
    <2>2. Cardinality(Joining(f, c)) = 0
      BY <2>1, FS_EmptySet
    <2>3. count[c] = 0 /\ count'[c] = count[c] + Cardinality(Joining(f, c))
      BY <1>2, <2>1 DEF CountInv, FreshCount
    <2> QED
      BY <2>2, <2>3
  <1> QED
    BY <1>8, <1>9, <1>10 DEF CountInv

LEMMA MergeCounts ==
  ASSUME StoryInv, CountInv, NEW w \in Cluster, NEW l \in Cluster, MayMerge(w, l), MergeRows(w, l)
  PROVE  CountInv'
  <1>1. w # l /\ Active(w) /\ Active(l)
    BY DEF MayMerge
  <1>2. /\ \A c \in Cluster : status'[c] = IF c = l THEN "merged" ELSE status[c]
        /\ \A c \in Cluster : count'[c] = IF c = w THEN count[w] + count[l] ELSE count[c]
        /\ stored' = stored
    BY DEF MergeRows, MergedCount, StoryInv, StoryTypeOK
  <1>3. \A c \in Cluster \ {l} :
          Members(c)' = IF c = w THEN Members(w) \cup Members(l) ELSE Members(c)
    BY <1>1 DEF MergeRows, Members, StoryInv, StoryTypeOK
  <1>4. \A c \in Cluster :
          Summed(c)' = IF c = w THEN Summed(w) \cup Summed(l) ELSE Summed(c)
    <2> SUFFICES ASSUME NEW c \in Cluster, NEW a \in Article
                 PROVE  sum'[c][a] > 0 <=>
                          IF c = w THEN sum[w][a] > 0 \/ sum[l][a] > 0 ELSE sum[c][a] > 0
      BY DEF Summed
    <2>1. sum'[c][a] = IF c = w THEN sum[w][a] + sum[l][a] ELSE sum[c][a]
      BY DEF MergeRows, StoryInv, StoryTypeOK
    <2>2. sum[w][a] \in Nat /\ sum[l][a] \in Nat
      BY DEF StoryInv, StoryTypeOK
    <2> QED
      BY <2>1, <2>2
  <1>5. SummedApart'
    <2> SUFFICES ASSUME NEW c \in Cluster, NEW d \in Cluster, c # d,
                        status'[c] = "active", status'[d] = "active"
                 PROVE  Summed(c)' \cap Summed(d)' = {}
      BY DEF SummedApart, Active
    <2>1. c # l /\ d # l /\ Active(c) /\ Active(d)
      BY <1>2 DEF Active
    <2> QED
      BY <1>1, <1>4, <2>1 DEF CountInv, SummedApart
  <1>6. CountWithin'
    <2> SUFFICES ASSUME NEW c \in Cluster, status'[c] = "active"
                 PROVE  Cardinality(Members(c)') <= count'[c] /\ count'[c] <= Cardinality(Summed(c)')
      BY DEF CountWithin, Active
    <2>1. c # l /\ Active(c)
      BY <1>2 DEF Active
    <2>2. CASE c # w
      BY <1>2, <1>3, <1>4, <2>1, <2>2 DEF CountInv, CountWithin
    <2>3. CASE c = w
      <3>1. /\ Members(w) \in SUBSET Article /\ Members(l) \in SUBSET Article
            /\ Summed(w) \in SUBSET Article /\ Summed(l) \in SUBSET Article
        BY PartsOfArticles
      <3>2. Members(w) \cap Members(l) = {} /\ Summed(w) \cap Summed(l) = {}
        BY <1>1 DEF Members, CountInv, SummedApart
      <3>3. /\ Cardinality(Members(c)') = Cardinality(Members(w)) + Cardinality(Members(l))
            /\ Cardinality(Summed(c)') = Cardinality(Summed(w)) + Cardinality(Summed(l))
        BY <1>3, <1>4, <2>1, <2>3, <3>1, <3>2, DisjointSize
      <3>4. /\ Cardinality(Members(w)) <= count[w] /\ count[w] <= Cardinality(Summed(w))
            /\ Cardinality(Members(l)) <= count[l] /\ count[l] <= Cardinality(Summed(l))
        BY <1>1 DEF CountInv, CountWithin
      <3>5. /\ Cardinality(Members(w)) \in Nat /\ Cardinality(Summed(w)) \in Nat
            /\ Cardinality(Members(l)) \in Nat /\ Cardinality(Summed(l)) \in Nat
            /\ count[w] \in Nat /\ count[l] \in Nat
        BY <3>1, Sizes DEF StoryInv, StoryTypeOK
      <3>6. count'[c] = count[w] + count[l]
        BY <1>2, <2>3
      <3> QED
        BY <3>3, <3>4, <3>5, <3>6
    <2> QED
      BY <2>2, <2>3
  <1>7. FreshCount'
    BY <1>1, <1>2 DEF CountInv, FreshCount, Active
  <1> QED
    BY <1>5, <1>6, <1>7 DEF CountInv

LEMMA RecountCounts ==
  ASSUME StoryInv, CountInv, NEW old \in SUBSET Cluster, Recount(old)
  PROVE  CountInv'
  <1>1. UNCHANGED <<stored, story, status, sum>>
    BY DEF Recount
  <1>2. \A c \in Cluster : Members(c)' = Members(c) /\ Summed(c)' = Summed(c)
    BY <1>1 DEF Members, Summed
  <1>3. CountWithin'
    <2> SUFFICES ASSUME NEW c \in Cluster, Active(c)
                 PROVE  /\ Cardinality(Members(c)) <= count'[c]
                        /\ count'[c] <= Cardinality(Summed(c))
      BY <1>1, <1>2 DEF CountWithin, Active
    <2>1. count'[c] = count[c] \/ count'[c] = Cardinality(Members(c))
      BY DEF Recount
    <2>2. Summed(c) \in SUBSET Article /\ Members(c) \in SUBSET Summed(c)
      BY PartsOfArticles
    <2>3. /\ Cardinality(Members(c)) \in Nat
          /\ Cardinality(Members(c)) <= Cardinality(Summed(c))
      BY <2>2, SubsetSize
    <2> QED
      BY <2>1, <2>3 DEF CountInv, CountWithin
  <1> QED
    BY <1>1, <1>2, <1>3 DEF CountInv, SummedApart, FreshCount, Recount, Active

LEMMA StepCounts == StoryInv /\ CountInv /\ [StoryNext]_rows => CountInv'
  <1> SUFFICES ASSUME StoryInv, CountInv, [StoryNext]_rows PROVE CountInv'
    OBVIOUS
  <1>1. ASSUME NEW a \in Article, Delete(a) PROVE CountInv'
    BY <1>1, DeleteCounts
  <1>2. ASSUME NEW S \in SUBSET Article, NEW f \in Choices(S), AssignRows(f) PROVE CountInv'
    BY <1>2, AssignCounts
  <1>3. ASSUME NEW w \in Cluster, NEW l \in Cluster, MayMerge(w, l) /\ MergeRows(w, l)
        PROVE  CountInv'
    BY <1>3, MergeCounts
  <1>4. ASSUME NEW old \in Idle, Recount(old) PROVE CountInv'
    <2>1. old \in SUBSET Cluster
      BY DEF Idle
    <2> QED
      BY <1>4, <2>1, RecountCounts
  <1>5. ASSUME NEW old \in Idle, PruneRows(old) PROVE CountInv'
    <2>1. UNCHANGED <<stored, story, sum, count>>
      BY <1>5 DEF PruneRows
    <2>2. \A c \in Cluster : Members(c)' = Members(c) /\ Summed(c)' = Summed(c)
      BY <2>1 DEF Members, Summed
    <2>3. \A c \in Cluster : status'[c] = status[c] \/ status'[c] = "pruned"
      BY <1>5 DEF PruneRows
    <2> QED
      BY <2>1, <2>2, <2>3 DEF CountInv, SummedApart, CountWithin, FreshCount, Active
  <1>6. CASE UNCHANGED rows
    BY <1>6 DEF rows, CountInv, SummedApart, CountWithin, FreshCount, Active, Members, Summed
  <1> QED
    BY <1>1, <1>2, <1>3, <1>4, <1>5, <1>6 DEF StoryNext

\* article_count is the number of a story's articles, unless one was deleted, and never
\* less (docs/clustering_v2_migration.sql:721): it stays between the members and
\* all articles ever added, and without deleted ones the two are the same.
THEOREM CountsAreRight == StorySpec => []CountsAgree
  <1>1. StoryInv /\ CountInv => CountsAgree
    <2> SUFFICES ASSUME StoryInv, CountInv, NEW c \in Cluster, Active(c)
                 PROVE  /\ count[c] >= Cardinality(Members(c))
                        /\ (\A a \in Article \ stored : sum[c][a] = 0) =>
                             count[c] = Cardinality(Members(c))
      BY DEF CountsAgree
    <2>1. Cardinality(Members(c)) <= count[c] /\ count[c] <= Cardinality(Summed(c))
      BY DEF CountInv, CountWithin
    <2>2. Cardinality(Members(c)) \in Nat /\ count[c] \in Nat
      BY PartsOfArticles, Sizes DEF StoryInv, StoryTypeOK
    <2>3. (\A a \in Article \ stored : sum[c][a] = 0) => Summed(c) = Members(c)
      BY PartsOfArticles DEF Summed, Members, StoryInv, CountedOnce
    <2> QED
      BY <2>1, <2>2, <2>3
  <1>2. StorySpec => [](StoryInv /\ CountInv)
    BY InitInv, InitCounts, StepInv, StepCounts, PTL DEF StorySpec
  <1> QED
    BY <1>1, <1>2, PTL

-----------------------------------------------------------------------------
(* The jobs of cluster.py: StoryJobs *)

CareStates ==
  [at : {"idle", "probe", "merge", "count", "prune"},
   plan : SUBSET (Cluster \X Cluster), round : Int, merged : BOOLEAN]

\* What the jobs remember are articles and pairs of stories.
Remembered ==
  /\ job \in [at : {"idle", "run"}, after : {-1} \cup {Last(S) : S \in SUBSET Article},
              page : SUBSET Article]
  /\ care \in CareStates

JobsInv == StoryTypeOK /\ Remembered

LEMMA CountingIsState == NoCare \in CareStates /\ [NoCare EXCEPT !.at = "count"] \in CareStates
  <1>1. {} \in SUBSET (Cluster \X Cluster)
    OBVIOUS
  <1>2. NoCare \in CareStates
    BY <1>1 DEF NoCare, CareStates
  <1>3. \A s \in CareStates : [s EXCEPT !.at = "count"] \in CareStates
    BY DEF CareStates
  <1> QED
    BY <1>2, <1>3

LEMMA FirstIsPart == \A S, n : First(S, n) \subseteq S
  BY DEF First

LEMMA PlansArePairs == \A P \in Plans : P \subseteq Cluster \X Cluster
  BY DEF Plans, Pairs

LEMMA JobPageStep ==
  ASSUME JobsInv, JobPage
  PROVE  UNCHANGED rows /\ Remembered'
  <1> DEFINE page == First({a \in Unclustered : a > job.after}, PageSize)
  <1>1. page \in SUBSET Article
    BY FirstIsPart DEF Unclustered, JobsInv, StoryTypeOK
  <1>2. job' \in {NoJob, [at |-> "run", after |-> Last(page), page |-> page]}
    BY DEF JobPage
  <1> HIDE DEF page
  <1>3. UNCHANGED rows /\ care' = care
    BY DEF JobPage
  <1> QED
    BY <1>1, <1>2, <1>3 DEF JobsInv, Remembered, NoJob

LEMMA JobAssignStep ==
  ASSUME JobsInv, JobAssign
  PROVE  StoryNext /\ Remembered'
  <1> DEFINE chunk == First(job.page, BatchSize)
  <1>1. chunk \in SUBSET Article
    BY FirstIsPart DEF JobsInv, Remembered
  <1>2. \E S \in SUBSET chunk : \E f \in Choices(S) : AssignRows(f)
    <2>1. CASE \E f \in Choices(chunk) : AssignRows(f)
      BY <2>1
    <2>2. CASE \E bad \in SUBSET chunk : \E f \in Choices(chunk \ bad) : AssignRows(f)
      <3>1. PICK bad \in SUBSET chunk : \E f \in Choices(chunk \ bad) : AssignRows(f)
        BY <2>2
      <3>2. chunk \ bad \in SUBSET chunk
        OBVIOUS
      <3> QED
        BY <3>1, <3>2
    <2> QED
      BY <2>1, <2>2 DEF JobAssign
  <1>3. job' = job \/ job' = [job EXCEPT !.page = job.page \ chunk]
    BY DEF JobAssign
  <1>4. care' = care
    BY DEF JobAssign
  <1> HIDE DEF chunk
  <1>5. StoryNext
    BY <1>1, <1>2 DEF StoryNext
  <1>6. Remembered'
    BY <1>3, <1>4 DEF JobsInv, Remembered
  <1> QED
    BY <1>5, <1>6

LEMMA CareMergeStep ==
  ASSUME JobsInv, CareMerge
  PROVE  [StoryNext]_rows /\ Remembered'
  <1>1. PICK p \in care.plan :
          /\ \/ MayMerge(p[1], p[2]) /\ MergeRows(p[1], p[2])
             \/ UNCHANGED rows
          /\ \/ care' = [care EXCEPT !.plan = care.plan \ {p}]
             \/ care' = [[care EXCEPT !.plan = care.plan \ {p}] EXCEPT !.merged = TRUE]
    BY DEF CareMerge
  <1>2. p[1] \in Cluster /\ p[2] \in Cluster
    BY DEF JobsInv, Remembered, CareStates
  <1>3. [StoryNext]_rows
    BY <1>1, <1>2 DEF StoryNext
  <1>4. job' = job
    BY DEF CareMerge
  <1>5. Remembered'
    BY <1>1, <1>4 DEF JobsInv, Remembered, CareStates
  <1> QED
    BY <1>3, <1>5

LEMMA JobsStepMaps ==
  ASSUME JobsInv, [JobsNext]_jobsVars
  PROVE  [StoryNext]_rows /\ Remembered'
  <1>1. CASE JobPage
    BY <1>1, JobPageStep
  <1>2. CASE JobAssign
    BY <1>2, JobAssignStep
  <1>3. CASE JobEnd
    BY <1>3 DEF JobEnd, JobsInv, Remembered, NoJob
  <1>4. CASE CarePlan
    <2>1. PICK P \in Plans :
            care' = IF P = {} THEN [NoCare EXCEPT !.at = "count"]
                    ELSE [at |-> "merge", plan |-> P, round |-> care.round + 1, merged |-> FALSE]
      BY <1>4 DEF CarePlan
    <2>2. P \in SUBSET (Cluster \X Cluster)
      BY PlansArePairs
    <2>3. UNCHANGED rows /\ job' = job
      BY <1>4 DEF CarePlan
    <2>4. P = {} => care' \in CareStates
      BY <2>1, CountingIsState
    <2>5. P # {} => care' \in CareStates
      BY <2>1, <2>2 DEF JobsInv, Remembered, CareStates
    <2> QED
      BY <2>3, <2>4, <2>5 DEF JobsInv, Remembered
  <1>5. CASE CareMerge
    BY <1>5, CareMergeStep
  <1>6. CASE CareRound
    <2>1. UNCHANGED rows /\ job' = job
      BY <1>6 DEF CareRound
    <2>2. [care EXCEPT !.at = "probe"] \in CareStates
      BY DEF JobsInv, Remembered, CareStates
    <2>3. care' \in CareStates
      BY <1>6, <2>2, CountingIsState DEF CareRound
    <2> QED
      BY <2>1, <2>3 DEF JobsInv, Remembered
  <1>7. CASE CareCount
    BY <1>7 DEF CareCount, StoryNext, JobsInv, Remembered, CareStates
  <1>8. CASE CarePrune
    BY <1>8, CountingIsState DEF CarePrune, StoryNext, JobsInv, Remembered
  <1>9. CASE CareEnd
    BY <1>9, CountingIsState DEF CareEnd, JobsInv, Remembered
  <1>10. CASE OtherWriters
    <2>1. UNCHANGED <<job, care>>
      BY <1>10 DEF OtherWriters
    <2>2. ASSUME NEW a \in Article, NEW f \in Choices({a}), AssignRows(f) PROVE StoryNext
      <3>1. {a} \in SUBSET Article
        OBVIOUS
      <3>2. \E S \in SUBSET Article : \E g \in Choices(S) : AssignRows(g)
        BY <2>2, <3>1
      <3> QED
        BY <3>2 DEF StoryNext
    <2>3. ASSUME NEW a \in Article, Delete(a) PROVE StoryNext
      BY <2>3 DEF StoryNext
    <2>4. ASSUME NEW w \in Cluster, NEW l \in Cluster, MayMerge(w, l), MergeRows(w, l)
          PROVE  StoryNext
      BY <2>4 DEF StoryNext
    <2>5. StoryNext
      BY <1>10, <2>2, <2>3, <2>4 DEF OtherWriters
    <2> QED
      BY <2>1, <2>5 DEF JobsInv, Remembered
  <1>11. CASE UNCHANGED jobsVars
    BY <1>11 DEF jobsVars, JobsInv, Remembered
  <1> QED
    BY <1>1, <1>2, <1>3, <1>4, <1>5, <1>6, <1>7, <1>8, <1>9, <1>10, <1>11 DEF JobsNext

LEMMA JobsInitMaps == JobsInit => StoryInit /\ Remembered
  BY CountingIsState DEF JobsInit, Remembered, NoJob

LEMMA JobsKeepInv == StoryInv /\ Remembered /\ [JobsNext]_jobsVars => StoryInv' /\ Remembered'
  <1> SUFFICES ASSUME StoryInv, Remembered, [JobsNext]_jobsVars PROVE StoryInv' /\ Remembered'
    OBVIOUS
  <1>1. JobsInv
    BY DEF JobsInv, StoryInv
  <1> QED
    BY <1>1, JobsStepMaps, StepInv

LEMMA JobsInvariant == JobsSpec => [](StoryInv /\ Remembered)
  <1>1. JobsInit => StoryInv /\ Remembered
    BY JobsInitMaps, InitInv
  <1> QED
    BY <1>1, JobsKeepInv, PTL DEF JobsSpec

\* The jobs and the direct runs beside them do nothing to the tables but what the
\* SQL functions allow.
THEOREM JobsImplementStories == JobsSpec => StorySpec
  <1>1. JobsInit => StoryInit
    BY JobsInitMaps
  <1>2. StoryInv /\ Remembered /\ [JobsNext]_jobsVars => [StoryNext]_rows
    BY JobsStepMaps DEF JobsInv, StoryInv
  <1> QED
    BY <1>1, <1>2, JobsInvariant, PTL DEF JobsSpec, StorySpec

-----------------------------------------------------------------------------
(* Direct runs: DirectRun *)

Runs == [at : Step, forced : BOOLEAN, todo : SUBSET Article,
         known : SUBSET Article, final : SUBSET Article]

\* Everything in TypeOK but the story tables.
MarksTyped ==
  /\ enriched \subseteq stored /\ leased \subseteq stored /\ error \subseteq stored
  /\ attempts \in [Article -> 0 .. MaxTries]
  /\ copies \in [Article -> Nat]
  /\ run \in [Run -> Runs]
  /\ kept \subseteq Article /\ shared \subseteq Article
  /\ faults \in 0 .. MaxFaults

\* A slot without a run remembers nothing.
IdleEmpty == \A r \in Run : run[r].at = "idle" => run[r].todo = {}

\* An article that was never in two runs is in one, which has not marked it.
Alone ==
  \A r \in Run : \A a \in run[r].todo \ shared :
    a \notin enriched /\ \A q \in Run : a \in run[q].todo => q = r

\* What a run has written of its article when it is at a step.
EntitiesWritten ==
  \A r \in Run : \A a \in (Current(r) \cap WithEntities \cap stored) \ shared :
    /\ run[r].at = "insert" => copies[a] = 0
    /\ run[r].at \in {"assign", "assignAgain", "save"} => copies[a] = 1

StoryWritten ==
  \A r \in Run :
    /\ \A a \in run[r].known \cap stored : story[a] # NoCluster
    /\ run[r].at = "save" => \A a \in Current(r) \cap stored \cap Embeddable : story[a] # NoCluster

\* No insert is made twice when no reply of one is lost.
InsertOnce == \A r \in Run : run[r].at # "insertAgain"

BaseInv == StoryInv /\ MarksTyped /\ IdleEmpty

SavedInv ==
  /\ BaseInv /\ Alone /\ EntitiesWritten /\ StoryWritten /\ InsertOnce /\ SavedBeforeMarked

-----------------------------------------------------------------------------
(* Runs and their articles *)

LEMMA StepStrings == Step = {"idle", "next", "delete", "insert", "insertAgain", "assign", "assignAgain", "save"}
  BY DEF Step

LEMMA CurrentOfTodo ==
  ASSUME MarksTyped, NEW r \in Run
  PROVE  /\ Current(r) \subseteq run[r].todo /\ Current(r) \subseteq Article
         /\ \A a, b \in Current(r) : a = b
  <1>1. run[r].todo \subseteq Article
    BY DEF MarksTyped, Runs
  <1>2. Current(r) \subseteq run[r].todo
    BY DEF Current
  <1>3. ASSUME NEW a \in Current(r), NEW b \in Current(r) PROVE a = b
    <2>1. a <= b /\ b <= a
      BY <1>3 DEF Current
    <2>2. a \in Nat /\ b \in Nat
      BY <1>1, <1>2, StoryAssumption
    <2> QED
      BY <2>1, <2>2
  <1> QED
    BY <1>1, <1>2, <1>3

\* A run that goes to its next step keeps its articles.
LEMMA AtFacts ==
  ASSUME MarksTyped, NEW r \in Run, NEW step \in Step, run' = At(r, step)
  PROVE  /\ run' \in [Run -> Runs]
         /\ run'[r].at = step
         /\ \A q \in Run : /\ run'[q].forced = run[q].forced /\ run'[q].todo = run[q].todo
                           /\ run'[q].known = run[q].known /\ run'[q].final = run[q].final
                           /\ q # r => run'[q] = run[q]
                           /\ Current(q)' = Current(q)
  <1>1. run \in [Run -> Runs]
    BY DEF MarksTyped
  <1>2. run' = [run EXCEPT ![r] = [run[r] EXCEPT !.at = step]]
    BY DEF At
  <1>3. [run[r] EXCEPT !.at = step] \in Runs
    BY <1>1 DEF Runs
  <1>4. run' \in [Run -> Runs]
    BY <1>1, <1>2, <1>3
  <1>5. run'[r] = [run[r] EXCEPT !.at = step] /\ \A q \in Run : q # r => run'[q] = run[q]
    BY <1>1, <1>2
  <1>6. /\ run'[r].at = step /\ run'[r].forced = run[r].forced /\ run'[r].todo = run[r].todo
        /\ run'[r].known = run[r].known /\ run'[r].final = run[r].final
    BY <1>1, <1>5 DEF Runs
  <1>7. \A q \in Run : Current(q)' = Current(q)
    BY <1>5, <1>6 DEF Current
  <1> QED
    BY <1>4, <1>5, <1>6, <1>7

LEMMA NoRunIsRun == NoRun \in Runs /\ NoRun.todo = {} /\ NoRun.known = {} /\ NoRun.at = "idle"
                    /\ NoRun.forced = FALSE
  BY DEF NoRun, Runs, Step

LEMMA PoppedFacts ==
  ASSUME MarksTyped, NEW r \in Run, NEW a \in run[r].todo, run' = Popped(r, a)
  PROVE  /\ run' \in [Run -> Runs]
         /\ run'[r].at \in {"idle", "next"}
         /\ run'[r].at = "idle" => run'[r].todo = {}
         /\ run'[r].todo = run[r].todo \ {a} /\ run'[r].known \subseteq run[r].known
         /\ run'[r].todo # {} => run'[r].forced = run[r].forced
         /\ \A q \in Run : q # r => run'[q] = run[q] /\ Current(q)' = Current(q)
  <1> DEFINE rest == [run[r] EXCEPT !.at = "next", !.todo = @ \ {a}, !.known = @ \ {a},
                                    !.final = @ \ {a}]
  <1>1. run \in [Run -> Runs] /\ run[r] \in Runs
    BY DEF MarksTyped
  <1>2. run' = [run EXCEPT ![r] = IF run[r].todo = {a} THEN NoRun ELSE rest]
    BY DEF Popped
  <1>3. /\ rest \in Runs /\ rest.at = "next" /\ rest.todo = run[r].todo \ {a}
        /\ rest.known = run[r].known \ {a} /\ rest.forced = run[r].forced
    <2>1. /\ run[r].todo \ {a} \in SUBSET Article /\ run[r].known \ {a} \in SUBSET Article
          /\ run[r].final \ {a} \in SUBSET Article
      BY <1>1 DEF Runs
    <2> QED
      BY <1>1, <2>1 DEF Runs, Step
  <1> HIDE DEF rest
  <1>4. /\ run'[r] = IF run[r].todo = {a} THEN NoRun ELSE rest
        /\ \A q \in Run : q # r => run'[q] = run[q]
    BY <1>1, <1>2
  <1>5. run' \in [Run -> Runs]
    BY <1>1, <1>2, <1>3, NoRunIsRun
  <1>6. \A q \in Run : q # r => Current(q)' = Current(q)
    BY <1>4 DEF Current
  <1> QED
    BY <1>3, <1>4, <1>5, <1>6, NoRunIsRun

LEMMA AfterIsStep ==
  ASSUME NEW r \in Run, NEW a, run' = AfterEntities(r, a)
  PROVE  \E step \in {"assign", "save"} :
           /\ run' = At(r, step)
           /\ step = "save" => a \notin Embeddable \ run[r].known
  BY DEF AfterEntities

-----------------------------------------------------------------------------
(* Every step is one of the tables *)

LEMMA RunStepMaps ==
  ASSUME NEW r \in Run, MarksTyped, RunStep(r)
  PROVE  [StoryNext]_rows
  <1>1. CASE Claim(r) \/ ForceRun(r) \/ Stop(r) \/ Kill(r)
    BY <1>1 DEF Claim, ForceRun, Stop, Kill
  <1>2. ASSUME NEW a \in Current(r),
               Enrich(r, a) \/ DeleteEntities(r, a) \/ InsertEntities(r, a) \/ SaveArticle(r, a)
        PROVE  [StoryNext]_rows
    BY <1>2 DEF Enrich, DeleteEntities, InsertEntities, SaveArticle
  <1>3. ASSUME NEW a \in Current(r), AssignStory(r, a)
        PROVE  [StoryNext]_rows
    <2>1. UNCHANGED rows \/ \E f \in Choices({a}) : AssignRows(f)
      BY <1>3 DEF AssignStory
    <2>2. {a} \in SUBSET Article
      BY CurrentOfTodo
    <2> QED
      BY <2>1, <2>2 DEF StoryNext
  <1> QED
    BY <1>1, <1>2, <1>3 DEF RunStep

LEMMA StepMaps == MarksTyped /\ [Next]_vars => [StoryNext]_rows
  <1> SUFFICES ASSUME MarksTyped, [Next]_vars PROVE [StoryNext]_rows
    OBVIOUS
  <1>1. CASE \E r \in Run : RunStep(r)
    BY <1>1, RunStepMaps
  <1>2. CASE \E a \in Article : Expire(a) \/ Deleted(a)
    BY <1>2 DEF Expire, Deleted, StoryNext
  <1>3. CASE Others
    <2>1. PICK a \in Article : \E f \in Choices({a}) : AssignRows(f)
      BY <1>3 DEF Others
    <2>2. {a} \in SUBSET Article
      OBVIOUS
    <2> QED
      BY <2>1, <2>2 DEF StoryNext
  <1>4. CASE UNCHANGED vars
    BY <1>4 DEF vars
  <1> QED
    BY <1>1, <1>2, <1>3, <1>4 DEF Next

LEMMA StoriesKept == BaseInv /\ [Next]_vars => StoryInv'
  BY StepMaps, StepInv DEF BaseInv

-----------------------------------------------------------------------------
(* Types *)

LEMMA FaultCounted ==
  faults \in 0 .. MaxFaults /\ (Fault \/ UNCHANGED faults) => faults' \in 0 .. MaxFaults
  BY CallAssumption DEF Fault

LEMMA ClaimedFacts ==
  ASSUME BaseInv
  PROVE  /\ Claimed \subseteq stored /\ Claimed \subseteq Article /\ Claimed \cap enriched = {}
         /\ \A a \in Claimed : attempts[a] < MaxTries
  BY DEF Claimed, Eligible, BaseInv, StoryInv, StoryTypeOK

LEMMA ClaimRun ==
  ASSUME BaseInv, NEW r \in Run, Claim(r)
  PROVE  /\ run' \in [Run -> Runs]
         /\ run'[r].at = "next" /\ run'[r].forced = FALSE /\ run'[r].todo = Claimed
         /\ run'[r].known = {a \in Claimed : story[a] # NoCluster}
         /\ \A q \in Run : q # r => run'[q] = run[q] /\ Current(q)' = Current(q)
  <1> DEFINE new == [at |-> "next", forced |-> FALSE, todo |-> Claimed,
                     known |-> {a \in Claimed : story[a] # NoCluster},
                     final |-> {a \in Claimed : attempts[a] + 1 >= MaxAttempts}]
  <1>1. run' = [run EXCEPT ![r] = new] /\ run \in [Run -> Runs]
    BY DEF Claim, BaseInv, MarksTyped
  <1>2. new \in Runs
    <2>1. /\ Claimed \in SUBSET Article
          /\ {a \in Claimed : story[a] # NoCluster} \in SUBSET Article
          /\ {a \in Claimed : attempts[a] + 1 >= MaxAttempts} \in SUBSET Article
      BY ClaimedFacts
    <2> QED
      BY <2>1 DEF Runs, Step
  <1>3. run'[r] = new /\ \A q \in Run : q # r => run'[q] = run[q]
    BY <1>1
  <1>4. \A q \in Run : q # r => Current(q)' = Current(q)
    BY <1>3 DEF Current
  <1> QED
    BY <1>1, <1>2, <1>3, <1>4

LEMMA ForceRunRun ==
  ASSUME BaseInv, NEW r \in Run, ForceRun(r)
  PROVE  /\ run' \in [Run -> Runs]
         /\ run'[r].at = "next" /\ run'[r].forced = TRUE /\ run'[r].known = {}
         /\ run'[r].todo \subseteq shared' /\ shared \subseteq shared' /\ shared' \subseteq Article
         /\ \A q \in Run : q # r => run'[q] = run[q] /\ Current(q)' = Current(q)
  <1>1. PICK offset \in 0 .. Offsets :
          /\ shared' = shared \cup Fetched(offset)
          /\ run' = [run EXCEPT ![r] =
               [at |-> "next", forced |-> TRUE, todo |-> Fetched(offset),
                known |-> {}, final |-> {}]]
    BY DEF ForceRun
  <1> DEFINE new == [at |-> "next", forced |-> TRUE, todo |-> Fetched(offset),
                     known |-> {}, final |-> {}]
  <1>2. run' = [run EXCEPT ![r] = new] /\ run \in [Run -> Runs]
    BY <1>1 DEF BaseInv, MarksTyped
  <1>3. Fetched(offset) \subseteq Article
    BY DEF Fetched, BaseInv, StoryInv, StoryTypeOK
  <1>4. new \in Runs
    BY <1>3 DEF Runs, Step
  <1>5. run'[r] = new /\ \A q \in Run : q # r => run'[q] = run[q]
    BY <1>2
  <1>6. \A q \in Run : q # r => Current(q)' = Current(q)
    BY <1>5 DEF Current
  <1>7. run'[r].todo \subseteq shared' /\ shared \subseteq shared' /\ shared' \subseteq Article
    BY <1>1, <1>3, <1>5 DEF BaseInv, MarksTyped
  <1> QED
    BY <1>2, <1>4, <1>5, <1>6, <1>7

LEMMA EndedRun ==
  ASSUME BaseInv, NEW r \in Run, run' = [run EXCEPT ![r] = NoRun]
  PROVE  /\ run' \in [Run -> Runs]
         /\ run'[r] = NoRun
         /\ \A q \in Run : q # r => run'[q] = run[q] /\ Current(q)' = Current(q)
  <1>1. run \in [Run -> Runs]
    BY DEF BaseInv, MarksTyped
  <1>2. run' \in [Run -> Runs] /\ run'[r] = NoRun /\ \A q \in Run : q # r => run'[q] = run[q]
    BY <1>1, NoRunIsRun
  <1>3. \A q \in Run : q # r => Current(q)' = Current(q)
    BY <1>2 DEF Current
  <1> QED
    BY <1>2, <1>3

\* What the step of a run at one of its articles does to the run.
LEMMA ArticleStepRun ==
  ASSUME BaseInv, NEW r \in Run, NEW a \in Current(r),
         \/ Enrich(r, a) \/ DeleteEntities(r, a) \/ InsertEntities(r, a)
         \/ AssignStory(r, a) \/ SaveArticle(r, a)
  PROVE  \/ \E step \in Step \ {"idle"} : run' = At(r, step)
         \/ run' = Popped(r, a) /\ (a \in kept' \/ a \in enriched' \/ a \notin stored)
  <1>1. CASE Enrich(r, a)
    BY <1>1, AfterIsStep DEF Enrich, Step
  <1>2. CASE DeleteEntities(r, a)
    BY <1>2 DEF DeleteEntities, Step
  <1>3. CASE InsertEntities(r, a)
    BY <1>3, AfterIsStep DEF InsertEntities, Step
  <1>4. CASE AssignStory(r, a)
    BY <1>4 DEF AssignStory, Step
  <1>5. CASE SaveArticle(r, a)
    BY <1>5 DEF SaveArticle
  <1> QED
    BY <1>1, <1>2, <1>3, <1>4, <1>5

LEMMA ArticleStepBase ==
  ASSUME BaseInv, NEW r \in Run, NEW a \in Current(r),
         \/ Enrich(r, a) \/ DeleteEntities(r, a) \/ InsertEntities(r, a)
         \/ AssignStory(r, a) \/ SaveArticle(r, a)
  PROVE  MarksTyped' /\ IdleEmpty'
  <1>1. MarksTyped /\ IdleEmpty /\ stored \subseteq Article /\ a \in run[r].todo /\ a \in Article
    BY CurrentOfTodo DEF BaseInv, StoryInv, StoryTypeOK
  <1>2. run' \in [Run -> Runs] /\ IdleEmpty'
    <2>1. ASSUME NEW step \in Step \ {"idle"}, run' = At(r, step)
          PROVE  run' \in [Run -> Runs] /\ IdleEmpty'
      BY <1>1, <2>1, AtFacts DEF IdleEmpty
    <2>2. CASE run' = Popped(r, a)
      BY <1>1, <2>2, PoppedFacts DEF IdleEmpty
    <2> QED
      BY <2>1, <2>2, ArticleStepRun
  <1>3. /\ stored' = stored /\ UNCHANGED <<leased, attempts, shared>>
        /\ Fault \/ UNCHANGED faults
    BY DEF Enrich, DeleteEntities, InsertEntities, AssignStory, SaveArticle, AssignRows,
      rows, marks, Fails, Loses
  <1>4. enriched' \subseteq stored /\ error' \subseteq stored /\ kept' \subseteq Article
    BY <1>1 DEF Enrich, DeleteEntities, InsertEntities, AssignStory, SaveArticle, marks,
      ClearsError, MarksTyped
  <1>5. copies' \in [Article -> Nat]
    <2>1. Cleared(a) \in [Article -> Nat] /\ Inserted(a) \in [Article -> Nat]
      BY <1>1 DEF Cleared, Inserted, MarksTyped
    <2> QED
      BY <1>1, <2>1 DEF Enrich, DeleteEntities, InsertEntities, AssignStory, SaveArticle, MarksTyped
  <1>6. faults' \in 0 .. MaxFaults
    BY <1>1, <1>3, FaultCounted DEF MarksTyped
  <1> QED
    BY <1>1, <1>2, <1>3, <1>4, <1>5, <1>6 DEF MarksTyped

LEMMA BaseStep == BaseInv /\ [Next]_vars => BaseInv'
  <1> SUFFICES ASSUME BaseInv, [Next]_vars PROVE MarksTyped' /\ IdleEmpty'
    BY StoriesKept DEF BaseInv
  <1>1. /\ MarksTyped /\ IdleEmpty /\ stored \subseteq Article
    BY DEF BaseInv, StoryInv, StoryTypeOK
  <1>2. ASSUME NEW r \in Run, Claim(r) PROVE MarksTyped' /\ IdleEmpty'
    <2>1. leased' = leased \cup Claimed /\ kept' = kept \ Claimed
          /\ shared' = shared \cup (Claimed \cap InOtherRun(r))
          /\ attempts' = [a \in Article |-> IF a \in Claimed THEN attempts[a] + 1 ELSE attempts[a]]
          /\ UNCHANGED <<stored, enriched, error, copies, faults>>
      BY <1>2 DEF Claim, rows
    <2>2. attempts' \in [Article -> 0 .. MaxTries]
      <3>1. \A a \in Article : attempts[a] \in 0 .. MaxTries
        BY <1>1 DEF MarksTyped
      <3>2. \A a \in Claimed : attempts[a] + 1 \in 0 .. MaxTries
        BY <3>1, ClaimedFacts, RunAssumption
      <3> QED
        BY <2>1, <3>1, <3>2
    <2> QED
      BY <1>1, <1>2, <2>1, <2>2, ClaimedFacts, ClaimRun DEF MarksTyped, IdleEmpty
  <1>3. ASSUME NEW r \in Run, ForceRun(r) PROVE MarksTyped' /\ IdleEmpty'
    <2>1. UNCHANGED <<stored, enriched, leased, attempts, error, copies, kept, faults>>
      BY <1>3 DEF ForceRun, rows, marks
    <2> QED
      BY <1>1, <1>3, <2>1, ForceRunRun DEF MarksTyped, IdleEmpty
  <1>4. ASSUME NEW r \in Run, Stop(r) \/ Kill(r) PROVE MarksTyped' /\ IdleEmpty'
    <2>1. /\ UNCHANGED <<stored, enriched, error, copies, shared>>
          /\ run' = [run EXCEPT ![r] = NoRun]
          /\ Fault \/ UNCHANGED faults
      BY <1>4 DEF Stop, Kill, Fails, rows, marks
    <2>2. run[r].todo \subseteq Article
      BY <1>1 DEF MarksTyped, Runs
    <2>3. kept' \subseteq Article
      BY <1>1, <1>4, <2>2 DEF Stop, Kill, MarksTyped
    <2>4. leased' \subseteq leased /\ attempts' \in [Article -> 0 .. MaxTries]
      <3>1. CASE ReleaseRows(run[r].todo)
        <4>1. \A a \in Article :
                attempts[a] \in 0 .. MaxTries /\ (attempts[a] > 0 => attempts[a] - 1 \in 0 .. MaxTries)
          BY <1>1, RunAssumption DEF MarksTyped
        <4> QED
          BY <3>1, <4>1 DEF ReleaseRows
      <3>2. CASE UNCHANGED <<leased, attempts>>
        BY <1>1, <3>2 DEF MarksTyped
      <3> QED
        BY <1>4, <3>1, <3>2 DEF Stop, Kill, marks
    <2>5. faults' \in 0 .. MaxFaults
      BY <1>1, <2>1, FaultCounted DEF MarksTyped
    <2> QED
      BY <1>1, <2>1, <2>3, <2>4, <2>5, EndedRun, NoRunIsRun DEF MarksTyped, IdleEmpty
  <1>5. ASSUME NEW r \in Run, NEW a \in Current(r),
               \/ Enrich(r, a) \/ DeleteEntities(r, a) \/ InsertEntities(r, a)
               \/ AssignStory(r, a) \/ SaveArticle(r, a)
        PROVE  MarksTyped' /\ IdleEmpty'
    BY <1>5, ArticleStepBase
  <1>6. ASSUME NEW a \in Article, Expire(a) PROVE MarksTyped' /\ IdleEmpty'
    BY <1>1, <1>6 DEF Expire, rows, MarksTyped, IdleEmpty
  <1>7. ASSUME NEW a \in Article, Deleted(a) PROVE MarksTyped' /\ IdleEmpty'
    BY <1>1, <1>7 DEF Deleted, Delete, MarksTyped, IdleEmpty
  <1>8. CASE Others
    BY <1>1, <1>8 DEF Others, AssignRows, marks, MarksTyped, IdleEmpty
  <1>9. CASE UNCHANGED vars
    BY <1>1, <1>9 DEF vars, rows, marks, MarksTyped, IdleEmpty
  <1> QED
    BY <1>2, <1>3, <1>4, <1>5, <1>6, <1>7, <1>8, <1>9 DEF Next, RunStep

LEMMA InitBase == Init => BaseInv
  <1> SUFFICES ASSUME Init PROVE BaseInv
    OBVIOUS
  <1>1. StoryInv
    BY InitInv DEF Init
  <1>2. 0 \in 0 .. MaxTries /\ 0 \in 0 .. MaxFaults
    BY RunAssumption, CallAssumption
  <1>3. MarksTyped /\ IdleEmpty
    BY <1>2, NoRunIsRun DEF Init, MarksTyped, IdleEmpty
  <1> QED
    BY <1>1, <1>3 DEF BaseInv

-----------------------------------------------------------------------------
(* Claims *)

LEMMA ClaimsStep == BaseInv /\ StoppedRunsHandBack /\ [Next]_vars => StoppedRunsHandBack'
  <1> SUFFICES ASSUME BaseInv, StoppedRunsHandBack, [Next]_vars,
                      NEW b \in leased' \ enriched'
               PROVE  b \in kept' \/ \E q \in Run : ~run'[q].forced /\ b \in run'[q].todo
    BY DEF StoppedRunsHandBack
  <1>1. MarksTyped /\ IdleEmpty /\ leased \subseteq stored
    BY DEF BaseInv, MarksTyped
  <1>2. ASSUME NEW r \in Run, Claim(r)
        PROVE  b \in kept' \/ \E q \in Run : ~run'[q].forced /\ b \in run'[q].todo
    <2>1. /\ leased' = leased \cup Claimed /\ kept' = kept \ Claimed /\ enriched' = enriched
          /\ run[r].todo = {}
      BY <1>1, <1>2 DEF Claim, IdleEmpty
    <2>2. CASE b \in Claimed
      BY <1>2, <2>2, ClaimRun
    <2>3. CASE b \notin Claimed
      BY <1>2, <2>1, <2>3, ClaimRun DEF StoppedRunsHandBack
    <2> QED
      BY <2>2, <2>3
  <1>3. ASSUME NEW r \in Run, ForceRun(r)
        PROVE  b \in kept' \/ \E q \in Run : ~run'[q].forced /\ b \in run'[q].todo
    <2>1. /\ UNCHANGED <<leased, kept, enriched>> /\ run[r].todo = {}
      BY <1>1, <1>3 DEF ForceRun, IdleEmpty, marks
    <2> QED
      BY <1>3, <2>1, ForceRunRun DEF StoppedRunsHandBack
  <1>4. ASSUME NEW r \in Run, Stop(r) \/ Kill(r)
        PROVE  b \in kept' \/ \E q \in Run : ~run'[q].forced /\ b \in run'[q].todo
    <2>1. run' = [run EXCEPT ![r] = NoRun] /\ enriched' = enriched /\ leased' \subseteq leased
          /\ kept \subseteq kept'
      BY <1>4 DEF Stop, Kill, ReleaseRows, marks
    <2>2. b \in kept \/ \E q \in Run : ~run[q].forced /\ b \in run[q].todo
      BY <2>1 DEF StoppedRunsHandBack
    <2>3. ASSUME ~run[r].forced, b \in run[r].todo PROVE b \in kept'
      <3>1. CASE ReleaseRows(run[r].todo)
        <4>1. b \in run[r].todo \cap leased /\ b \in stored \ enriched
          BY <1>1, <2>1, <2>3
        <4>2. b \notin leased'
          BY <3>1, <4>1 DEF ReleaseRows
        <4> QED
          BY <4>2
      <3>2. CASE kept' = kept \cup run[r].todo
        BY <2>3, <3>2
      <3> QED
        BY <1>4, <2>3, <3>1, <3>2 DEF Stop, Kill
    <2> QED
      BY <2>1, <2>2, <2>3, EndedRun
  <1>5. ASSUME NEW r \in Run, NEW a \in Current(r),
               \/ Enrich(r, a) \/ DeleteEntities(r, a) \/ InsertEntities(r, a)
               \/ AssignStory(r, a) \/ SaveArticle(r, a)
        PROVE  b \in kept' \/ \E q \in Run : ~run'[q].forced /\ b \in run'[q].todo
    <2>1. leased' = leased /\ enriched \subseteq enriched' /\ kept \subseteq kept'
      BY <1>5 DEF Enrich, DeleteEntities, InsertEntities, AssignStory, SaveArticle, marks
    <2>2. b \in kept \/ \E q \in Run : ~run[q].forced /\ b \in run[q].todo
      BY <2>1 DEF StoppedRunsHandBack
    <2>3. ASSUME NEW step \in Step, run' = At(r, step)
          PROVE  \A q \in Run : run'[q].forced = run[q].forced /\ run'[q].todo = run[q].todo
      BY <1>1, <2>3, AtFacts
    <2>4. CASE run' = Popped(r, a) /\ (a \in kept' \/ a \in enriched' \/ a \notin stored)
      <3>1. b = a => b \in kept'
        BY <1>1, <2>1, <2>4
      <3>2. a \in run[r].todo
        BY <1>1, CurrentOfTodo
      <3>3. \A q \in Run : b \in run[q].todo /\ ~run[q].forced /\ b # a =>
              b \in run'[q].todo /\ ~run'[q].forced
        BY <1>1, <2>4, <3>2, PoppedFacts
      <3> QED
        BY <2>1, <2>2, <3>1, <3>3
    <2> QED
      BY <1>5, <2>1, <2>2, <2>3, <2>4, ArticleStepRun
  <1>6. ASSUME NEW a \in Article, Expire(a) \/ Deleted(a)
        PROVE  b \in kept' \/ \E q \in Run : ~run'[q].forced /\ b \in run'[q].todo
    <2>1. leased' = leased \ {a} /\ UNCHANGED <<run, kept>> /\ enriched \subseteq enriched' \cup {a}
      BY <1>6 DEF Expire, Deleted
    <2> QED
      BY <2>1 DEF StoppedRunsHandBack
  <1>7. CASE Others \/ UNCHANGED vars
    BY <1>7 DEF Others, vars, marks, StoppedRunsHandBack
  <1> QED
    BY <1>2, <1>3, <1>4, <1>5, <1>6, <1>7 DEF Next, RunStep

-----------------------------------------------------------------------------
(* What is written before the mark *)

\* Which calls are retried until they are answered: those of the two writes of
\* article_entities and of the assignment (the runs of TLC assume the same).
CallsAnswered ==
  /\ Failing \cap {"delete", "insert", "assign"} = {}
  /\ "insert" \notin LostReply

LEMMA AssignKeeps ==
  ASSUME StoryInv, NEW a \in Article, NEW f \in Choices({a}), AssignRows(f)
  PROVE  /\ stored' = stored
         /\ \A b \in Article : story[b] # NoCluster => story'[b] # NoCluster
         /\ a \in stored => story'[a] # NoCluster
  <1>1. f[a] \in Cluster /\ NoCluster \notin Cluster /\ DOMAIN f = {a}
    BY StoryAssumption DEF Choices
  <1>2. story' = [b \in Article |-> IF b \in Placed(f) THEN f[b] ELSE story[b]] /\ stored' = stored
    BY DEF AssignRows
  <1>3. \A b \in Article : b \in Placed(f) => b = a
    BY <1>1 DEF Placed
  <1>4. a \in stored /\ story[a] = NoCluster => a \in Placed(f)
    BY <1>1 DEF Placed
  <1> QED
    BY <1>1, <1>2, <1>3, <1>4

\* Steps that take an article into a run, drop a run or change no row of one.
LEMMA TakeSaved ==
  ASSUME SavedInv, NEW r \in Run, Claim(r) \/ ForceRun(r) \/ Stop(r) \/ Kill(r)
  PROVE  Alone' /\ EntitiesWritten' /\ StoryWritten' /\ InsertOnce' /\ SavedBeforeMarked'
  <1>1. /\ UNCHANGED <<rows, enriched, copies>> /\ shared \subseteq shared'
        /\ MarksTyped /\ IdleEmpty /\ BaseInv
    BY DEF Claim, ForceRun, Stop, Kill, marks, SavedInv, BaseInv
  <1>2. /\ \A q \in Run : q # r => run'[q] = run[q] /\ Current(q)' = Current(q)
        /\ run'[r].at \in {"idle", "next"}
        /\ \A a \in run'[r].known : story[a] # NoCluster
        /\ \A a \in run'[r].todo \ shared' : a \notin enriched /\ \A q \in Run \ {r} : a \notin run[q].todo
    <2>1. CASE Claim(r)
      <3>1. shared' = shared \cup (Claimed \cap InOtherRun(r))
        BY <2>1 DEF Claim
      <3>2. \A a \in Claimed \ shared' : \A q \in Run \ {r} : a \notin run[q].todo
        BY <3>1 DEF InOtherRun
      <3> QED
        BY <1>1, <2>1, <3>2, ClaimRun, ClaimedFacts
    <2>2. CASE ForceRun(r)
      BY <1>1, <2>2, ForceRunRun
    <2>3. CASE Stop(r) \/ Kill(r)
      <3>1. run' = [run EXCEPT ![r] = NoRun]
        BY <2>3 DEF Stop, Kill
      <3> QED
        BY <1>1, <3>1, EndedRun, NoRunIsRun
    <2> QED
      BY <2>1, <2>2, <2>3
  <1>3. Alone'
    <2> SUFFICES ASSUME NEW p \in Run, NEW a \in run'[p].todo \ shared'
                 PROVE  a \notin enriched /\ \A q \in Run : a \in run'[q].todo => q = p
      BY <1>1 DEF Alone
    <2>1. CASE p = r
      BY <1>2, <2>1
    <2>2. CASE p # r
      <3>1. a \in run[p].todo \ shared
        BY <1>1, <1>2, <2>2
      <3>2. a \notin enriched /\ \A q \in Run : a \in run[q].todo => q = p
        BY <3>1 DEF SavedInv, Alone
      <3> QED
        BY <1>2, <2>2, <3>1, <3>2
    <2> QED
      BY <2>1, <2>2
  <1>4. EntitiesWritten'
    <2> SUFFICES ASSUME NEW q \in Run,
                        NEW a \in (Current(q)' \cap WithEntities \cap stored) \ shared'
                 PROVE  /\ run'[q].at = "insert" => copies[a] = 0
                        /\ run'[q].at \in {"assign", "assignAgain", "save"} => copies[a] = 1
      BY <1>1 DEF EntitiesWritten, rows
    <2>1. q # r => a \in (Current(q) \cap WithEntities \cap stored) \ shared
      BY <1>1, <1>2
    <2> QED
      BY <1>2, <2>1 DEF SavedInv, EntitiesWritten
  <1>5. StoryWritten'
    BY <1>1, <1>2 DEF SavedInv, StoryWritten, rows
  <1>6. InsertOnce'
    BY <1>1, <1>2 DEF SavedInv, InsertOnce
  <1>7. SavedBeforeMarked'
    BY <1>1 DEF SavedInv, SavedBeforeMarked, rows
  <1> QED
    BY <1>3, <1>4, <1>5, <1>6, <1>7

\* Steps of others: an article is assigned, deleted, or its claim expires.
LEMMA OtherSaved ==
  ASSUME SavedInv,
         \/ \E a \in Article : Expire(a) \/ Deleted(a)
         \/ Others \/ UNCHANGED vars
  PROVE  Alone' /\ EntitiesWritten' /\ StoryWritten' /\ InsertOnce' /\ SavedBeforeMarked'
  <1>1. /\ UNCHANGED <<run, shared>> /\ stored' \subseteq stored /\ enriched' \subseteq enriched
        /\ \A b \in stored' : copies'[b] = copies[b] /\ (story[b] # NoCluster => story'[b] # NoCluster)
        /\ enriched' \subseteq stored' /\ stored \subseteq Article
    <2>1. StoryInv /\ stored \subseteq Article /\ MarksTyped /\ story \in [Article -> Cluster \cup {NoCluster}]
          /\ enriched \subseteq stored /\ copies \in [Article -> Nat]
      BY DEF SavedInv, BaseInv, StoryInv, StoryTypeOK, MarksTyped
    <2>2. CASE \E a \in Article : Expire(a)
      BY <2>1, <2>2 DEF Expire, rows
    <2>3. ASSUME NEW a \in Article, Deleted(a) PROVE <1>1
      BY <2>1, <2>3 DEF Deleted, Delete
    <2>4. CASE Others
      BY <2>1, <2>4, AssignKeeps DEF Others, marks
    <2>5. CASE UNCHANGED vars
      BY <2>1, <2>5 DEF vars, rows, marks
    <2> QED
      BY <2>2, <2>3, <2>4, <2>5
  <1>2. \A q \in Run : Current(q)' = Current(q)
    BY <1>1 DEF Current
  <1>3. Alone'
    BY <1>1 DEF SavedInv, Alone
  <1>4. EntitiesWritten'
    <2> SUFFICES ASSUME NEW q \in Run,
                        NEW a \in (Current(q)' \cap WithEntities \cap stored') \ shared'
                 PROVE  /\ run[q].at = "insert" => copies'[a] = 0
                        /\ run[q].at \in {"assign", "assignAgain", "save"} => copies'[a] = 1
      BY <1>1 DEF EntitiesWritten
    <2>1. a \in (Current(q) \cap WithEntities \cap stored) \ shared /\ copies'[a] = copies[a]
      BY <1>1, <1>2
    <2> QED
      BY <2>1 DEF SavedInv, EntitiesWritten
  <1>5. StoryWritten'
    BY <1>1, <1>2 DEF SavedInv, StoryWritten
  <1>6. InsertOnce'
    BY <1>1 DEF SavedInv, InsertOnce
  <1>7. SavedBeforeMarked'
    BY <1>1 DEF SavedInv, SavedBeforeMarked
  <1> QED
    BY <1>3, <1>4, <1>5, <1>6, <1>7

\* A run goes on with its article: the others do not touch what is its own.
LEMMA GoOnSaved ==
  ASSUME SavedInv, NEW r \in Run, NEW a \in Current(r), NEW step \in Step \ {"insertAgain"},
         run' = At(r, step), UNCHANGED <<stored, enriched, shared>>,
         \A b \in Article : story[b] # NoCluster => story'[b] # NoCluster,
         \A b \in Article : b # a => copies'[b] = copies[b],
         a \in (WithEntities \cap stored) \ shared =>
           /\ step = "insert" => copies'[a] = 0
           /\ step \in {"assign", "assignAgain", "save"} => copies'[a] = 1,
         step = "save" /\ a \in stored \cap Embeddable => story'[a] # NoCluster,
         a \in enriched => copies'[a] = copies[a] \/ a \in shared
  PROVE  Alone' /\ EntitiesWritten' /\ StoryWritten' /\ InsertOnce' /\ SavedBeforeMarked'
  <1>1. MarksTyped /\ stored \subseteq Article /\ enriched \subseteq Article
    BY DEF SavedInv, BaseInv, StoryInv, StoryTypeOK, MarksTyped
  <1>2. /\ run'[r].at = step
        /\ \A q \in Run : /\ run'[q].todo = run[q].todo /\ run'[q].known = run[q].known
                          /\ q # r => run'[q] = run[q]
                          /\ Current(q)' = Current(q) /\ Current(q) \subseteq run[q].todo
                          /\ Current(q) \subseteq Article
        /\ \A b \in Current(r) : b = a
    BY <1>1, AtFacts, CurrentOfTodo
  <1>3. Alone'
    BY <1>2 DEF SavedInv, Alone
  <1>4. EntitiesWritten'
    <2> SUFFICES ASSUME NEW q \in Run,
                        NEW b \in (Current(q) \cap WithEntities \cap stored) \ shared
                 PROVE  /\ run'[q].at = "insert" => copies'[b] = 0
                        /\ run'[q].at \in {"assign", "assignAgain", "save"} => copies'[b] = 1
      BY <1>2 DEF EntitiesWritten
    <2>1. CASE q = r
      BY <1>2, <2>1
    <2>2. CASE q # r
      <3>1. b # a
        <4>1. b \in run[q].todo \ shared /\ a \in run[r].todo
          BY <1>2
        <4> QED
          BY <2>2, <4>1 DEF SavedInv, Alone
      <3>2. run'[q] = run[q] /\ copies'[b] = copies[b]
        BY <1>2, <2>2, <3>1
      <3> QED
        BY <3>2 DEF SavedInv, EntitiesWritten
    <2> QED
      BY <2>1, <2>2
  <1>5. StoryWritten'
    <2>1. \A q \in Run : run[q].known \subseteq Article
      BY <1>1 DEF MarksTyped, Runs
    <2>2. ASSUME NEW q \in Run PROVE \A b \in run'[q].known \cap stored' : story'[b] # NoCluster
      BY <1>2, <2>1 DEF SavedInv, StoryWritten
    <2>3. ASSUME NEW q \in Run, run'[q].at = "save"
          PROVE  \A b \in Current(q)' \cap stored' \cap Embeddable : story'[b] # NoCluster
      <3>1. CASE q = r
        BY <1>2, <2>3, <3>1
      <3>2. CASE q # r
        BY <1>2, <2>3, <3>2 DEF SavedInv, StoryWritten
      <3> QED
        BY <3>1, <3>2
    <2> QED
      BY <2>2, <2>3 DEF StoryWritten
  <1>6. InsertOnce'
    BY <1>2 DEF SavedInv, InsertOnce
  <1>7. SavedBeforeMarked'
    <2> SUFFICES ASSUME NEW b \in enriched
                 PROVE  /\ b \in WithEntities \ shared => copies'[b] = 1
                        /\ b \in Embeddable => story'[b] # NoCluster
      BY DEF SavedBeforeMarked
    <2>1. /\ b \in WithEntities \ shared => copies[b] = 1
          /\ b \in Embeddable => story[b] # NoCluster
      BY DEF SavedInv, SavedBeforeMarked
    <2> QED
      BY <1>1, <2>1
  <1> QED
    BY <1>3, <1>4, <1>5, <1>6, <1>7

\* A run is done with its article: given up, or marked with all that was to be written.
LEMMA PopSaved ==
  ASSUME SavedInv, NEW r \in Run, NEW a \in Current(r), run' = Popped(r, a),
         UNCHANGED <<rows, copies, shared>>, enriched \subseteq enriched',
         enriched' \subseteq enriched \cup ({a} \cap stored),
         enriched' # enriched => run[r].at = "save"
  PROVE  Alone' /\ EntitiesWritten' /\ StoryWritten' /\ InsertOnce' /\ SavedBeforeMarked'
  <1>1. MarksTyped /\ a \in run[r].todo
    BY CurrentOfTodo DEF SavedInv, BaseInv
  <1>2. /\ run'[r].at \in {"idle", "next"}
        /\ run'[r].todo = run[r].todo \ {a} /\ run'[r].known \subseteq run[r].known
        /\ \A q \in Run : q # r => run'[q] = run[q] /\ Current(q)' = Current(q)
    BY <1>1, PoppedFacts
  <1>3. Alone'
    <2> SUFFICES ASSUME NEW p \in Run, NEW b \in run'[p].todo \ shared
                 PROVE  b \notin enriched' /\ \A q \in Run : b \in run'[q].todo => q = p
      BY DEF Alone
    <2>1. b \in run[p].todo \ shared /\ \A q \in Run : b \in run'[q].todo => b \in run[q].todo
      BY <1>2
    <2>2. b \notin enriched /\ \A q \in Run : b \in run[q].todo => q = p
      BY <2>1 DEF SavedInv, Alone
    <2>3. b # a
      BY <1>1, <1>2, <2>2
    <2> QED
      BY <2>1, <2>2, <2>3
  <1>4. EntitiesWritten'
    <2> SUFFICES ASSUME NEW q \in Run,
                        NEW b \in (Current(q)' \cap WithEntities \cap stored) \ shared
                 PROVE  /\ run'[q].at = "insert" => copies[b] = 0
                        /\ run'[q].at \in {"assign", "assignAgain", "save"} => copies[b] = 1
      BY DEF EntitiesWritten, rows
    <2>1. q # r => b \in (Current(q) \cap WithEntities \cap stored) \ shared
      BY <1>2
    <2> QED
      BY <1>2, <2>1 DEF SavedInv, EntitiesWritten
  <1>5. StoryWritten'
    BY <1>2 DEF SavedInv, StoryWritten, rows
  <1>6. InsertOnce'
    BY <1>2 DEF SavedInv, InsertOnce
  <1>7. SavedBeforeMarked'
    <2> SUFFICES ASSUME NEW b \in enriched'
                 PROVE  /\ b \in WithEntities \ shared => copies[b] = 1
                        /\ b \in Embeddable => story[b] # NoCluster
      BY DEF SavedBeforeMarked, rows
    <2>1. CASE b \in enriched
      BY <2>1 DEF SavedInv, SavedBeforeMarked
    <2>2. CASE b \notin enriched
      <3>1. b = a /\ a \in stored /\ run[r].at = "save"
        BY <2>2
      <3> QED
        BY <3>1 DEF SavedInv, EntitiesWritten, StoryWritten
    <2> QED
      BY <2>1, <2>2
  <1> QED
    BY <1>3, <1>4, <1>5, <1>6, <1>7

LEMMA ArticleStepSaved ==
  ASSUME SavedInv, CallsAnswered, NEW r \in Run, NEW a \in Current(r),
         \/ Enrich(r, a) \/ DeleteEntities(r, a) \/ InsertEntities(r, a)
         \/ AssignStory(r, a) \/ SaveArticle(r, a)
  PROVE  Alone' /\ EntitiesWritten' /\ StoryWritten' /\ InsertOnce' /\ SavedBeforeMarked'
  <1>1. /\ MarksTyped /\ StoryInv /\ a \in run[r].todo /\ a \in Article
        /\ stored \subseteq Article /\ copies \in [Article -> Nat]
    BY CurrentOfTodo DEF SavedInv, BaseInv, StoryInv, StoryTypeOK, MarksTyped
  <1>2. a \in enriched => a \in shared
    BY <1>1 DEF SavedInv, Alone
  <1>3. a \in run[r].known \cap stored => story[a] # NoCluster
    BY DEF SavedInv, StoryWritten
  <1>4. CASE Enrich(r, a)
    <2>1. UNCHANGED <<rows, enriched, copies, shared>>
      BY <1>4 DEF Enrich
    <2>2. CASE run' = Popped(r, a)
      BY <2>1, <2>2, PopSaved
    <2>3. CASE run' = At(r, "delete")
      BY <2>1, <2>3, GoOnSaved DEF rows, Step
    <2>4. CASE a \notin WithEntities /\ run' = AfterEntities(r, a)
      <3>1. PICK step \in {"assign", "save"} :
              run' = At(r, step) /\ (step = "save" => a \notin Embeddable \ run[r].known)
        BY <2>4, AfterIsStep
      <3> QED
        BY <1>3, <2>1, <2>4, <3>1, GoOnSaved DEF rows, Step
    <2> QED
      BY <1>4, <2>2, <2>3, <2>4 DEF Enrich
  <1>5. CASE DeleteEntities(r, a)
    <2>1. copies' = [copies EXCEPT ![a] = 0]
      BY <1>5 DEF DeleteEntities, Fails, CallsAnswered, Cleared
    <2>2. run' = At(r, "insert") /\ UNCHANGED <<stored, story, enriched, shared>>
      BY <1>5 DEF DeleteEntities, rows, marks
    <2>3. copies'[a] = 0 /\ \A b \in Article : b # a => copies'[b] = copies[b]
      BY <1>1, <2>1
    <2> QED
      BY <1>2, <2>2, <2>3, GoOnSaved DEF Step
  <1>6. CASE InsertEntities(r, a)
    <2>1. run[r].at = "insert" /\ copies' = Inserted(a) /\ run' = AfterEntities(r, a)
      BY <1>6 DEF InsertEntities, Fails, Loses, CallsAnswered, SavedInv, InsertOnce
    <2>2. UNCHANGED <<stored, story, enriched, shared>>
      BY <1>6 DEF InsertEntities, rows, marks
    <2>3. /\ a \in (WithEntities \cap stored) \ shared => copies'[a] = 1
          /\ \A b \in Article : b # a => copies'[b] = copies[b]
      <3>1. a \in (WithEntities \cap stored) \ shared => copies[a] = 0
        BY <2>1 DEF SavedInv, EntitiesWritten
      <3> QED
        BY <1>1, <2>1, <3>1 DEF Inserted
    <2>4. PICK step \in {"assign", "save"} :
            run' = At(r, step) /\ (step = "save" => a \notin Embeddable \ run[r].known)
      BY <2>1, AfterIsStep
    <2> QED
      BY <1>2, <1>3, <2>2, <2>3, <2>4, GoOnSaved DEF Step
  <1>7. CASE AssignStory(r, a)
    <2>1. PICK f \in Choices({a}) :
            AssignRows(f) /\ (run' = At(r, "save") \/ run' = At(r, "assignAgain"))
      BY <1>7 DEF AssignStory, Fails, CallsAnswered
    <2>2. UNCHANGED <<enriched, shared, copies>> /\ run[r].at \in {"assign", "assignAgain"}
      BY <1>7 DEF AssignStory, marks
    <2>3. /\ stored' = stored
          /\ \A b \in Article : story[b] # NoCluster => story'[b] # NoCluster
          /\ a \in stored => story'[a] # NoCluster
      BY <1>1, <2>1, AssignKeeps
    <2>4. a \in (WithEntities \cap stored) \ shared => copies[a] = 1
      BY <2>2 DEF SavedInv, EntitiesWritten
    <2> QED
      BY <2>1, <2>2, <2>3, <2>4, GoOnSaved DEF Step
  <1>8. CASE SaveArticle(r, a)
    <2>1. /\ run' = Popped(r, a) /\ UNCHANGED <<rows, copies, shared>> /\ run[r].at = "save"
          /\ enriched' = enriched \/ enriched' = enriched \cup ({a} \cap stored)
      BY <1>8 DEF SaveArticle
    <2> QED
      BY <2>1, PopSaved
  <1> QED
    BY <1>4, <1>5, <1>6, <1>7, <1>8

LEMMA SavedStep == CallsAnswered /\ SavedInv /\ [Next]_vars => SavedInv'
  <1> SUFFICES ASSUME CallsAnswered, SavedInv, [Next]_vars PROVE SavedInv'
    OBVIOUS
  <1>1. BaseInv'
    BY BaseStep DEF SavedInv
  <1>2. Alone' /\ EntitiesWritten' /\ StoryWritten' /\ InsertOnce' /\ SavedBeforeMarked'
    BY TakeSaved, OtherSaved, ArticleStepSaved DEF Next, RunStep
  <1> QED
    BY <1>1, <1>2 DEF SavedInv

LEMMA InitSaved == Init => SavedInv
  <1> SUFFICES ASSUME Init PROVE SavedInv
    OBVIOUS
  <1>1. \A r \in Run : run[r] = NoRun
    BY DEF Init
  <1>2. Alone /\ EntitiesWritten /\ StoryWritten /\ InsertOnce /\ SavedBeforeMarked
    BY <1>1, NoRunIsRun DEF Init, Alone, EntitiesWritten, StoryWritten, InsertOnce, SavedBeforeMarked
  <1> QED
    BY <1>2, InitBase DEF SavedInv

-----------------------------------------------------------------------------
(* What the runs promise *)

\* Whatever several runs read before, fail at or do again, the stories see only
\* the steps the functions of clustering_v2_migration.sql allow.
THEOREM RunsImplementStories == Spec => StorySpec
  <1>1. Init => StoryInit /\ BaseInv
    BY InitBase DEF Init
  <1>2. BaseInv /\ [Next]_vars => BaseInv' /\ [StoryNext]_rows
    BY BaseStep, StepMaps DEF BaseInv
  <1> QED
    BY <1>1, <1>2, PTL DEF Spec, StorySpec

\* The variables of the runs keep their types.
THEOREM RunsTypeCorrect == Spec => []TypeOK
  <1>1. BaseInv => TypeOK
    BY DEF BaseInv, StoryInv, MarksTyped, Runs, TypeOK
  <1> QED
    BY <1>1, InitBase, BaseStep, PTL DEF Spec

\* A stopped run leaves no claim behind but of what was tried (_release_pending,
\* wizer_release_enrichment_claims), whatever calls fail.
THEOREM ClaimsHandedBack == Spec => []StoppedRunsHandBack
  <1>1. Init => BaseInv /\ StoppedRunsHandBack
    BY InitBase DEF Init, StoppedRunsHandBack
  <1>2. BaseInv /\ StoppedRunsHandBack /\ [Next]_vars => BaseInv' /\ StoppedRunsHandBack'
    BY BaseStep, ClaimsStep
  <1> QED
    BY <1>1, <1>2, PTL DEF Spec

\* enriched_at is written last: a marked article that no two runs shared has its
\* entities once, and a marked article has its story, when the calls that write
\* them are answered in the end (_process_article, save_entities).
THEOREM MarkedLast ==
  ASSUME CallsAnswered
  PROVE  Spec => []SavedBeforeMarked
  <1>1. SavedInv => SavedBeforeMarked
    BY DEF SavedInv
  <1>2. SavedInv /\ [Next]_vars => SavedInv'
    BY SavedStep
  <1> QED
    BY <1>1, <1>2, InitSaved, PTL DEF Spec
=============================================================================
