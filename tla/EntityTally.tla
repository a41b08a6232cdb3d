----------------------------- MODULE EntityTally -----------------------------
(***************************************************************************)
(* The entity tally of a story (article_clusters.top_entities).  Three     *)
(* writers meet in Postgres: enrichment jobs saving batches                *)
(* (wizer_save_enrichment_batch), the clustering job stamping articles     *)
(* (wizer_apply_cluster_changes) and merging twins (wizer_merge_clusters). *)
(* Each is one transaction of several statements under READ COMMITTED: a   *)
(* statement takes the row locks it needs one by one, in any order, and    *)
(* they are held to the end; its effects are seen by others at the commit. *)
(* A client that times out sends the same call once more, whether it       *)
(* committed or not.                                                       *)
(***************************************************************************)
EXTENDS Integers, FiniteSets

CONSTANTS
  Article,    \* articles
  Cluster,    \* ids of story clusters
  Saver,      \* enrichment jobs: hand-off shards and sweepers
  Job,        \* the one clustering job (concurrency group story-clustering)
  Shared,     \* articles handed out a second time: to a sweeper while a shard
              \* still has them, or by dispatching process.yml again
  NoCluster,  \* cluster_id IS NULL
  Free,       \* a row nobody has locked
  LostReplies,\* calls that may commit while the client sees a timeout
  MaxFaults   \* bound on replies lost

ASSUME NameAssumption ==
  /\ Job \notin Saver /\ NoCluster \notin Cluster /\ Free \notin Saver \cup {Job}
  /\ Article \cap Cluster = {}
  /\ Shared \subseteq Article
  /\ LostReplies \subseteq {"save", "apply", "merge"} /\ MaxFaults \in Nat

VARIABLES
  enriched,  \* articles with enriched_at, and their article_entities
  story,     \* story[a]: cluster_id
  status,    \* status[c]: "none" before it is inserted
  tally,     \* tally[c][a]: how often the entities of a are counted in c
  holder,    \* holder[x]: the transaction that has locked row x
  txn,       \* txn[t]: the call t is making
  faults     \* replies lost so far

tables == <<enriched, story, status, tally>>
vars   == <<enriched, story, status, tally, holder, txn, faults>>

Row  == Article \cup Cluster
Txn  == Saver \cup {Job}
NoCall == [op |-> "none", at |-> "none", articles |-> {}, into |-> NoCluster,
           from |-> NoCluster, need |-> {}, moved |-> {}, counts |-> {}, retried |-> FALSE]
Op     == {"none", "save", "apply", "merge"}
Phase  == {"none", "computed", "articles", "clusters"}

Active(c)  == status[c] = "active"
Members(c) == {a \in Article : story[a] = c}

-----------------------------------------------------------------------------
(* Statements *)

\* Mutated form of SaveRows: the articles are not locked before the tally.
SaveRowsLater(S) == {}

\* The rows the first statement of a save locks: it updates the articles.
SaveRows(S) == S

\* The entities a saved batch brings: whose, and to which story.
Brought(S) == {<<a, story[a]>> : a \in {b \in S : story[b] # NoCluster}}

\* apply stamps an article only if, once locked, it has no cluster.
Stamps(call, a) == story[a] = NoCluster

\* A stamped article that is enriched already brings its entities.
BroughtAlong(call, a) == IF a \in enriched THEN {<<a, call.into>>} ELSE {}

\* A statement reads the latest committed version of each row it has locked: a
\* save leaves out a cluster no longer active, a merge moves the loser's members.
Locked(call, x) ==
  LET mine == [call EXCEPT !.need = @ \ {x}]
  IN CASE call.op = "save" /\ x \in Cluster /\ ~Active(x) ->
            [mine EXCEPT !.counts = {p \in @ : p[2] # x}]
       [] call.op = "apply" /\ x \in Article /\ Stamps(call, x) ->
            [mine EXCEPT !.moved = @ \cup {x}, !.counts = @ \cup BroughtAlong(call, x)]
       [] call.op = "merge" /\ x \in Article /\ story[x] = call.from ->
            [mine EXCEPT !.moved = @ \cup {x}]
       [] OTHER -> mine

Lock(t) ==
  \E x \in txn[t].need :
    /\ holder[x] \in {Free, t}
    /\ holder' = [holder EXCEPT ![x] = t]
    /\ txn' = [txn EXCEPT ![t] = Locked(txn[t], x)]
    /\ UNCHANGED <<tables, faults>>

\* Start a statement: what it must lock.
Statement(t, call, at, rows) ==
  txn' = [txn EXCEPT ![t] = [call EXCEPT !.at = at, !.need = rows]]

Unlocked(t) == [x \in Row |-> IF holder[x] = t THEN Free ELSE holder[x]]

\* wizer_merge_clusters returns false, and changes nothing, unless both are active.
MayMerge(w, l) == Active(w) /\ Active(l)

Counted(call) ==
  [c \in Cluster |-> [a \in Article |-> tally[c][a] + (IF <<a, c>> \in call.counts THEN 1 ELSE 0)]]

\* What becomes visible when the transaction commits.
Effect(call) ==
  \/ /\ call.op = "save"
     /\ enriched' = enriched \cup call.articles
     /\ tally' = Counted(call)
     /\ UNCHANGED <<story, status>>
  \/ /\ call.op = "apply"
     /\ status' = [status EXCEPT ![call.into] = IF @ = "none" THEN "active" ELSE @]
     /\ story' = [a \in Article |-> IF a \in call.moved THEN call.into ELSE story[a]]
     /\ tally' = IF status'[call.into] = "active" THEN Counted(call) ELSE tally
     /\ UNCHANGED enriched
  \/ /\ call.op = "merge"
     /\ MayMerge(call.into, call.from)
     /\ story' = [a \in Article |-> IF a \in call.moved THEN call.into ELSE story[a]]
     /\ tally' = [tally EXCEPT ![call.into] =
                    [a \in Article |-> @[a] + tally[call.from][a]]]
     /\ status' = [status EXCEPT ![call.from] = "merged"]
     /\ UNCHANGED enriched
  \/ /\ call.op = "merge"
     /\ ~MayMerge(call.into, call.from)
     /\ UNCHANGED tables

-----------------------------------------------------------------------------
(* Actions *)

\* An enrichment job has computed a batch of articles.
Compute(t) ==
  /\ txn[t].at = "none"
  /\ \E S \in SUBSET ((Article \ enriched) \cup Shared) \ {{}} :
       /\ \A u \in Saver : txn[u].articles \cap S \subseteq Shared
       /\ txn' = [txn EXCEPT ![t] = [NoCall EXCEPT !.op = "save", !.at = "computed", !.articles = S]]
  /\ UNCHANGED <<tables, holder, faults>>

\* It calls the save: the first statement updates the articles.
Save(t) ==
  /\ txn[t].at = "computed"
  /\ Statement(t, txn[t], "articles", SaveRows(txn[t].articles))
  /\ UNCHANGED <<tables, holder, faults>>

\* The clustering job writes one cluster with the articles it assigned to it.
Apply ==
  /\ txn[Job].at = "none"
  /\ \E c \in Cluster, S \in SUBSET {a \in Article : story[a] = NoCluster} \ {{}} :
       /\ status[c] # "merged"
       /\ Statement(Job, [NoCall EXCEPT !.op = "apply", !.articles = S, !.into = c], "clusters", {c})
  /\ UNCHANGED <<tables, holder, faults>>

\* It merges twins, both rows FOR UPDATE first.
Merge ==
  /\ txn[Job].at = "none"
  /\ \E w, l \in Cluster :
       /\ w # l /\ Active(w) /\ Active(l)
       /\ Statement(Job, [NoCall EXCEPT !.op = "merge", !.into = w, !.from = l], "clusters", {w, l})
  /\ UNCHANGED <<tables, holder, faults>>

\* The next statement of the same transaction.
NextStatement(t) ==
  /\ txn[t].need = {}
  /\ \/ /\ txn[t].op = "save" /\ txn[t].at = "articles"
        /\ LET brought == Brought(txn[t].articles)
           IN Statement(t, [txn[t] EXCEPT !.counts = brought], "clusters", {p[2] : p \in brought})
     \/ /\ txn[t].op = "apply" /\ txn[t].at = "clusters"
        /\ Statement(t, txn[t], "articles", txn[t].articles)
     \/ /\ txn[t].op = "merge" /\ txn[t].at = "clusters"
        /\ Statement(t, txn[t], "articles", Members(txn[t].from))
  /\ UNCHANGED <<tables, holder, faults>>

Done(t) ==
  /\ txn[t].need = {}
  /\ txn[t].at = IF txn[t].op = "save" THEN "clusters" ELSE "articles"

Commit(t) ==
  /\ Done(t)
  /\ Effect(txn[t])
  /\ holder' = Unlocked(t)
  /\ txn' = [txn EXCEPT ![t] = NoCall]
  /\ UNCHANGED faults

\* The call committed, its reply timed out: the client makes it once more.
CommitReplyLost(t) ==
  /\ Done(t)
  /\ txn[t].op \in LostReplies /\ ~txn[t].retried
  /\ faults < MaxFaults
  /\ faults' = faults + 1
  /\ Effect(txn[t])
  /\ holder' = Unlocked(t)
  /\ LET again == [txn[t] EXCEPT !.retried = TRUE, !.moved = {}, !.counts = {}]
     IN IF txn[t].op = "save" THEN Statement(t, again, "articles", SaveRows(txn[t].articles))
        ELSE Statement(t, again, "clusters", {txn[t].into, txn[t].from} \ {NoCluster})

\* Rolled back: the victim of a deadlock, cancelled by the statement timeout, or
\* its job died.  The work is done again later, from scratch.
Abort(t) ==
  /\ txn[t].at \in {"articles", "clusters"}
  /\ holder' = Unlocked(t)
  /\ txn' = [txn EXCEPT ![t] = NoCall]
  /\ UNCHANGED <<tables, faults>>

-----------------------------------------------------------------------------
Init ==
  /\ enriched = {}
  /\ story = [a \in Article |-> NoCluster]
  /\ status = [c \in Cluster |-> "none"]
  /\ tally = [c \in Cluster |-> [a \in Article |-> 0]]
  /\ holder = [x \in Row |-> Free]
  /\ txn = [t \in Txn |-> NoCall]
  /\ faults = 0

Next ==
  \/ \E t \in Saver : Compute(t) \/ Save(t)
  \/ Apply
  \/ Merge
  \/ \E t \in Txn :
       Lock(t) \/ NextStatement(t) \/ Commit(t) \/ CommitReplyLost(t) \/ Abort(t)

Spec == Init /\ [][Next]_vars

-----------------------------------------------------------------------------
(* Properties *)

TypeOK ==
  /\ enriched \subseteq Article
  /\ story \in [Article -> Cluster \cup {NoCluster}]
  /\ status \in [Cluster -> {"none", "active", "merged"}]
  /\ tally \in [Cluster -> [Article -> Nat]]
  /\ holder \in [Row -> Txn \cup {Free}]
  /\ txn \in [Txn -> [op : Op, at : Phase, articles : SUBSET Article,
                      into : Cluster \cup {NoCluster}, from : Cluster \cup {NoCluster},
                      need : SUBSET Row, moved : SUBSET Article,
                      counts : SUBSET (Article \X Cluster), retried : BOOLEAN]]
  /\ faults \in 0 .. MaxFaults

\* docs/bulk_io_migration.sql:142-146: whichever of enrichment and clustering
\* reaches an article first, and however the story is merged meanwhile, the
\* tally of an active story counts each of its enriched articles exactly once.
CountedOnce ==
  \A c \in Cluster : Active(c) =>
    \A a \in Article : tally[c][a] = IF a \in enriched /\ story[a] = c THEN 1 ELSE 0
=============================================================================
