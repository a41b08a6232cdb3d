-------------------------- MODULE EntityTallyProofs --------------------------
(***************************************************************************)
(* Theorems about the entity tally: its variables stay in their ranges,    *)
(* and, as long as no save is sent twice and no article is handed out a    *)
(* second time, the tally of a story counts each of its enriched articles  *)
(* exactly once.  The argument is about locks: whoever moves or enriches   *)
(* an article holds its row from reading it to the commit.                 *)
(***************************************************************************)
EXTENDS EntityTally, TLAPS

-----------------------------------------------------------------------------
(* Types *)

Call == [op : Op, at : Phase, articles : SUBSET Article,
         into : Cluster \cup {NoCluster}, from : Cluster \cup {NoCluster},
         need : SUBSET Row, moved : SUBSET Article,
         counts : SUBSET (Article \X Cluster), retried : BOOLEAN]

\* What a call is about.
CallFits(call) ==
  /\ call.op = "none" <=> call.at = "none"
  /\ call.op = "apply" => call.into \in Cluster
  /\ call.op = "merge" => call.into \in Cluster /\ call.from \in Cluster /\ call.into # call.from

Typed == TypeOK /\ \A t \in Txn : CallFits(txn[t])

LEMMA NoCallTyped == NoCall \in Call /\ CallFits(NoCall)
BY DEF NoCall, Call, CallFits, Op, Phase

LEMMA CallOf == TypeOK => \A t \in Txn : txn[t] \in Call
BY DEF TypeOK, Call

\* A step that gives one transaction a well-formed call keeps all well formed.
LEMMA CallGiven ==
  ASSUME Typed, NEW t \in Txn, NEW call \in Call, CallFits(call),
         txn' = [txn EXCEPT ![t] = call]
  PROVE  /\ txn' \in [Txn -> Call]
         /\ \A u \in Txn : CallFits(txn'[u])
         /\ txn'[t] = call
         /\ \A u \in Txn \ {t} : txn'[u] = txn[u]
<1>1. txn \in [Txn -> Call]
  BY DEF Typed, TypeOK, Call
<1>. HIDE DEF Call
<1>. QED BY <1>1 DEF Typed

\* What locking a row does to a call.
LEMMA LockedIs ==
  ASSUME NEW call \in Call, CallFits(call), NEW x \in Row
  PROVE  /\ Locked(call, x) \in Call
         /\ CallFits(Locked(call, x))
         /\ Locked(call, x).op = call.op
         /\ Locked(call, x).at = call.at
         /\ Locked(call, x).articles = call.articles
         /\ Locked(call, x).into = call.into
         /\ Locked(call, x).from = call.from
         /\ Locked(call, x).need = call.need \ {x}
         /\ call.op = "save" /\ ~(x \in Cluster /\ ~Active(x)) => Locked(call, x).counts = call.counts
         /\ call.op = "apply" /\ x \in Article /\ story[x] = NoCluster =>
              /\ Locked(call, x).moved = call.moved \cup {x}
              /\ Locked(call, x).counts = call.counts \cup BroughtAlong(call, x)
         /\ call.op = "apply" /\ ~(x \in Article /\ story[x] = NoCluster) =>
              /\ Locked(call, x).moved = call.moved
              /\ Locked(call, x).counts = call.counts
         /\ call.op = "merge" =>
              /\ Locked(call, x).counts = call.counts
              /\ Locked(call, x).moved = IF x \in Article /\ story[x] = call.from
                                         THEN call.moved \cup {x} ELSE call.moved
<1>. DEFINE mine == [call EXCEPT !.need = @ \ {x}]
<1>1. /\ mine \in Call
      /\ mine.op = call.op /\ mine.at = call.at /\ mine.articles = call.articles
      /\ mine.into = call.into /\ mine.from = call.from /\ mine.need = call.need \ {x}
      /\ mine.moved = call.moved /\ mine.counts = call.counts
  BY DEF Call
<1>2. CASE call.op = "save"
  <2>1. CASE x \in Cluster /\ ~Active(x)
    <3>1. Locked(call, x) = [mine EXCEPT !.counts = {p \in @ : p[2] # x}]
      BY <1>2, <2>1 DEF Locked
    <3>. DEFINE l == [mine EXCEPT !.counts = {p \in @ : p[2] # x}]
    <3>2. /\ l \in Call
          /\ l.op = call.op /\ l.at = call.at /\ l.articles = call.articles
          /\ l.into = call.into /\ l.from = call.from /\ l.need = call.need \ {x}
      BY <1>1 DEF Call
    <3>. QED BY <3>1, <3>2, <1>2, <2>1 DEF CallFits
  <2>2. CASE ~(x \in Cluster /\ ~Active(x))
    <3>1. Locked(call, x) = mine
      BY <1>2, <2>2 DEF Locked
    <3>. QED BY <3>1, <1>1, <1>2, <2>2 DEF CallFits
  <2>. QED BY <2>1, <2>2
<1>3. CASE call.op = "apply"
  <2>1. CASE x \in Article /\ story[x] = NoCluster
    <3>1. Locked(call, x) = [mine EXCEPT !.moved = @ \cup {x}, !.counts = @ \cup BroughtAlong(call, x)]
      BY <1>3, <2>1 DEF Locked, Stamps
    <3>. DEFINE l == [mine EXCEPT !.moved = @ \cup {x}, !.counts = @ \cup BroughtAlong(call, x)]
    <3>2. BroughtAlong(call, x) \subseteq Article \X Cluster
      BY <1>3, <2>1 DEF BroughtAlong, CallFits
    <3>3. /\ l \in Call
          /\ l.op = call.op /\ l.at = call.at /\ l.articles = call.articles
          /\ l.into = call.into /\ l.from = call.from /\ l.need = call.need \ {x}
          /\ l.moved = call.moved \cup {x} /\ l.counts = call.counts \cup BroughtAlong(call, x)
      BY <1>1, <2>1, <3>2 DEF Call
    <3>. QED BY <3>1, <3>3, <1>3, <2>1 DEF CallFits
  <2>2. CASE ~(x \in Article /\ story[x] = NoCluster)
    <3>1. Locked(call, x) = mine
      BY <1>3, <2>2 DEF Locked, Stamps
    <3>. QED BY <3>1, <1>1, <1>3, <2>2 DEF CallFits
  <2>. QED BY <2>1, <2>2
<1>4. CASE call.op = "merge"
  <2>1. CASE x \in Article /\ story[x] = call.from
    <3>1. Locked(call, x) = [mine EXCEPT !.moved = @ \cup {x}]
      BY <1>4, <2>1 DEF Locked
    <3>. DEFINE l == [mine EXCEPT !.moved = @ \cup {x}]
    <3>2. /\ l \in Call
          /\ l.op = call.op /\ l.at = call.at /\ l.articles = call.articles
          /\ l.into = call.into /\ l.from = call.from /\ l.need = call.need \ {x}
          /\ l.moved = call.moved \cup {x} /\ l.counts = call.counts
      BY <1>1, <2>1 DEF Call
    <3>. QED BY <3>1, <3>2, <1>4, <2>1 DEF CallFits
  <2>2. CASE ~(x \in Article /\ story[x] = call.from)
    <3>1. Locked(call, x) = mine
      BY <1>4, <2>2 DEF Locked
    <3>. QED BY <3>1, <1>1, <1>4, <2>2 DEF CallFits
  <2>. QED BY <2>1, <2>2
<1>5. CASE call.op = "none"
  <2>1. Locked(call, x) = mine
    BY <1>5 DEF Locked
  <2>. QED BY <2>1, <1>1, <1>5 DEF CallFits
<1>. QED BY <1>2, <1>3, <1>4, <1>5 DEF Call, Op

\* What an effect leaves of the types.
LEMMA EffectTyped ==
  ASSUME Typed, NEW t \in Txn, Effect(txn[t])
  PROVE  /\ enriched' \subseteq Article
         /\ story' \in [Article -> Cluster \cup {NoCluster}]
         /\ status' \in [Cluster -> {"none", "active", "merged"}]
         /\ tally' \in [Cluster -> [Article -> Nat]]
<1>. DEFINE call == txn[t]
<1>0. call \in Call /\ CallFits(call)
  BY CallOf DEF Typed
<1>. HIDE DEF call
<1>1. Counted(call) \in [Cluster -> [Article -> Nat]]
  BY DEF Counted, Typed, TypeOK
<1>2. CASE call.op = "save"
  <2>1. enriched' = enriched \cup call.articles /\ tally' = Counted(call) /\ UNCHANGED <<story, status>>
    BY <1>2 DEF Effect, call
  <2>. QED BY <2>1, <1>1, <1>0 DEF Typed, TypeOK, Call
<1>3. CASE call.op = "apply"
  <2>1. /\ status' = [status EXCEPT ![call.into] = IF @ = "none" THEN "active" ELSE @]
        /\ story' = [a \in Article |-> IF a \in call.moved THEN call.into ELSE story[a]]
        /\ tally' = IF status'[call.into] = "active" THEN Counted(call) ELSE tally
        /\ UNCHANGED enriched
    BY <1>3 DEF Effect, call
  <2>2. tally' \in [Cluster -> [Article -> Nat]]
    BY <2>1, <1>1 DEF Typed, TypeOK
  <2>. QED BY <2>1, <2>2, <1>0 DEF Typed, TypeOK, Call
<1>4. CASE call.op = "merge" /\ MayMerge(call.into, call.from)
  <2>1. /\ story' = [a \in Article |-> IF a \in call.moved THEN call.into ELSE story[a]]
        /\ tally' = [tally EXCEPT ![call.into] =
                       [a \in Article |-> @[a] + tally[call.from][a]]]
        /\ status' = [status EXCEPT ![call.from] = "merged"]
        /\ UNCHANGED enriched
    BY <1>4 DEF Effect, call
  <2>2. call.into \in Cluster /\ call.from \in Cluster
    BY <1>0, <1>4 DEF CallFits
  <2>3. [a \in Article |-> tally[call.into][a] + tally[call.from][a]] \in [Article -> Nat]
    BY <2>2 DEF Typed, TypeOK
  <2>4. tally' \in [Cluster -> [Article -> Nat]]
    BY <2>1, <2>2, <2>3 DEF Typed, TypeOK
  <2>. QED BY <2>1, <2>4, <1>0 DEF Typed, TypeOK, Call
<1>5. CASE call.op = "merge" /\ ~MayMerge(call.into, call.from)
  BY <1>5 DEF Effect, tables, Typed, TypeOK, call
<1>. QED BY <1>2, <1>3, <1>4, <1>5 DEF Effect, call

\* A statement that begins: the same call, at its phase, needing its rows.
LEMMA StatementIs ==
  ASSUME Typed, NEW t \in Txn, NEW call \in Call, CallFits(call), call.op # "none",
         NEW at \in {"computed", "articles", "clusters"}, NEW rows \in SUBSET Row,
         Statement(t, call, at, rows)
  PROVE  /\ txn' \in [Txn -> Call]
         /\ \A u \in Txn : CallFits(txn'[u])
         /\ \A u \in Txn \ {t} : txn'[u] = txn[u]
         /\ txn'[t].op = call.op /\ txn'[t].at = at /\ txn'[t].need = rows
         /\ txn'[t].articles = call.articles
         /\ txn'[t].into = call.into /\ txn'[t].from = call.from
         /\ txn'[t].moved = call.moved /\ txn'[t].counts = call.counts
<1>. DEFINE next == [call EXCEPT !.at = at, !.need = rows]
<1>1. /\ next \in Call
      /\ next.op = call.op /\ next.at = at /\ next.need = rows
      /\ next.articles = call.articles /\ next.into = call.into /\ next.from = call.from
      /\ next.moved = call.moved /\ next.counts = call.counts
  BY DEF Call, Phase
<1>2. CallFits(next)
  BY <1>1 DEF CallFits
<1>3. txn' = [txn EXCEPT ![t] = next]
  BY DEF Statement
<1>. HIDE DEF next
<1>. QED BY <1>1, <1>2, <1>3, CallGiven

LEMMA BroughtTyped ==
  ASSUME Typed, NEW S \in SUBSET Article
  PROVE  Brought(S) \in SUBSET (Article \X Cluster) /\ {p[2] : p \in Brought(S)} \subseteq Cluster
BY DEF Brought, Typed, TypeOK

LEMMA UnlockedTyped ==
  ASSUME Typed, NEW t \in Txn
  PROVE  Unlocked(t) \in [Row -> Txn \cup {Free}]
BY DEF Unlocked, Typed, TypeOK

LEMMA LockStep ==
  ASSUME Typed, NEW t \in Txn, Lock(t)
  PROVE  \E x \in txn[t].need :
           /\ x \in Row
           /\ holder[x] \in {Free, t}
           /\ holder' = [holder EXCEPT ![x] = t]
           /\ txn' \in [Txn -> Call]
           /\ \A u \in Txn : CallFits(txn'[u])
           /\ \A u \in Txn \ {t} : txn'[u] = txn[u]
           /\ txn'[t] = Locked(txn[t], x)
           /\ UNCHANGED <<enriched, story, status, tally, faults>>
<1>1. PICK x \in txn[t].need :
        /\ holder[x] \in {Free, t}
        /\ holder' = [holder EXCEPT ![x] = t]
        /\ txn' = [txn EXCEPT ![t] = Locked(txn[t], x)]
        /\ UNCHANGED <<tables, faults>>
  BY DEF Lock
<1>2. txn[t] \in Call /\ CallFits(txn[t])
  BY CallOf DEF Typed
<1>3. x \in Row
  BY <1>2 DEF Call
<1>4. Locked(txn[t], x) \in Call /\ CallFits(Locked(txn[t], x))
  BY <1>2, <1>3, LockedIs
<1>5. /\ txn' \in [Txn -> Call]
      /\ \A u \in Txn : CallFits(txn'[u])
      /\ \A u \in Txn \ {t} : txn'[u] = txn[u]
      /\ txn'[t] = Locked(txn[t], x)
  BY <1>1, <1>4, CallGiven
<1>. QED BY <1>1, <1>3, <1>5 DEF tables

LEMMA EndStep ==
  ASSUME Typed, NEW t \in Txn, txn' = [txn EXCEPT ![t] = NoCall]
  PROVE  /\ txn' \in [Txn -> Call]
         /\ \A u \in Txn : CallFits(txn'[u])
         /\ txn'[t] = NoCall
         /\ \A u \in Txn \ {t} : txn'[u] = txn[u]
BY NoCallTyped, CallGiven

\* The client's second call, after a commit whose reply was lost.
LEMMA AgainStep ==
  ASSUME Typed, NEW t \in Txn, CommitReplyLost(t)
  PROVE  /\ txn' \in [Txn -> Call]
         /\ \A u \in Txn : CallFits(txn'[u])
         /\ \A u \in Txn \ {t} : txn'[u] = txn[u]
         /\ txn'[t].op = txn[t].op
         /\ txn'[t].articles = txn[t].articles
         /\ txn'[t].into = txn[t].into /\ txn'[t].from = txn[t].from
         /\ txn'[t].moved = {} /\ txn'[t].counts = {}
         /\ txn[t].op # "save" => /\ txn'[t].at = "clusters"
                                  /\ txn'[t].need \subseteq Cluster
<1>. DEFINE again == [txn[t] EXCEPT !.retried = TRUE, !.moved = {}, !.counts = {}]
<1>1. txn[t] \in Call /\ CallFits(txn[t])
  BY CallOf DEF Typed
<1>2. /\ again \in Call
      /\ again.op = txn[t].op /\ again.articles = txn[t].articles
      /\ again.into = txn[t].into /\ again.from = txn[t].from
      /\ again.moved = {} /\ again.counts = {} /\ again.at = txn[t].at
  BY <1>1 DEF Call
<1>3. CallFits(again)
  BY <1>1, <1>2 DEF CallFits
<1>4. again.op # "none"
  BY <1>1, <1>2 DEF CommitReplyLost, Done, CallFits
<1>5. CASE txn[t].op = "save"
  <2>1. Statement(t, again, "articles", SaveRows(txn[t].articles))
    BY <1>5 DEF CommitReplyLost
  <2>2. SaveRows(txn[t].articles) \in SUBSET Row
    BY <1>1 DEF SaveRows, Call, Row
  <2>. HIDE DEF again
  <2>. QED BY <2>1, <2>2, <1>2, <1>3, <1>4, <1>5, StatementIs
<1>6. CASE txn[t].op # "save"
  <2>1. Statement(t, again, "clusters", {txn[t].into, txn[t].from} \ {NoCluster})
    BY <1>6 DEF CommitReplyLost
  <2>2. {txn[t].into, txn[t].from} \ {NoCluster} \subseteq Cluster
    BY <1>1 DEF Call
  <2>3. {txn[t].into, txn[t].from} \ {NoCluster} \in SUBSET Row
    BY <2>2 DEF Row
  <2>. HIDE DEF again
  <2>4. /\ txn' \in [Txn -> Call]
        /\ \A u \in Txn : CallFits(txn'[u])
        /\ \A u \in Txn \ {t} : txn'[u] = txn[u]
        /\ txn'[t].op = again.op /\ txn'[t].at = "clusters"
        /\ txn'[t].need = {txn[t].into, txn[t].from} \ {NoCluster}
        /\ txn'[t].articles = again.articles
        /\ txn'[t].into = again.into /\ txn'[t].from = again.from
        /\ txn'[t].moved = again.moved /\ txn'[t].counts = again.counts
    BY <2>1, <2>3, <1>2, <1>3, <1>4, StatementIs
  <2>. QED BY <2>2, <2>4, <1>2
<1>. QED BY <1>5, <1>6

\* The three ways a transaction goes on, with what each leaves of the call.
LEMMA NextStatementStep ==
  ASSUME Typed, NEW t \in Txn, NextStatement(t)
  PROVE  /\ txn' \in [Txn -> Call]
         /\ \A u \in Txn : CallFits(txn'[u])
         /\ \A u \in Txn \ {t} : txn'[u] = txn[u]
         /\ txn'[t].op = txn[t].op
         /\ txn'[t].articles = txn[t].articles
         /\ txn'[t].into = txn[t].into /\ txn'[t].from = txn[t].from
         /\ txn'[t].moved = txn[t].moved
         /\ \/ /\ txn[t].op = "save" /\ txn[t].at = "articles" /\ txn'[t].at = "clusters"
               /\ txn'[t].counts = Brought(txn[t].articles)
               /\ txn'[t].need = {p[2] : p \in Brought(txn[t].articles)}
            \/ /\ txn[t].op = "apply" /\ txn[t].at = "clusters" /\ txn'[t].at = "articles"
               /\ txn'[t].counts = txn[t].counts
               /\ txn'[t].need = txn[t].articles
            \/ /\ txn[t].op = "merge" /\ txn[t].at = "clusters" /\ txn'[t].at = "articles"
               /\ txn'[t].counts = txn[t].counts
               /\ txn'[t].need = Members(txn[t].from)
<1>1. txn[t] \in Call /\ CallFits(txn[t])
  BY CallOf DEF Typed
<1>2. CASE txn[t].op = "save" /\ txn[t].at = "articles"
  <2>. DEFINE brought == Brought(txn[t].articles)
              call == [txn[t] EXCEPT !.counts = brought]
  <2>1. Statement(t, call, "clusters", {p[2] : p \in brought})
    BY <1>2 DEF NextStatement
  <2>2. brought \in SUBSET (Article \X Cluster) /\ {p[2] : p \in brought} \subseteq Cluster
    BY <1>1, BroughtTyped DEF Call
  <2>. HIDE DEF brought
  <2>3. /\ call \in Call
        /\ call.op = txn[t].op /\ call.articles = txn[t].articles
        /\ call.into = txn[t].into /\ call.from = txn[t].from
        /\ call.moved = txn[t].moved /\ call.counts = brought /\ call.at = txn[t].at
    BY <1>1, <2>2 DEF Call
  <2>4. CallFits(call) /\ call.op # "none"
    BY <1>1, <1>2, <2>3 DEF CallFits
  <2>5. {p[2] : p \in brought} \in SUBSET Row
    BY <2>2 DEF Row
  <2>. HIDE DEF call
  <2>6. /\ txn' \in [Txn -> Call]
        /\ \A u \in Txn : CallFits(txn'[u])
        /\ \A u \in Txn \ {t} : txn'[u] = txn[u]
        /\ txn'[t].op = call.op /\ txn'[t].at = "clusters"
        /\ txn'[t].need = {p[2] : p \in brought}
        /\ txn'[t].articles = call.articles
        /\ txn'[t].into = call.into /\ txn'[t].from = call.from
        /\ txn'[t].moved = call.moved /\ txn'[t].counts = call.counts
    BY <2>1, <2>3, <2>4, <2>5, StatementIs
  <2>. QED BY <2>6, <2>3, <1>2 DEF brought
<1>3. CASE txn[t].op = "apply" /\ txn[t].at = "clusters"
  <2>1. Statement(t, txn[t], "articles", txn[t].articles)
    BY <1>3 DEF NextStatement
  <2>2. txn[t].articles \in SUBSET Row
    BY <1>1 DEF Call, Row
  <2>. QED BY <2>1, <2>2, <1>1, <1>3, StatementIs
<1>4. CASE txn[t].op = "merge" /\ txn[t].at = "clusters"
  <2>1. Statement(t, txn[t], "articles", Members(txn[t].from))
    BY <1>4 DEF NextStatement
  <2>2. Members(txn[t].from) \in SUBSET Row
    BY DEF Members, Row
  <2>. QED BY <2>1, <2>2, <1>1, <1>4, StatementIs
<1>. QED BY <1>2, <1>3, <1>4 DEF NextStatement

LEMMA ComputeStep ==
  ASSUME Typed, NEW t \in Saver, Compute(t)
  PROVE  \E S \in SUBSET ((Article \ enriched) \cup Shared) :
           /\ \A u \in Saver : txn[u].articles \cap S \subseteq Shared
           /\ txn' \in [Txn -> Call]
           /\ \A u \in Txn : CallFits(txn'[u])
           /\ \A u \in Txn \ {t} : txn'[u] = txn[u]
           /\ txn'[t].op = "save" /\ txn'[t].at = "computed" /\ txn'[t].articles = S
           /\ txn'[t].moved = {} /\ txn'[t].counts = {}
<1>1. PICK S \in SUBSET ((Article \ enriched) \cup Shared) \ {{}} :
        /\ \A u \in Saver : txn[u].articles \cap S \subseteq Shared
        /\ txn' = [txn EXCEPT ![t] = [NoCall EXCEPT !.op = "save", !.at = "computed", !.articles = S]]
  BY DEF Compute
<1>. DEFINE call == [NoCall EXCEPT !.op = "save", !.at = "computed", !.articles = S]
<1>2. S \subseteq Article
  BY NameAssumption
<1>3. /\ call \in Call /\ call.op = "save" /\ call.at = "computed" /\ call.articles = S
      /\ call.moved = {} /\ call.counts = {}
  BY <1>2 DEF NoCall, Call, Op, Phase
<1>4. CallFits(call)
  BY <1>3 DEF CallFits
<1>5. t \in Txn
  BY DEF Txn
<1>6. txn' = [txn EXCEPT ![t] = call]
  BY <1>1
<1>. HIDE DEF call
<1>7. /\ txn' \in [Txn -> Call]
      /\ \A u \in Txn : CallFits(txn'[u])
      /\ txn'[t] = call
      /\ \A u \in Txn \ {t} : txn'[u] = txn[u]
  BY <1>3, <1>4, <1>5, <1>6, CallGiven
<1>. QED BY <1>1, <1>3, <1>7

LEMMA SaveStep ==
  ASSUME Typed, NEW t \in Saver, Save(t)
  PROVE  /\ txn' \in [Txn -> Call]
         /\ \A u \in Txn : CallFits(txn'[u])
         /\ \A u \in Txn \ {t} : txn'[u] = txn[u]
         /\ txn'[t].op = txn[t].op /\ txn'[t].at = "articles"
         /\ txn'[t].articles = txn[t].articles
         /\ txn'[t].need = txn[t].articles
<1>1. t \in Txn
  BY DEF Txn
<1>2. txn[t] \in Call /\ CallFits(txn[t]) /\ txn[t].op # "none"
  BY <1>1, CallOf DEF Typed, Save, CallFits
<1>3. SaveRows(txn[t].articles) \in SUBSET Row
  BY <1>2 DEF SaveRows, Call, Row
<1>4. Statement(t, txn[t], "articles", SaveRows(txn[t].articles))
  BY DEF Save
<1>. QED BY <1>1, <1>2, <1>3, <1>4, StatementIs DEF SaveRows

LEMMA ApplyStep ==
  ASSUME Typed, Apply
  PROVE  /\ txn' \in [Txn -> Call]
         /\ \A u \in Txn : CallFits(txn'[u])
         /\ \A u \in Txn \ {Job} : txn'[u] = txn[u]
         /\ txn'[Job].op = "apply" /\ txn'[Job].at = "clusters"
         /\ txn'[Job].into \in Cluster /\ status[txn'[Job].into] # "merged"
         /\ txn'[Job].need \subseteq Cluster
         /\ txn'[Job].moved = {} /\ txn'[Job].counts = {}
<1>1. PICK c \in Cluster, S \in SUBSET {a \in Article : story[a] = NoCluster} \ {{}} :
        /\ status[c] # "merged"
        /\ Statement(Job, [NoCall EXCEPT !.op = "apply", !.articles = S, !.into = c], "clusters", {c})
  BY DEF Apply
<1>. DEFINE call == [NoCall EXCEPT !.op = "apply", !.articles = S, !.into = c]
<1>2. /\ [NoCall EXCEPT !.op = "apply", !.articles = S, !.into = c] \in Call
      /\ call.op = "apply" /\ call.into = c /\ call.moved = {} /\ call.counts = {}
  BY DEF NoCall, Call, Op, Phase
<1>3. CallFits([call EXCEPT !.at = "clusters"])
  BY DEF CallFits, NoCall
<1>4. [call EXCEPT !.at = "clusters", !.need = {c}] \in Call
  BY DEF NoCall, Call, Op, Phase, Row
<1>. DEFINE next == [call EXCEPT !.at = "clusters", !.need = {c}]
<1>5. /\ next.op = "apply" /\ next.at = "clusters" /\ next.into = c /\ next.need = {c}
      /\ next.moved = {} /\ next.counts = {}
  BY DEF NoCall
<1>6. CallFits(next)
  BY <1>5 DEF CallFits
<1>7. txn' = [txn EXCEPT ![Job] = next]
  BY <1>1 DEF Statement
<1>8. Job \in Txn
  BY DEF Txn
<1>. HIDE DEF next
<1>9. /\ txn' \in [Txn -> Call]
      /\ \A u \in Txn : CallFits(txn'[u])
      /\ txn'[Job] = next
      /\ \A u \in Txn \ {Job} : txn'[u] = txn[u]
  BY <1>4, <1>6, <1>7, <1>8, CallGiven DEF next
<1>. QED BY <1>1, <1>5, <1>9

LEMMA MergeStep ==
  ASSUME Typed, Merge
  PROVE  /\ txn' \in [Txn -> Call]
         /\ \A u \in Txn : CallFits(txn'[u])
         /\ \A u \in Txn \ {Job} : txn'[u] = txn[u]
         /\ txn'[Job].op = "merge" /\ txn'[Job].at = "clusters"
         /\ txn'[Job].need \subseteq Cluster
         /\ txn'[Job].moved = {} /\ txn'[Job].counts = {}
<1>1. PICK w \in Cluster, l \in Cluster :
        /\ w # l
        /\ Statement(Job, [NoCall EXCEPT !.op = "merge", !.into = w, !.from = l], "clusters", {w, l})
  BY DEF Merge
<1>. DEFINE call == [NoCall EXCEPT !.op = "merge", !.into = w, !.from = l]
            next == [call EXCEPT !.at = "clusters", !.need = {w, l}]
<1>2. next \in Call
  BY DEF NoCall, Call, Op, Phase, Row
<1>3. /\ next.op = "merge" /\ next.at = "clusters" /\ next.into = w /\ next.from = l
      /\ next.need = {w, l} /\ next.moved = {} /\ next.counts = {}
  BY DEF NoCall
<1>4. CallFits(next)
  BY <1>1, <1>3 DEF CallFits
<1>5. txn' = [txn EXCEPT ![Job] = next]
  BY <1>1 DEF Statement
<1>6. Job \in Txn
  BY DEF Txn
<1>. HIDE DEF next
<1>7. /\ txn' \in [Txn -> Call]
      /\ \A u \in Txn : CallFits(txn'[u])
      /\ txn'[Job] = next
      /\ \A u \in Txn \ {Job} : txn'[u] = txn[u]
  BY <1>2, <1>4, <1>5, <1>6, CallGiven
<1>. QED BY <1>3, <1>7

LEMMA FaultsTyped == TypeOK /\ (UNCHANGED faults \/ \E t \in Txn : CommitReplyLost(t)) => faults' \in 0 .. MaxFaults
<1>1. TypeOK => faults \in 0 .. MaxFaults
  BY DEF TypeOK
<1>2. (\E t \in Txn : CommitReplyLost(t)) => faults < MaxFaults /\ faults' = faults + 1
  BY DEF CommitReplyLost
<1>. QED BY <1>1, <1>2, NameAssumption

LEMMA TypedInit == Init => Typed
<1>. SUFFICES ASSUME Init PROVE Typed
  OBVIOUS
<1>1. \A t \in Txn : txn[t] = NoCall
  BY DEF Init
<1>2. txn \in [Txn -> Call] /\ \A t \in Txn : CallFits(txn[t])
  BY NoCallTyped, <1>1 DEF Init
<1>3. tally \in [Cluster -> [Article -> Nat]] /\ faults \in 0 .. MaxFaults
  BY NameAssumption DEF Init
<1>4. /\ enriched \subseteq Article
      /\ story \in [Article -> Cluster \cup {NoCluster}]
      /\ status \in [Cluster -> {"none", "active", "merged"}]
      /\ holder \in [Row -> Txn \cup {Free}]
  BY DEF Init
<1>. QED BY <1>2, <1>3, <1>4 DEF Typed, TypeOK, Call

LEMMA TypedStep == Typed /\ [Next]_vars => Typed'
<1>. SUFFICES ASSUME Typed, [Next]_vars PROVE Typed'
  OBVIOUS
<1>. USE DEF tables
<1>0. SUFFICES /\ enriched' \subseteq Article
               /\ story' \in [Article -> Cluster \cup {NoCluster}]
               /\ status' \in [Cluster -> {"none", "active", "merged"}]
               /\ tally' \in [Cluster -> [Article -> Nat]]
               /\ holder' \in [Row -> Txn \cup {Free}]
               /\ txn' \in [Txn -> Call]
               /\ faults' \in 0 .. MaxFaults
               /\ \A u \in Txn : CallFits(txn'[u])
  BY DEF Typed, TypeOK, Call
<1>. DEFINE Tables == /\ enriched' \subseteq Article
                      /\ story' \in [Article -> Cluster \cup {NoCluster}]
                      /\ status' \in [Cluster -> {"none", "active", "merged"}]
                      /\ tally' \in [Cluster -> [Article -> Nat]]
            Calls == txn' \in [Txn -> Call] /\ \A u \in Txn : CallFits(txn'[u])
<1>1. UNCHANGED tables => Tables
  BY DEF Typed, TypeOK
<1>2. UNCHANGED holder => holder' \in [Row -> Txn \cup {Free}]
  BY DEF Typed, TypeOK
<1>3. CASE UNCHANGED vars
  <2>1. txn \in [Txn -> Call] /\ faults \in 0 .. MaxFaults
    BY DEF Typed, TypeOK, Call
  <2>. QED BY <1>1, <1>2, <1>3, <2>1 DEF vars, Typed
<1>4. ASSUME NEW t \in Saver, Compute(t) PROVE Tables /\ Calls /\ holder' \in [Row -> Txn \cup {Free}] /\ faults' \in 0 .. MaxFaults
  <2>1. Calls
    BY <1>4, ComputeStep
  <2>. HIDE DEF Calls
  <2>. QED BY <1>1, <1>2, <1>4, <2>1, FaultsTyped DEF Compute, Typed
<1>5. ASSUME NEW t \in Saver, Save(t) PROVE Tables /\ Calls /\ holder' \in [Row -> Txn \cup {Free}] /\ faults' \in 0 .. MaxFaults
  <2>1. Calls
    BY <1>5, SaveStep
  <2>. HIDE DEF Calls
  <2>. QED BY <1>1, <1>2, <1>5, <2>1, FaultsTyped DEF Save, Typed
<1>6. CASE Apply
  <2>1. Calls
    BY <1>6, ApplyStep
  <2>. HIDE DEF Calls
  <2>2. Tables /\ Calls /\ holder' \in [Row -> Txn \cup {Free}] /\ faults' \in 0 .. MaxFaults
    BY <1>1, <1>2, <1>6, <2>1, FaultsTyped DEF Apply, Typed
  <2>. QED BY <2>2 DEF Calls
<1>7. CASE Merge
  <2>1. Calls
    BY <1>7, MergeStep
  <2>. HIDE DEF Calls
  <2>2. Tables /\ Calls /\ holder' \in [Row -> Txn \cup {Free}] /\ faults' \in 0 .. MaxFaults
    BY <1>1, <1>2, <1>7, <2>1, FaultsTyped DEF Merge, Typed
  <2>. QED BY <2>2 DEF Calls
<1>8. ASSUME NEW t \in Txn, Lock(t) PROVE Tables /\ Calls /\ holder' \in [Row -> Txn \cup {Free}] /\ faults' \in 0 .. MaxFaults
  <2>1. PICK x \in txn[t].need :
           /\ x \in Row
           /\ holder' = [holder EXCEPT ![x] = t]
           /\ txn' \in [Txn -> Call]
           /\ \A u \in Txn : CallFits(txn'[u])
           /\ UNCHANGED <<enriched, story, status, tally, faults>>
    BY <1>8, LockStep
  <2>2. Calls
    BY <2>1
  <2>3. holder' \in [Row -> Txn \cup {Free}]
    BY <2>1 DEF Typed, TypeOK
  <2>. HIDE DEF Calls
  <2>. QED BY <1>1, <2>1, <2>2, <2>3, FaultsTyped DEF Typed
<1>9. ASSUME NEW t \in Txn, NextStatement(t) PROVE Tables /\ Calls /\ holder' \in [Row -> Txn \cup {Free}] /\ faults' \in 0 .. MaxFaults
  <2>1. Calls
    BY <1>9, NextStatementStep
  <2>. HIDE DEF Calls
  <2>. QED BY <1>1, <1>2, <1>9, <2>1, FaultsTyped DEF NextStatement, Typed
<1>10. ASSUME NEW t \in Txn, Commit(t) PROVE Tables /\ Calls /\ holder' \in [Row -> Txn \cup {Free}] /\ faults' \in 0 .. MaxFaults
  <2>1. Calls
    BY <1>10, EndStep DEF Commit
  <2>2. Tables
    BY <1>10, EffectTyped DEF Commit
  <2>. HIDE DEF Calls, Tables
  <2>. QED BY <1>10, <2>1, <2>2, UnlockedTyped, FaultsTyped DEF Commit, Typed
<1>11. ASSUME NEW t \in Txn, CommitReplyLost(t) PROVE Tables /\ Calls /\ holder' \in [Row -> Txn \cup {Free}] /\ faults' \in 0 .. MaxFaults
  <2>1. Calls
    BY <1>11, AgainStep
  <2>2. Tables
    BY <1>11, EffectTyped DEF CommitReplyLost
  <2>. HIDE DEF Calls, Tables
  <2>3. holder' \in [Row -> Txn \cup {Free}]
    BY <1>11, UnlockedTyped DEF CommitReplyLost
  <2>. QED BY <1>11, <2>1, <2>2, <2>3, FaultsTyped DEF Typed
<1>12. ASSUME NEW t \in Txn, Abort(t) PROVE Tables /\ Calls /\ holder' \in [Row -> Txn \cup {Free}] /\ faults' \in 0 .. MaxFaults
  <2>1. Calls
    BY <1>12, EndStep DEF Abort
  <2>. HIDE DEF Calls
  <2>. QED BY <1>1, <1>12, <2>1, UnlockedTyped, FaultsTyped DEF Abort, Typed
<1>. QED BY <1>3, <1>4, <1>5, <1>6, <1>7, <1>8, <1>9, <1>10, <1>11, <1>12 DEF Next

\* Every variable stays in its range, whatever is handed out or sent twice.
THEOREM TypeCorrect == Spec => []TypeOK
<1>1. Typed => TypeOK
  BY DEF Typed
<1>. QED BY TypedInit, TypedStep, <1>1, PTL DEF Spec

-----------------------------------------------------------------------------
(* Counting *)

\* A story that has members is active; one that is not there yet counts nothing.
StoriesLive ==
  /\ \A a \in Article : story[a] # NoCluster => Active(story[a])
  /\ \A c \in Cluster : status[c] = "none" => \A a \in Article : tally[c][a] = 0

\* No two jobs save the same article.
Apart == \A t, u \in Saver : t # u => txn[t].articles \cap txn[u].articles = {}

\* A save is of articles not yet enriched; it has locked those it no longer
\* needs, and what it is about to count is what they bring.
SaverFits(t) ==
  LET call == txn[t]
  IN /\ call.op \in {"none", "save"}
     /\ call.articles \cap enriched = {}
     /\ call.at = "articles" => \A a \in call.articles \ call.need : holder[a] = t
     /\ call.at = "clusters" => /\ \A a \in call.articles : holder[a] = t
                                /\ call.counts = Brought(call.articles)
                                /\ call.need \subseteq {p[2] : p \in call.counts}

\* The clustering job holds the articles it moves; an assignment is about to count
\* the enriched ones among them, a merge to move all members of the loser.
JobFits ==
  LET call == txn[Job]
  IN /\ call.op # "save"
     /\ call.at # "computed"
     /\ call.at = "clusters" => call.moved = {} /\ call.counts = {} /\ call.need \subseteq Cluster
     /\ \A a \in call.moved : holder[a] = Job
     /\ call.op = "apply" => status[call.into] # "merged"
     /\ call.op = "apply" /\ call.at = "articles" =>
          /\ \A a \in call.moved : story[a] = NoCluster
          /\ call.counts = {<<a, call.into>> : a \in call.moved \cap enriched}
     /\ call.op = "merge" /\ call.at = "articles" =>
          /\ call.need \subseteq Members(call.from)
          /\ call.moved = Members(call.from) \ call.need

TallyInv ==
  /\ Typed
  /\ StoriesLive
  /\ Apart
  /\ \A t \in Saver : SaverFits(t)
  /\ JobFits
  /\ CountedOnce

\* No article is handed out a second time, and no save is sent a second time.
SavedOnce == Shared = {} /\ "save" \notin LostReplies

LEMMA TxnOf == Job \in Txn /\ Saver \subseteq Txn /\ Job \notin Saver /\ Txn = Saver \cup {Job}
BY NameAssumption DEF Txn

\* What keeps a save fitting while others step.
LEMMA SaverStays ==
  ASSUME NEW t \in Saver, Typed, SaverFits(t), txn'[t] = txn[t],
         \A a \in Article : holder[a] = t => holder'[a] = t,
         enriched' \cap txn[t].articles = enriched \cap txn[t].articles,
         \A a \in Article : holder[a] = t => story'[a] = story[a]
  PROVE  SaverFits(t)'
<1>1. txn[t] \in Call
  BY CallOf, TxnOf DEF Typed
<1>2. txn[t].articles \subseteq Article
  BY <1>1 DEF Call
<1>3. ASSUME \A a \in txn[t].articles : holder[a] = t
      PROVE  Brought(txn[t].articles)' = Brought(txn[t].articles)
  BY <1>2, <1>3 DEF Brought
<1>4. txn[t].at = "articles" => \A a \in txn[t].articles \ txn[t].need : holder'[a] = t
  BY <1>2 DEF SaverFits
<1>5. txn[t].at = "clusters" => \A a \in txn[t].articles : holder[a] = t /\ holder'[a] = t
  BY <1>2 DEF SaverFits
<1>6. txn[t].at = "clusters" => txn[t].counts = Brought(txn[t].articles)'
  BY <1>3, <1>5 DEF SaverFits
<1>. QED BY <1>4, <1>5, <1>6 DEF SaverFits

LEMMA JobStays ==
  ASSUME Typed, JobFits, txn'[Job] = txn[Job],
         \A a \in Article : holder[a] = Job => holder'[a] = Job,
         \A a \in Article : holder[a] = Job => (a \in enriched' <=> a \in enriched),
         story' = story, status' = status
  PROVE  JobFits'
<1>1. txn[Job] \in Call
  BY CallOf, TxnOf DEF Typed
<1>2. txn[Job].moved \subseteq Article
  BY <1>1 DEF Call
<1>3. \A a \in txn[Job].moved : holder'[a] = Job
  BY <1>2 DEF JobFits
<1>4. txn[Job].moved \cap enriched' = txn[Job].moved \cap enriched
  BY <1>2 DEF JobFits
<1>5. Members(txn[Job].from)' = Members(txn[Job].from)
  BY DEF Members
<1>. QED BY <1>3, <1>4, <1>5 DEF JobFits

LEMMA ApartStays ==
  ASSUME Apart, \A u \in Saver : txn'[u].articles \subseteq txn[u].articles
  PROVE  Apart'
BY DEF Apart

LEMMA TablesStay ==
  ASSUME StoriesLive, CountedOnce, UNCHANGED tables
  PROVE  StoriesLive' /\ CountedOnce'
BY DEF tables, StoriesLive, CountedOnce, Active

LEMMA Keeps ==
  ASSUME Typed, NEW t \in Txn, holder' = Unlocked(t), NEW u \in Txn \ {t}
  PROVE  \A a \in Article : holder[a] = u => holder'[a] = u
BY DEF Unlocked, Row

\* A save commits: the articles it enriches are counted for the first time.
LEMMA SaveEffect ==
  ASSUME TallyInv, NEW t \in Saver, Done(t), Effect(txn[t])
  PROVE  /\ StoriesLive' /\ CountedOnce'
         /\ story' = story /\ status' = status
         /\ enriched' = enriched \cup txn[t].articles
         /\ \A a \in txn[t].articles : holder[a] = t
<1>1. txn[t] \in Call /\ CallFits(txn[t]) /\ SaverFits(t)
  BY CallOf, TxnOf DEF Typed, TallyInv
<1>2. txn[t].op = "save" /\ txn[t].at = "clusters"
  BY <1>1 DEF Done, SaverFits, CallFits, Effect
<1>3. enriched' = enriched \cup txn[t].articles /\ tally' = Counted(txn[t])
      /\ story' = story /\ status' = status
  BY <1>2 DEF Effect
<1>4. PICK S \in SUBSET Article :
        /\ S = txn[t].articles
        /\ txn[t].counts = Brought(S)
        /\ S \cap enriched = {}
        /\ \A a \in S : holder[a] = t
  BY <1>1, <1>2 DEF SaverFits, Call
<1>5. \A c \in Cluster, a \in Article : <<a, c>> \in Brought(S) <=> a \in S /\ story[a] = c
  BY NameAssumption DEF Brought
<1>6. \A c \in Cluster, a \in Article :
        tally'[c][a] = tally[c][a] + (IF a \in S /\ story[a] = c THEN 1 ELSE 0)
  <2>1. \A c \in Cluster, a \in Article :
          tally'[c][a] = tally[c][a] + (IF <<a, c>> \in txn[t].counts THEN 1 ELSE 0)
    BY <1>3 DEF Counted
  <2>2. \A c \in Cluster, a \in Article : <<a, c>> \in txn[t].counts <=> a \in S /\ story[a] = c
    <3>1. txn[t].counts = Brought(S)
      BY <1>4
    <3>2. \A c \in Cluster, a \in Article : <<a, c>> \in Brought(S) <=> a \in S /\ story[a] = c
      BY <1>5
    <3>3. TAKE c \in Cluster, a \in Article
    <3>4. <<a, c>> \in Brought(S) <=> a \in S /\ story[a] = c
      BY <3>2
    <3>. QED BY <3>1, <3>4
  <2>3. TAKE c \in Cluster, a \in Article
  <2>4. CASE <<a, c>> \in txn[t].counts
    BY <2>1, <2>2, <2>4
  <2>5. CASE <<a, c>> \notin txn[t].counts
    BY <2>1, <2>2, <2>5
  <2>. QED BY <2>4, <2>5
<1>7. StoriesLive'
  <2>1. ASSUME NEW a \in Article, story[a] # NoCluster PROVE Active(story[a])
    BY <2>1 DEF TallyInv, StoriesLive
  <2>2. ASSUME NEW c \in Cluster, status[c] = "none", NEW a \in Article PROVE tally'[c][a] = 0
    <3>1. tally[c][a] = 0
      BY <2>2 DEF TallyInv, StoriesLive
    <3>2. story[a] # c
      BY <2>1, <2>2, NameAssumption DEF Active
    <3>. QED BY <3>1, <3>2, <1>6
  <2>. QED BY <1>3, <2>1, <2>2 DEF StoriesLive, Active
<1>8. CountedOnce'
  <2>1. SUFFICES ASSUME NEW c \in Cluster, status[c] = "active", NEW a \in Article
                 PROVE  tally'[c][a] = IF a \in enriched' /\ story[a] = c THEN 1 ELSE 0
    BY <1>3 DEF CountedOnce, Active
  <2>2. tally[c][a] = IF a \in enriched /\ story[a] = c THEN 1 ELSE 0
    BY <2>1 DEF TallyInv, CountedOnce, Active
  <2>3. a \in enriched' <=> a \in enriched \/ a \in S
    BY <1>3, <1>4
  <2>. QED BY <2>2, <2>3, <1>4, <1>6
<1>. QED BY <1>3, <1>4, <1>7, <1>8

\* The clustering job commits: only articles it holds change their story, and
\* what they bring goes with them.
LEMMA JobEffect ==
  ASSUME TallyInv, Done(Job), Effect(txn[Job])
  PROVE  /\ StoriesLive' /\ CountedOnce'
         /\ enriched' = enriched
         /\ \A a \in Article : holder[a] # Job => story'[a] = story[a]
         /\ txn[Job].op = "apply" => status'[txn[Job].into] # "merged"
<1>. DEFINE call == txn[Job]
<1>1. call \in Call /\ CallFits(call) /\ JobFits
  BY CallOf, TxnOf DEF Typed, TallyInv
<1>2. call.op \in {"apply", "merge"} /\ call.at = "articles" /\ call.need = {}
  BY <1>1 DEF Done, JobFits, CallFits, Effect
<1>3. /\ call.moved \subseteq Article
      /\ \A a \in call.moved : holder[a] = Job
  BY <1>1 DEF JobFits, Call
<1>4. /\ \A a \in Article : story[a] \in Cluster \cup {NoCluster}
      /\ \A a \in Article : story[a] # NoCluster => status[story[a]] = "active"
      /\ \A c \in Cluster : status[c] = "none" => \A a \in Article : tally[c][a] = 0
      /\ \A c \in Cluster : status[c] = "active" =>
           \A a \in Article : tally[c][a] = IF a \in enriched /\ story[a] = c THEN 1 ELSE 0
      /\ status \in [Cluster -> {"none", "active", "merged"}]
      /\ tally \in [Cluster -> [Article -> Nat]]
  BY DEF TallyInv, StoriesLive, CountedOnce, Active, Typed, TypeOK
<1>5. CASE call.op = "apply"
  <2>1. /\ status' = [status EXCEPT ![call.into] = IF @ = "none" THEN "active" ELSE @]
        /\ story' = [a \in Article |-> IF a \in call.moved THEN call.into ELSE story[a]]
        /\ tally' = IF status'[call.into] = "active" THEN Counted(call) ELSE tally
        /\ enriched' = enriched
    BY <1>5 DEF Effect
  <2>2. /\ call.into \in Cluster /\ status[call.into] # "merged"
        /\ \A a \in call.moved : story[a] = NoCluster
        /\ call.counts = {<<a, call.into>> : a \in call.moved \cap enriched}
    BY <1>1, <1>2, <1>5 DEF JobFits, CallFits
  <2>. HIDE DEF call
  <2>3. status'[call.into] = "active" /\ \A c \in Cluster \ {call.into} : status'[c] = status[c]
    BY <2>1, <2>2, <1>4
  <2>4. \A c \in Cluster, a \in Article :
          <<a, c>> \in call.counts <=> c = call.into /\ a \in call.moved /\ a \in enriched
    BY <2>2
  <2>5. \A c \in Cluster, a \in Article :
          tally'[c][a] = tally[c][a] + (IF c = call.into /\ a \in call.moved /\ a \in enriched THEN 1 ELSE 0)
    BY <2>1, <2>3, <2>4 DEF Counted
  <2>6. \A a \in Article : story'[a] = IF a \in call.moved THEN call.into ELSE story[a]
    BY <2>1
  <2>7. StoriesLive'
    <3>1. ASSUME NEW a \in Article, story'[a] # NoCluster PROVE status'[story'[a]] = "active"
      BY <3>1, <2>3, <2>6, <1>4
    <3>2. ASSUME NEW c \in Cluster, status'[c] = "none", NEW a \in Article PROVE tally'[c][a] = 0
      <4>1. c # call.into /\ status[c] = "none"
        BY <3>2, <2>3
      <4>. QED BY <4>1, <2>5, <1>4
    <3>. QED BY <3>1, <3>2 DEF StoriesLive, Active
  <2>8. CountedOnce'
    <3>1. SUFFICES ASSUME NEW c \in Cluster, status'[c] = "active", NEW a \in Article
                   PROVE  tally'[c][a] = IF a \in enriched /\ story'[a] = c THEN 1 ELSE 0
      BY <2>1 DEF CountedOnce, Active
    <3>2. CASE c # call.into
      <4>1. status[c] = "active" /\ tally'[c][a] = tally[c][a]
        BY <3>1, <3>2, <2>3, <2>5, <1>4
      <4>2. story'[a] = c <=> story[a] = c
        BY <3>2, <2>2, <2>6, NameAssumption
      <4>. QED BY <4>1, <4>2, <1>4
    <3>3. CASE c = call.into
      <4>1. tally[c][a] = IF a \in enriched /\ story[a] = c THEN 1 ELSE 0
        <5>1. CASE status[c] = "active"
          BY <5>1, <1>4
        <5>2. CASE status[c] = "none"
          <6>1. story[a] # c
            BY <5>2, <1>4, NameAssumption
          <6>. QED BY <6>1, <5>2, <1>4
        <5>. QED BY <5>1, <5>2, <2>2, <3>3, <1>4
      <4>2. CASE a \in call.moved
        <5>1. story[a] = NoCluster /\ story'[a] = c
          BY <4>2, <3>3, <2>2, <2>6
        <5>2. tally[c][a] = 0
          BY <5>1, <4>1, NameAssumption
        <5>. QED BY <5>1, <5>2, <4>2, <3>3, <2>5
      <4>3. CASE a \notin call.moved
        BY <4>1, <4>3, <2>5, <2>6, <1>4
      <4>. QED BY <4>2, <4>3
    <3>. QED BY <3>2, <3>3
  <2>. QED BY <2>1, <2>3, <2>6, <2>7, <2>8, <1>3 DEF call
<1>6. CASE call.op = "merge" /\ MayMerge(call.into, call.from)
  <2>1. /\ story' = [a \in Article |-> IF a \in call.moved THEN call.into ELSE story[a]]
        /\ tally' = [tally EXCEPT ![call.into] =
                       [a \in Article |-> @[a] + tally[call.from][a]]]
        /\ status' = [status EXCEPT ![call.from] = "merged"]
        /\ enriched' = enriched
    BY <1>6 DEF Effect
  <2>2. /\ call.into \in Cluster /\ call.from \in Cluster /\ call.into # call.from
        /\ status[call.into] = "active" /\ status[call.from] = "active"
        /\ call.moved = Members(call.from)
    BY <1>1, <1>2, <1>6 DEF JobFits, CallFits, MayMerge, Active
  <2>. HIDE DEF call
  <2>3. \A a \in Article : story'[a] = IF story[a] = call.from THEN call.into ELSE story[a]
    BY <2>1, <2>2 DEF Members
  <2>4. /\ status'[call.from] = "merged"
        /\ \A c \in Cluster \ {call.from} : status'[c] = status[c]
    BY <2>1, <2>2, <1>4
  <2>5. /\ \A c \in Cluster \ {call.into} : tally'[c] = tally[c]
        /\ \A a \in Article : tally'[call.into][a] = tally[call.into][a] + tally[call.from][a]
    BY <2>1, <2>2, <1>4
  <2>6. StoriesLive'
    <3>1. ASSUME NEW a \in Article, story'[a] # NoCluster PROVE status'[story'[a]] = "active"
      BY <3>1, <2>2, <2>3, <2>4, <1>4
    <3>2. ASSUME NEW c \in Cluster, status'[c] = "none", NEW a \in Article PROVE tally'[c][a] = 0
      <4>1. c # call.into /\ status[c] = "none"
        BY <3>2, <2>2, <2>4
      <4>. QED BY <4>1, <2>5, <1>4
    <3>. QED BY <3>1, <3>2 DEF StoriesLive, Active
  <2>7. CountedOnce'
    <3>1. SUFFICES ASSUME NEW c \in Cluster, status'[c] = "active", NEW a \in Article
                   PROVE  tally'[c][a] = IF a \in enriched /\ story'[a] = c THEN 1 ELSE 0
      BY <2>1 DEF CountedOnce, Active
    <3>2. c # call.from /\ status[c] = "active"
      BY <3>1, <2>4
    <3>3. tally[c][a] = IF a \in enriched /\ story[a] = c THEN 1 ELSE 0
      BY <3>2, <1>4
    <3>4. CASE c = call.into
      <4>1. tally[call.from][a] = IF a \in enriched /\ story[a] = call.from THEN 1 ELSE 0
        BY <2>2, <1>4
      <4>2. tally'[c][a] = tally[c][a] + tally[call.from][a]
        BY <3>4, <2>5
      <4>. QED BY <4>1, <4>2, <3>3, <3>4, <2>2, <2>3
    <3>5. CASE c # call.into
      <4>1. tally'[c][a] = tally[c][a]
        BY <3>5, <2>5
      <4>2. story'[a] = c <=> story[a] = c
        BY <3>2, <3>5, <2>3
      <4>. QED BY <4>1, <4>2, <3>3
    <3>. QED BY <3>4, <3>5
  <2>8. \A a \in Article : holder[a] # Job => story'[a] = story[a]
    BY <2>1, <1>3
  <2>. QED BY <2>1, <2>6, <2>7, <2>8, <1>6 DEF call
<1>7. CASE call.op = "merge" /\ ~MayMerge(call.into, call.from)
  <2>1. UNCHANGED tables
    BY <1>7 DEF Effect
  <2>. QED BY <2>1, <1>7, TablesStay DEF TallyInv, tables
<1>. QED BY <1>2, <1>5, <1>6, <1>7

-----------------------------------------------------------------------------
(* The steps *)

\* Steps that change neither the tables nor any lock held by another.
LEMMA OthersStay ==
  ASSUME TallyInv, NEW t \in Txn, UNCHANGED tables,
         \A u \in Txn \ {t} : txn'[u] = txn[u],
         \A u \in Txn \ {t} : \A a \in Article : holder[a] = u => holder'[a] = u
  PROVE  /\ StoriesLive' /\ CountedOnce'
         /\ \A u \in Saver \ {t} : SaverFits(u)'
         /\ t # Job => JobFits'
         /\ t = Job => Apart'
<1>1. StoriesLive' /\ CountedOnce'
  BY TablesStay DEF TallyInv
<1>2. enriched' = enriched /\ story' = story /\ status' = status
  BY DEF tables
<1>3. ASSUME NEW u \in Saver \ {t} PROVE SaverFits(u)'
  <2>1. u \in Txn \ {t} /\ SaverFits(u)
    BY TxnOf DEF TallyInv
  <2>2. txn'[u] = txn[u] /\ \A a \in Article : holder[a] = u => holder'[a] = u
    BY <2>1
  <2>. QED BY <1>2, <2>1, <2>2, SaverStays DEF TallyInv
<1>4. ASSUME t # Job PROVE JobFits'
  <2>1. txn'[Job] = txn[Job] /\ \A a \in Article : holder[a] = Job => holder'[a] = Job
    BY <1>4, TxnOf
  <2>. QED BY <1>2, <2>1, JobStays DEF TallyInv
<1>5. ASSUME t = Job PROVE Apart'
  <2>1. \A u \in Saver : txn'[u].articles = txn[u].articles
    BY <1>5, TxnOf
  <2>. QED BY <2>1 DEF TallyInv, Apart
<1>. QED BY <1>1, <1>3, <1>4, <1>5

\* What is left to show, for the one transaction that steps.
LEMMA SaverSteps ==
  ASSUME TallyInv, NEW t \in Saver, UNCHANGED tables,
         \A u \in Txn \ {t} : txn'[u] = txn[u],
         \A u \in Txn \ {t} : \A a \in Article : holder[a] = u => holder'[a] = u,
         Apart', SaverFits(t)', Typed'
  PROVE  TallyInv'
<1>1. t \in Txn /\ t # Job
  BY TxnOf
<1>2. /\ StoriesLive' /\ CountedOnce'
      /\ \A u \in Saver \ {t} : SaverFits(u)'
      /\ JobFits'
  BY <1>1, OthersStay
<1>3. \A u \in Saver : SaverFits(u)'
  BY <1>2
<1>. QED BY <1>2, <1>3 DEF TallyInv

LEMMA JobSteps ==
  ASSUME TallyInv, UNCHANGED tables,
         \A u \in Txn \ {Job} : txn'[u] = txn[u],
         \A u \in Txn \ {Job} : \A a \in Article : holder[a] = u => holder'[a] = u,
         JobFits', Typed'
  PROVE  TallyInv'
<1>1. Job \in Txn /\ \A u \in Saver : u \in Saver \ {Job}
  BY TxnOf
<1>2. /\ StoriesLive' /\ CountedOnce' /\ Apart'
      /\ \A u \in Saver \ {Job} : SaverFits(u)'
  BY <1>1, OthersStay
<1>. QED BY <1>1, <1>2 DEF TallyInv

LEMMA ComputeCounts ==
  ASSUME TallyInv, SavedOnce, Typed', NEW t \in Saver, Compute(t)
  PROVE  TallyInv'
<1>1. PICK S \in SUBSET ((Article \ enriched) \cup Shared) :
        /\ \A u \in Saver : txn[u].articles \cap S \subseteq Shared
        /\ \A u \in Txn \ {t} : txn'[u] = txn[u]
        /\ txn'[t].op = "save" /\ txn'[t].at = "computed" /\ txn'[t].articles = S
  BY ComputeStep DEF TallyInv
<1>2. UNCHANGED tables /\ holder' = holder /\ enriched' = enriched
  BY DEF Compute, tables
<1>3. S \cap enriched = {} /\ \A u \in Saver : txn[u].articles \cap S = {}
  BY <1>1 DEF SavedOnce
<1>4. \A u \in Saver \ {t} : txn'[u].articles = txn[u].articles
  BY <1>1, TxnOf
<1>5. Apart'
  BY <1>1, <1>3, <1>4 DEF TallyInv, Apart
<1>6. SaverFits(t)'
  BY <1>1, <1>2, <1>3 DEF SaverFits
<1>. QED BY <1>1, <1>2, <1>5, <1>6, SaverSteps

LEMMA SaveCounts ==
  ASSUME TallyInv, Typed', NEW t \in Saver, Save(t)
  PROVE  TallyInv'
<1>1. /\ \A u \in Txn \ {t} : txn'[u] = txn[u]
      /\ txn'[t].op = txn[t].op /\ txn'[t].at = "articles"
      /\ txn'[t].articles = txn[t].articles
      /\ txn'[t].need = txn[t].articles
  BY SaveStep DEF TallyInv
<1>2. UNCHANGED tables /\ holder' = holder /\ enriched' = enriched
  BY DEF Save, tables
<1>3. Apart'
  <2>1. \A u \in Saver : txn'[u].articles = txn[u].articles
    BY <1>1, TxnOf
  <2>. QED BY <2>1 DEF TallyInv, Apart
<1>4. SaverFits(t)'
  BY <1>1, <1>2 DEF SaverFits, TallyInv
<1>. QED BY <1>1, <1>2, <1>3, <1>4, SaverSteps

LEMMA ApplyCounts ==
  ASSUME TallyInv, Typed', Apply
  PROVE  TallyInv'
<1>1. /\ \A u \in Txn \ {Job} : txn'[u] = txn[u]
      /\ txn'[Job].op = "apply" /\ txn'[Job].at = "clusters"
      /\ status[txn'[Job].into] # "merged"
      /\ txn'[Job].need \subseteq Cluster
      /\ txn'[Job].moved = {} /\ txn'[Job].counts = {}
  BY ApplyStep DEF TallyInv
<1>2. UNCHANGED tables /\ holder' = holder /\ status' = status
  BY DEF Apply, tables
<1>3. JobFits'
  BY <1>1, <1>2 DEF JobFits
<1>. QED BY <1>1, <1>2, <1>3, JobSteps

LEMMA MergeCounts ==
  ASSUME TallyInv, Typed', Merge
  PROVE  TallyInv'
<1>1. /\ \A u \in Txn \ {Job} : txn'[u] = txn[u]
      /\ txn'[Job].op = "merge" /\ txn'[Job].at = "clusters"
      /\ txn'[Job].need \subseteq Cluster
      /\ txn'[Job].moved = {} /\ txn'[Job].counts = {}
  BY MergeStep DEF TallyInv
<1>2. UNCHANGED tables /\ holder' = holder /\ status' = status
  BY DEF Merge, tables
<1>3. JobFits'
  BY <1>1, <1>2 DEF JobFits
<1>. QED BY <1>1, <1>2, <1>3, JobSteps

LEMMA LockSaverCounts ==
  ASSUME TallyInv, Typed', NEW t \in Saver, Lock(t)
  PROVE  TallyInv'
<1>0. t \in Txn /\ t # Job /\ Typed /\ SaverFits(t)
  BY TxnOf DEF TallyInv
<1>1. PICK x \in txn[t].need :
        /\ x \in Row
        /\ holder[x] \in {Free, t}
        /\ holder' = [holder EXCEPT ![x] = t]
        /\ \A u \in Txn \ {t} : txn'[u] = txn[u]
        /\ txn'[t] = Locked(txn[t], x)
        /\ UNCHANGED <<enriched, story, status, tally, faults>>
  BY <1>0, LockStep
<1>2. txn[t] \in Call /\ CallFits(txn[t])
  BY <1>0, CallOf DEF Typed
<1>3. /\ txn'[t].op = txn[t].op
      /\ txn'[t].at = txn[t].at
      /\ txn'[t].articles = txn[t].articles
      /\ txn'[t].need = txn[t].need \ {x}
      /\ txn[t].op = "save" /\ ~(x \in Cluster /\ ~Active(x)) => txn'[t].counts = txn[t].counts
  <2>1. PICK call \in Call : call = txn[t]
    BY <1>2
  <2>2. CallFits(call) /\ x \in Row /\ txn'[t] = Locked(call, x)
    BY <2>1, <1>1, <1>2
  <2>3. /\ Locked(call, x).op = call.op
        /\ Locked(call, x).at = call.at
        /\ Locked(call, x).articles = call.articles
        /\ Locked(call, x).need = call.need \ {x}
        /\ call.op = "save" /\ ~(x \in Cluster /\ ~Active(x)) => Locked(call, x).counts = call.counts
    BY <2>2, LockedIs
  <2>. QED BY <2>1, <2>2, <2>3
<1>4. holder \in [Row -> Txn \cup {Free}] /\ Free \notin Txn
  BY <1>0, NameAssumption DEF Typed, TypeOK, Txn
<1>5. \A a \in Article : holder[a] = t \/ a = x => holder'[a] = t
  BY <1>1, <1>4 DEF Row
<1>6. \A u \in Txn \ {t} : \A a \in Article : holder[a] = u => holder'[a] = u
  BY <1>1, <1>4 DEF Row
<1>7. UNCHANGED tables
  BY <1>1 DEF tables
<1>8. Apart'
  <2>1. \A u \in Saver : txn'[u].articles = txn[u].articles
    BY <1>1, <1>3, TxnOf
  <2>. QED BY <2>1 DEF TallyInv, Apart
<1>9. SaverFits(t)'
  <2>1. txn[t].articles \subseteq Article
    BY <1>2 DEF Call
  <2>2. txn'[t].op \in {"none", "save"} /\ txn'[t].articles \cap enriched' = {}
    BY <1>0, <1>1, <1>3 DEF SaverFits
  <2>3. ASSUME txn[t].at = "articles" PROVE \A a \in txn'[t].articles \ txn'[t].need : holder'[a] = t
    BY <2>1, <2>3, <1>0, <1>3, <1>5 DEF SaverFits
  <2>4. ASSUME txn[t].at = "clusters"
        PROVE  /\ \A a \in txn'[t].articles : holder'[a] = t
               /\ txn'[t].counts = Brought(txn[t].articles)'
               /\ txn'[t].need \subseteq {p[2] : p \in txn'[t].counts}
    <3>1. /\ \A a \in txn[t].articles : holder[a] = t
          /\ txn[t].counts = Brought(txn[t].articles)
          /\ txn[t].need \subseteq {p[2] : p \in txn[t].counts}
      BY <2>4, <1>0 DEF SaverFits
    <3>2. PICK a \in Article : story[a] # NoCluster /\ x = story[a]
      BY <3>1, <2>1 DEF Brought
    <3>3. Active(x)
      BY <3>2 DEF TallyInv, StoriesLive
    <3>4. txn[t].op = "save"
      BY <2>4, <1>0, <1>2 DEF SaverFits, CallFits
    <3>5. txn'[t].counts = txn[t].counts
      BY <3>3, <3>4, <1>3
    <3>6. Brought(txn[t].articles)' = Brought(txn[t].articles)
      BY <1>1, <1>3 DEF Brought
    <3>7. \A b \in txn'[t].articles : holder'[b] = t
      BY <3>1, <2>1, <1>3, <1>5
    <3>. QED BY <3>1, <3>5, <3>6, <3>7, <1>3
  <2>. QED BY <2>2, <2>3, <2>4, <1>3 DEF SaverFits
<1>. QED BY <1>1, <1>6, <1>7, <1>8, <1>9, SaverSteps

LEMMA LockJobCounts ==
  ASSUME TallyInv, Typed', Lock(Job)
  PROVE  TallyInv'
<1>0. Job \in Txn /\ Typed /\ JobFits
  BY TxnOf DEF TallyInv
<1>1. PICK x \in txn[Job].need :
        /\ x \in Row
        /\ holder[x] \in {Free, Job}
        /\ holder' = [holder EXCEPT ![x] = Job]
        /\ \A u \in Txn \ {Job} : txn'[u] = txn[u]
        /\ txn'[Job] = Locked(txn[Job], x)
        /\ UNCHANGED <<enriched, story, status, tally, faults>>
  BY <1>0, LockStep
<1>2. txn[Job] \in Call /\ CallFits(txn[Job])
  BY <1>0, CallOf DEF Typed
<1>3. /\ txn'[Job].op = txn[Job].op
      /\ txn'[Job].at = txn[Job].at
      /\ txn'[Job].articles = txn[Job].articles
      /\ txn'[Job].into = txn[Job].into
      /\ txn'[Job].from = txn[Job].from
      /\ txn'[Job].need = txn[Job].need \ {x}
      /\ txn[Job].op = "apply" /\ x \in Article /\ story[x] = NoCluster =>
           /\ txn'[Job].moved = txn[Job].moved \cup {x}
           /\ txn'[Job].counts = txn[Job].counts \cup BroughtAlong(txn[Job], x)
      /\ txn[Job].op = "apply" /\ ~(x \in Article /\ story[x] = NoCluster) =>
           /\ txn'[Job].moved = txn[Job].moved
           /\ txn'[Job].counts = txn[Job].counts
      /\ txn[Job].op = "merge" =>
           /\ txn'[Job].counts = txn[Job].counts
           /\ txn'[Job].moved = IF x \in Article /\ story[x] = txn[Job].from
                                THEN txn[Job].moved \cup {x} ELSE txn[Job].moved
  <2>1. PICK call \in Call : call = txn[Job]
    BY <1>2
  <2>2. CallFits(call) /\ x \in Row /\ txn'[Job] = Locked(call, x)
    BY <2>1, <1>1, <1>2
  <2>3. /\ Locked(call, x).op = call.op
        /\ Locked(call, x).at = call.at
        /\ Locked(call, x).articles = call.articles
        /\ Locked(call, x).into = call.into
        /\ Locked(call, x).from = call.from
        /\ Locked(call, x).need = call.need \ {x}
    BY <2>2, LockedIs
  <2>4. /\ call.op = "apply" /\ x \in Article /\ story[x] = NoCluster =>
             /\ Locked(call, x).moved = call.moved \cup {x}
             /\ Locked(call, x).counts = call.counts \cup BroughtAlong(call, x)
        /\ call.op = "apply" /\ ~(x \in Article /\ story[x] = NoCluster) =>
             /\ Locked(call, x).moved = call.moved
             /\ Locked(call, x).counts = call.counts
        /\ call.op = "merge" =>
             /\ Locked(call, x).counts = call.counts
             /\ Locked(call, x).moved = IF x \in Article /\ story[x] = call.from
                                        THEN call.moved \cup {x} ELSE call.moved
    BY <2>2, LockedIs
  <2>. QED BY <2>1, <2>2, <2>3, <2>4
<1>4. holder \in [Row -> Txn \cup {Free}] /\ Free \notin Txn
  BY <1>0, NameAssumption DEF Typed, TypeOK, Txn
<1>5. \A a \in Article : holder[a] = Job \/ a = x => holder'[a] = Job
  BY <1>1, <1>4 DEF Row
<1>6. \A u \in Txn \ {Job} : \A a \in Article : holder[a] = u => holder'[a] = u
  BY <1>1, <1>4 DEF Row
<1>7. UNCHANGED tables
  BY <1>1 DEF tables
<1>8. txn[Job].at = "clusters" \/ txn[Job].at = "articles" \/ txn[Job].at = "none"
  BY <1>0, <1>2 DEF JobFits, Call, Phase
<1>9. txn[Job].op \in {"none", "apply", "merge"} /\ txn[Job].moved \subseteq Article
  BY <1>0, <1>2 DEF JobFits, Call, Op
<1>10. \A a \in txn[Job].moved : a \in Article /\ holder'[a] = Job
  BY <1>0, <1>5, <1>9 DEF JobFits
<1>11. CASE txn[Job].at = "clusters"
  <2>1. x \in Cluster /\ x \notin Article
    BY <1>0, <1>11, NameAssumption DEF JobFits
  <2>2. txn[Job].op # "none"
    BY <1>2, <1>11 DEF CallFits
  <2>3. txn'[Job].moved = txn[Job].moved /\ txn'[Job].counts = txn[Job].counts
    BY <2>1, <2>2, <1>3, <1>9
  <2>4. JobFits'
    BY <2>3, <1>0, <1>1, <1>3, <1>11 DEF JobFits
  <2>. QED BY <2>4, <1>1, <1>6, <1>7, JobSteps
<1>12. CASE txn[Job].op = "apply" /\ txn[Job].at = "articles"
  <2>1. /\ \A a \in txn[Job].moved : story[a] = NoCluster
        /\ txn[Job].counts = {<<a, txn[Job].into>> : a \in txn[Job].moved \cap enriched}
        /\ status[txn[Job].into] # "merged"
    BY <1>0, <1>12 DEF JobFits
  <2>2. CASE x \in Article /\ story[x] = NoCluster
    <3>1. /\ txn'[Job].moved = txn[Job].moved \cup {x}
          /\ txn'[Job].counts = txn[Job].counts \cup BroughtAlong(txn[Job], x)
      BY <2>2, <1>3, <1>12
    <3>2. BroughtAlong(txn[Job], x) = {<<a, txn[Job].into>> : a \in {x} \cap enriched}
      BY DEF BroughtAlong
    <3>3. txn'[Job].counts = {<<a, txn'[Job].into>> : a \in txn'[Job].moved \cap enriched}
      BY <2>1, <3>1, <3>2, <1>3
    <3>4. \A a \in txn'[Job].moved : holder'[a] = Job /\ story[a] = NoCluster
      BY <2>1, <2>2, <3>1, <1>5, <1>10
    <3>5. JobFits'
      BY <2>1, <3>3, <3>4, <1>1, <1>3, <1>12 DEF JobFits
    <3>. QED BY <3>5, <1>1, <1>6, <1>7, JobSteps
  <2>3. CASE ~(x \in Article /\ story[x] = NoCluster)
    <3>1. txn'[Job].moved = txn[Job].moved /\ txn'[Job].counts = txn[Job].counts
      BY <2>3, <1>3, <1>12
    <3>2. JobFits'
      BY <2>1, <3>1, <1>1, <1>3, <1>10, <1>12 DEF JobFits
    <3>. QED BY <3>2, <1>1, <1>6, <1>7, JobSteps
  <2>. QED BY <2>2, <2>3
<1>13. CASE txn[Job].op = "merge" /\ txn[Job].at = "articles"
  <2>1. /\ txn[Job].need \subseteq Members(txn[Job].from)
        /\ txn[Job].moved = Members(txn[Job].from) \ txn[Job].need
    BY <1>0, <1>13 DEF JobFits
  <2>2. x \in Article /\ story[x] = txn[Job].from
    BY <2>1, <1>1 DEF Members
  <2>3. txn'[Job].moved = txn[Job].moved \cup {x}
    BY <2>2, <1>3, <1>13
  <2>4. Members(txn[Job].from)' = Members(txn[Job].from)
    BY <1>1, <1>3 DEF Members
  <2>5. /\ txn'[Job].need \subseteq Members(txn[Job].from)'
        /\ txn'[Job].moved = Members(txn[Job].from)' \ txn'[Job].need
    BY <2>1, <2>3, <2>4, <1>1, <1>3
  <2>6. \A a \in txn'[Job].moved : holder'[a] = Job
    BY <2>2, <2>3, <1>5, <1>10
  <2>7. JobFits'
    BY <2>5, <2>6, <1>3, <1>13 DEF JobFits
  <2>. QED BY <2>7, <1>1, <1>6, <1>7, JobSteps
<1>14. CASE txn[Job].at = "none"
  <2>1. txn[Job].op = "none"
    BY <1>2, <1>14 DEF CallFits
  <2>2. Locked(txn[Job], x) = [txn[Job] EXCEPT !.need = @ \ {x}]
    BY <2>1 DEF Locked
  <2>3. txn'[Job].moved = txn[Job].moved
    BY <2>2, <1>1, <1>2 DEF Call
  <2>4. JobFits'
    BY <2>1, <2>3, <1>3, <1>10, <1>14 DEF JobFits
  <2>. QED BY <2>4, <1>1, <1>6, <1>7, JobSteps
<1>15. txn[Job].at = "articles" => txn[Job].op # "none"
  BY <1>2 DEF CallFits
<1>. QED BY <1>8, <1>9, <1>11, <1>12, <1>13, <1>14, <1>15

LEMMA NextStatementCounts ==
  ASSUME TallyInv, Typed', NEW t \in Txn, NextStatement(t)
  PROVE  TallyInv'
<1>0. Typed /\ txn[t] \in Call /\ CallFits(txn[t])
  BY CallOf DEF TallyInv, Typed
<1>1. /\ \A u \in Txn \ {t} : txn'[u] = txn[u]
      /\ txn'[t].op = txn[t].op
      /\ txn'[t].articles = txn[t].articles
      /\ txn'[t].into = txn[t].into /\ txn'[t].from = txn[t].from
      /\ txn'[t].moved = txn[t].moved
      /\ \/ /\ txn[t].op = "save" /\ txn[t].at = "articles" /\ txn'[t].at = "clusters"
            /\ txn'[t].counts = Brought(txn[t].articles)
            /\ txn'[t].need = {p[2] : p \in Brought(txn[t].articles)}
         \/ /\ txn[t].op = "apply" /\ txn[t].at = "clusters" /\ txn'[t].at = "articles"
            /\ txn'[t].counts = txn[t].counts
            /\ txn'[t].need = txn[t].articles
         \/ /\ txn[t].op = "merge" /\ txn[t].at = "clusters" /\ txn'[t].at = "articles"
            /\ txn'[t].counts = txn[t].counts
            /\ txn'[t].need = Members(txn[t].from)
  BY <1>0, NextStatementStep
<1>2. /\ UNCHANGED tables /\ holder' = holder /\ txn[t].need = {}
      /\ enriched' = enriched /\ story' = story /\ status' = status
  BY DEF NextStatement, tables
<1>3. CASE t \in Saver
  <2>1. SaverFits(t)
    BY <1>3 DEF TallyInv
  <2>2. /\ txn[t].at = "articles" /\ txn'[t].at = "clusters"
        /\ txn'[t].counts = Brought(txn[t].articles)
        /\ txn'[t].need = {p[2] : p \in Brought(txn[t].articles)}
    BY <2>1, <1>1 DEF SaverFits
  <2>3. Brought(txn[t].articles)' = Brought(txn[t].articles)
    BY <1>1, <1>2 DEF Brought
  <2>4. \A a \in txn[t].articles : holder[a] = t
    BY <2>1, <2>2, <1>2 DEF SaverFits
  <2>5. SaverFits(t)'
    BY <2>1, <2>2, <2>3, <2>4, <1>1, <1>2 DEF SaverFits
  <2>6. Apart'
    <3>1. \A u \in Saver : txn'[u].articles = txn[u].articles
      BY <1>1, TxnOf
    <3>. QED BY <3>1 DEF TallyInv, Apart
  <2>. QED BY <2>5, <2>6, <1>1, <1>2, <1>3, SaverSteps
<1>4. CASE t = Job
  <2>1. JobFits
    BY DEF TallyInv
  <2>2. /\ txn[Job].at = "clusters" /\ txn'[Job].at = "articles"
        /\ txn'[Job].counts = txn[Job].counts
        /\ txn[Job].op = "merge" => txn'[Job].need = Members(txn[Job].from)
    BY <2>1, <1>1, <1>4 DEF JobFits
  <2>3. /\ txn'[Job].op = txn[Job].op
        /\ txn'[Job].into = txn[Job].into /\ txn'[Job].from = txn[Job].from
        /\ txn'[Job].moved = {} /\ txn'[Job].counts = {}
    BY <2>1, <2>2, <1>1, <1>4 DEF JobFits
  <2>4. Members(txn[Job].from)' = Members(txn[Job].from)
    BY <1>2, <2>3 DEF Members
  <2>5. JobFits'
    BY <2>1, <2>2, <2>3, <2>4, <1>2 DEF JobFits
  <2>. QED BY <2>5, <1>1, <1>2, <1>4, JobSteps
<1>. QED BY <1>3, <1>4, TxnOf

\* A save commits: nobody else has its articles, nor what it counts.
LEMMA CommitSaverCounts ==
  ASSUME TallyInv, Typed', NEW t \in Saver, Commit(t)
  PROVE  TallyInv'
<1>0. t \in Txn /\ t # Job /\ Typed
  BY TxnOf DEF TallyInv
<1>1. /\ StoriesLive' /\ CountedOnce'
      /\ story' = story /\ status' = status
      /\ enriched' = enriched \cup txn[t].articles
      /\ \A a \in txn[t].articles : holder[a] = t
  BY SaveEffect DEF Commit
<1>2. /\ txn'[t] = NoCall
      /\ \A u \in Txn \ {t} : txn'[u] = txn[u]
  BY <1>0, EndStep DEF Commit
<1>3. \A u \in Txn \ {t} : \A a \in Article : holder[a] = u => holder'[a] = u
  BY <1>0, Keeps DEF Commit
<1>4. NoCall.op = "none" /\ NoCall.at = "none" /\ NoCall.articles = {}
  BY DEF NoCall
<1>5. ASSUME NEW u \in Saver PROVE SaverFits(u)'
  <2>1. CASE u = t
    BY <2>1, <1>2, <1>4 DEF SaverFits
  <2>2. CASE u # t
    <3>1. u \in Txn \ {t} /\ SaverFits(u)
      BY <2>2, TxnOf DEF TallyInv
    <3>2. txn[t].articles \cap txn[u].articles = {}
      BY <2>2 DEF TallyInv, Apart
    <3>3. enriched' \cap txn[u].articles = enriched \cap txn[u].articles
      BY <3>2, <1>1
    <3>. QED BY <3>1, <3>3, <1>0, <1>1, <1>2, <1>3, SaverStays
  <2>. QED BY <2>1, <2>2
<1>6. JobFits'
  <2>1. Job \in Txn \ {t}
    BY <1>0, TxnOf
  <2>2. \A a \in Article : holder[a] = Job => (a \in enriched' <=> a \in enriched)
    BY <1>0, <1>1
  <2>3. txn'[Job] = txn[Job] /\ \A a \in Article : holder[a] = Job => holder'[a] = Job
    BY <2>1, <1>2, <1>3
  <2>. QED BY <2>2, <2>3, <1>0, <1>1, JobStays DEF TallyInv
<1>7. Apart'
  <2>1. ASSUME NEW u \in Saver PROVE txn'[u].articles \subseteq txn[u].articles
    <3>1. u = t \/ u \in Txn \ {t}
      BY TxnOf
    <3>. QED BY <3>1, <1>2, <1>4
  <2>. QED BY <2>1, ApartStays DEF TallyInv
<1>. QED BY <1>1, <1>5, <1>6, <1>7 DEF TallyInv

\* The clustering job commits: a save has locked the articles it is to count.
LEMMA JobCommits ==
  ASSUME TallyInv, Typed', Done(Job), Effect(txn[Job]), holder' = Unlocked(Job),
         \A u \in Txn \ {Job} : txn'[u] = txn[u],
         JobFits'
  PROVE  TallyInv'
<1>0. Job \in Txn /\ Typed
  BY TxnOf DEF TallyInv
<1>1. /\ StoriesLive' /\ CountedOnce'
      /\ enriched' = enriched
      /\ \A a \in Article : holder[a] # Job => story'[a] = story[a]
  BY JobEffect
<1>2. ASSUME NEW u \in Saver PROVE SaverFits(u)' /\ txn'[u] = txn[u]
  <2>1. u \in Txn \ {Job} /\ SaverFits(u) /\ u # Job
    BY TxnOf DEF TallyInv
  <2>2. \A a \in Article : holder[a] = u => holder'[a] = u
    BY <2>1, <1>0, Keeps
  <2>3. \A a \in Article : holder[a] = u => story'[a] = story[a]
    BY <2>1, <1>1
  <2>. QED BY <2>1, <2>2, <2>3, <1>0, <1>1, SaverStays
<1>3. Apart'
  BY <1>2 DEF TallyInv, Apart
<1>. QED BY <1>1, <1>2, <1>3 DEF TallyInv

LEMMA CommitJobCounts ==
  ASSUME TallyInv, Typed', Commit(Job)
  PROVE  TallyInv'
<1>1. /\ txn'[Job] = NoCall
      /\ \A u \in Txn \ {Job} : txn'[u] = txn[u]
  BY TxnOf, EndStep DEF Commit, TallyInv
<1>2. JobFits'
  BY <1>1 DEF JobFits, NoCall
<1>. QED BY <1>1, <1>2, JobCommits DEF Commit

\* Sent again: a save is not, and the job starts from the locks of its stories.
LEMMA AgainCounts ==
  ASSUME TallyInv, SavedOnce, Typed', NEW t \in Txn, CommitReplyLost(t)
  PROVE  TallyInv'
<1>0. Typed /\ txn[t] \in Call /\ CallFits(txn[t])
  BY CallOf DEF TallyInv, Typed
<1>1. txn[t].op # "save" /\ txn[t].op # "none" /\ Done(t) /\ Effect(txn[t]) /\ holder' = Unlocked(t)
  BY <1>0 DEF CommitReplyLost, SavedOnce, CallFits, Done
<1>2. CASE t \in Saver
  <2>1. txn[t].op \in {"none", "save"}
    BY <1>2 DEF TallyInv, SaverFits
  <2>. QED BY <2>1, <1>1
<1>3. CASE t = Job
  <2>1. /\ \A u \in Txn \ {Job} : txn'[u] = txn[u]
        /\ txn'[Job].op = txn[Job].op
        /\ txn'[Job].into = txn[Job].into
        /\ txn'[Job].moved = {} /\ txn'[Job].counts = {}
        /\ txn'[Job].at = "clusters"
        /\ txn'[Job].need \subseteq Cluster
    BY <1>0, <1>1, <1>3, AgainStep
  <2>2. txn[Job].op = "apply" => status'[txn[Job].into] # "merged"
    BY <1>1, <1>3, JobEffect
  <2>3. JobFits'
    BY <2>1, <2>2, <1>1, <1>3 DEF JobFits
  <2>. QED BY <2>1, <2>3, <1>1, <1>3, JobCommits
<1>. QED BY <1>2, <1>3, TxnOf

LEMMA AbortCounts ==
  ASSUME TallyInv, Typed', NEW t \in Txn, Abort(t)
  PROVE  TallyInv'
<1>0. Typed
  BY DEF TallyInv
<1>1. /\ txn'[t] = NoCall
      /\ \A u \in Txn \ {t} : txn'[u] = txn[u]
  BY <1>0, EndStep DEF Abort
<1>2. UNCHANGED tables /\ holder' = Unlocked(t)
  BY DEF Abort, tables
<1>3. \A u \in Txn \ {t} : \A a \in Article : holder[a] = u => holder'[a] = u
  BY <1>0, <1>2, Keeps
<1>4. NoCall.op = "none" /\ NoCall.at = "none" /\ NoCall.articles = {} /\ NoCall.moved = {}
  BY DEF NoCall
<1>5. CASE t \in Saver
  <2>1. SaverFits(t)'
    BY <1>1, <1>4 DEF SaverFits
  <2>2. ASSUME NEW u \in Saver PROVE txn'[u].articles \subseteq txn[u].articles
    <3>1. u = t \/ u \in Txn \ {t}
      BY TxnOf
    <3>. QED BY <3>1, <1>1, <1>4
  <2>3. Apart'
    BY <2>2, ApartStays DEF TallyInv
  <2>. QED BY <2>1, <2>3, <1>1, <1>2, <1>3, <1>5, SaverSteps
<1>6. CASE t = Job
  <2>1. JobFits'
    BY <1>1, <1>4, <1>6 DEF JobFits
  <2>. QED BY <2>1, <1>1, <1>2, <1>3, <1>6, JobSteps
<1>. QED BY <1>5, <1>6, TxnOf

-----------------------------------------------------------------------------
(* Theorems *)

LEMMA TallyInit == Init => TallyInv
<1>. SUFFICES ASSUME Init PROVE TallyInv
  OBVIOUS
<1>1. Typed
  BY TypedInit
<1>2. \A t \in Txn : txn[t] = NoCall
  BY DEF Init
<1>3. NoCall.op = "none" /\ NoCall.at = "none" /\ NoCall.articles = {} /\ NoCall.moved = {}
  BY DEF NoCall
<1>4. StoriesLive /\ CountedOnce
  BY DEF Init, StoriesLive, CountedOnce, Active
<1>5. Apart /\ \A t \in Saver : SaverFits(t)
  BY <1>2, <1>3, TxnOf DEF Apart, SaverFits
<1>6. JobFits
  BY <1>2, <1>3, TxnOf DEF JobFits
<1>. QED BY <1>1, <1>4, <1>5, <1>6 DEF TallyInv

LEMMA TallyStep == SavedOnce /\ TallyInv /\ [Next]_vars => TallyInv'
<1>. SUFFICES ASSUME SavedOnce, TallyInv, [Next]_vars PROVE TallyInv'
  OBVIOUS
<1>1. Typed'
  BY TypedStep DEF TallyInv
<1>2. CASE UNCHANGED vars
  <2>1. UNCHANGED tables /\ txn' = txn /\ holder' = holder /\ status' = status
    BY <1>2 DEF vars, tables
  <2>2. JobFits'
    <3>1. enriched' = enriched /\ story' = story
      BY <2>1 DEF tables
    <3>. QED BY <2>1, <3>1, JobStays DEF TallyInv
  <2>. QED BY <2>1, <2>2, <1>1, JobSteps
<1>3. CASE \E t \in Saver : Compute(t) \/ Save(t)
  BY <1>1, <1>3, ComputeCounts, SaveCounts
<1>4. CASE Apply \/ Merge
  BY <1>1, <1>4, ApplyCounts, MergeCounts
<1>5. ASSUME NEW t \in Txn, Lock(t) PROVE TallyInv'
  BY <1>1, <1>5, LockSaverCounts, LockJobCounts, TxnOf
<1>6. ASSUME NEW t \in Txn, NextStatement(t) PROVE TallyInv'
  BY <1>1, <1>6, NextStatementCounts
<1>7. ASSUME NEW t \in Txn, Commit(t) PROVE TallyInv'
  BY <1>1, <1>7, CommitSaverCounts, CommitJobCounts, TxnOf
<1>8. ASSUME NEW t \in Txn, CommitReplyLost(t) PROVE TallyInv'
  BY <1>1, <1>8, AgainCounts
<1>9. ASSUME NEW t \in Txn, Abort(t) PROVE TallyInv'
  BY <1>1, <1>9, AbortCounts
<1>. QED BY <1>2, <1>3, <1>4, <1>5, <1>6, <1>7, <1>8, <1>9 DEF Next

\* The tally of an active story counts each of its enriched articles exactly once
\* (docs/bulk_io_migration.sql:142-146), for any articles, stories and jobs, in
\* any order of row locks, with any aborts and with assignments and merges sent
\* twice, if no article is handed out twice and no save is sent twice.
THEOREM CountedRight ==
  ASSUME SavedOnce
  PROVE  Spec => []CountedOnce
<1>1. Init => TallyInv
  BY TallyInit
<1>2. TallyInv /\ [Next]_vars => TallyInv'
  BY TallyStep
<1>3. TallyInv => CountedOnce
  BY DEF TallyInv
<1>. QED BY <1>1, <1>2, <1>3, PTL DEF Spec
=============================================================================
