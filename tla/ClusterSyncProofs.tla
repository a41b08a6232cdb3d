-------------------------- MODULE ClusterSyncProofs --------------------------
(***************************************************************************)
(* The three copies of the clusters stay together: what the job has in     *)
(* memory differs from the tables by the moves it has not written yet, and *)
(* the cached file by what its bookmark makes the next delta read.         *)
(***************************************************************************)
EXTENDS ClusterSync, FiniteSetTheorems, WellFoundedInduction, TLAPS

-----------------------------------------------------------------------------
(* The invariant *)

\* An article the job has put into story c, which is not written yet.
Waits(a, c) == <<a, c>> \in job.moves /\ story[a] = NoCluster

\* A story that has no row yet is unknown to a copy, unless it lives in it.
Blank(state) ==
  \A c \in Cluster : status[c] = "none" =>
    /\ c \notin state.newer
    /\ c \in state.live \/ \A a \in Article : state.sum[c][a] = 0

\* A copy of story c is that of the tables.
Right(state, c) == Active(c) /\ state.sum[c] = sum[c]

\* Until the last flush, memory is the tables and the moves that wait.
Ahead ==
  /\ \A c \in mem.live : Active(c) \/ (c \in job.created /\ status[c] = "none")
  /\ \A c \in mem.live, a \in Article :
       mem.sum[c][a] = IF story[a] = c \/ Waits(a, c) THEN 1 ELSE 0
  /\ job.created \subseteq job.dirty /\ job.dirty \subseteq mem.live
  /\ \A c \in job.created : Active(c) => \A a \in Article : ~Waits(a, c)
  /\ \A m, n \in job.moves : m[1] = n[1] => m = n
  /\ \A m \in job.moves : m[2] \in job.dirty

\* What a page is good for: its articles are in no story and no move.
PageFree ==
  /\ \A c \in job.created : status[c] = "none"
  /\ \A a \in job.page : story[a] = NoCluster /\ \A m \in job.moves : m[1] # a

\* What has been flushed is in the tables.
FlushedDone ==
  /\ job.left \subseteq job.dirty
  /\ \A c \in job.dirty \ job.left : Active(c) /\ \A a \in Article : ~Waits(a, c)

CopyInv ==
  /\ pc \in {"fetch", "assign", "flush"} => Ahead
  /\ pc = "fetch" => job.dirty = {} /\ job.created = {} /\ job.moves = {}
  /\ pc = "assign" => PageFree
  /\ pc = "flush" => FlushedDone
  /\ pc \in {"merge", "save"} => \A c \in mem.live \ mem.newer : Right(mem, c)

SyncInv ==
  /\ SumsMatchMembers /\ NoneInTombstone /\ FileCatchesUp
  /\ Blank(mem) /\ Blank(file)
  /\ CopyInv

\* A round goes on only while one is left, and an ended job leaves nothing behind.
JobBounds ==
  /\ pc = "merge" => job.round <= MergeRounds
  /\ pc = "idle" => job = NoJob

IInv == TypeOK /\ JobBounds /\ SyncInv

-----------------------------------------------------------------------------
(* Types *)

LEMMA LeastNumber ==
  ASSUME NEW T \in SUBSET Nat, T # {}
  PROVE  \E n \in T : \A m \in T : n <= m
  <1>1. PICK n \in T : \A m \in T : ~(<<m, n>> \in OpToRel(<, Nat))
    BY NatLessThanWellFounded, WFMin
  <1>2. \A m \in T : ~(m < n)
    BY <1>1 DEF OpToRel
  <1> QED
    BY <1>2

\* The largest element of a page: one with the fewest above it has none above it.
LEMMA MaxOfPage ==
  ASSUME NEW S \in SUBSET Article, S # {}
  PROVE  Max(S) \in S
  <1> DEFINE Above(a) == {b \in S : b > a}
             Sizes    == {Cardinality(Above(a)) : a \in S}
  <1>1. \A a \in S : IsFiniteSet(Above(a)) /\ Cardinality(Above(a)) \in Nat
    <2> TAKE a \in S
    <2>1. Above(a) \in SUBSET Article
      OBVIOUS
    <2> QED
      BY <2>1, NameAssumption, FS_Subset, FS_CardinalityType
  <1>2. Sizes \in SUBSET Nat /\ Sizes # {}
    BY <1>1
  <1>3. PICK n \in Sizes : \A m \in Sizes : n <= m
    BY <1>2, LeastNumber
  <1>4. PICK a \in S : n = Cardinality(Above(a))
    BY <1>3
  <1>5. \A b \in S : a >= b
    <2> SUFFICES ASSUME NEW b \in S, ~(a >= b) PROVE FALSE
      OBVIOUS
    <2>1. \A x \in S : x \in Nat
      BY NameAssumption
    <2>2. b > a
      BY <2>1
    <2>3. \A x \in Above(b) : x \in Above(a)
      BY <2>1, <2>2
    <2>4. b \in Above(a) /\ b \notin Above(b)
      BY <2>1, <2>2
    <2> HIDE DEF Above
    <2>5. Cardinality(Above(b)) <= Cardinality(Above(a))
          /\ (Cardinality(Above(a)) = Cardinality(Above(b)) => Above(a) = Above(b))
      <3>1. IsFiniteSet(Above(a)) /\ Above(b) \in SUBSET Above(a)
        BY <1>1, <2>3
      <3> QED
        BY <3>1, FS_Subset
    <2>6. n <= Cardinality(Above(b))
      BY <1>3
    <2> QED
      BY <1>1, <1>4, <2>4, <2>5, <2>6
  <1> QED
    BY <1>5 DEF Max

JobRecord ==
  [after : Int, page : SUBSET Article, dirty : SUBSET Cluster,
   created : SUBSET Cluster, moves : SUBSET (Article \X Cluster),
   left : SUBSET Cluster, touched : SUBSET Cluster, used : SUBSET Cluster,
   winners : SUBSET Cluster, round : 0 .. MergeRounds + 1]

LEMMA TypeFacts ==
  ASSUME TypeOK
  PROVE  /\ story \in [Article -> Cluster \cup {NoCluster, Gone}]
         /\ status \in [Cluster -> {"none", "active", "merged", "gone"}]
         /\ sum \in [Cluster -> [Article -> Nat]]
         /\ mem \in State /\ file \in State /\ cached \in BOOLEAN
         /\ pc \in Location /\ job \in JobRecord /\ faults \in 0 .. MaxFaults
         /\ pc \in {"fetch", "merge", "save"} => job.dirty = {}
  BY DEF TypeOK, JobRecord

LEMMA StateFacts ==
  /\ NoState \in State
  /\ NoJob \in JobRecord
  /\ \A state \in State, S \in SUBSET Cluster : Touched(state, S) \in State
  /\ TypeOK => \A state \in State, S \in SUBSET Cluster : Upserted(state, S) \in State
  <1>1. NoState \in State
    BY DEF NoState, State, Empty
  <1>2. NoJob \in JobRecord
    BY LimitAssumption DEF NoJob, JobRecord
  <1>3. \A state \in State, S \in SUBSET Cluster : Touched(state, S) \in State
    BY DEF Touched, State
  <1>4. ASSUME NEW state \in State, NEW S \in SUBSET Cluster, TypeOK
        PROVE  Upserted(state, S) \in State
    <2>1. [c \in Cluster |-> IF c \in S THEN sum[c] ELSE state.sum[c]] \in [Cluster -> [Article -> Nat]]
      BY <1>4 DEF TypeOK, State
    <2>2. {c \in state.live \cup S : c \in S => Active(c)} \in SUBSET Cluster
      BY DEF State
    <2> QED
      BY <2>1, <2>2 DEF Upserted, State
  <1> QED
    BY <1>1, <1>2, <1>3, <1>4

LEMMA InitTypes == Init => TypeOK /\ JobBounds
  <1> SUFFICES ASSUME Init PROVE TypeOK /\ JobBounds
    OBVIOUS
  <1>1. job \in JobRecord /\ mem \in State /\ file \in State
    BY StateFacts DEF Init
  <1>2. faults \in 0 .. MaxFaults
    BY LimitAssumption DEF Init
  <1> QED
    BY <1>1, <1>2 DEF Init, TypeOK, JobBounds, JobRecord, Location, Empty, NoJob

\* What becomes of the tables when clusters are merged.
LEMMA MergeRowsTypes ==
  ASSUME TypeOK, NEW w \in Cluster, NEW l \in Cluster, MergeRows(w, l)
  PROVE  /\ story' \in [Article -> Cluster \cup {NoCluster, Gone}]
         /\ status' \in [Cluster -> {"none", "active", "merged", "gone"}]
         /\ sum' \in [Cluster -> [Article -> Nat]]
         /\ file' \in State
  <1>1. [a \in Article |-> sum[w][a] + sum[l][a]] \in [Article -> Nat]
    BY DEF TypeOK
  <1>2. sum' \in [Cluster -> [Article -> Nat]]
    BY <1>1 DEF MergeRows, TypeOK
  <1>3. file' \in State
    BY TypeFacts, StateFacts DEF MergeRows
  <1> QED
    BY <1>2, <1>3 DEF MergeRows, TypeOK

LEMMA ApplyTypes ==
  ASSUME TypeOK, NEW S \in SUBSET Cluster, ApplyChanges(S)
  PROVE  /\ story' \in [Article -> Cluster \cup {NoCluster, Gone}]
         /\ status' \in [Cluster -> {"none", "active", "merged", "gone"}]
         /\ sum' \in [Cluster -> [Article -> Nat]]
         /\ file' \in State /\ mem' \in State
  <1>1. story' \in [Article -> Cluster \cup {NoCluster, Gone}]
    BY DEF ApplyChanges, TypeOK
  <1>2. status' \in [Cluster -> {"none", "active", "merged", "gone"}]
    BY DEF ApplyChanges, TypeOK
  <1>3. sum' \in [Cluster -> [Article -> Nat]]
    BY DEF ApplyChanges, TypeOK, State
  <1>4. Inserted(S) \cup Updated(S) \in SUBSET Cluster
    BY DEF Inserted, Updated
  <1>5. file' \in State /\ mem' \in State
    BY <1>4, TypeFacts, StateFacts DEF ApplyChanges
  <1> QED
    BY <1>1, <1>2, <1>3, <1>5

LEMMA FaultTypes == faults \in 0 .. MaxFaults /\ (Fault \/ UNCHANGED faults) => faults' \in 0 .. MaxFaults
  BY LimitAssumption DEF Fault

LEMMA StepTypes == TypeOK /\ JobBounds /\ [Next]_vars => TypeOK' /\ JobBounds'
  <1> SUFFICES ASSUME TypeOK, JobBounds, [Next]_vars PROVE TypeOK' /\ JobBounds'
    OBVIOUS
  <1> USE TypeFacts
  <1>1. CASE Load
    <2>1. mem' \in State
      <3>1. CASE cached /\ mem' = [Upserted(file, file.newer) EXCEPT !.newer = {}]
        <4>1. Upserted(file, file.newer) \in State
          BY StateFacts DEF State
        <4> QED
          BY <3>1, <4>1 DEF State
      <3>2. CASE \E window \in Windows : mem' = Upserted(NoState, window)
        BY <3>2, StateFacts DEF Windows
      <3> QED
        BY <1>1, <3>1, <3>2 DEF Load
    <2>2. UNCHANGED <<story, status, sum, cached, file, job, faults>> /\ pc = "idle" /\ pc' = "fetch"
      BY <1>1 DEF Load, db
    <2> QED
      BY <2>1, <2>2 DEF TypeOK, JobBounds, Location, NoJob
  <1>2. CASE Fetch
    <2>1. NextPage \in SUBSET Article
      BY DEF NextPage, Lowest, Unclustered
    <2>2. NextPage # {} => Max(NextPage) \in Int
      <3>1. NextPage # {} => Max(NextPage) \in NextPage
        BY <2>1, MaxOfPage
      <3>2. \A a \in NextPage : a \in Int
        BY <2>1, NameAssumption
      <3> QED
        BY <3>1, <3>2
    <2>3. [job EXCEPT !.round = 1] \in JobRecord
      <3>1. 1 \in 0 .. MergeRounds + 1
        BY LimitAssumption
      <3> QED
        BY <3>1 DEF JobRecord
    <2>4. NextPage # {} => [job EXCEPT !.page = NextPage, !.after = Max(NextPage)] \in JobRecord
      BY <2>1, <2>2 DEF JobRecord
    <2>5. UNCHANGED <<story, status, sum, mem, cached, file, faults>>
      BY <1>2 DEF Fetch, db
    <2>6. /\ pc = "fetch" /\ job'.dirty = {} /\ job' \in JobRecord
          /\ pc' = "assign" \/ (pc' = "merge" /\ job'.round = 1)
      BY <1>2, <2>3, <2>4 DEF Fetch, JobRecord
    <2> QED
      BY <2>5, <2>6, LimitAssumption DEF TypeOK, JobBounds, Location, JobRecord
  <1>3. ASSUME NEW a \in Article, Assign(a) PROVE TypeOK' /\ JobBounds'
    <2>1. job' \in JobRecord /\ mem' \in State
      <3>1. CASE a \in Unembeddable
        BY <1>3, <3>1 DEF Assign, JobRecord
      <3>2. CASE a \notin Unembeddable
        <4>1. PICK c \in Cluster :
                /\ mem' = [mem EXCEPT !.live = @ \cup {c}, !.sum[c][a] = @ + 1]
                /\ job' = [job EXCEPT
                     !.page = @ \ {a}, !.dirty = @ \cup {c}, !.touched = @ \cup {c},
                     !.created = IF c \in mem.live THEN @ ELSE @ \cup {c},
                     !.moves = @ \cup {<<a, c>>}]
          BY <1>3, <3>2 DEF Assign
        <4>2. job' \in JobRecord
          <5>1. /\ job.page \ {a} \in SUBSET Article /\ job.dirty \cup {c} \in SUBSET Cluster
                /\ job.touched \cup {c} \in SUBSET Cluster
                /\ job.moves \cup {<<a, c>>} \in SUBSET (Article \X Cluster)
            BY DEF JobRecord
          <5>2. (IF c \in mem.live THEN job.created ELSE job.created \cup {c}) \in SUBSET Cluster
            BY DEF JobRecord
          <5> QED
            BY <4>1, <5>1, <5>2 DEF JobRecord
        <4>3. mem' \in State
          <5>1. [mem.sum EXCEPT ![c][a] = @ + 1] \in [Cluster -> [Article -> Nat]]
            BY DEF State
          <5>2. mem' = [mem EXCEPT !.live = mem.live \cup {c},
                                   !.sum = [mem.sum EXCEPT ![c][a] = @ + 1]]
            BY <4>1 DEF State
          <5> QED
            BY <5>1, <5>2 DEF State
        <4> QED
          BY <4>2, <4>3
      <3> QED
        BY <3>1, <3>2
    <2>2. pc = "assign" /\ UNCHANGED <<story, status, sum, cached, file, pc, faults>>
      BY <1>3 DEF Assign, db
    <2> QED
      BY <2>1, <2>2 DEF TypeOK, JobBounds, JobRecord
  <1>4. CASE BeginFlush
    <2>1. job' \in JobRecord
      BY <1>4 DEF BeginFlush, JobRecord
    <2>2. pc' = "flush" /\ UNCHANGED <<story, status, sum, mem, cached, file, faults>>
      BY <1>4 DEF BeginFlush, db
    <2> QED
      BY <2>1, <2>2 DEF TypeOK, JobBounds, JobRecord, Location
  <1>5. CASE Flush
    <2>1. PICK S \in SUBSET job.left :
            /\ ApplyChanges(S)
            /\ \/ job' = [job EXCEPT !.left = @ \ S] /\ UNCHANGED faults
               \/ Fault /\ UNCHANGED job
      BY <1>5 DEF Flush
    <2>2. S \in SUBSET Cluster
      BY DEF JobRecord
    <2>3. job' \in JobRecord /\ faults' \in 0 .. MaxFaults
      BY <2>1, FaultTypes DEF JobRecord
    <2>4. pc = "flush" /\ UNCHANGED <<pc, cached>>
      BY <1>5 DEF Flush
    <2> QED
      BY <2>1, <2>2, <2>3, <2>4, ApplyTypes DEF TypeOK, JobBounds, JobRecord
  <1>6. CASE MarkFlushed
    <2>1. job' \in JobRecord /\ job'.dirty = {} /\ mem' \in State
      BY <1>6 DEF MarkFlushed, JobRecord, State
    <2>2. pc' = "fetch" /\ UNCHANGED <<story, status, sum, cached, file, faults>>
      BY <1>6 DEF MarkFlushed, db
    <2> QED
      BY <2>1, <2>2 DEF TypeOK, JobBounds, JobRecord, Location
  <1>7. CASE MergeTwins
    <2>1. PICK p \in Twins :
            \/ /\ MergeRows(p[1], p[2])
               /\ mem' = Touched(mem, {p[1], p[2]})
               /\ \/ UNCHANGED faults
                     /\ job' = [job EXCEPT !.used = @ \cup {p[1], p[2]}, !.winners = @ \cup {p[1]}]
                  \/ Fault /\ job' = [job EXCEPT !.used = @ \cup {p[1], p[2]}]
            \/ /\ Fault
               /\ job' = [job EXCEPT !.used = @ \cup {p[1], p[2]}]
               /\ UNCHANGED <<db, file, mem>>
      BY <1>7 DEF MergeTwins
    <2>2. p[1] \in Cluster /\ p[2] \in Cluster
      BY DEF Twins, State
    <2>3. /\ job' \in JobRecord /\ job'.round = job.round /\ job'.dirty = job.dirty
          /\ faults' \in 0 .. MaxFaults
      <3>1. /\ job.used \cup {p[1], p[2]} \in SUBSET Cluster
            /\ job.winners \cup {p[1]} \in SUBSET Cluster
        BY <2>2 DEF JobRecord
      <3>2. /\ job' \in JobRecord /\ job'.round = job.round /\ job'.dirty = job.dirty
        BY <2>1, <3>1 DEF JobRecord
      <3> QED
        BY <2>1, <3>2, FaultTypes
    <2>4. /\ story' \in [Article -> Cluster \cup {NoCluster, Gone}]
          /\ status' \in [Cluster -> {"none", "active", "merged", "gone"}]
          /\ sum' \in [Cluster -> [Article -> Nat]]
          /\ file' \in State /\ mem' \in State
      <3>1. CASE MergeRows(p[1], p[2]) /\ mem' = Touched(mem, {p[1], p[2]})
        BY <2>2, <3>1, MergeRowsTypes, StateFacts
      <3>2. CASE UNCHANGED <<db, file, mem>>
        BY <3>2 DEF db
      <3> QED
        BY <2>1, <3>1, <3>2
    <2>5. pc = "merge" /\ UNCHANGED <<cached, pc>>
      BY <1>7 DEF MergeTwins
    <2> QED
      BY <2>3, <2>4, <2>5 DEF TypeOK, JobBounds, JobRecord
  <1>8. CASE EndRound
    <2>1. /\ pc = "merge" /\ job.round <= MergeRounds
          /\ UNCHANGED <<story, status, sum, cached, file>>
      BY <1>8 DEF EndRound, db, JobBounds
    <2>2. mem' \in State
      <3>1. Upserted(mem, mem.newer) \in State
        BY StateFacts DEF State
      <3>2. \A S \in SUBSET mem.newer : Upserted(mem, S) \in State
        BY StateFacts DEF State
      <3>3. [Upserted(mem, mem.newer) EXCEPT !.newer = {}] \in State
        BY <3>1 DEF State
      <3> QED
        BY <1>8, <3>2, <3>3 DEF EndRound
    <2>3. /\ job' \in JobRecord /\ job'.dirty = job.dirty
          /\ faults' \in 0 .. MaxFaults
          /\ pc' = "save" \/ (pc' = "merge" /\ job'.round <= MergeRounds)
      <3>1. faults' \in 0 .. MaxFaults
        BY <1>8, FaultTypes DEF EndRound
      <3>2. job.round + 1 \in 0 .. MergeRounds + 1 /\ (job.round < MergeRounds => job.round + 1 <= MergeRounds)
        BY <2>1, LimitAssumption DEF JobRecord
      <3>3. [job EXCEPT !.round = @ + 1, !.touched = job.winners, !.used = {}, !.winners = {}]
              \in JobRecord
        BY <3>2 DEF JobRecord
      <3> QED
        BY <1>8, <3>1, <3>2, <3>3 DEF EndRound, JobRecord
    <2> QED
      BY <2>1, <2>2, <2>3 DEF TypeOK, JobBounds, JobRecord, Location
  <1>9. CASE Save
    <2>1. \/ \E old \in SUBSET mem.live : file' = [mem EXCEPT !.live = @ \ old, !.newer = Bookmark]
          \/ file' = file
      BY <1>9 DEF Save
    <2>2. file' \in State
      <3>1. ASSUME NEW old \in SUBSET mem.live,
                   file' = [mem EXCEPT !.live = @ \ old, !.newer = Bookmark]
            PROVE  file' \in State
        <4>1. mem.live \ old \in SUBSET Cluster /\ Bookmark \in SUBSET Cluster
          BY DEF State, Bookmark
        <4> QED
          BY <3>1, <4>1 DEF State
      <3> QED
        BY <2>1, <3>1
    <2>3. cached' \in BOOLEAN /\ faults' \in 0 .. MaxFaults
      BY <1>9, FaultTypes DEF Save
    <2>4. mem' \in State /\ job' \in JobRecord /\ job' = NoJob /\ pc' = "idle"
      BY <1>9, StateFacts DEF Save, EndJob
    <2>5. UNCHANGED <<story, status, sum>>
      BY <1>9 DEF Save, db
    <2> QED
      BY <2>2, <2>3, <2>4, <2>5 DEF TypeOK, JobBounds, JobRecord, Location
  <1>10. CASE Die
    <2>1. mem' \in State /\ job' \in JobRecord /\ job' = NoJob /\ pc' = "idle"
      BY <1>10, StateFacts DEF Die, EndJob
    <2>2. faults' \in 0 .. MaxFaults /\ UNCHANGED <<story, status, sum, cached, file>>
      BY <1>10, FaultTypes DEF Die, db
    <2> QED
      BY <2>1, <2>2 DEF TypeOK, JobBounds, JobRecord, Location
  <1>11. CASE Maintain
    <2>1. pc = "idle" /\ UNCHANGED <<mem, cached, pc, job, faults>>
      BY <1>11 DEF Maintain
    <2> QED
      BY <1>11, <2>1, MergeRowsTypes DEF Maintain, TypeOK, JobBounds
  <1>12. CASE Purge
    <2>1. pc = "idle" /\ UNCHANGED <<mem, pc, job, faults>> /\ cached' = FALSE /\ file' = NoState
      BY <1>12 DEF Purge, Evicted
    <2>2. file' \in State
      BY <2>1, StateFacts
    <2>3. /\ story' \in [Article -> Cluster \cup {NoCluster, Gone}]
          /\ status' \in [Cluster -> {"none", "active", "merged", "gone"}]
          /\ sum' \in [Cluster -> [Article -> Nat]]
      BY <1>12 DEF Purge, TypeOK
    <2> QED
      BY <2>1, <2>2, <2>3 DEF TypeOK, JobBounds
  <1>13. CASE Evict
    <2>1. UNCHANGED <<story, status, sum, mem, pc, job, faults>> /\ cached' = FALSE /\ file' = NoState
      BY <1>13 DEF Evict, db
    <2>2. file' \in State
      BY <2>1, StateFacts
    <2> QED
      BY <2>1, <2>2 DEF TypeOK, JobBounds
  <1>14. CASE UNCHANGED vars
    BY <1>14 DEF vars, db, TypeOK, JobBounds
  <1> QED
    BY <1>1, <1>2, <1>3, <1>4, <1>5, <1>6, <1>7, <1>8, <1>9, <1>10, <1>11, <1>12, <1>13, <1>14
    DEF Next, Advance

-----------------------------------------------------------------------------
(* Copies of the tables *)

\* A delta over S makes right what it reads and drops what is no longer active.
LEMMA UpsertedRight ==
  ASSUME TypeOK, NEW state \in State, NEW S \in SUBSET Cluster,
         \A c \in state.live \ S : Right(state, c)
  PROVE  \A c \in Upserted(state, S).live : Right(Upserted(state, S), c)
  BY DEF Upserted, Right, State

LEMMA UpsertedBlank ==
  ASSUME TypeOK, NEW state \in State, NEW S \in SUBSET Cluster, Blank(state),
         \A c \in S : status[c] # "none"
  PROVE  Blank(Upserted(state, S)) /\ Blank([Upserted(state, S) EXCEPT !.newer = {}])
  BY DEF Upserted, Blank, State

LEMMA BlankNoState == Blank(NoState)
  BY DEF Blank, NoState, Empty

LEMMA InitSync == Init => SyncInv
  <1> SUFFICES ASSUME Init PROVE SyncInv
    OBVIOUS
  <1>1. SumsMatchMembers /\ NoneInTombstone /\ FileCatchesUp
    BY NameAssumption DEF Init, SumsMatchMembers, NoneInTombstone, FileCatchesUp, Active, NoState
  <1>2. Blank(mem) /\ Blank(file)
    BY BlankNoState DEF Init
  <1>3. CopyInv
    BY DEF Init, CopyInv
  <1> QED
    BY <1>1, <1>2, <1>3 DEF SyncInv

-----------------------------------------------------------------------------
(* The steps that leave the tables alone *)

LEMMA SameTables ==
  ASSUME SyncInv, UNCHANGED db
  PROVE  /\ SumsMatchMembers' /\ NoneInTombstone'
         /\ file' = file => FileCatchesUp' /\ Blank(file)'
         /\ mem' = mem => Blank(mem)'
  BY DEF SyncInv, SumsMatchMembers, NoneInTombstone, FileCatchesUp, Blank, Active, db

LEMMA LoadSync ==
  ASSUME IInv, TypeOK', Load
  PROVE  SyncInv'
  <1>1. /\ pc = "idle" /\ pc' = "fetch" /\ UNCHANGED <<db, cached, file, job, faults>>
        /\ job = NoJob /\ TypeOK /\ SyncInv
    BY DEF Load, IInv, JobBounds
  <1>2. /\ \A c \in mem'.live : Active(c) /\ mem'.sum[c] = sum[c]
        /\ \A c \in Cluster : status[c] = "none" =>
             c \notin mem'.newer /\ (c \in mem'.live \/ \A a \in Article : mem'.sum[c][a] = 0)
    <2>1. CASE cached /\ mem' = [Upserted(file, file.newer) EXCEPT !.newer = {}]
      <3> DEFINE new == Upserted(file, file.newer)
      <3>1. file \in State /\ file.newer \in SUBSET Cluster
        BY <1>1, TypeFacts DEF State
      <3>2. \A c \in file.live \ file.newer : Right(file, c)
        BY <1>1 DEF SyncInv, FileCatchesUp, Right
      <3>3. \A c \in file.newer : status[c] # "none"
        BY <1>1, <3>1 DEF SyncInv, Blank
      <3>4. Blank(file)
        BY <1>1 DEF SyncInv
      <3>5. \A c \in new.live : Right(new, c)
        BY <1>1, <3>1, <3>2, UpsertedRight
      <3>6. Blank([new EXCEPT !.newer = {}])
        BY <1>1, <3>1, <3>3, <3>4, UpsertedBlank
      <3>7. mem'.live = new.live /\ mem'.sum = new.sum /\ mem' = [new EXCEPT !.newer = {}]
        BY <2>1 DEF Upserted
      <3> HIDE DEF new
      <3> QED
        BY <3>5, <3>6, <3>7 DEF Right, Blank
    <2>2. ASSUME NEW window \in Windows, mem' = Upserted(NoState, window)
          PROVE  <1>2!1 /\ <1>2!2
      <3> DEFINE new == Upserted(NoState, window)
      <3>1. NoState \in State /\ window \in SUBSET Cluster /\ NoState.live = {}
        BY StateFacts DEF Windows, NoState
      <3>2. \A c \in window : status[c] # "none"
        BY DEF Windows, Active
      <3>3. \A c \in new.live : Right(new, c)
        BY <1>1, <3>1, UpsertedRight
      <3>4. Blank(new)
        BY <1>1, <3>1, <3>2, UpsertedBlank, BlankNoState
      <3> HIDE DEF new
      <3> QED
        BY <2>2, <3>3, <3>4 DEF Right, Blank, new
    <2> QED
      BY <2>1, <2>2 DEF Load
  <1>3. Ahead'
    <2>1. job'.created = {} /\ job'.dirty = {} /\ job'.moves = {}
      BY <1>1 DEF NoJob
    <2>2. mem'.live \subseteq Cluster
      BY DEF TypeOK, State
    <2>3. \A c \in mem'.live, a \in Article : mem'.sum[c][a] = IF story[a] = c THEN 1 ELSE 0
      BY <1>1, <1>2, <2>2 DEF SyncInv, SumsMatchMembers
    <2> QED
      BY <1>1, <1>2, <2>1, <2>3 DEF Ahead, Waits, Active, db
  <1>4. Blank(mem)'
    BY <1>1, <1>2 DEF Blank, db
  <1>5. CopyInv'
    BY <1>1, <1>3 DEF CopyInv, NoJob
  <1> QED
    BY <1>1, <1>4, <1>5, SameTables DEF SyncInv

LEMMA FetchSync ==
  ASSUME IInv, TypeOK', Fetch
  PROVE  SyncInv'
  <1>1. /\ pc = "fetch" /\ UNCHANGED <<story, status, sum, mem, cached, file, faults>>
        /\ TypeOK /\ SyncInv /\ Ahead
        /\ job.dirty = {} /\ job.created = {} /\ job.moves = {}
    BY DEF Fetch, IInv, SyncInv, CopyInv, db
  <1>2. CASE pc' = "assign" /\ job' = [job EXCEPT !.page = NextPage, !.after = Max(NextPage)]
    <2>1. /\ job'.dirty = {} /\ job'.created = {} /\ job'.moves = {} /\ job'.page = NextPage
      BY <1>1, <1>2, TypeFacts DEF JobRecord
    <2>2. Ahead'
      BY <1>1, <2>1 DEF Ahead, Waits, Active
    <2>3. PageFree'
      BY <1>1, <2>1 DEF PageFree, NextPage, Lowest, Unclustered
    <2> QED
      BY <1>1, <1>2, <2>2, <2>3, SameTables DEF SyncInv, CopyInv, db
  <1>3. CASE pc' = "merge"
    <2>1. \A c \in mem.live : Active(c) /\ mem.sum[c] = sum[c]
      <3> TAKE c \in mem.live
      <3>1. c \in Cluster /\ mem.sum[c] \in [Article -> Nat] /\ sum[c] \in [Article -> Nat]
        BY <1>1 DEF TypeOK, State
      <3>2. Active(c)
        BY <1>1 DEF Ahead
      <3>3. \A a \in Article : mem.sum[c][a] = sum[c][a]
        BY <1>1, <3>1, <3>2 DEF Ahead, Waits, SyncInv, SumsMatchMembers
      <3> QED
        BY <3>1, <3>2, <3>3
    <2> QED
      BY <1>1, <1>3, <2>1, SameTables DEF SyncInv, CopyInv, Right, Active, db
  <1> QED
    BY <1>2, <1>3 DEF Fetch

LEMMA AssignSync ==
  ASSUME IInv, TypeOK', NEW a \in Article, Assign(a)
  PROVE  SyncInv'
  <1>1. /\ pc = "assign" /\ a \in job.page
        /\ UNCHANGED <<story, status, sum, cached, file, pc, faults>>
        /\ TypeOK /\ SyncInv /\ Ahead /\ PageFree
        /\ job \in JobRecord /\ mem \in State
    BY TypeFacts DEF Assign, IInv, SyncInv, CopyInv, db
  <1>2. CASE mem' = mem /\ job' = [job EXCEPT !.page = @ \ {a}]
    <2>1. /\ job'.dirty = job.dirty /\ job'.created = job.created /\ job'.moves = job.moves
          /\ job'.page = job.page \ {a}
      BY <1>1, <1>2 DEF JobRecord
    <2>2. Ahead' /\ PageFree'
      BY <1>1, <1>2, <2>1 DEF Ahead, PageFree, Waits, Active
    <2> QED
      BY <1>1, <1>2, <2>2, SameTables DEF SyncInv, CopyInv, db
  <1>3. ASSUME NEW c \in Cluster, c \in mem.live \/ status[c] = "none",
               mem' = [mem EXCEPT !.live = @ \cup {c}, !.sum[c][a] = @ + 1],
               job' = [job EXCEPT
                 !.page = @ \ {a}, !.dirty = @ \cup {c}, !.touched = @ \cup {c},
                 !.created = IF c \in mem.live THEN @ ELSE @ \cup {c},
                 !.moves = @ \cup {<<a, c>>}]
        PROVE  SyncInv'
    <2>1. /\ mem'.live = mem.live \cup {c} /\ mem'.newer = mem.newer
          /\ mem'.sum = [mem.sum EXCEPT ![c][a] = @ + 1]
      BY <1>1, <1>3 DEF State
    <2>2. /\ job'.page = job.page \ {a} /\ job'.dirty = job.dirty \cup {c}
          /\ job'.created = IF c \in mem.live THEN job.created ELSE job.created \cup {c}
          /\ job'.moves = job.moves \cup {<<a, c>>}
      BY <1>1, <1>3 DEF JobRecord
    <2>3. story[a] = NoCluster /\ \A m \in job.moves : m[1] # a
      BY <1>1 DEF PageFree
    <2>4. \A d \in Cluster, b \in Article : Waits(b, d)' <=> Waits(b, d) \/ (b = a /\ d = c)
      BY <1>1, <2>2, <2>3 DEF Waits
    <2>5. \A b \in Article : mem.sum[c][b] = IF story[b] = c \/ Waits(b, c) THEN 1 ELSE 0
      <3>1. CASE c \in mem.live
        BY <1>1, <3>1 DEF Ahead
      <3>2. CASE c \notin mem.live
        <4>1. \A b \in Article : mem.sum[c][b] = 0
          BY <1>1, <1>3, <3>2 DEF SyncInv, Blank
        <4>2. \A b \in Article : story[b] # c
          BY <1>1, <1>3, <3>2 DEF SyncInv, NoneInTombstone, Active
        <4>3. \A b \in Article : ~Waits(b, c)
          BY <1>1, <3>2 DEF Ahead, Waits
        <4> QED
          BY <4>1, <4>2, <4>3
      <3> QED
        BY <3>1, <3>2
    <2>6. mem.sum[c][a] = 0
      <3>1. ~Waits(a, c)
        BY <2>3 DEF Waits
      <3> QED
        BY <2>3, <2>5, <3>1, NameAssumption
    <2>7. \A d \in mem'.live, b \in Article :
            mem'.sum[d][b] = IF story[b] = d \/ Waits(b, d)' THEN 1 ELSE 0
      <3> TAKE d \in mem'.live, b \in Article
      <3>1. d \in Cluster /\ mem.sum \in [Cluster -> [Article -> Nat]]
        BY <1>1, <2>1 DEF State
      <3>2. CASE d = c /\ b = a
        <4>1. mem'.sum[d][b] = 1
          BY <2>1, <2>6, <3>1, <3>2
        <4> QED
          BY <2>4, <3>1, <3>2, <4>1
      <3>3. CASE d # c \/ b # a
        <4>1. mem'.sum[d][b] = mem.sum[d][b]
          BY <2>1, <3>1, <3>3
        <4>2. mem.sum[d][b] = IF story[b] = d \/ Waits(b, d) THEN 1 ELSE 0
          BY <1>1, <2>1, <2>5 DEF Ahead
        <4>3. Waits(b, d)' <=> Waits(b, d)
          BY <2>4, <3>1, <3>3
        <4> QED
          BY <4>1, <4>2, <4>3
      <3> QED
        BY <3>2, <3>3
    <2>8. Ahead'
      <3>1. \A d \in mem'.live : Active(d)' \/ (d \in job'.created /\ status'[d] = "none")
        BY <1>1, <1>3, <2>1, <2>2 DEF Ahead, Active
      <3>2. job'.created \subseteq job'.dirty /\ job'.dirty \subseteq mem'.live
        BY <1>1, <2>1, <2>2 DEF Ahead
      <3>3. \A d \in job'.created : status[d] = "none"
        BY <1>1, <1>3, <2>2 DEF PageFree
      <3>4. \A d \in job'.created : Active(d)' => \A b \in Article : ~Waits(b, d)'
        BY <1>1, <3>3 DEF Active
      <3>5. \A m, n \in job'.moves : m[1] = n[1] => m = n
        BY <1>1, <2>2, <2>3 DEF Ahead
      <3>6. \A m \in job'.moves : m[2] \in job'.dirty
        BY <1>1, <2>2 DEF Ahead
      <3> QED
        BY <1>1, <2>7, <3>1, <3>2, <3>4, <3>5, <3>6 DEF Ahead
    <2>9. PageFree'
      BY <1>1, <1>3, <2>2, <2>3 DEF PageFree
    <2>10. Blank(mem)'
      <3>1. \A d \in Cluster : d # c => mem'.sum[d] = mem.sum[d]
        BY <1>1, <2>1 DEF State
      <3> QED
        BY <1>1, <2>1, <3>1 DEF Blank, SyncInv
    <2> QED
      BY <1>1, <2>8, <2>9, <2>10, SameTables DEF SyncInv, CopyInv, db
  <1> QED
    BY <1>2, <1>3 DEF Assign

LEMMA BeginFlushSync ==
  ASSUME IInv, TypeOK', BeginFlush
  PROVE  SyncInv'
  <1>1. /\ pc = "assign" /\ pc' = "flush"
        /\ UNCHANGED <<story, status, sum, mem, cached, file, faults>>
        /\ TypeOK /\ SyncInv /\ Ahead /\ job \in JobRecord
        /\ job' = [job EXCEPT !.left = job.dirty]
    BY TypeFacts DEF BeginFlush, IInv, SyncInv, CopyInv, db
  <1>2. /\ job'.dirty = job.dirty /\ job'.created = job.created /\ job'.moves = job.moves
        /\ job'.left = job.dirty
    BY <1>1 DEF JobRecord
  <1>3. Ahead' /\ FlushedDone'
    BY <1>1, <1>2 DEF Ahead, FlushedDone, Waits, Active
  <1> QED
    BY <1>1, <1>3, SameTables DEF SyncInv, CopyInv, db

LEMMA MarkFlushedSync ==
  ASSUME IInv, TypeOK', MarkFlushed
  PROVE  SyncInv'
  <1>1. /\ pc = "flush" /\ job.left = {} /\ pc' = "fetch"
        /\ UNCHANGED <<story, status, sum, cached, file, faults>>
        /\ TypeOK /\ SyncInv /\ Ahead /\ FlushedDone /\ job \in JobRecord /\ mem \in State
        /\ mem' = [mem EXCEPT !.newer = IF job.dirty = {} THEN @ ELSE {}]
        /\ job' = [job EXCEPT !.dirty = {}, !.created = {}, !.moves = {}]
    BY TypeFacts DEF MarkFlushed, IInv, SyncInv, CopyInv, db
  <1>2. /\ mem'.live = mem.live /\ mem'.sum = mem.sum /\ mem'.newer \subseteq mem.newer
        /\ job'.dirty = {} /\ job'.created = {} /\ job'.moves = {}
    BY <1>1 DEF State, JobRecord
  <1>3. \A c \in mem.live : Active(c) /\ \A a \in Article : ~Waits(a, c)
    BY <1>1 DEF Ahead, FlushedDone, Waits
  <1>4. Ahead'
    <2>1. \A c \in mem.live, a \in Article : mem.sum[c][a] = IF story[a] = c THEN 1 ELSE 0
      BY <1>1, <1>3 DEF Ahead
    <2>2. \A c \in mem'.live : Active(c)'
      BY <1>1, <1>2, <1>3 DEF Active
    <2> QED
      BY <1>1, <1>2, <2>1, <2>2 DEF Ahead, Waits
  <1>5. Blank(mem)'
    BY <1>1, <1>2 DEF SyncInv, Blank
  <1> QED
    BY <1>1, <1>2, <1>4, <1>5, SameTables DEF SyncInv, CopyInv, db

-----------------------------------------------------------------------------
(* The steps that write the tables *)

\* Two stories become one: every copy that marks both as changed still catches up.
LEMMA MergeRowsSync ==
  ASSUME TypeOK, SyncInv, NEW w \in Cluster, NEW l \in Cluster, MergeRows(w, l)
  PROVE  /\ SumsMatchMembers' /\ NoneInTombstone' /\ FileCatchesUp' /\ Blank(file)'
         /\ \A c \in Cluster : c \notin {w, l} => sum'[c] = sum[c] /\ status'[c] = status[c]
         /\ \A c \in Cluster : status'[c] = "none" => status[c] = "none" /\ c \notin {w, l}
  <1>1. /\ w # l /\ status[w] = "active" /\ status[l] = "active"
        /\ story' = [a \in Article |-> IF story[a] = l THEN w ELSE story[a]]
        /\ sum' = [sum EXCEPT ![w] = [a \in Article |-> sum[w][a] + sum[l][a]]]
        /\ status' = [status EXCEPT ![l] = "merged"]
        /\ file' = [file EXCEPT !.newer = @ \cup {w, l}]
    BY DEF MergeRows, MayMerge, Active, Touched, TypeOK
  <1>2. /\ status \in [Cluster -> {"none", "active", "merged", "gone"}]
        /\ sum \in [Cluster -> [Article -> Nat]] /\ file \in State
        /\ file'.live = file.live /\ file'.sum = file.sum /\ file'.newer = file.newer \cup {w, l}
    BY <1>1, TypeFacts DEF State
  <1>3. \A c \in Cluster : c \notin {w, l} => sum'[c] = sum[c] /\ status'[c] = status[c]
    BY <1>1, <1>2
  <1>4. status'[w] = "active" /\ status'[l] = "merged"
    BY <1>1, <1>2
  <1>5. SumsMatchMembers'
    <2>1. \A c \in Cluster \ {w, l}, a \in Article : story'[a] = c <=> story[a] = c
      BY <1>1
    <2>2. \A a \in Article : story'[a] = w <=> story[a] = w \/ story[a] = l
      BY <1>1
    <2>3. \A a \in Article : sum'[w][a] = IF story'[a] = w THEN 1 ELSE 0
      <3> TAKE a \in Article
      <3>1. /\ sum[w][a] = IF story[a] = w THEN 1 ELSE 0
            /\ sum[l][a] = IF story[a] = l THEN 1 ELSE 0
        BY <1>1 DEF SyncInv, SumsMatchMembers, Active
      <3>2. sum'[w][a] = sum[w][a] + sum[l][a]
        BY <1>1, <1>2
      <3> QED
        BY <1>1, <2>2, <3>1, <3>2
    <2>4. \A c \in Cluster \ {w, l} : Active(c)' => \A a \in Article :
            sum'[c][a] = IF story'[a] = c THEN 1 ELSE 0
      BY <1>3, <2>1 DEF SyncInv, SumsMatchMembers, Active
    <2> QED
      BY <1>4, <2>3, <2>4 DEF SumsMatchMembers, Active
  <1>6. NoneInTombstone'
    BY <1>1, <1>3, <1>4 DEF SyncInv, NoneInTombstone, Active
  <1>7. FileCatchesUp'
    <2>1. file.live \subseteq Cluster
      BY <1>2 DEF State
    <2> QED
      BY <1>2, <1>3, <2>1 DEF SyncInv, FileCatchesUp, Active
  <1>8. \A c \in Cluster : status'[c] = "none" => status[c] = "none" /\ c \notin {w, l}
    BY <1>3, <1>4
  <1>9. Blank(file)'
    BY <1>2, <1>8 DEF SyncInv, Blank
  <1> QED
    BY <1>3, <1>5, <1>6, <1>7, <1>8, <1>9

LEMMA FlushSync ==
  ASSUME IInv, TypeOK', Flush
  PROVE  SyncInv'
  <1>1. /\ pc = "flush" /\ pc' = "flush" /\ TypeOK /\ SyncInv /\ Ahead /\ FlushedDone
        /\ job \in JobRecord /\ mem \in State /\ file \in State
        /\ story \in [Article -> Cluster \cup {NoCluster, Gone}]
        /\ status \in [Cluster -> {"none", "active", "merged", "gone"}]
        /\ sum \in [Cluster -> [Article -> Nat]]
    BY TypeFacts DEF Flush, IInv, SyncInv, CopyInv
  <1>2. PICK S \in SUBSET job.left :
          /\ ApplyChanges(S)
          /\ job' = [job EXCEPT !.left = @ \ S] \/ UNCHANGED job
    BY DEF Flush
  <1>3. /\ S \subseteq job.left /\ S \subseteq job.dirty /\ S \subseteq mem.live
        /\ S \subseteq Cluster
        /\ job'.dirty = job.dirty /\ job'.created = job.created /\ job'.moves = job.moves
        /\ job'.left \subseteq job.left /\ \A c \in job.left : c \notin job'.left => c \in S
    BY <1>1, <1>2 DEF JobRecord, FlushedDone, Ahead
  <1> DEFINE Done == Inserted(S) \cup Updated(S)
  <1>4. /\ status' = [c \in Cluster |-> IF c \in Inserted(S) THEN "active" ELSE status[c]]
        /\ sum' = [c \in Cluster |-> IF c \in Done THEN mem.sum[c] ELSE sum[c]]
        /\ mem' = Touched(mem, Done) /\ file' = Touched(file, Done)
    BY <1>2 DEF ApplyChanges
  <1>5. Done \subseteq S /\ \A c \in S \ Done : c \in job.created /\ Active(c)
    BY <1>1, <1>3 DEF Inserted, Updated, Ahead, Active
  <1>6. /\ \A c \in S : status'[c] = "active"
        /\ \A c \in Cluster : status'[c] # status[c] => c \in S /\ status'[c] = "active"
        /\ \A c \in Cluster : status[c] = "active" => status'[c] = "active"
    BY <1>1, <1>3, <1>4 DEF Ahead, Inserted, Active
  <1>7. /\ \A a \in Article, c \in S : Waits(a, c) => story'[a] = c
        /\ \A a \in Article : \/ story'[a] = story[a] /\ \A c \in S : ~Waits(a, c)
                              \/ /\ story[a] = NoCluster /\ story'[a] \in S
                                 /\ Waits(a, story'[a])
    <2>1. \A a \in Article, c \in S : <<a, c>> \in Stamped(S) <=> Waits(a, c)
      BY DEF Stamped, Waits
    <2>2. story' = [a \in Article |->
                 IF \E c \in S : <<a, c>> \in Stamped(S)
                 THEN CHOOSE c \in S : <<a, c>> \in Stamped(S) ELSE story[a]]
      BY <1>2 DEF ApplyChanges
    <2>3. \A a \in Article, c, d \in S : Waits(a, c) /\ Waits(a, d) => c = d
      BY <1>1 DEF Ahead, Waits
    <2>4. ASSUME NEW a \in Article, NEW c \in S, Waits(a, c) PROVE story'[a] = c
      <3>1. story'[a] = CHOOSE d \in S : <<a, d>> \in Stamped(S)
        BY <2>1, <2>2, <2>4
      <3>2. story'[a] \in S /\ <<a, story'[a]>> \in Stamped(S)
        BY <2>1, <2>4, <3>1
      <3> QED
        BY <2>1, <2>3, <2>4, <3>2
    <2>5. ASSUME NEW a \in Article, \A c \in S : ~Waits(a, c) PROVE story'[a] = story[a]
      BY <2>1, <2>2, <2>5
    <2> QED
      BY <2>4, <2>5 DEF Waits
  <1> HIDE DEF Done
  <1>8. \A a \in Article : story'[a] = NoCluster <=> story[a] = NoCluster /\ \A c \in S : ~Waits(a, c)
    <2>1. \A c \in S : c # NoCluster
      BY <1>3, NameAssumption
    <2> QED
      BY <1>7, <2>1
  <1>9. \A a \in Article, c \in Cluster : Waits(a, c)' <=> Waits(a, c) /\ c \notin S
    <2>1. \A a \in Article, c, d \in Cluster : Waits(a, c) /\ Waits(a, d) => c = d
      BY <1>1 DEF Ahead, Waits
    <2> QED
      BY <1>3, <1>8, <2>1 DEF Waits
  <1>10. \A a \in Article, c \in Cluster :
           story'[a] = c <=> story[a] = c \/ (Waits(a, c) /\ c \in S)
    <2>1. \A c \in Cluster : c # NoCluster
      BY NameAssumption
    <2> QED
      BY <1>3, <1>7, <2>1
  <1>11. SumsMatchMembers'
    <2> SUFFICES ASSUME NEW c \in Cluster, status'[c] = "active", NEW a \in Article
                 PROVE  sum'[c][a] = IF story'[a] = c THEN 1 ELSE 0
      BY DEF SumsMatchMembers, Active
    <2>1. CASE c \in Done
      <3>1. sum'[c] = mem.sum[c] /\ c \in S
        BY <1>4, <1>5, <2>1
      <3>2. mem.sum[c][a] = IF story[a] = c \/ Waits(a, c) THEN 1 ELSE 0
        BY <1>1, <1>3, <3>1 DEF Ahead
      <3> QED
        BY <1>10, <3>1, <3>2
    <2>2. CASE c \notin Done
      <3>1. sum'[c] = sum[c]
        BY <1>4, <2>2
      <3>2. Active(c) /\ (c \in S => ~Waits(a, c))
        BY <1>1, <1>5, <1>6, <2>2 DEF Ahead, Active
      <3>3. sum[c][a] = IF story[a] = c THEN 1 ELSE 0
        BY <1>1, <3>2 DEF SyncInv, SumsMatchMembers
      <3> QED
        BY <1>10, <3>1, <3>2, <3>3
    <2> QED
      BY <2>1, <2>2
  <1>12. NoneInTombstone'
    BY <1>1, <1>3, <1>6, <1>7 DEF SyncInv, NoneInTombstone, Active
  <1>13. /\ mem'.live = mem.live /\ mem'.sum = mem.sum /\ mem'.newer = mem.newer \cup Done
         /\ file'.live = file.live /\ file'.sum = file.sum /\ file'.newer = file.newer \cup Done
    BY <1>1, <1>4 DEF Touched, State
  <1>14. FileCatchesUp'
    <2> SUFFICES ASSUME NEW c \in file'.live \ file'.newer
                 PROVE  status'[c] = "active" /\ file'.sum[c] = sum'[c]
      BY DEF FileCatchesUp, Active
    <2>1. c \in file.live \ file.newer /\ c \notin Done /\ c \in Cluster
      BY <1>1, <1>13 DEF State
    <2>2. Active(c) /\ file.sum[c] = sum[c]
      BY <1>1, <2>1 DEF SyncInv, FileCatchesUp
    <2> QED
      BY <1>4, <1>6, <1>13, <2>1, <2>2 DEF Active
  <1>15. \A c \in Cluster : status'[c] = "none" => status[c] = "none" /\ c \notin Done
    BY <1>5, <1>6
  <1>16. Blank(mem)' /\ Blank(file)'
    BY <1>1, <1>13, <1>15 DEF SyncInv, Blank
  <1>17. Ahead'
    <2>1. \A c \in mem'.live : Active(c)' \/ (c \in job'.created /\ status'[c] = "none")
      <3>1. mem.live \subseteq Cluster
        BY <1>1 DEF State
      <3> QED
        BY <1>1, <1>3, <1>6, <1>13, <3>1 DEF Ahead, Active
    <2>2. \A c \in mem'.live, a \in Article :
            mem'.sum[c][a] = IF story'[a] = c \/ Waits(a, c)' THEN 1 ELSE 0
      <3> TAKE c \in mem'.live, a \in Article
      <3>1. c \in Cluster /\ c \in mem.live
        BY <1>1, <1>13 DEF State
      <3>2. story'[a] = c \/ Waits(a, c)' <=> story[a] = c \/ Waits(a, c)
        BY <1>9, <1>10, <3>1
      <3>3. mem.sum[c][a] = IF story[a] = c \/ Waits(a, c) THEN 1 ELSE 0
        BY <1>1, <3>1 DEF Ahead
      <3> QED
        BY <1>13, <3>2, <3>3
    <2>3. job'.created \subseteq job'.dirty /\ job'.dirty \subseteq mem'.live
      BY <1>1, <1>3, <1>13 DEF Ahead
    <2>4. \A c \in job'.created : Active(c)' => \A a \in Article : ~Waits(a, c)'
      <3> TAKE c \in job'.created
      <3>1. c \in job.created /\ c \in Cluster
        BY <1>1, <1>3 DEF JobRecord
      <3>2. CASE c \in S
        BY <1>9, <3>1, <3>2
      <3>3. CASE c \notin S
        <4>1. Active(c)' => Active(c)
          BY <1>6, <3>1, <3>3 DEF Active
        <4> QED
          BY <1>1, <1>9, <3>1, <4>1 DEF Ahead
      <3> QED
        BY <3>2, <3>3
    <2>5. /\ \A m, n \in job'.moves : m[1] = n[1] => m = n
          /\ \A m \in job'.moves : m[2] \in job'.dirty
      BY <1>1, <1>3 DEF Ahead
    <2> QED
      BY <2>1, <2>2, <2>3, <2>4, <2>5 DEF Ahead
  <1>18. FlushedDone'
    <2>1. job'.left \subseteq job'.dirty
      BY <1>1, <1>3 DEF FlushedDone
    <2>2. ASSUME NEW c \in job'.dirty \ job'.left
          PROVE  status'[c] = "active" /\ \A a \in Article : ~Waits(a, c)'
      <3>1. c \in job.dirty /\ c \in Cluster
        BY <1>1, <1>3, <2>2 DEF JobRecord
      <3>2. CASE c \in S
        BY <1>6, <1>9, <3>1, <3>2
      <3>3. CASE c \notin S
        <4>1. c \in job.dirty \ job.left
          BY <1>3, <2>2, <3>1, <3>3
        <4>2. Active(c) /\ \A a \in Article : ~Waits(a, c)
          BY <1>1, <4>1 DEF FlushedDone
        <4> QED
          BY <1>6, <1>9, <3>1, <4>2 DEF Active
      <3> QED
        BY <3>2, <3>3
    <2> QED
      BY <2>1, <2>2 DEF FlushedDone, Active
  <1> QED
    BY <1>1, <1>11, <1>12, <1>14, <1>16, <1>17, <1>18 DEF SyncInv, CopyInv

\* The work list is empty: the pairs are merged in the tables, and what a merge
\* touched waits for the next delta.
LEMMA MergeTwinsSync ==
  ASSUME IInv, TypeOK', MergeTwins
  PROVE  SyncInv'
  <1>1. /\ pc = "merge" /\ pc' = "merge" /\ TypeOK /\ SyncInv /\ mem \in State
        /\ \A c \in mem.live \ mem.newer : Right(mem, c)
    BY TypeFacts DEF MergeTwins, IInv, SyncInv, CopyInv
  <1>2. CASE UNCHANGED <<db, file, mem>>
    BY <1>1, <1>2, SameTables DEF SyncInv, CopyInv, Right, Active, db
  <1>3. ASSUME NEW p \in Twins, MergeRows(p[1], p[2]), mem' = Touched(mem, {p[1], p[2]})
        PROVE  SyncInv'
    <2>1. p[1] \in Cluster /\ p[2] \in Cluster
      BY <1>1 DEF Twins, State
    <2>2. /\ mem'.live = mem.live /\ mem'.sum = mem.sum /\ mem'.newer = mem.newer \cup {p[1], p[2]}
          /\ mem.live \subseteq Cluster
      BY <1>1, <1>3 DEF Touched, State
    <2>3. /\ SumsMatchMembers' /\ NoneInTombstone' /\ FileCatchesUp' /\ Blank(file)'
          /\ \A c \in Cluster : c \notin {p[1], p[2]} => sum'[c] = sum[c] /\ status'[c] = status[c]
          /\ \A c \in Cluster : status'[c] = "none" => status[c] = "none" /\ c \notin {p[1], p[2]}
      BY <1>1, <1>3, <2>1, MergeRowsSync
    <2>4. Blank(mem)'
      BY <1>1, <2>2, <2>3 DEF SyncInv, Blank
    <2>5. \A c \in mem'.live \ mem'.newer : Right(mem, c)'
      BY <1>1, <2>2, <2>3 DEF Right, Active
    <2> QED
      BY <1>1, <2>3, <2>4, <2>5 DEF SyncInv, CopyInv
  <1> QED
    BY <1>2, <1>3 DEF MergeTwins

LEMMA EndRoundSync ==
  ASSUME IInv, TypeOK', EndRound
  PROVE  SyncInv'
  <1>1. /\ pc = "merge" /\ pc' \in {"merge", "save"} /\ UNCHANGED <<story, status, sum, cached, file>>
        /\ TypeOK /\ SyncInv /\ mem \in State /\ mem.newer \in SUBSET Cluster
        /\ \A c \in mem.live \ mem.newer : Right(mem, c)
    BY TypeFacts DEF EndRound, IInv, SyncInv, CopyInv, State, db
  <1>2. Blank(mem) /\ \A c \in mem.newer : status[c] # "none"
    BY <1>1 DEF SyncInv, Blank
  <1>3. Blank(mem)' /\ \A c \in mem'.live \ mem'.newer : Active(c) /\ mem'.sum[c] = sum[c]
    <2>1. CASE UNCHANGED mem
      BY <1>1, <1>2, <2>1 DEF Blank, Right
    <2>2. CASE mem' = [Upserted(mem, mem.newer) EXCEPT !.newer = {}]
      <3> DEFINE new == Upserted(mem, mem.newer)
      <3>1. (\A c \in new.live : Right(new, c)) /\ Blank([new EXCEPT !.newer = {}])
        BY <1>1, <1>2, UpsertedRight, UpsertedBlank
      <3>2. mem'.live = new.live /\ mem'.sum = new.sum /\ mem' = [new EXCEPT !.newer = {}]
        BY <2>2 DEF Upserted
      <3> HIDE DEF new
      <3> QED
        BY <1>1, <3>1, <3>2 DEF Right, Blank
    <2>3. ASSUME NEW S \in SUBSET mem.newer, mem' = Upserted(mem, S)
          PROVE  <1>3!1 /\ <1>3!2
      <3>1. S \in SUBSET Cluster /\ \A c \in S : status[c] # "none"
        BY <1>1, <1>2
      <3>2. Blank(Upserted(mem, S))
        BY <1>1, <1>2, <3>1, UpsertedBlank
      <3>3. \A c \in mem'.live \ mem'.newer : c \in mem.live \ mem.newer /\ mem'.sum[c] = mem.sum[c]
        BY <1>1, <2>3 DEF Upserted, State
      <3>4. Blank(mem)'
        BY <1>1, <2>3, <3>2 DEF Blank
      <3> QED
        BY <1>1, <3>3, <3>4 DEF Right
    <2> QED
      BY <2>1, <2>2, <2>3 DEF EndRound
  <1> QED
    BY <1>1, <1>3, SameTables DEF SyncInv, CopyInv, Right, Active, db

-----------------------------------------------------------------------------
(* The end of a job, and what happens between two of them *)

LEMMA SaveSync ==
  ASSUME IInv, TypeOK', Save
  PROVE  SyncInv'
  <1>1. /\ pc = "save" /\ pc' = "idle" /\ UNCHANGED <<story, status, sum>> /\ mem' = NoState
        /\ TypeOK /\ SyncInv /\ mem \in State
        /\ \A c \in mem.live \ mem.newer : Right(mem, c)
    BY TypeFacts DEF Save, EndJob, IInv, SyncInv, CopyInv, db
  <1>2. Blank(mem)'
    BY <1>1, BlankNoState DEF Blank
  <1>3. FileCatchesUp' /\ Blank(file)'
    <2>1. CASE UNCHANGED file
      BY <1>1, <2>1, SameTables DEF db
    <2>2. ASSUME NEW old \in SUBSET mem.live,
                 file' = [mem EXCEPT !.live = @ \ old, !.newer = Bookmark]
          PROVE  FileCatchesUp' /\ Blank(file)'
      <3>1. file'.live = mem.live \ old /\ file'.sum = mem.sum /\ file'.newer = mem.newer
        BY <1>1, <2>2 DEF State, Bookmark
      <3>2. FileCatchesUp'
        BY <1>1, <3>1 DEF FileCatchesUp, Right, Active
      <3>3. \A c \in Cluster : status[c] = "none" => c \notin mem.newer /\ c \notin mem.live
        BY <1>1 DEF SyncInv, Blank, Right, Active
      <3>4. \A c \in Cluster : status[c] = "none" => \A a \in Article : mem.sum[c][a] = 0
        BY <1>1, <3>3 DEF SyncInv, Blank
      <3> QED
        BY <1>1, <3>1, <3>2, <3>3, <3>4 DEF Blank
    <2> QED
      BY <2>1, <2>2 DEF Save
  <1> QED
    BY <1>1, <1>2, <1>3, SameTables DEF SyncInv, CopyInv, db

LEMMA DieSync ==
  ASSUME IInv, TypeOK', Die
  PROVE  SyncInv'
  <1>1. /\ pc' = "idle" /\ UNCHANGED <<story, status, sum, cached, file>> /\ mem' = NoState
        /\ TypeOK /\ SyncInv
    BY DEF Die, EndJob, IInv, db
  <1>2. Blank(mem)'
    BY <1>1, BlankNoState DEF Blank
  <1> QED
    BY <1>1, <1>2, SameTables DEF SyncInv, CopyInv, db

LEMMA MaintainSync ==
  ASSUME IInv, TypeOK', Maintain
  PROVE  SyncInv'
  <1>1. /\ pc = "idle" /\ UNCHANGED <<mem, cached, pc, job, faults>> /\ TypeOK /\ SyncInv
    BY DEF Maintain, IInv
  <1>2. PICK w \in Cluster, l \in Cluster : MergeRows(w, l)
    BY DEF Maintain
  <1>3. /\ SumsMatchMembers' /\ NoneInTombstone' /\ FileCatchesUp' /\ Blank(file)'
        /\ \A c \in Cluster : status'[c] = "none" => status[c] = "none"
    BY <1>1, <1>2, MergeRowsSync
  <1>4. Blank(mem)'
    BY <1>1, <1>3 DEF SyncInv, Blank
  <1> QED
    BY <1>1, <1>3, <1>4 DEF SyncInv, CopyInv

\* The purge recomputes each story it takes articles from, and the file goes.
LEMMA PurgeSync ==
  ASSUME IInv, TypeOK', Purge
  PROVE  SyncInv'
  <1> DEFINE Kept(c) == Members(c) \ Foreign
  <1>1. /\ pc = "idle" /\ UNCHANGED <<mem, pc, job, faults>> /\ TypeOK /\ SyncInv
        /\ story' = [a \in Article |-> IF a \in Foreign THEN Gone ELSE story[a]]
        /\ status' = [c \in Cluster |-> IF Members(c) # {} /\ Kept(c) = {}
                                        THEN "gone" ELSE status[c]]
        /\ sum' = [c \in Cluster |-> IF Members(c) = Kept(c) THEN sum[c]
                                      ELSE [a \in Article |-> IF a \in Kept(c) THEN 1 ELSE 0]]
        /\ file' = NoState
    BY DEF Purge, Evicted, IInv
  <1>2. \A c \in Cluster, a \in Article : story'[a] = c <=> a \in Kept(c)
    BY <1>1, NameAssumption DEF Members
  <1>3. SumsMatchMembers'
    <2> SUFFICES ASSUME NEW c \in Cluster, status'[c] = "active", NEW a \in Article
                 PROVE  sum'[c][a] = IF a \in Kept(c) THEN 1 ELSE 0
      BY <1>2 DEF SumsMatchMembers, Active
    <2>1. CASE Members(c) = Kept(c)
      <3>1. Active(c)
        BY <1>1 DEF Active
      <3>2. sum'[c] = sum[c] /\ (a \in Kept(c) <=> story[a] = c)
        BY <1>1, <2>1 DEF Members
      <3> QED
        BY <1>1, <3>1, <3>2 DEF SyncInv, SumsMatchMembers
    <2>2. CASE Members(c) # Kept(c)
      BY <1>1, <2>2
    <2> QED
      BY <2>1, <2>2
  <1>4. NoneInTombstone'
    <2> SUFFICES ASSUME NEW a \in Article, story'[a] \in Cluster
                 PROVE  status'[story'[a]] = "active"
      BY DEF NoneInTombstone, Active
    <2>1. a \in Kept(story'[a]) /\ story'[a] = story[a]
      BY <1>1, <1>2, NameAssumption
    <2> QED
      BY <1>1, <2>1 DEF SyncInv, NoneInTombstone, Active
  <1>5. FileCatchesUp'
    BY <1>1 DEF FileCatchesUp, NoState
  <1>6. Blank(file)'
    BY <1>1, BlankNoState DEF Blank
  <1>7. Blank(mem)'
    BY <1>1 DEF SyncInv, Blank
  <1> QED
    BY <1>1, <1>3, <1>4, <1>5, <1>6, <1>7 DEF SyncInv, CopyInv

LEMMA EvictSync ==
  ASSUME IInv, TypeOK', Evict
  PROVE  SyncInv'
  <1>1. /\ pc = "idle" /\ UNCHANGED <<story, status, sum, mem, pc, job, faults>> /\ file' = NoState
        /\ TypeOK /\ SyncInv
    BY DEF Evict, IInv, db
  <1>2. FileCatchesUp' /\ Blank(file)'
    BY <1>1, BlankNoState DEF FileCatchesUp, NoState, Blank
  <1> QED
    BY <1>1, <1>2, SameTables DEF SyncInv, CopyInv, db

LEMMA StepSync == IInv /\ [Next]_vars => IInv'
  <1> SUFFICES ASSUME IInv, [Next]_vars PROVE IInv'
    OBVIOUS
  <1>1. TypeOK' /\ JobBounds'
    BY StepTypes DEF IInv
  <1>2. CASE UNCHANGED vars
    BY <1>2 DEF vars, db, IInv, SyncInv, SumsMatchMembers, NoneInTombstone, FileCatchesUp,
      Blank, CopyInv, Ahead, PageFree, FlushedDone, Waits, Right, Active, TypeOK, JobBounds
  <1>3. CASE Advance
    BY <1>1, <1>3, LoadSync, FetchSync, AssignSync, BeginFlushSync, FlushSync, MarkFlushedSync,
      MergeTwinsSync, EndRoundSync, SaveSync DEF Advance, IInv
  <1>4. CASE Die \/ Maintain \/ Purge \/ Evict
    BY <1>1, <1>4, DieSync, MaintainSync, PurgeSync, EvictSync DEF IInv
  <1> QED
    BY <1>2, <1>3, <1>4 DEF Next

LEMMA Invariant == Spec => []IInv
  <1>1. Init => IInv
    BY InitTypes, InitSync DEF IInv
  <1> QED
    BY <1>1, StepSync, PTL DEF Spec

-----------------------------------------------------------------------------
(* What the job promises, whatever dies, is lost or is written twice *)

\* The variables of the clustering job keep their types.
THEOREM TypeCorrect == Spec => []TypeOK
  BY Invariant, PTL DEF IInv

\* The sum and the count of an active story hold each of its articles exactly once
\* (ClusterState.assign, wizer_apply_cluster_changes, wizer_merge_clusters).
THEOREM SumsAreRight == Spec => []SumsMatchMembers
  BY Invariant, PTL DEF IInv, SyncInv

\* No article is put into a story that is not there or was merged into another.
THEOREM NoArticleInTombstone == Spec => []NoneInTombstone
  BY Invariant, PTL DEF IInv, SyncInv

\* The bookmark in the cached file covers all that changed since it was written.
THEOREM FileIsCaughtUp == Spec => []FileCatchesUp
  BY Invariant, PTL DEF IInv, SyncInv
=============================================================================
