--------------------------- MODULE FeedPollingProofs ---------------------------
(***************************************************************************)
(* Feed polling, for any feeds, cadences, links and faults: no article is  *)
(* handed over twice, a feed is disabled for errors only after as many as  *)
(* it takes if no answer of the recording is lost, it is parked only when  *)
(* it is quiet and its last poll left nothing out, and no entry of a poll  *)
(* is taken for another article if no link once had another one's form.    *)
(***************************************************************************)
EXTENDS FeedPolling, FiniteSetTheorems, WellFoundedInduction, TLAPS

LEMMA Limits ==
  /\ JobOf \in [Feed -> Job] /\ Feed \subseteq Nat /\ IsFiniteSet(Feed)
  /\ Lists \in [Feed -> SUBSET Link]
  /\ Slots \in Nat \ {0} /\ Batch \in Nat \ {0} /\ MaxErrors \in Nat \ {0}
  /\ Dormancy \in Nat \ {0} /\ Recheck \in Nat \ {0} /\ MaxFaults \in Nat
  BY JobAssumption, ListsAssumption, LimitAssumption

\* A set of numbers has a least one.
LEMMA LeastNumber ==
  ASSUME NEW T \in SUBSET Nat, T # {}
  PROVE  \E n \in T : \A m \in T : n <= m
  <1>1. PICK n \in T : \A m \in T : ~(<<m, n>> \in OpToRel(<, Nat))
    BY NatLessThanWellFounded, WFMin
  <1>2. \A m \in T : ~(m < n)
    BY <1>1 DEF OpToRel
  <1> QED
    BY <1>2

-----------------------------------------------------------------------------
(* Reading a document *)

\* What has been made of the first entries of a document.
Reading(base, entries, Raising, acc, N) ==
  acc = [n \in 0 .. N |-> IF n = 0 THEN base ELSE ProcessEntry(acc[n - 1], entries[n], entries[n] \in Raising)]

\* There is such a function for a document of any length.
LEMMA ReadingExists ==
  ASSUME NEW base, NEW entries, NEW Raising, NEW N \in Nat
  PROVE  \E acc : Reading(base, entries, Raising, acc, N)
  <1> DEFINE T == {n \in Nat : ~\E acc : Reading(base, entries, Raising, acc, n)}
  <1>1. SUFFICES T = {}
    OBVIOUS
  <1>2. SUFFICES ASSUME T # {} PROVE FALSE
    OBVIOUS
  <1>3. PICK n \in T : \A m \in T : n <= m
    <2> T \in SUBSET Nat
      OBVIOUS
    <2> HIDE DEF T
    <2> QED
      BY <1>2, LeastNumber
  <1>4. n # 0
    <2> SUFFICES ASSUME n = 0 PROVE FALSE
      OBVIOUS
    <2> DEFINE g == [k \in 0 .. 0 |-> base]
    <2>1. g = [k \in 0 .. 0 |-> IF k = 0 THEN base ELSE ProcessEntry(g[k - 1], entries[k], entries[k] \in Raising)]
      OBVIOUS
    <2>2. Reading(base, entries, Raising, g, 0)
      BY <2>1 DEF Reading
    <2> QED
      BY <2>2, <1>3
  <1>5. n - 1 \in Nat /\ n - 1 \notin T /\ n \in Nat
    BY <1>3, <1>4
  <1>6. PICK g : Reading(base, entries, Raising, g, n - 1)
    BY <1>5
  <1> DEFINE h == [k \in 0 .. n |-> IF k = n THEN ProcessEntry(g[n - 1], entries[n], entries[n] \in Raising) ELSE g[k]]
  <1>7. ASSUME NEW k \in 0 .. n
        PROVE  h[k] = IF k = 0 THEN base ELSE ProcessEntry(h[k - 1], entries[k], entries[k] \in Raising)
    <2>1. CASE k = n
      <3>1. h[k] = ProcessEntry(g[n - 1], entries[n], entries[n] \in Raising) /\ k # 0
        BY <1>4, <2>1
      <3>2. n - 1 \in 0 .. n /\ n - 1 # n
        BY <1>5
      <3>3. h[n - 1] = g[n - 1]
        BY <3>2
      <3> HIDE DEF h
      <3> QED
        BY <2>1, <3>1, <3>3
    <2>2. CASE k # n
      <3>1. h[k] = g[k] /\ k \in 0 .. (n - 1)
        BY <1>5, <2>2
      <3>2. g[k] = IF k = 0 THEN base ELSE ProcessEntry(g[k - 1], entries[k], entries[k] \in Raising)
        BY <1>6, <3>1 DEF Reading
      <3>3. k # 0 => h[k - 1] = g[k - 1]
        BY <1>5, <2>2
      <3> HIDE DEF h
      <3> QED
        BY <3>1, <3>2, <3>3
    <2> QED
      BY <2>1, <2>2
  <1>8. Reading(base, entries, Raising, h, n)
    <2> DEFINE r == [k \in 0 .. n |-> IF k = 0 THEN base ELSE ProcessEntry(h[k - 1], entries[k], entries[k] \in Raising)]
    <2>1. h = [k \in 0 .. n |-> h[k]]
      OBVIOUS
    <2> HIDE DEF h
    <2>2. h = r
      BY <1>7, <2>1
    <2> QED
      BY <2>2 DEF Reading
  <1> QED
    BY <1>3, <1>8

LEMMA ReadingIs ==
  ASSUME NEW base, NEW entries, NEW Raising, Len(entries) \in Nat
  PROVE  \E acc : /\ Reading(base, entries, Raising, acc, Len(entries))
                  /\ ProcessEntries(base, entries, Raising) = acc[Len(entries)]
  <1> DEFINE acc == CHOOSE acc : Reading(base, entries, Raising, acc, Len(entries))
  <1>1. Reading(base, entries, Raising, acc, Len(entries))
    BY ReadingExists
  <1>2. ProcessEntries(base, entries, Raising) = acc[Len(entries)]
    BY DEF ProcessEntries, Reading
  <1> QED
    BY <1>1, <1>2

\* What a feed has read: entries known, rows, entries that raised an error, titles.
Hashes  == {TitleHash[u] : u \in Url}
Account == [seen : SUBSET Url, rows : SUBSET Url, failed : SUBSET Url, flagged : SUBSET Url,
            titles : SUBSET Hashes]

\* Nothing is known but what was, what has a row, what raised, and what is out of scope.
Sound(acc, known) == acc.seen \subseteq known \cup acc.rows \cup acc.failed \cup Foreign

\* An entry is known under one of its forms afterwards, and nothing is forgotten.
LEMMA EntryRead ==
  ASSUME NEW acc \in Account, NEW l \in Link, NEW raises \in BOOLEAN, NEW known, Sound(acc, known)
  PROVE  /\ ProcessEntry(acc, l, raises) \in Account
         /\ Sound(ProcessEntry(acc, l, raises), known)
         /\ acc.seen \subseteq ProcessEntry(acc, l, raises).seen
         /\ Candidates(l) \cap ProcessEntry(acc, l, raises).seen # {}
  <1> DEFINE u == Canonical(l)
             t == TitleHash[u]
             next == [seen    |-> acc.seen \cup {u},
                      rows    |-> acc.rows \cup {u},
                      failed  |-> acc.failed,
                      flagged |-> IF t # {} /\ \E p \in acc.titles : NearDuplicate(t, p)
                                  THEN acc.flagged \cup {u} ELSE acc.flagged,
                      titles  |-> acc.titles \cup ({t} \ {{}})]
  <1>1. u \in Url /\ u \in Candidates(l) /\ t \in Hashes
    BY DEF Url, Candidates, Hashes
  <1>2. CASE Candidates(l) \cap acc.seen # {}
    <2>1. ProcessEntry(acc, l, raises) = acc
      BY <1>2 DEF ProcessEntry
    <2> QED
      BY <1>2, <2>1
  <1>3. CASE Candidates(l) \cap acc.seen = {} /\ raises
    <2> DEFINE left == [acc EXCEPT !.seen = @ \cup {u}, !.failed = @ \cup {u}]
    <2>1. ProcessEntry(acc, l, raises) = left
      BY <1>3 DEF ProcessEntry
    <2> HIDE DEF u
    <2>2. left \in Account
      BY <1>1 DEF Account
    <2>3. /\ left.seen = acc.seen \cup {u} /\ left.rows = acc.rows
          /\ left.failed = acc.failed \cup {u}
      BY DEF Account
    <2> HIDE DEF left
    <2> QED
      BY <1>1, <2>1, <2>2, <2>3 DEF Sound
  <1>4. CASE Candidates(l) \cap acc.seen = {} /\ ~raises /\ ~InScope(u)
    <2>1. ProcessEntry(acc, l, raises) = [acc EXCEPT !.seen = @ \cup {u}]
      BY <1>4 DEF ProcessEntry
    <2>2. u \in Foreign
      BY <1>4 DEF InScope
    <2> HIDE DEF u
    <2>3. [acc EXCEPT !.seen = @ \cup {u}] \in Account
      BY <1>1 DEF Account
    <2>4. /\ [acc EXCEPT !.seen = @ \cup {u}].seen = acc.seen \cup {u}
          /\ [acc EXCEPT !.seen = @ \cup {u}].rows = acc.rows
          /\ [acc EXCEPT !.seen = @ \cup {u}].failed = acc.failed
      BY DEF Account
    <2> QED
      BY <1>1, <2>1, <2>2, <2>3, <2>4 DEF Sound
  <1>5. CASE Candidates(l) \cap acc.seen = {} /\ ~raises /\ InScope(u)
    <2>1. ProcessEntry(acc, l, raises) = next
      BY <1>5 DEF ProcessEntry
    <2> HIDE DEF u, t
    <2>2. next \in Account
      <3>1. acc.seen \subseteq Url /\ acc.rows \subseteq Url /\ acc.failed \subseteq Url
            /\ acc.flagged \subseteq Url /\ acc.titles \subseteq Hashes
        BY DEF Account
      <3>2. (acc.titles \cup ({t} \ {{}})) \subseteq Hashes
        BY <1>1, <3>1
      <3> QED
        BY <1>1, <3>1, <3>2 DEF Account
    <2>3. next.seen = acc.seen \cup {u} /\ next.rows = acc.rows \cup {u}
          /\ next.failed = acc.failed
      OBVIOUS
    <2> HIDE DEF next
    <2> QED
      BY <1>1, <2>1, <2>2, <2>3 DEF Sound
  <1> QED
    BY <1>2, <1>4, <1>5, <1>3

\* The same for all entries of a document.
LEMMA EntriesRead ==
  ASSUME NEW base \in Account, NEW known, NEW entries, NEW Raising,
         Sound(base, known), Len(entries) \in Nat,
         \A k \in 1 .. Len(entries) : entries[k] \in Link
  PROVE  /\ ProcessEntries(base, entries, Raising) \in Account
         /\ Sound(ProcessEntries(base, entries, Raising), known)
         /\ \A k \in 1 .. Len(entries) :
              Candidates(entries[k]) \cap ProcessEntries(base, entries, Raising).seen # {}
  <1>1. PICK acc : /\ Reading(base, entries, Raising, acc, Len(entries))
                   /\ ProcessEntries(base, entries, Raising) = acc[Len(entries)]
    BY ReadingIs
  <1>2. /\ acc[0] = base
        /\ \A n \in 1 .. Len(entries) : acc[n] = ProcessEntry(acc[n - 1], entries[n], entries[n] \in Raising)
    BY <1>1 DEF Reading
  <1> DEFINE Good(n) == /\ acc[n] \in Account /\ Sound(acc[n], known)
                        /\ \A k \in 1 .. n : Candidates(entries[k]) \cap acc[n].seen # {}
             T == {n \in 0 .. Len(entries) : ~Good(n)}
  <1>3. Good(0)
    BY <1>2
  <1>4. ASSUME NEW n \in 1 .. Len(entries), Good(n - 1) PROVE Good(n)
    <2> DEFINE b == acc[n - 1]
    <2>1. b \in Account /\ Sound(b, known)
          /\ acc[n] = ProcessEntry(b, entries[n], entries[n] \in Raising)
          /\ \A k \in 1 .. (n - 1) : Candidates(entries[k]) \cap b.seen # {}
      BY <1>2, <1>4
    <2> HIDE DEF b
    <2>2. /\ acc[n] \in Account /\ Sound(acc[n], known) /\ b.seen \subseteq acc[n].seen
          /\ Candidates(entries[n]) \cap acc[n].seen # {}
      <3>1. (entries[n] \in Raising) \in BOOLEAN
        OBVIOUS
      <3> QED
        BY <2>1, <3>1, EntryRead
    <2>3. \A k \in 1 .. n : Candidates(entries[k]) \cap acc[n].seen # {}
      <3> TAKE k \in 1 .. n
      <3>1. CASE k = n
        BY <2>2, <3>1
      <3>2. CASE k # n
        <4>1. k \in 1 .. (n - 1)
          BY <3>2
        <4> QED
          BY <2>1, <2>2, <4>1
      <3> QED
        BY <3>1, <3>2
    <2> QED
      BY <2>2, <2>3
  <1> HIDE DEF Good
  <1>5. T = {}
    <2> SUFFICES ASSUME T # {} PROVE FALSE
      OBVIOUS
    <2>1. T \in SUBSET Nat
      OBVIOUS
    <2> HIDE DEF T
    <2>2. PICK n \in T : \A m \in T : n <= m
      BY <2>1, LeastNumber
    <2>3. n \in 0 .. Len(entries) /\ ~Good(n)
      BY <2>2 DEF T
    <2>4. n \in 1 .. Len(entries)
      BY <1>3, <2>3
    <2>5. n - 1 \notin T /\ n - 1 \in 0 .. Len(entries)
      BY <2>1, <2>2, <2>4
    <2> QED
      BY <1>4, <2>3, <2>4, <2>5 DEF T
  <1>6. Good(Len(entries))
    BY <1>5
  <1> QED
    BY <1>1, <1>6 DEF Good

\* The entries of a document in some order are all of its entries.
LEMMA AllEntries ==
  ASSUME NEW S, IsFiniteSet(S), NEW entries \in SetToSeqs(S)
  PROVE  /\ Len(entries) = Cardinality(S) /\ Len(entries) \in Nat
         /\ \A k \in 1 .. Len(entries) : entries[k] \in S
         /\ \A l \in S : \E k \in 1 .. Len(entries) : entries[k] = l
  <1> DEFINE N == Cardinality(S)
             D == 1 .. N
  <1>1. N \in Nat
    BY FS_CardinalityType
  <1>2. entries \in [D -> S] /\ \A i, j \in D : i # j => entries[i] # entries[j]
    BY DEF SetToSeqs
  <1> HIDE DEF N
  <1>3. Len(entries) = N
    BY <1>1, <1>2
  <1>4. IsFiniteSet(D) /\ Cardinality(D) = N
    BY <1>1, FS_Interval
  <1> HIDE DEF D
  <1>5. entries \in Injection(D, S)
    BY <1>2 DEF Injection, IsInjective
  <1>6. entries \in Surjection(D, S)
    BY <1>4, <1>5, FS_Injection DEF N
  <1>7. \A l \in S : \E k \in D : entries[k] = l
    BY <1>6 DEF Surjection
  <1> QED
    BY <1>1, <1>2, <1>3, <1>7 DEF D, N

-----------------------------------------------------------------------------
(* Types *)

RowRecord  == [state : {"active", "dormant", "errors"}, fails : Nat,
               polled : 0 .. Recheck, fresh : 0 .. Dormancy]
RunRecord  == [on : BOOLEAN, late : BOOLEAN, waiting : SUBSET Feed,
               titles : SUBSET Hashes, items : SUBSET Outcome]
TaskRecord == [at : Stage, recheck : BOOLEAN, rows : SUBSET Url, failed : SUBSET Url,
               flagged : SUBSET Url, new : SUBSET Url, clean : BOOLEAN]

PollTyped ==
  /\ listed \in [Feed -> SUBSET Link] /\ \A f \in Feed : IsFiniteSet(listed[f])
  /\ stored \in [Url -> {"no", "original", "flagged"}]
  /\ handed \subseteq Url
  /\ row \in [Feed -> RowRecord]
  /\ rank \in [Feed -> Nat]
  /\ job \in [Job -> RunRecord]
  /\ task \in [Feed -> TaskRecord]
  /\ streak \in [Feed -> Nat]
  /\ faults \in 0 .. MaxFaults

\* The feeds a run has not begun are those of its tasks that are queued.
Matched ==
  /\ \A f \in Feed : task[f].at = "queued" <=> f \in job[JobOf[f]].waiting
  /\ \A j \in Job : job[j].waiting \subseteq Feeds(j) /\ (~job[j].on => job[j].waiting = {})

LEMMA TypedIsOK == PollTyped /\ Matched => TypeOK
  BY DEF PollTyped, Matched, TypeOK, RowRecord, RunRecord, TaskRecord, Hashes

LEMMA FailsCounts ==
  ASSUME PollTyped, NEW k, Fails(k) \/ Works
  PROVE  faults' \in 0 .. MaxFaults
  BY Limits DEF PollTyped, Fails, Works

LEMMA NothingYet == NoRun \in RunRecord /\ NoTask \in TaskRecord
  BY DEF NoRun, NoTask, RunRecord, TaskRecord, Stage

LEMMA ImageFinite ==
  ASSUME NEW F, IsFiniteSet(F), NEW fn
  PROVE  IsFiniteSet({fn[g] : g \in F})
  <1> DEFINE h == [g \in F |-> fn[g]]
             S == {fn[g] : g \in F}
  <1>1. h \in Surjection(F, S)
    BY DEF Surjection
  <1> HIDE DEF S, h
  <1>2. IsFiniteSet(S)
    BY <1>1, FS_Surjection
  <1> QED
    BY <1>2 DEF S

LEMMA RowAfterIs ==
  ASSUME NEW r \in RowRecord, NEW i \in Outcome
  PROVE  RowAfter(r, i) \in RowRecord
  BY Limits DEF RowAfter, RowRecord, Outcome

LEMMA RowAloneIs ==
  ASSUME NEW r \in RowRecord, NEW i \in Outcome,
         NEW updated \in BOOLEAN, NEW uncounted \in BOOLEAN, NEW marked \in BOOLEAN
  PROVE  RowAlone(r, i, updated, uncounted, marked) \in RowRecord
  <1> DEFINE read == IF uncounted THEN [r EXCEPT !.fails = 0] ELSE r
             item == [i EXCEPT !.park = FALSE]
             new  == IF updated THEN RowAfter(read, item) ELSE r
  <1>1. read \in RowRecord /\ item \in Outcome
    BY DEF RowRecord, Outcome
  <1> HIDE DEF read, item
  <1>2. new \in RowRecord
    BY <1>1, RowAfterIs
  <1> HIDE DEF new
  <1>3. RowAlone(r, i, updated, uncounted, marked) = IF marked THEN [new EXCEPT !.state = "dormant"] ELSE new
    BY DEF RowAlone, read, item, new
  <1> QED
    BY <1>2, <1>3 DEF RowRecord

LEMMA OfIs ==
  ASSUME NEW I, NEW f, \E i \in I : i.feed = f
  PROVE  Of(f, I) \in I /\ Of(f, I).feed = f
  BY DEF Of

LEMMA BatchedIs ==
  ASSUME PollTyped, NEW I \in SUBSET Outcome, NEW twice \in BOOLEAN
  PROVE  Batched(I, twice) \in [Feed -> RowRecord]
  <1> SUFFICES ASSUME NEW f \in Feed PROVE Batched(I, twice)[f] \in RowRecord
    BY DEF Batched
  <1>1. row[f] \in RowRecord
    BY DEF PollTyped
  <1>2. CASE \A i \in I : i.feed # f
    BY <1>1, <1>2 DEF Batched
  <1>3. CASE \E i \in I : i.feed = f
    <2> DEFINE i == Of(f, I)
    <2>1. i \in Outcome
      BY <1>3, OfIs
    <2>2. Batched(I, twice)[f] = IF twice THEN RowAfter(RowAfter(row[f], i), i) ELSE RowAfter(row[f], i)
      BY <1>3 DEF Batched
    <2> HIDE DEF i
    <2>3. RowAfter(row[f], i) \in RowRecord
      BY <1>1, <2>1, RowAfterIs
    <2>4. RowAfter(RowAfter(row[f], i), i) \in RowRecord
      BY <2>1, <2>3, RowAfterIs
    <2> QED
      BY <2>2, <2>3, <2>4
  <1> QED
    BY <1>2, <1>3

LEMMA OneByOneIs ==
  ASSUME PollTyped, NEW I \in SUBSET Outcome, NEW Updated, NEW Uncounted, NEW Marked
  PROVE  OneByOne(I, Updated, Uncounted, Marked) \in [Feed -> RowRecord]
  <1> SUFFICES ASSUME NEW f \in Feed
               PROVE  OneByOne(I, Updated, Uncounted, Marked)[f] \in RowRecord
    BY DEF OneByOne
  <1>1. row[f] \in RowRecord
    BY DEF PollTyped
  <1>2. CASE \A i \in I : i.feed # f
    BY <1>1, <1>2 DEF OneByOne
  <1>3. CASE \E i \in I : i.feed = f
    <2> DEFINE i == Of(f, I)
    <2>1. i \in Outcome
      BY <1>3, OfIs
    <2>2. OneByOne(I, Updated, Uncounted, Marked)[f]
            = RowAlone(row[f], i, i \in Updated, i \in Uncounted, i \in Marked)
      BY <1>3 DEF OneByOne
    <2> HIDE DEF i
    <2>3. \A u, v, w \in BOOLEAN : RowAlone(row[f], i, u, v, w) \in RowRecord
      BY <1>1, <2>1, RowAloneIs
    <2>4. (i \in Updated) \in BOOLEAN /\ (i \in Uncounted) \in BOOLEAN /\ (i \in Marked) \in BOOLEAN
      OBVIOUS
    <2> QED
      BY <2>2, <2>3, <2>4, Zenon
  <1> QED
    BY <1>2, <1>3

LEMMA WrittenIs ==
  ASSUME PollTyped, NEW rows \in [Feed -> RowRecord], NEW Updated, Written(rows, Updated)
  PROVE  row' \in [Feed -> RowRecord] /\ streak' \in [Feed -> Nat] /\ rank' \in [Feed -> Nat]
  <1> DEFINE Done == {i.feed : i \in Updated}
             late == [f \in Feed |-> IF f \in Done THEN Cardinality(Feed) ELSE rank[f]]
             Before(f) == {h \in Feed : late[h] < late[f]}
             Ranks(f) == {late[g] : g \in Before(f)}
  <1>1. row' = rows
    BY DEF Written
  <1>2. streak' \in [Feed -> Nat]
    <2>1. streak' = [f \in Feed |-> IF f \notin Done THEN streak[f]
                                    ELSE IF Of(f, Updated).ok THEN 0 ELSE streak[f] + 1]
      BY DEF Written
    <2>2. streak \in [Feed -> Nat]
      BY DEF PollTyped
    <2> HIDE DEF Done
    <2> QED
      BY <2>1, <2>2
  <1>3. rank' = [f \in Feed |-> Cardinality(Ranks(f))]
    BY DEF Written
  <1>4. ASSUME NEW f \in Feed PROVE Cardinality(Ranks(f)) \in Nat
    <2>1. IsFiniteSet(Before(f))
      BY Limits, FS_Subset
    <2> HIDE DEF late, Before
    <2>2. IsFiniteSet(Ranks(f))
      BY <2>1, ImageFinite
    <2> HIDE DEF Ranks
    <2> QED
      BY <2>2, FS_CardinalityType
  <1> HIDE DEF Ranks
  <1> QED
    BY <1>1, <1>2, <1>3, <1>4

-----------------------------------------------------------------------------
(* Every step keeps the types *)

LEMMA FirstIs ==
  ASSUME PollTyped, NEW W \in SUBSET Feed, W # {}
  PROVE  First(W) \in W
  <1> DEFINE Active == {f \in W : ~task[f].recheck}
             W1     == IF Active # {} THEN Active ELSE W
             W2     == {f \in W1 : \A g \in W1 : rank[f] <= rank[g]}
             R      == {rank[f] : f \in W1}
  <1>1. W1 \subseteq W /\ W1 # {}
    OBVIOUS
  <1> HIDE DEF W1
  <1>2. \A f \in W1 : rank[f] \in Nat
    BY <1>1 DEF PollTyped
  <1>3. W2 # {}
    <2>1. R \in SUBSET Nat /\ R # {}
      BY <1>1, <1>2
    <2>2. \A f \in W1 : rank[f] \in R
      OBVIOUS
    <2>3. \A r \in R : \E f \in W1 : r = rank[f]
      OBVIOUS
    <2> HIDE DEF R
    <2>4. PICK r \in R : \A q \in R : r <= q
      BY <2>1, LeastNumber
    <2>5. PICK f \in W1 : r = rank[f]
      BY <2>3
    <2>6. \A g \in W1 : rank[f] <= rank[g]
      BY <2>2, <2>4, <2>5
    <2> QED
      BY <2>6
  <1>4. W2 \in SUBSET Nat /\ W2 \subseteq W
    BY <1>1, Limits
  <1>5. First(W) = CHOOSE f \in W2 : \A g \in W2 : f <= g
    BY DEF First, W1
  <1> HIDE DEF W2
  <1>6. \E f \in W2 : \A g \in W2 : f <= g
    BY <1>3, <1>4, LeastNumber
  <1> QED
    BY <1>4, <1>5, <1>6

LEMMA PublishTyped ==
  ASSUME PollTyped, Matched, NEW f \in Feed, NEW l \in Link, Publish(f, l)
  PROVE  PollTyped' /\ Matched'
  <1>1. listed' = [listed EXCEPT ![f] = @ \cup {l}]
        /\ UNCHANGED <<stored, handed, row, rank, job, task, streak, faults>>
    BY DEF Publish
  <1>2. listed' \in [Feed -> SUBSET Link]
    BY <1>1 DEF PollTyped
  <1>3. \A g \in Feed : IsFiniteSet(listed'[g])
    <2> SUFFICES ASSUME NEW g \in Feed PROVE IsFiniteSet(listed'[g])
      OBVIOUS
    <2>1. IsFiniteSet(listed[g])
      BY DEF PollTyped
    <2>2. IsFiniteSet(listed[g] \cup {l})
      BY <2>1, FS_AddElement
    <2>3. listed'[g] = listed[g] \/ listed'[g] = listed[g] \cup {l}
      BY <1>1 DEF PollTyped
    <2> QED
      BY <2>1, <2>2, <2>3
  <1> QED
    BY <1>1, <1>2, <1>3 DEF PollTyped, Matched, Feeds

\* A step that leaves the runs and the rank alone keeps the types if its rows do.
LEMMA TickTyped ==
  ASSUME PollTyped, Matched, Tick
  PROVE  PollTyped' /\ Matched'
  <1>1. row' = [f \in Feed |-> [row[f] EXCEPT !.polled = Least(@ + 1, Recheck),
                                              !.fresh = Least(@ + 1, Dormancy)]]
        /\ UNCHANGED <<listed, stored, handed, rank, job, task, streak, faults>>
    BY DEF Tick
  <1>2. ASSUME NEW f \in Feed PROVE row'[f] \in RowRecord
    <2>1. row[f] \in RowRecord
      BY DEF PollTyped
    <2>2. Least(row[f].polled + 1, Recheck) \in 0 .. Recheck
          /\ Least(row[f].fresh + 1, Dormancy) \in 0 .. Dormancy
      BY <2>1, Limits DEF RowRecord, Least
    <2>3. row'[f] = [row[f] EXCEPT !.polled = Least(row[f].polled + 1, Recheck),
                                   !.fresh = Least(row[f].fresh + 1, Dormancy)]
      BY <1>1, <2>1 DEF RowRecord
    <2> QED
      BY <2>1, <2>2, <2>3 DEF RowRecord
  <1>3. row' \in [Feed -> RowRecord]
    BY <1>1, <1>2
  <1> QED
    BY <1>1, <1>3 DEF PollTyped, Matched, Feeds

LEMMA ResetTyped ==
  ASSUME PollTyped, Matched, NEW f \in Feed, Reset(f)
  PROVE  PollTyped' /\ Matched'
  <1>1. /\ row' = [row EXCEPT ![f].state = "active", ![f].fails = 0]
        /\ streak' = [streak EXCEPT ![f] = 0]
        /\ UNCHANGED <<listed, stored, handed, rank, job, task, faults>>
    BY DEF Reset
  <1>2. row' \in [Feed -> RowRecord] /\ streak' \in [Feed -> Nat]
    BY <1>1 DEF PollTyped, RowRecord
  <1> QED
    BY <1>1, <1>2 DEF PollTyped, Matched, Feeds

LEMMA StartTyped ==
  ASSUME PollTyped, Matched, NEW j \in Job, Start(j)
  PROVE  PollTyped' /\ Matched'
  <1>1. PICK rechecks \in {{f \in Feeds(j) : RecheckDue(f)}, {}}, titles \in {RecentHashes, {}} :
          /\ job' = [job EXCEPT ![j] = [NoRun EXCEPT !.on = TRUE, !.waiting = DueFeeds(j, rechecks),
                                                     !.titles = titles]]
          /\ task' = [f \in Feed |->
                        IF f \in DueFeeds(j, rechecks)
                        THEN [NoTask EXCEPT !.at = "queued", !.recheck = f \in rechecks]
                        ELSE task[f]]
          /\ \E k : Fails(k) \/ Works
    BY DEF Start
  <1>2. ~job[j].on /\ UNCHANGED <<listed, stored, handed, row, rank, streak>>
    BY DEF Start
  <1> DEFINE due == DueFeeds(j, rechecks)
             run == [NoRun EXCEPT !.on = TRUE, !.waiting = due, !.titles = titles]
  <1>3. due \subseteq Feeds(j) /\ due \subseteq Feed
    BY DEF DueFeeds, Feeds
  <1>4. titles \subseteq Hashes
    BY DEF RecentHashes, Stored, Hashes
  <1> HIDE DEF due
  <1>5. run \in RunRecord /\ run.waiting = due /\ run.on
    BY <1>3, <1>4, NothingYet DEF RunRecord, NoRun
  <1>6. job' = [job EXCEPT ![j] = run]
    BY <1>1 DEF due
  <1> HIDE DEF run
  <1>7. \A f \in Feed : task'[f] = IF f \in due
                                   THEN [NoTask EXCEPT !.at = "queued", !.recheck = f \in rechecks]
                                   ELSE task[f]
    BY <1>1 DEF due
  <1>8. task' \in [Feed -> TaskRecord]
    <2>1. ASSUME NEW f \in Feed PROVE task'[f] \in TaskRecord
      <3>1. \A b \in BOOLEAN : [NoTask EXCEPT !.at = "queued", !.recheck = b] \in TaskRecord
        BY NothingYet DEF TaskRecord, Stage
      <3>2. (f \in rechecks) \in BOOLEAN
        OBVIOUS
      <3>3. [NoTask EXCEPT !.at = "queued", !.recheck = f \in rechecks] \in TaskRecord
        BY <3>1, <3>2, Zenon
      <3>4. task[f] \in TaskRecord
        BY DEF PollTyped
      <3> QED
        BY <1>7, <3>3, <3>4
    <2> QED
      BY <1>1, <2>1
  <1>9. job' \in [Job -> RunRecord]
    BY <1>5, <1>6 DEF PollTyped
  <1>10. faults' \in 0 .. MaxFaults
    BY <1>1, FailsCounts
  <1>11. PollTyped'
    BY <1>2, <1>8, <1>9, <1>10 DEF PollTyped
  <1>12. \A i \in Job : job'[i] = IF i = j THEN run ELSE job[i]
    BY <1>6 DEF PollTyped
  <1>13. ASSUME NEW f \in Feed PROVE task'[f].at = "queued" <=> f \in job'[JobOf[f]].waiting
    <2>1. JobOf[f] \in Job
      BY Limits
    <2>2. CASE f \in due
      <3>1. JobOf[f] = j /\ task'[f].at = "queued"
        BY <1>3, <1>7, <2>2 DEF Feeds, NoTask
      <3> QED
        BY <1>5, <1>12, <2>2, <3>1
    <2>3. CASE f \notin due
      <3>1. task'[f] = task[f] /\ (JobOf[f] = j => f \notin job'[JobOf[f]].waiting)
        BY <1>5, <1>7, <1>12, <2>3
      <3>2. JobOf[f] = j => f \notin job[JobOf[f]].waiting
        BY <1>2 DEF Matched
      <3> QED
        BY <1>12, <2>1, <3>1, <3>2 DEF Matched
    <2> QED
      BY <2>2, <2>3
  <1>14. Matched'
    <2>1. ASSUME NEW i \in Job
          PROVE  job'[i].waiting \subseteq Feeds(i) /\ (~job'[i].on => job'[i].waiting = {})
      BY <1>3, <1>5, <1>12 DEF Matched
    <2> QED
      BY <1>13, <2>1 DEF Matched, Feeds
  <1> QED
    BY <1>11, <1>14

LEMMA BeginTyped ==
  ASSUME PollTyped, Matched, NEW j \in Job, Begin(j)
  PROVE  PollTyped' /\ Matched'
  <1> DEFINE f == First(job[j].waiting)
  <1>1. /\ job[j].waiting # {}
        /\ task' = [task EXCEPT ![f].at = "polling"]
        /\ job' = [job EXCEPT ![j].waiting = @ \ {f}]
        /\ UNCHANGED <<listed, stored, handed, row, rank, streak, faults>>
    BY DEF Begin
  <1>2. job[j].waiting \in SUBSET Feed
    BY DEF PollTyped, RunRecord
  <1>3. f \in job[j].waiting
    BY <1>1, <1>2, FirstIs
  <1> HIDE DEF f
  <1>4. f \in Feed /\ JobOf[f] = j
    BY <1>2, <1>3 DEF Matched, Feeds
  <1>5. task' \in [Feed -> TaskRecord]
    BY <1>1, <1>4 DEF PollTyped, TaskRecord, Stage
  <1>6. job' \in [Job -> RunRecord]
    BY <1>1 DEF PollTyped, RunRecord
  <1>7. PollTyped'
    BY <1>1, <1>5, <1>6 DEF PollTyped
  <1>8. \A i \in Job : job'[i].on = job[i].on
                       /\ job'[i].waiting = IF i = j THEN job[i].waiting \ {f} ELSE job[i].waiting
    BY <1>1 DEF PollTyped, RunRecord
  <1>9. \A g \in Feed : task'[g].at = IF g = f THEN "polling" ELSE task[g].at
    BY <1>1 DEF PollTyped, TaskRecord
  <1>10. \A g \in Feed : task'[g].at = "queued" <=> g \in job'[JobOf[g]].waiting
    <2> SUFFICES ASSUME NEW g \in Feed
                 PROVE  task'[g].at = "queued" <=> g \in job'[JobOf[g]].waiting
      OBVIOUS
    <2>1. JobOf[g] \in Job
      BY Limits
    <2>2. job'[JobOf[g]].waiting = IF JobOf[g] = j THEN job[JobOf[g]].waiting \ {f}
                                                   ELSE job[JobOf[g]].waiting
      BY <1>8, <2>1
    <2>3. task[g].at = "queued" <=> g \in job[JobOf[g]].waiting
      BY DEF Matched
    <2> QED
      BY <1>4, <1>9, <2>2, <2>3
  <1> QED
    BY <1>7, <1>8, <1>10 DEF Matched, Feeds

\* A step that queues nothing, and takes nothing from a queue.
LEMMA MatchedStays ==
  ASSUME Matched, \A g \in Feed : task'[g].at = "queued" <=> task[g].at = "queued",
         \A i \in Job : job'[i].waiting = job[i].waiting /\ job'[i].on = job[i].on
  PROVE  Matched'
  BY Limits DEF Matched, Feeds

LEMMA DeadlineTyped ==
  ASSUME PollTyped, Matched, NEW j \in Job, Deadline(j)
  PROVE  PollTyped' /\ Matched'
  <1>1. /\ job' = [job EXCEPT ![j].late = TRUE, ![j].waiting = {}]
        /\ task' = [f \in Feed |-> IF f \in job[j].waiting THEN NoTask ELSE task[f]]
        /\ UNCHANGED <<listed, stored, handed, row, rank, streak, faults>>
    BY DEF Deadline, Deferred
  <1>2. job' \in [Job -> RunRecord] /\ task' \in [Feed -> TaskRecord]
    BY <1>1, NothingYet DEF PollTyped, RunRecord
  <1>3. PollTyped'
    BY <1>1, <1>2 DEF PollTyped
  <1>4. \A i \in Job : job'[i].on = job[i].on
                       /\ job'[i].waiting = IF i = j THEN {} ELSE job[i].waiting
    BY <1>1 DEF PollTyped, RunRecord
  <1>5. ASSUME NEW g \in Feed PROVE task'[g].at = "queued" <=> g \in job'[JobOf[g]].waiting
    <2>1. JobOf[g] \in Job
      BY Limits
    <2>2. job'[JobOf[g]].waiting = IF JobOf[g] = j THEN {} ELSE job[JobOf[g]].waiting
      BY <1>4, <2>1
    <2>3. task[g].at = "queued" <=> g \in job[JobOf[g]].waiting
      BY DEF Matched
    <2>4. g \in job[j].waiting => JobOf[g] = j
      BY DEF Matched, Feeds
    <2>5. task'[g].at = IF g \in job[j].waiting THEN "none" ELSE task[g].at
      BY <1>1 DEF NoTask
    <2> QED
      BY <2>2, <2>3, <2>4, <2>5
  <1>6. \A i \in Job : job'[i].waiting \subseteq Feeds(i) /\ (~job'[i].on => job'[i].waiting = {})
    BY <1>4 DEF Matched
  <1> QED
    BY <1>3, <1>5, <1>6 DEF Matched, Feeds

LEMMA HardStopTyped ==
  ASSUME PollTyped, Matched, NEW j \in Job, HardStop(j)
  PROVE  PollTyped' /\ Matched'
  <1>1. /\ task' = [f \in Feed |-> IF f \in InFlight(j) THEN NoTask ELSE task[f]]
        /\ UNCHANGED <<listed, stored, handed, row, rank, job, streak>>
        /\ Fails("hardStop")
    BY DEF HardStop
  <1>2. task' \in [Feed -> TaskRecord]
    BY <1>1, NothingYet DEF PollTyped
  <1>3. faults' \in 0 .. MaxFaults
    BY <1>1, FailsCounts
  <1>4. PollTyped'
    BY <1>1, <1>2, <1>3 DEF PollTyped
  <1>5. \A g \in Feed : task'[g].at = "queued" <=> task[g].at = "queued"
    BY <1>1 DEF InFlight, NoTask
  <1> QED
    BY <1>1, <1>4, <1>5, MatchedStays

\* What a flush may write.
LEMMA FlushIs ==
  ASSUME PollTyped, NEW j \in Job, Flush(j)
  PROVE  /\ job' = [job EXCEPT ![j].items = {}]
         /\ UNCHANGED <<listed, stored, handed, task>>
         /\ faults' \in 0 .. MaxFaults
         /\ \E rows \in [Feed -> RowRecord], Updated \in SUBSET job[j].items :
              /\ Written(rows, Updated)
              /\ \/ rows = Batched(job[j].items, FALSE) /\ Updated = job[j].items
                 \/ /\ "recordReply" \in FaultKinds
                    /\ rows = Batched(job[j].items, TRUE) /\ Updated = job[j].items
                 \/ \E Uncounted, Marked \in SUBSET job[j].items :
                      /\ \A i \in Marked : i.park
                      /\ rows = OneByOne(job[j].items, Updated, Uncounted, Marked)
  <1> DEFINE I == job[j].items
  <1>1. I \in SUBSET Outcome
    BY DEF PollTyped, RunRecord
  <1>2. job' = [job EXCEPT ![j].items = {}] /\ UNCHANGED <<listed, stored, handed, task>>
    BY DEF Flush
  <1>3. (\E k : Fails(k)) \/ Works
    BY DEF Flush
  <1>4. faults' \in 0 .. MaxFaults
    BY <1>3, FailsCounts
  <1> HIDE DEF I
  <1>5. CASE Works /\ Written(Batched(I, FALSE), I)
    <2>1. Batched(I, FALSE) \in [Feed -> RowRecord]
      BY <1>1, BatchedIs
    <2> QED
      BY <1>2, <1>4, <1>5, <2>1 DEF I
  <1>6. CASE Fails("recordReply") /\ Written(Batched(I, TRUE), I)
    <2>1. Batched(I, TRUE) \in [Feed -> RowRecord]
      BY <1>1, BatchedIs
    <2> QED
      BY <1>2, <1>4, <1>6, <2>1 DEF I, Fails
  <1>7. CASE /\ Fails("record")
             /\ \E Updated \in SUBSET I, Marked \in SUBSET {i \in I : i.park} :
                  \E Uncounted \in SUBSET {i \in Updated : ~i.ok} :
                    Written(OneByOne(I, Updated, Uncounted, Marked), Updated)
    <2>1. PICK Updated \in SUBSET I, Marked \in SUBSET {i \in I : i.park} :
                 \E Uncounted \in SUBSET {i \in Updated : ~i.ok} :
                   Written(OneByOne(I, Updated, Uncounted, Marked), Updated)
      BY <1>7
    <2>2. PICK Uncounted \in SUBSET {i \in Updated : ~i.ok} :
                 Written(OneByOne(I, Updated, Uncounted, Marked), Updated)
      BY <2>1
    <2>3. OneByOne(I, Updated, Uncounted, Marked) \in [Feed -> RowRecord]
      BY <1>1, OneByOneIs
    <2>4. Uncounted \in SUBSET I /\ Marked \in SUBSET I /\ \A i \in Marked : i.park
      OBVIOUS
    <2> QED
      BY <1>2, <1>4, <2>2, <2>3, <2>4 DEF I
  <1> QED
    BY <1>5, <1>6, <1>7 DEF Flush, I

LEMMA FlushTyped ==
  ASSUME PollTyped, Matched, NEW j \in Job, Flush(j)
  PROVE  PollTyped' /\ Matched'
  <1>1. /\ job' = [job EXCEPT ![j].items = {}]
        /\ UNCHANGED <<listed, stored, handed, task>>
        /\ faults' \in 0 .. MaxFaults
        /\ \E rows \in [Feed -> RowRecord], Updated \in SUBSET job[j].items : Written(rows, Updated)
    BY FlushIs
  <1>2. row' \in [Feed -> RowRecord] /\ streak' \in [Feed -> Nat] /\ rank' \in [Feed -> Nat]
    BY <1>1, WrittenIs
  <1>3. job' \in [Job -> RunRecord]
    BY <1>1 DEF PollTyped, RunRecord
  <1>4. PollTyped'
    BY <1>1, <1>2, <1>3 DEF PollTyped
  <1>5. \A i \in Job : job'[i].waiting = job[i].waiting /\ job'[i].on = job[i].on
    BY <1>1 DEF PollTyped, RunRecord
  <1> QED
    BY <1>1, <1>4, <1>5, MatchedStays

\* A run ends, of itself or not.
LEMMA LeaveIs ==
  ASSUME PollTyped, NEW j \in Job, EndRun(j) \/ Kill(j)
  PROVE  /\ job' = [job EXCEPT ![j] = NoRun]
         /\ task' = [f \in Feed |-> IF JobOf[f] = j THEN NoTask ELSE task[f]]
         /\ UNCHANGED <<listed, stored, handed, row, rank, streak>>
         /\ faults' \in 0 .. MaxFaults
  <1>1. Fails("kill") \/ faults' = faults
    BY DEF EndRun, Kill
  <1>2. faults' \in 0 .. MaxFaults
    BY <1>1, FailsCounts DEF Works
  <1> QED
    BY <1>2 DEF EndRun, Kill

LEMMA LeaveTyped ==
  ASSUME PollTyped, Matched, NEW j \in Job, EndRun(j) \/ Kill(j)
  PROVE  PollTyped' /\ Matched'
  <1>1. /\ job' = [job EXCEPT ![j] = NoRun]
        /\ task' = [f \in Feed |-> IF JobOf[f] = j THEN NoTask ELSE task[f]]
        /\ UNCHANGED <<listed, stored, handed, row, rank, streak>>
        /\ faults' \in 0 .. MaxFaults
    BY LeaveIs
  <1>2. job' \in [Job -> RunRecord] /\ task' \in [Feed -> TaskRecord]
    BY <1>1, NothingYet DEF PollTyped
  <1>3. PollTyped'
    BY <1>1, <1>2 DEF PollTyped
  <1>4. \A i \in Job : job'[i] = IF i = j THEN NoRun ELSE job[i]
    BY <1>1 DEF PollTyped
  <1>5. ASSUME NEW g \in Feed PROVE task'[g].at = "queued" <=> g \in job'[JobOf[g]].waiting
    <2>1. JobOf[g] \in Job
      BY Limits
    <2>2. job'[JobOf[g]].waiting = IF JobOf[g] = j THEN {} ELSE job[JobOf[g]].waiting
      BY <1>4, <2>1 DEF NoRun
    <2>3. task[g].at = "queued" <=> g \in job[JobOf[g]].waiting
      BY DEF Matched
    <2>4. task'[g].at = IF JobOf[g] = j THEN "none" ELSE task[g].at
      BY <1>1 DEF NoTask
    <2> QED
      BY <2>2, <2>3, <2>4
  <1>6. \A i \in Job : job'[i].waiting \subseteq Feeds(i) /\ (~job'[i].on => job'[i].waiting = {})
    BY <1>4 DEF Matched, NoRun
  <1> QED
    BY <1>3, <1>5, <1>6 DEF Matched, Feeds

\* The outcome of a poll is noted.
LEMMA ResultTyped ==
  ASSUME PollTyped, NEW f \in Feed, NEW i \in Outcome, Result(f, i)
  PROVE  /\ job' \in [Job -> RunRecord]
         /\ \A j \in Job : /\ job'[j].waiting = job[j].waiting /\ job'[j].on = job[j].on
                           /\ job'[j].items = IF j = JobOf[f] THEN job[j].items \cup {i}
                                                              ELSE job[j].items
  <1>1. job' = [job EXCEPT ![JobOf[f]].items = @ \cup {i}] /\ JobOf[f] \in Job
    BY Limits DEF Result
  <1> QED
    BY <1>1 DEF PollTyped, RunRecord

LEMMA FetchFailsTyped ==
  ASSUME PollTyped, Matched, NEW f \in Feed, FetchFails(f)
  PROVE  PollTyped' /\ Matched'
  <1> DEFINE i == [feed |-> f, ok |-> FALSE, new |-> FALSE, wake |-> FALSE, park |-> FALSE]
  <1>1. /\ task[f].at = "polling" /\ Fails("fetch") /\ Result(f, i)
        /\ task' = [task EXCEPT ![f] = [NoTask EXCEPT !.at = "done"]]
        /\ UNCHANGED <<listed, stored, handed, row, rank, streak>>
    BY DEF FetchFails
  <1>2. i \in Outcome
    BY DEF Outcome
  <1> HIDE DEF i
  <1>3. /\ job' \in [Job -> RunRecord]
        /\ \A j \in Job : job'[j].waiting = job[j].waiting /\ job'[j].on = job[j].on
    BY <1>1, <1>2, ResultTyped
  <1>4. [NoTask EXCEPT !.at = "done"] \in TaskRecord /\ [NoTask EXCEPT !.at = "done"].at = "done"
    BY NothingYet DEF TaskRecord, Stage
  <1>5. faults' \in 0 .. MaxFaults
    BY <1>1, FailsCounts
  <1>6. PollTyped'
    BY <1>1, <1>3, <1>4, <1>5 DEF PollTyped
  <1>7. \A g \in Feed : task'[g].at = "queued" <=> task[g].at = "queued"
    BY <1>1, <1>4 DEF PollTyped
  <1> QED
    BY <1>3, <1>6, <1>7, MatchedStays

\* What a read makes of the entries listed.
LEMMA ReadIs ==
  ASSUME PollTyped, NEW f \in Feed, Read(f)
  PROVE  \E end \in Account :
           /\ Sound(end, Stored)
           /\ \A l \in listed[f] : Candidates(l) \cap end.seen # {}
           /\ task[f].at = "polling"
           /\ task' = [task EXCEPT ![f].rows = end.rows, ![f].failed = end.failed,
                         ![f].flagged = end.flagged,
                         ![f].at = IF end.rows = {} THEN "inserted" ELSE "inserting"]
           /\ job' = [job EXCEPT ![JobOf[f]].titles = end.titles]
           /\ faults' \in 0 .. MaxFaults
           /\ UNCHANGED <<listed, stored, handed, row, rank, streak>>
  <1> DEFINE Reads(known, entries, Raising) ==
               /\ \/ Works /\ known = Stored /\ Raising = {}
                  \/ Fails("lookup") /\ known = {} /\ Raising = {}
                  \/ Fails("entry") /\ known = Stored /\ Raising # {}
               /\ LET end == ProcessEntries([seen |-> known, rows |-> {}, failed |-> {},
                                             flagged |-> {}, titles |-> job[JobOf[f]].titles],
                                            entries, Raising)
                  IN  /\ task' = [task EXCEPT ![f].rows = end.rows, ![f].failed = end.failed,
                                    ![f].flagged = end.flagged,
                                    ![f].at = IF end.rows = {} THEN "inserted" ELSE "inserting"]
                      /\ job' = [job EXCEPT ![JobOf[f]].titles = end.titles]
  <1>0. \E known \in {Stored, {}}, entries \in SetToSeqs(listed[f]), Raising \in SUBSET listed[f] :
          Reads(known, entries, Raising)
    BY DEF Read
  <1> HIDE DEF Reads
  <1>1. PICK known \in {Stored, {}}, entries \in SetToSeqs(listed[f]), Raising \in SUBSET listed[f] :
          Reads(known, entries, Raising)
    BY <1>0
  <1> DEFINE base == [seen |-> known, rows |-> {}, failed |-> {}, flagged |-> {},
                      titles |-> job[JobOf[f]].titles]
             end  == ProcessEntries(base, entries, Raising)
  <1>2. base \in Account /\ base.seen \subseteq Stored
    <2>1. job[JobOf[f]].titles \in SUBSET Hashes
      BY Limits DEF PollTyped, RunRecord
    <2>2. Stored \subseteq Url
      BY DEF Stored
    <2> QED
      BY <2>1, <2>2 DEF Account
  <1>3. IsFiniteSet(listed[f]) /\ listed[f] \subseteq Link
    BY DEF PollTyped
  <1>4. /\ Len(entries) \in Nat
        /\ \A k \in 1 .. Len(entries) : entries[k] \in listed[f]
        /\ \A l \in listed[f] : \E k \in 1 .. Len(entries) : entries[k] = l
    BY <1>3, AllEntries
  <1>5. task' = [task EXCEPT ![f].rows = end.rows, ![f].failed = end.failed,
                         ![f].flagged = end.flagged,
                         ![f].at = IF end.rows = {} THEN "inserted" ELSE "inserting"]
        /\ job' = [job EXCEPT ![JobOf[f]].titles = end.titles]
    BY <1>1 DEF Reads
  <1> HIDE DEF base
  <1>6. Sound(base, Stored)
    BY <1>2 DEF Sound
  <1>7. /\ end \in Account /\ Sound(end, Stored)
        /\ \A k \in 1 .. Len(entries) : Candidates(entries[k]) \cap end.seen # {}
    BY <1>2, <1>3, <1>4, <1>6, EntriesRead
  <1> HIDE DEF end
  <1>8. \A l \in listed[f] : Candidates(l) \cap end.seen # {}
    BY <1>4, <1>7
  <1>9. faults' \in 0 .. MaxFaults
    BY <1>1, FailsCounts DEF Reads
  <1>10. task[f].at = "polling" /\ UNCHANGED <<listed, stored, handed, row, rank, streak>>
    BY DEF Read
  <1> QED
    BY <1>5, <1>7, <1>8, <1>9, <1>10

LEMMA ReadTyped ==
  ASSUME PollTyped, Matched, NEW f \in Feed, Read(f)
  PROVE  PollTyped' /\ Matched'
  <1>1. PICK end \in Account :
           /\ task[f].at = "polling"
           /\ task' = [task EXCEPT ![f].rows = end.rows, ![f].failed = end.failed,
                         ![f].flagged = end.flagged,
                         ![f].at = IF end.rows = {} THEN "inserted" ELSE "inserting"]
           /\ job' = [job EXCEPT ![JobOf[f]].titles = end.titles]
           /\ faults' \in 0 .. MaxFaults
           /\ UNCHANGED <<listed, stored, handed, row, rank, streak>>
    BY ReadIs
  <1>2. end.rows \subseteq Url /\ end.failed \subseteq Url /\ end.flagged \subseteq Url /\ end.titles \subseteq Hashes
    BY DEF Account
  <1>3. PICK at \in {"inserting", "inserted"} :
          task' = [task EXCEPT ![f].rows = end.rows, ![f].failed = end.failed,
                               ![f].flagged = end.flagged, ![f].at = at]
    BY <1>1
  <1>4. task' \in [Feed -> TaskRecord]
    <2> DEFINE t == [task[f] EXCEPT !.rows = end.rows, !.failed = end.failed,
                                    !.flagged = end.flagged, !.at = at]
    <2>1. task[f] \in TaskRecord
      BY DEF PollTyped
    <2>2. t \in TaskRecord
      BY <1>2, <2>1 DEF TaskRecord, Stage
    <2>3. task' = [task EXCEPT ![f] = t]
      BY <1>3, <2>1 DEF PollTyped, TaskRecord
    <2> HIDE DEF t
    <2> QED
      BY <2>2, <2>3 DEF PollTyped
  <1>5. job' \in [Job -> RunRecord]
        /\ \A j \in Job : job'[j].waiting = job[j].waiting /\ job'[j].on = job[j].on
    BY <1>1, <1>2, Limits DEF PollTyped, RunRecord
  <1>6. PollTyped'
    BY <1>1, <1>4, <1>5 DEF PollTyped
  <1>7. \A g \in Feed : task'[g].at = "queued" <=> task[g].at = "queued"
    BY <1>1, <1>3 DEF PollTyped, TaskRecord
  <1> QED
    BY <1>5, <1>6, <1>7, MatchedStays

\* What an insert leaves behind: what it returned is in the table and was not before, and
\* if it went well so are all its rows.
LEMMA UpsertIs ==
  ASSUME PollTyped, NEW f \in Feed, Upsert(f)
  PROVE  \E new \in SUBSET Url, clean \in BOOLEAN :
           /\ task[f].at = "inserting"
           /\ stored' \in [Url -> {"no", "original", "flagged"}]
           /\ Stored \subseteq Stored' /\ new \subseteq Stored' \ Stored
           /\ clean => task[f].rows \subseteq Stored'
           /\ task' = [task EXCEPT ![f].at = "inserted", ![f].new = new, ![f].clean = clean]
           /\ faults' \in 0 .. MaxFaults
           /\ UNCHANGED <<listed, handed, row, rank, job, streak>>
  <1> DEFINE rows == task[f].rows
  <1>1. PICK saved \in SUBSET Ignoring(rows) : \E new \in {{}, saved}, clean \in BOOLEAN :
          /\ \/ Works /\ ~clean = EntryErrors(rows, saved)
             \/ Fails("badRow") /\ ~clean = EntryErrors(rows, saved)
             \/ Fails("overload") /\ saved = {} /\ ~clean
             \/ Fails("insertReply") /\ saved = Ignoring(rows)
          /\ stored' = [u \in Url |-> IF u \in saved THEN Mark(f, u) ELSE stored[u]]
          /\ task' = [task EXCEPT ![f].at = "inserted", ![f].new = new, ![f].clean = clean]
    BY DEF Upsert
  <1>2. PICK new \in {{}, saved}, clean \in BOOLEAN :
          /\ \/ Works /\ ~clean = EntryErrors(rows, saved)
             \/ Fails("badRow") /\ ~clean = EntryErrors(rows, saved)
             \/ Fails("overload") /\ saved = {} /\ ~clean
             \/ Fails("insertReply") /\ saved = Ignoring(rows)
          /\ stored' = [u \in Url |-> IF u \in saved THEN Mark(f, u) ELSE stored[u]]
          /\ task' = [task EXCEPT ![f].at = "inserted", ![f].new = new, ![f].clean = clean]
    BY <1>1
  <1>3. task[f].at = "inserting" /\ UNCHANGED <<listed, handed, row, rank, job, streak>>
    BY DEF Upsert
  <1>4. rows \subseteq Url
    BY DEF PollTyped, TaskRecord
  <1> HIDE DEF rows
  <1>5. saved \subseteq rows /\ saved \subseteq Url /\ saved \cap Stored = {} /\ new \subseteq saved
    BY <1>4 DEF Ignoring
  <1>6. \A u \in Url : Mark(f, u) \in {"original", "flagged"}
    BY DEF Mark
  <1>7. stored' \in [Url -> {"no", "original", "flagged"}]
    BY <1>2, <1>6 DEF PollTyped
  <1>8. Stored' = Stored \cup saved
    BY <1>2, <1>5, <1>6 DEF Stored
  <1>9. clean => rows \subseteq Stored'
    <2>1. CASE ~clean = EntryErrors(rows, saved)
      BY <1>8, <2>1 DEF EntryErrors
    <2>2. CASE ~clean
      BY <2>2
    <2>3. CASE saved = Ignoring(rows)
      BY <1>8, <2>3 DEF Ignoring
    <2> QED
      BY <1>2, <2>1, <2>2, <2>3
  <1>10. faults' \in 0 .. MaxFaults
    BY <1>2, FailsCounts
  <1>11. new \in SUBSET Url /\ new \subseteq Stored' \ Stored
    BY <1>5, <1>8
  <1> QED
    BY <1>2, <1>3, <1>7, <1>8, <1>9, <1>10, <1>11 DEF rows

LEMMA UpsertTyped ==
  ASSUME PollTyped, Matched, NEW f \in Feed, Upsert(f)
  PROVE  PollTyped' /\ Matched'
  <1>1. PICK new \in SUBSET Url, clean \in BOOLEAN :
           /\ task[f].at = "inserting"
           /\ stored' \in [Url -> {"no", "original", "flagged"}]
           /\ task' = [task EXCEPT ![f].at = "inserted", ![f].new = new, ![f].clean = clean]
           /\ faults' \in 0 .. MaxFaults
           /\ UNCHANGED <<listed, handed, row, rank, job, streak>>
    BY UpsertIs
  <1>2. task' \in [Feed -> TaskRecord]
    <2> DEFINE t == [task[f] EXCEPT !.at = "inserted", !.new = new, !.clean = clean]
    <2>1. task[f] \in TaskRecord
      BY DEF PollTyped
    <2>2. t \in TaskRecord
      BY <2>1 DEF TaskRecord, Stage
    <2>3. task' = [task EXCEPT ![f] = t]
      BY <1>1, <2>1 DEF PollTyped, TaskRecord
    <2> HIDE DEF t
    <2> QED
      BY <2>2, <2>3 DEF PollTyped
  <1>3. PollTyped'
    BY <1>1, <1>2 DEF PollTyped
  <1>4. \A g \in Feed : task'[g].at = "queued" <=> task[g].at = "queued"
    BY <1>1 DEF PollTyped, TaskRecord
  <1> QED
    BY <1>1, <1>3, <1>4, MatchedStays

LEMMA CollectTyped ==
  ASSUME PollTyped, Matched, NEW f \in Feed, Collect(f)
  PROVE  PollTyped' /\ Matched'
  <1> DEFINE i == [feed |-> f, ok |-> TRUE, new |-> task[f].new # {},
                   wake |-> task[f].recheck /\ task[f].new # {}, park |-> Parks(f)]
             left == IF Parks(f) THEN task[f].rows \cup task[f].failed ELSE {}
  <1>1. /\ task[f].at = "inserted" /\ Result(f, i)
        /\ handed' = handed \cup task[f].new
        /\ task' = [task EXCEPT ![f] = [NoTask EXCEPT !.at = "done", !.rows = left]]
        /\ UNCHANGED <<listed, stored, row, rank, streak, faults>>
    BY DEF Collect
  <1>2. task[f] \in TaskRecord
    BY DEF PollTyped
  <1>3. i \in Outcome
    BY <1>2 DEF Outcome, TaskRecord, Parks
  <1>4. left \subseteq Url
    BY <1>2 DEF TaskRecord
  <1> HIDE DEF i, left
  <1>5. /\ job' \in [Job -> RunRecord]
        /\ \A j \in Job : job'[j].waiting = job[j].waiting /\ job'[j].on = job[j].on
    BY <1>1, <1>3, ResultTyped
  <1>6. [NoTask EXCEPT !.at = "done", !.rows = left] \in TaskRecord
        /\ [NoTask EXCEPT !.at = "done", !.rows = left].at = "done"
    BY <1>4, NothingYet DEF TaskRecord, Stage
  <1>7. handed' \subseteq Url
    BY <1>1, <1>2 DEF PollTyped, TaskRecord
  <1>8. PollTyped'
    BY <1>1, <1>5, <1>6, <1>7 DEF PollTyped
  <1>9. \A g \in Feed : task'[g].at = "queued" <=> task[g].at = "queued"
    BY <1>1, <1>6 DEF PollTyped
  <1> QED
    BY <1>5, <1>8, <1>9, MatchedStays

LEMMA InitTyped == Init => PollTyped /\ Matched
  <1> SUFFICES ASSUME Init PROVE PollTyped /\ Matched
    OBVIOUS
  <1>1. listed \in [Feed -> SUBSET Link] /\ \A f \in Feed : IsFiniteSet(listed[f])
    BY FS_EmptySet DEF Init
  <1>2. row \in [Feed -> RowRecord] /\ rank \in [Feed -> Nat] /\ streak \in [Feed -> Nat]
    BY Limits DEF Init, RowRecord
  <1>3. PollTyped
    BY <1>1, <1>2, NothingYet, Limits DEF Init, PollTyped
  <1> QED
    BY <1>3, Limits DEF Init, Matched, NoTask, NoRun

LEMMA TypedSame == PollTyped /\ Matched /\ UNCHANGED vars => PollTyped' /\ Matched'
  BY DEF vars, PollTyped, Matched, Feeds

LEMMA TypedStep == PollTyped /\ Matched /\ [Next]_vars => PollTyped' /\ Matched'
  BY TypedSame, PublishTyped, TickTyped, ResetTyped, StartTyped, BeginTyped, DeadlineTyped,
     HardStopTyped, FlushTyped, LeaveTyped, FetchFailsTyped, ReadTyped, UpsertTyped, CollectTyped
     DEF Next, Run, Poll

\* pipeline/poller.py:386: whatever feeds, runs and faults do, feeds queue in their own run,
\* and every field keeps its type.
THEOREM TypeCorrect == Spec => []TypeOK
  BY InitTyped, TypedStep, TypedIsOK, PTL DEF Spec

-----------------------------------------------------------------------------
(* No article is handed over twice *)

\* A step that inserts nothing and hands nothing over.
LEMMA HandedStays ==
  ASSUME HandedOnce, Stored' = Stored, handed' = handed,
         \A f \in Feed : task'[f].new = task[f].new \/ task'[f].new = {}
  PROVE  HandedOnce'
  BY DEF HandedOnce

LEMMA RunHanded ==
  ASSUME PollTyped, HandedOnce, NEW j \in Job,
         Run(j) \/ Deadline(j) \/ HardStop(j) \/ Kill(j)
  PROVE  HandedOnce'
  <1>1. stored' = stored /\ handed' = handed
    BY DEF Run, Start, Begin, Deadline, HardStop, Flush, EndRun, Kill
  <1>2. Stored' = Stored
    BY <1>1 DEF Stored
  <1>3. ASSUME NEW f \in Feed PROVE task'[f].new = task[f].new \/ task'[f].new = {}
    <2>1. CASE Start(j)
      <3>1. \A g \in Feed : task'[g] = task[g]
                            \/ \E b : task'[g] = [NoTask EXCEPT !.at = "queued", !.recheck = b]
        BY <2>1 DEF Start
      <3> QED
        BY <3>1 DEF NoTask
    <2>2. CASE Begin(j)
      <3>1. task' = [task EXCEPT ![First(job[j].waiting)].at = "polling"]
        BY <2>2 DEF Begin
      <3> QED
        BY <3>1 DEF PollTyped, TaskRecord
    <2>3. CASE Flush(j)
      BY <2>3 DEF Flush
    <2>4. CASE EndRun(j) \/ Kill(j)
      BY <2>4, LeaveIs DEF NoTask
    <2>5. CASE Deadline(j) \/ HardStop(j)
      BY <2>5 DEF Deadline, HardStop, NoTask
    <2> QED
      BY <2>1, <2>2, <2>3, <2>4, <2>5 DEF Run
  <1> QED
    BY <1>1, <1>2, <1>3, HandedStays

LEMMA PollHanded ==
  ASSUME PollTyped, HandedOnce, NEW f \in Feed, Poll(f)
  PROVE  HandedOnce'
  <1>1. CASE FetchFails(f)
    <2>1. UNCHANGED <<stored, handed>> /\ task' = [task EXCEPT ![f] = [NoTask EXCEPT !.at = "done"]]
      BY <1>1 DEF FetchFails
    <2>2. Stored' = Stored
      BY <2>1 DEF Stored
    <2>3. [NoTask EXCEPT !.at = "done"].new = {}
      BY DEF NoTask
    <2>4. \A g \in Feed : task'[g].new = task[g].new \/ task'[g].new = {}
      BY <2>1, <2>3 DEF PollTyped
    <2> QED
      BY <2>1, <2>2, <2>4, HandedStays
  <1>2. CASE Read(f)
    <2>1. UNCHANGED <<stored, handed>>
      BY <1>2 DEF Read
    <2>2. Stored' = Stored
      BY <2>1 DEF Stored
    <2>3. PICK end \in Account :
            task' = [task EXCEPT ![f].rows = end.rows, ![f].failed = end.failed,
                           ![f].flagged = end.flagged,
                           ![f].at = IF end.rows = {} THEN "inserted" ELSE "inserting"]
      BY <1>2, ReadIs
    <2>4. \A g \in Feed : task'[g].new = task[g].new
      BY <2>3 DEF PollTyped, TaskRecord
    <2> QED
      BY <2>1, <2>2, <2>4, HandedStays
  <1>3. CASE Upsert(f)
    <2>1. PICK new \in SUBSET Url, clean \in BOOLEAN :
           /\ Stored \subseteq Stored' /\ new \subseteq Stored' \ Stored
           /\ task' = [task EXCEPT ![f].at = "inserted", ![f].new = new, ![f].clean = clean]
           /\ handed' = handed
      BY <1>3, UpsertIs
    <2>2. \A g \in Feed : task'[g].new = IF g = f THEN new ELSE task[g].new
      BY <2>1 DEF PollTyped, TaskRecord
    <2>3. handed' \subseteq Stored'
      BY <2>1 DEF HandedOnce
    <2>4. \A g \in Feed : task'[g].new \subseteq Stored' \ handed'
      BY <2>1, <2>2 DEF HandedOnce
    <2>5. ASSUME NEW g \in Feed, NEW h \in Feed, g # h PROVE task'[g].new \cap task'[h].new = {}
      <3>1. task[g].new \cap task[h].new = {} /\ task[g].new \subseteq Stored
            /\ task[h].new \subseteq Stored
        BY <2>5 DEF HandedOnce
      <3> QED
        BY <2>1, <2>2, <2>5, <3>1
    <2> QED
      BY <2>3, <2>4, <2>5 DEF HandedOnce
  <1>4. CASE Collect(f)
    <2>1. /\ stored' = stored /\ handed' = handed \cup task[f].new
          /\ \E rows : task' = [task EXCEPT ![f] = [NoTask EXCEPT !.at = "done", !.rows = rows]]
      BY <1>4 DEF Collect
    <2>2. Stored' = Stored
      BY <2>1 DEF Stored
    <2>3. \A rows : [NoTask EXCEPT !.at = "done", !.rows = rows].new = {}
      BY DEF NoTask
    <2>4. \A g \in Feed : task'[g].new = IF g = f THEN {} ELSE task[g].new
      BY <2>1, <2>3 DEF PollTyped
    <2> QED
      BY <2>1, <2>2, <2>4 DEF HandedOnce
  <1> QED
    BY <1>1, <1>2, <1>3, <1>4 DEF Poll

LEMMA HandedStep == PollTyped /\ HandedOnce /\ [Next]_vars => HandedOnce'
  <1> SUFFICES ASSUME PollTyped, HandedOnce, [Next]_vars PROVE HandedOnce'
    OBVIOUS
  <1>1. CASE UNCHANGED <<stored, handed, task>>
    <2>1. Stored' = Stored
      BY <1>1 DEF Stored
    <2> QED
      BY <1>1, <2>1, HandedStays
  <1>2. CASE \E f \in Feed, l \in Link : Publish(f, l)
    BY <1>1, <1>2 DEF Publish
  <1>3. CASE Tick
    BY <1>1, <1>3 DEF Tick
  <1>4. CASE \E f \in Feed : Reset(f)
    BY <1>1, <1>4 DEF Reset
  <1>5. CASE UNCHANGED vars
    BY <1>1, <1>5 DEF vars
  <1> QED
    BY <1>2, <1>3, <1>4, <1>5, RunHanded, PollHanded DEF Next

\* pipeline/db.py:726: a hand-off file holds stored articles only, each once, whichever feeds,
\* runs and retries tried to insert it.
THEOREM HandedOverOnce == Spec => []HandedOnce
  <1>1. Init => HandedOnce
    BY DEF Init, HandedOnce, NoTask
  <1> QED
    BY <1>1, HandedStep, InitTyped, TypedStep, PTL DEF Spec

-----------------------------------------------------------------------------
(* What a run has noted *)

\* An outcome that waits to be recorded: its feed has not been taken up again, and may be
\* parked only if it is quiet and its last poll left nothing out.
ItemFits(j, i) ==
  /\ JobOf[i.feed] = j /\ task[i.feed].at = "done" /\ row[i.feed].state # "errors"
  /\ i.park => /\ i.ok /\ ~i.new /\ row[i.feed].fresh >= Dormancy
               /\ task[i.feed].rows \subseteq Stored

\* A run notes each feed once.
Noted ==
  /\ \A j \in Job : \A i \in job[j].items : ItemFits(j, i)
  /\ \A j \in Job : \A i, k \in job[j].items : i.feed = k.feed => i = k

\* A feed in a run is not disabled, and a clean poll has all its entries in the table.
Underway ==
  \A f \in Feed :
    /\ task[f].at \notin {"none", "done"} => row[f].state # "errors"
    /\ task[f].at = "inserted" /\ task[f].clean => task[f].rows \subseteq Stored

LEMMA FreshIs ==
  ASSUME PollTyped, NEW f \in Feed
  PROVE  row[f].fresh \in Nat /\ row[f].fresh <= Dormancy
  <1>1. row[f].fresh \in 0 .. Dormancy
    BY DEF PollTyped, RowRecord
  <1> QED
    BY <1>1, Limits

LEMMA FreshIsNext ==
  ASSUME PollTyped', NEW f \in Feed
  PROVE  row'[f].fresh \in Nat /\ row'[f].fresh <= Dormancy
  <1>1. row'[f].fresh \in 0 .. Dormancy
    BY DEF PollTyped, RowRecord
  <1> QED
    BY <1>1, Limits

\* A step that leaves the feeds alone that are noted afterwards, and notes no other.
LEMMA NotedStays ==
  ASSUME PollTyped, PollTyped', Noted, Stored \subseteq Stored',
         \A j \in Job : job'[j].items \subseteq job[j].items,
         \A j \in Job : \A i \in job'[j].items :
           /\ task'[i.feed] = task[i.feed]
           /\ row[i.feed].state # "errors" => row'[i.feed].state # "errors"
           /\ row'[i.feed].fresh >= row[i.feed].fresh
  PROVE  Noted'
  <1>1. ASSUME NEW j \in Job, NEW i \in job'[j].items PROVE ItemFits(j, i)'
    <2>1. ItemFits(j, i) /\ i.feed \in Feed
      BY DEF Noted, PollTyped, RunRecord, Outcome
    <2>2. row[i.feed].fresh \in Nat /\ row'[i.feed].fresh \in Nat
      BY <2>1, FreshIs, FreshIsNext
    <2> QED
      BY <2>1, <2>2, Limits DEF ItemFits
  <1>2. \A j \in Job : \A i, k \in job'[j].items : i.feed = k.feed => i = k
    BY DEF Noted
  <1> QED
    BY <1>1, <1>2 DEF Noted

\* Neither does one that ends tasks or leaves them alone disable a feed in a run.
LEMMA UnderwayStays ==
  ASSUME Underway, Stored \subseteq Stored',
         \A f \in Feed : \/ task'[f].at \in {"none", "done"}
                         \/ /\ task'[f] = task[f]
                            /\ row[f].state # "errors" => row'[f].state # "errors"
  PROVE  Underway'
  BY DEF Underway

LEMMA WorldNoted ==
  ASSUME PollTyped, PollTyped', Noted, Underway,
         UNCHANGED vars \/ Tick \/ (\E f \in Feed : Reset(f)) \/ \E f \in Feed, l \in Link : Publish(f, l)
  PROVE  Noted' /\ Underway'
  <1>1. UNCHANGED <<stored, job, task>>
    BY DEF vars, Tick, Reset, Publish
  <1>2. Stored' = Stored
    BY <1>1 DEF Stored
  <1>3. ASSUME NEW f \in Feed
        PROVE  /\ row[f].state # "errors" => row'[f].state # "errors"
               /\ row'[f].fresh >= row[f].fresh
    <2>1. row[f] \in RowRecord /\ row[f].fresh \in Nat /\ row[f].fresh <= Dormancy
      BY Limits DEF PollTyped, RowRecord
    <2>2. CASE Tick
      <3>1. row'[f] = [row[f] EXCEPT !.polled = Least(@ + 1, Recheck), !.fresh = Least(@ + 1, Dormancy)]
        BY <2>2 DEF Tick
      <3>2. row'[f].state = row[f].state /\ row'[f].fresh = Least(row[f].fresh + 1, Dormancy)
        BY <2>1, <3>1 DEF RowRecord
      <3> QED
        BY <2>1, <3>2, Limits DEF Least
    <2>3. CASE \E g \in Feed : Reset(g)
      <3>1. PICK g \in Feed : row' = [row EXCEPT ![g].state = "active", ![g].fails = 0]
        BY <2>3 DEF Reset
      <3>2. row'[f].fresh = row[f].fresh /\ (row'[f].state = row[f].state \/ row'[f].state = "active")
        BY <3>1 DEF PollTyped, RowRecord
      <3> QED
        BY <2>1, <3>2
    <2>4. CASE row' = row
      BY <2>1, <2>4
    <2> QED
      BY <2>2, <2>3, <2>4 DEF vars, Publish
  <1>4. Noted'
    <2>1. \A j \in Job : \A i \in job'[j].items : i.feed \in Feed
      BY DEF PollTyped, RunRecord, Outcome
    <2> QED
      BY <1>1, <1>2, <1>3, <2>1, NotedStays
  <1>5. Underway'
    BY <1>1, <1>2, <1>3, UnderwayStays
  <1> QED
    BY <1>4, <1>5

LEMMA StartNoted ==
  ASSUME PollTyped, PollTyped', Noted, Underway, NEW j \in Job, Start(j)
  PROVE  Noted' /\ Underway'
  <1>1. PICK rechecks \in {{f \in Feeds(j) : RecheckDue(f)}, {}}, titles \in {RecentHashes, {}} :
          /\ job' = [job EXCEPT ![j] = [NoRun EXCEPT !.on = TRUE, !.waiting = DueFeeds(j, rechecks),
                                                     !.titles = titles]]
          /\ task' = [f \in Feed |->
                        IF f \in DueFeeds(j, rechecks)
                        THEN [NoTask EXCEPT !.at = "queued", !.recheck = f \in rechecks]
                        ELSE task[f]]
    BY DEF Start
  <1>2. UNCHANGED <<stored, row>>
    BY DEF Start
  <1> DEFINE due == DueFeeds(j, rechecks)
  <1>3. \A f \in due : JobOf[f] = j /\ row[f].state # "errors"
    BY DEF DueFeeds, Feeds, Due, RecheckDue
  <1>4. Stored' = Stored
    BY <1>2 DEF Stored
  <1> HIDE DEF due
  <1>5. \A f \in Feed : IF f \in due
                        THEN task'[f].at = "queued"
                        ELSE task'[f] = task[f]
    BY <1>1 DEF NoTask, due
  <1>6. \A i \in Job : job'[i].items = IF i = j THEN {} ELSE job[i].items
    BY <1>1 DEF PollTyped, NoRun
  <1>7. ASSUME NEW m \in Job, NEW i \in job'[m].items
        PROVE  /\ task'[i.feed] = task[i.feed]
               /\ row[i.feed].state # "errors" => row'[i.feed].state # "errors"
               /\ row'[i.feed].fresh >= row[i.feed].fresh
    <2>1. m # j /\ i \in job[m].items
      BY <1>6
    <2>2. JobOf[i.feed] = m /\ i.feed \in Feed
      BY <2>1 DEF Noted, ItemFits, PollTyped, RunRecord, Outcome
    <2>3. row[i.feed].fresh \in Nat
      BY <2>2, FreshIs
    <2> QED
      BY <1>2, <1>3, <1>5, <2>1, <2>2, <2>3
  <1>8. \A i \in Job : job'[i].items \subseteq job[i].items
    BY <1>6
  <1>9. Noted'
    BY <1>4, <1>7, <1>8, NotedStays
  <1>10. Underway'
    <2>1. ASSUME NEW f \in Feed
          PROVE  /\ task'[f].at \notin {"none", "done"} => row'[f].state # "errors"
                 /\ task'[f].at = "inserted" /\ task'[f].clean => task'[f].rows \subseteq Stored'
      BY <1>2, <1>3, <1>4, <1>5 DEF Underway
    <2> QED
      BY <2>1 DEF Underway
  <1> QED
    BY <1>9, <1>10

\* A step that leaves the rows alone, and changes only tasks that are not done.
LEMMA TasksNoted ==
  ASSUME PollTyped, PollTyped', Noted, row' = row, Stored \subseteq Stored',
         \A j \in Job : job'[j].items = job[j].items,
         \A f \in Feed : task[f].at = "done" => task'[f] = task[f]
  PROVE  Noted'
  <1>1. ASSUME NEW m \in Job, NEW i \in job'[m].items
        PROVE  /\ task'[i.feed] = task[i.feed]
               /\ row'[i.feed].fresh >= row[i.feed].fresh
    <2>1. i \in job[m].items
      OBVIOUS
    <2>2. i.feed \in Feed
      BY <2>1 DEF PollTyped, RunRecord, Outcome
    <2>3. task[i.feed].at = "done"
      BY <2>1 DEF Noted, ItemFits
    <2>4. row[i.feed].fresh \in Nat
      BY <2>2, FreshIs
    <2> QED
      BY <2>2, <2>3, <2>4
  <1> QED
    BY <1>1, NotedStays

LEMMA BeginNoted ==
  ASSUME PollTyped, PollTyped', Matched, Noted, Underway, NEW j \in Job, Begin(j)
  PROVE  Noted' /\ Underway'
  <1> DEFINE f == First(job[j].waiting)
  <1>1. /\ job[j].waiting # {}
        /\ task' = [task EXCEPT ![f].at = "polling"]
        /\ job' = [job EXCEPT ![j].waiting = @ \ {f}]
        /\ UNCHANGED <<stored, row>>
    BY DEF Begin
  <1>2. job[j].waiting \in SUBSET Feed
    BY DEF PollTyped, RunRecord
  <1>3. f \in job[j].waiting
    BY <1>1, <1>2, FirstIs
  <1> HIDE DEF f
  <1>4. f \in Feed /\ JobOf[f] = j
    BY <1>2, <1>3 DEF Matched, Feeds
  <1>5. task[f].at = "queued"
    BY <1>3, <1>4 DEF Matched
  <1>6. Stored' = Stored
    BY <1>1 DEF Stored
  <1>7. \A i \in Job : job'[i].items = job[i].items
    BY <1>1 DEF PollTyped, RunRecord
  <1>8. \A g \in Feed : IF g = f THEN task'[g].at = "polling" ELSE task'[g] = task[g]
    BY <1>1 DEF PollTyped, TaskRecord
  <1>9. Noted'
    BY <1>1, <1>5, <1>6, <1>7, <1>8, TasksNoted
  <1>10. Underway'
    BY <1>1, <1>5, <1>6, <1>8 DEF Underway
  <1> QED
    BY <1>9, <1>10

LEMMA StopNoted ==
  ASSUME PollTyped, PollTyped', Matched, Noted, Underway, NEW j \in Job, Deadline(j) \/ HardStop(j)
  PROVE  Noted' /\ Underway'
  <1>1. UNCHANGED <<stored, row>> /\ \A i \in Job : job'[i].items = job[i].items
    BY DEF Deadline, HardStop, PollTyped, RunRecord
  <1>2. Stored' = Stored
    BY <1>1 DEF Stored
  <1>3. \A f \in Feed : task'[f] = task[f] \/ (task'[f].at = "none" /\ task[f].at # "done")
    <2>1. CASE Deadline(j)
      <3>1. task' = [f \in Feed |-> IF f \in job[j].waiting THEN NoTask ELSE task[f]]
        BY <2>1 DEF Deadline, Deferred
      <3>2. \A f \in Feed : f \in job[j].waiting => task[f].at = "queued"
        BY DEF Matched, Feeds
      <3> QED
        BY <3>1, <3>2 DEF NoTask
    <2>2. CASE HardStop(j)
      BY <2>2 DEF HardStop, InFlight, NoTask
    <2> QED
      BY <2>1, <2>2
  <1>4. Noted'
    BY <1>1, <1>2, <1>3, TasksNoted
  <1>5. Underway'
    BY <1>1, <1>2, <1>3, UnderwayStays
  <1> QED
    BY <1>4, <1>5

LEMMA LeaveNoted ==
  ASSUME PollTyped, PollTyped', Noted, Underway, NEW j \in Job, EndRun(j) \/ Kill(j)
  PROVE  Noted' /\ Underway'
  <1>1. /\ job' = [job EXCEPT ![j] = NoRun]
        /\ task' = [f \in Feed |-> IF JobOf[f] = j THEN NoTask ELSE task[f]]
        /\ UNCHANGED <<stored, row>>
    BY LeaveIs
  <1>2. Stored' = Stored
    BY <1>1 DEF Stored
  <1>3. \A i \in Job : job'[i].items = IF i = j THEN {} ELSE job[i].items
    BY <1>1 DEF PollTyped, NoRun
  <1>4. ASSUME NEW m \in Job, NEW i \in job'[m].items
        PROVE  /\ task'[i.feed] = task[i.feed]
               /\ row[i.feed].state # "errors" => row'[i.feed].state # "errors"
               /\ row'[i.feed].fresh >= row[i.feed].fresh
    <2>1. m # j /\ i \in job[m].items
      BY <1>3
    <2>2. JobOf[i.feed] = m /\ i.feed \in Feed
      BY <2>1 DEF Noted, ItemFits, PollTyped, RunRecord, Outcome
    <2>3. row[i.feed].fresh \in Nat
      BY <2>2, FreshIs
    <2> QED
      BY <1>1, <2>1, <2>2, <2>3
  <1>5. Noted'
    BY <1>2, <1>3, <1>4, NotedStays
  <1>6. \A f \in Feed : task'[f] = task[f] \/ task'[f].at = "none"
    BY <1>1 DEF NoTask
  <1>7. Underway'
    BY <1>1, <1>2, <1>6, UnderwayStays
  <1> QED
    BY <1>5, <1>7

\* What the row of a feed becomes.
LEMMA RowAfterStates ==
  ASSUME NEW r \in RowRecord, NEW i \in Outcome
  PROVE  /\ ~i.park /\ RowAfter(r, i).state = "dormant" => r.state = "dormant"
         /\ i.ok /\ ~i.new => RowAfter(r, i).fresh = r.fresh
         /\ RowAfter(r, i).fails = IF i.ok THEN 0 ELSE r.fails + 1
         /\ r.state # "errors" /\ RowAfter(r, i).state = "errors"
              => ~i.ok /\ r.fails + 1 >= MaxErrors
  BY DEF RowAfter, RowRecord, Outcome

LEMMA RowAloneStates ==
  ASSUME NEW r \in RowRecord, NEW i \in Outcome,
         NEW updated \in BOOLEAN, NEW uncounted \in BOOLEAN, NEW marked \in BOOLEAN
  PROVE  LET new == RowAlone(r, i, updated, uncounted, marked)
         IN  /\ ~marked /\ new.state = "dormant" => r.state = "dormant"
             /\ i.ok /\ ~i.new => new.fresh = r.fresh
             /\ ~updated => new.fails = r.fails
             /\ updated => new.fails = IF i.ok THEN 0 ELSE IF uncounted THEN 1 ELSE r.fails + 1
             /\ r.state # "errors" /\ new.state = "errors" =>
                  /\ updated /\ ~i.ok
                  /\ (IF uncounted THEN 1 ELSE r.fails + 1) >= MaxErrors
  <1> DEFINE read == IF uncounted THEN [r EXCEPT !.fails = 0] ELSE r
             item == [i EXCEPT !.park = FALSE]
             mid  == IF updated THEN RowAfter(read, item) ELSE r
             new  == IF marked THEN [mid EXCEPT !.state = "dormant"] ELSE mid
  <1>1. read \in RowRecord /\ item \in Outcome
    BY DEF RowRecord, Outcome
  <1>2. /\ ~item.park /\ item.ok = i.ok /\ item.new = i.new
        /\ read.state = r.state /\ read.fresh = r.fresh
        /\ read.fails = IF uncounted THEN 0 ELSE r.fails
    BY DEF RowRecord, Outcome
  <1>3. RowAlone(r, i, updated, uncounted, marked) = new
    BY DEF RowAlone
  <1> HIDE DEF read, item
  <1>4. mid \in RowRecord
    BY <1>1, RowAfterIs
  <1>5. /\ mid.state = "dormant" => r.state = "dormant"
        /\ i.ok /\ ~i.new => mid.fresh = r.fresh
        /\ ~updated => mid.fails = r.fails
        /\ updated => mid.fails = IF i.ok THEN 0 ELSE IF uncounted THEN 1 ELSE r.fails + 1
        /\ r.state # "errors" /\ mid.state = "errors" =>
             /\ updated /\ ~i.ok
             /\ (IF uncounted THEN 1 ELSE r.fails + 1) >= MaxErrors
    <2>1. CASE updated
      <3>1. mid = RowAfter(read, item)
        BY <2>1
      <3>2. /\ RowAfter(read, item).state = "dormant" => read.state = "dormant"
            /\ item.ok /\ ~item.new => RowAfter(read, item).fresh = read.fresh
            /\ RowAfter(read, item).fails = IF item.ok THEN 0 ELSE read.fails + 1
            /\ read.state # "errors" /\ RowAfter(read, item).state = "errors"
                 => ~item.ok /\ read.fails + 1 >= MaxErrors
        BY <1>1, <1>2, RowAfterStates
      <3> HIDE DEF mid
      <3>3. read.fails + 1 = IF uncounted THEN 1 ELSE r.fails + 1
        BY <1>2
      <3> QED
        BY <1>2, <2>1, <3>1, <3>2, <3>3
    <2>2. CASE ~updated
      <3>1. mid = r
        BY <2>2
      <3> HIDE DEF mid
      <3> QED
        BY <2>2, <3>1
    <2> QED
      BY <2>1, <2>2
  <1> HIDE DEF mid
  <1>6. /\ new.fresh = mid.fresh /\ new.fails = mid.fails
        /\ new.state = IF marked THEN "dormant" ELSE mid.state
    BY <1>4 DEF RowRecord
  <1> HIDE DEF new
  <1> QED
    BY <1>3, <1>5, <1>6

\* A feed a flush says nothing of keeps its row.
LEMMA FlushElse ==
  ASSUME PollTyped, NEW j \in Job, Flush(j), NEW f \in Feed, \A i \in job[j].items : i.feed # f
  PROVE  row'[f] = row[f] /\ streak'[f] = streak[f]
  <1> DEFINE I == job[j].items
  <1>1. PICK rows \in [Feed -> RowRecord], Updated \in SUBSET I :
          /\ Written(rows, Updated)
          /\ \/ rows = Batched(I, FALSE) \/ rows = Batched(I, TRUE)
             \/ \E Uncounted, Marked : rows = OneByOne(I, Updated, Uncounted, Marked)
    BY FlushIs
  <1>2. rows[f] = row[f]
    BY <1>1 DEF Batched, OneByOne
  <1>3. f \notin {i.feed : i \in Updated}
    OBVIOUS
  <1>4. row' = rows /\ streak'[f] = streak[f]
    BY <1>1, <1>3 DEF Written
  <1> QED
    BY <1>2, <1>4

\* The row a flush gives the feed of an outcome.
LEMMA FlushRow ==
  ASSUME PollTyped, Noted, NEW j \in Job, Flush(j), NEW i \in job[j].items
  PROVE  \/ /\ row'[i.feed] = RowAfter(row[i.feed], i)
            /\ streak'[i.feed] = IF i.ok THEN 0 ELSE streak[i.feed] + 1
         \/ /\ "recordReply" \in FaultKinds
            /\ row'[i.feed] = RowAfter(RowAfter(row[i.feed], i), i)
         \/ \E updated, uncounted, marked \in BOOLEAN :
              /\ row'[i.feed] = RowAlone(row[i.feed], i, updated, uncounted, marked)
              /\ marked => i.park
              /\ streak'[i.feed] = IF ~updated THEN streak[i.feed]
                                   ELSE IF i.ok THEN 0 ELSE streak[i.feed] + 1
  <1> DEFINE I == job[j].items
             f == i.feed
  <1>1. PICK rows \in [Feed -> RowRecord], Updated \in SUBSET I :
              /\ Written(rows, Updated)
              /\ \/ rows = Batched(I, FALSE) /\ Updated = I
                 \/ /\ "recordReply" \in FaultKinds
                    /\ rows = Batched(I, TRUE) /\ Updated = I
                 \/ \E Uncounted, Marked \in SUBSET I :
                      /\ \A k \in Marked : k.park
                      /\ rows = OneByOne(I, Updated, Uncounted, Marked)
    BY FlushIs
  <1>2. f \in Feed /\ i \in I
    BY DEF PollTyped, RunRecord, Outcome
  <1>3. \A k \in I : k.feed = f => k = i
    BY DEF Noted
  <1> HIDE DEF I, f
  <1>4. Of(f, I) = i
    BY <1>2, <1>3, OfIs DEF f
  <1>5. \E k \in I : k.feed = f
    BY <1>2 DEF f
  <1>6. row' = rows
    BY <1>1 DEF Written
  <1>7. streak'[f] = IF i \notin Updated THEN streak[f] ELSE IF i.ok THEN 0 ELSE streak[f] + 1
    <2> DEFINE Done == {k.feed : k \in Updated}
    <2>1. streak' = [g \in Feed |-> IF g \notin Done THEN streak[g]
                                    ELSE IF Of(g, Updated).ok THEN 0 ELSE streak[g] + 1]
      BY <1>1 DEF Written
    <2>2. CASE i \notin Updated
      <3>1. f \notin Done
        BY <1>3, <2>2
      <3> HIDE DEF Done
      <3> QED
        BY <1>2, <2>1, <2>2, <3>1
    <2>3. CASE i \in Updated
      <3>1. f \in Done
        BY <2>3 DEF f
      <3>2. Of(f, Updated) = i
        BY <1>3, <2>3, OfIs DEF f
      <3> HIDE DEF Done
      <3> QED
        BY <1>2, <2>1, <2>3, <3>1, <3>2
    <2> QED
      BY <2>2, <2>3
  <1>8. CASE rows = Batched(I, FALSE) /\ Updated = I
    <2>1. row'[f] = RowAfter(row[f], i)
      BY <1>2, <1>4, <1>5, <1>6, <1>8 DEF Batched
    <2> QED
      BY <1>2, <1>7, <1>8, <2>1 DEF f
  <1>9. CASE "recordReply" \in FaultKinds /\ rows = Batched(I, TRUE)
    <2>1. row'[f] = RowAfter(RowAfter(row[f], i), i)
      BY <1>2, <1>4, <1>5, <1>6, <1>9 DEF Batched
    <2> QED
      BY <1>9, <2>1 DEF f
  <1>10. ASSUME NEW Uncounted, NEW Marked, \A k \in Marked : k.park,
                rows = OneByOne(I, Updated, Uncounted, Marked)
         PROVE  \E updated, uncounted, marked \in BOOLEAN :
                  /\ row'[f] = RowAlone(row[f], i, updated, uncounted, marked)
                  /\ marked => i.park
                  /\ streak'[f] = IF ~updated THEN streak[f]
                                  ELSE IF i.ok THEN 0 ELSE streak[f] + 1
    <2>1. row'[f] = RowAlone(row[f], i, i \in Updated, i \in Uncounted, i \in Marked)
      BY <1>2, <1>4, <1>5, <1>6, <1>10 DEF OneByOne
    <2>2. (i \in Updated) \in BOOLEAN /\ (i \in Uncounted) \in BOOLEAN /\ (i \in Marked) \in BOOLEAN
      OBVIOUS
    <2>3. i \in Marked => i.park
      BY <1>10
    <2>4. streak'[f] = IF ~(i \in Updated) THEN streak[f] ELSE IF i.ok THEN 0 ELSE streak[f] + 1
      BY <1>7
    <2> WITNESS (i \in Updated) \in BOOLEAN
    <2> WITNESS (i \in Uncounted) \in BOOLEAN
    <2> WITNESS (i \in Marked) \in BOOLEAN
    <2> QED
      BY <2>1, <2>3, <2>4
  <1> QED
    BY <1>1, <1>8, <1>9, <1>10 DEF f

LEMMA FlushNoted ==
  ASSUME PollTyped, PollTyped', Noted, Underway, NEW j \in Job, Flush(j)
  PROVE  Noted' /\ Underway'
  <1>1. /\ job' = [job EXCEPT ![j].items = {}] /\ UNCHANGED <<stored, task>>
    BY FlushIs
  <1>2. Stored' = Stored
    BY <1>1 DEF Stored
  <1>3. \A m \in Job : job'[m].items = IF m = j THEN {} ELSE job[m].items
    BY <1>1 DEF PollTyped, RunRecord
  <1>4. \A i \in job[j].items : i.feed \in Feed /\ JobOf[i.feed] = j /\ task[i.feed].at = "done"
    BY DEF Noted, ItemFits, PollTyped, RunRecord, Outcome
  <1>5. Noted'
    <2>1. ASSUME NEW m \in Job, NEW i \in job'[m].items
          PROVE  /\ task'[i.feed] = task[i.feed]
                 /\ row[i.feed].state # "errors" => row'[i.feed].state # "errors"
                 /\ row'[i.feed].fresh >= row[i.feed].fresh
      <3>1. m # j /\ i \in job[m].items
        BY <1>3
      <3>2. JobOf[i.feed] = m /\ i.feed \in Feed
        BY <3>1 DEF Noted, ItemFits, PollTyped, RunRecord, Outcome
      <3>3. row'[i.feed] = row[i.feed]
        BY <1>4, <3>1, <3>2, FlushElse
      <3>4. row[i.feed].fresh \in Nat
        BY <3>2, FreshIs
      <3> QED
        BY <1>1, <3>3, <3>4
    <2>2. \A m \in Job : job'[m].items \subseteq job[m].items
      BY <1>3
    <2> QED
      BY <1>2, <2>1, <2>2, NotedStays
  <1>6. Underway'
    <2>1. ASSUME NEW f \in Feed
          PROVE  \/ task'[f].at \in {"none", "done"}
                 \/ /\ task'[f] = task[f]
                    /\ row[f].state # "errors" => row'[f].state # "errors"
      <3>1. CASE \E i \in job[j].items : i.feed = f
        BY <1>1, <1>4, <3>1
      <3>2. CASE \A i \in job[j].items : i.feed # f
        BY <1>1, <3>2, FlushElse
      <3> QED
        BY <3>1, <3>2
    <2> QED
      BY <1>2, <2>1, UnderwayStays
  <1> QED
    BY <1>5, <1>6

\* A poll ends with an outcome that fits.
LEMMA ResultNoted ==
  ASSUME PollTyped, PollTyped', Noted, Underway, NEW f \in Feed, NEW i \in Outcome,
         Result(f, i), i.feed = f, task[f].at \in {"polling", "inserted"},
         NEW t, t.at = "done", task' = [task EXCEPT ![f] = t], UNCHANGED <<stored, row>>,
         i.park => /\ i.ok /\ ~i.new /\ row[f].fresh >= Dormancy
                   /\ t.rows \subseteq Stored
  PROVE  Noted' /\ Underway'
  <1>1. Stored' = Stored
    BY DEF Stored
  <1>2. \A g \in Feed : task'[g] = IF g = f THEN t ELSE task[g]
    BY DEF PollTyped
  <1>3. \A m \in Job : job'[m].items = IF m = JobOf[f] THEN job[m].items \cup {i} ELSE job[m].items
    BY ResultTyped
  <1>4. ASSUME NEW m \in Job, NEW k \in job[m].items PROVE k.feed \in Feed /\ k.feed # f /\ ItemFits(m, k)
    BY DEF Noted, ItemFits, PollTyped, RunRecord, Outcome
  <1>5. ItemFits(JobOf[f], i)'
    <2>1. row[f].state # "errors"
      BY DEF Underway
    <2>2. task'[f] = t
      BY <1>2
    <2> QED
      BY <1>1, <2>1, <2>2 DEF ItemFits
  <1>6. ASSUME NEW m \in Job, NEW k \in job[m].items PROVE ItemFits(m, k)'
    BY <1>1, <1>2, <1>4 DEF ItemFits
  <1>7. ASSUME NEW m \in Job, NEW k \in job'[m].items PROVE ItemFits(m, k)'
    <2>1. k \in job[m].items \/ (m = JobOf[f] /\ k = i)
      BY <1>3
    <2> QED
      BY <1>5, <1>6, <2>1
  <1>8. ASSUME NEW m \in Job, NEW k \in job'[m].items, NEW l \in job'[m].items, k.feed = l.feed
        PROVE  k = l
    <2>1. (k \in job[m].items \/ k = i) /\ (l \in job[m].items \/ l = i)
      BY <1>3
    <2>2. k \in job[m].items /\ l \in job[m].items => k = l
      BY <1>8 DEF Noted
    <2> QED
      BY <1>4, <1>8, <2>1, <2>2
  <1>9. Noted'
    BY <1>7, <1>8 DEF Noted
  <1>10. Underway'
    BY <1>1, <1>2, UnderwayStays
  <1> QED
    BY <1>9, <1>10

LEMMA PollNoted ==
  ASSUME PollTyped, PollTyped', Noted, Underway, NEW f \in Feed, Poll(f)
  PROVE  Noted' /\ Underway'
  <1>1. CASE FetchFails(f)
    <2> DEFINE i == [feed |-> f, ok |-> FALSE, new |-> FALSE, wake |-> FALSE, park |-> FALSE]
               t == [NoTask EXCEPT !.at = "done"]
    <2>1. /\ task[f].at = "polling" /\ Result(f, i) /\ task' = [task EXCEPT ![f] = t]
          /\ UNCHANGED <<stored, row>>
      BY <1>1 DEF FetchFails
    <2>2. i \in Outcome /\ i.feed = f /\ ~i.park /\ t.at = "done"
      BY DEF Outcome, NoTask
    <2> HIDE DEF i, t
    <2> QED
      BY <2>1, <2>2, ResultNoted
  <1>2. CASE Read(f)
    <2>1. PICK end \in Account :
           /\ task[f].at = "polling"
           /\ task' = [task EXCEPT ![f].rows = end.rows, ![f].failed = end.failed,
                         ![f].flagged = end.flagged,
                         ![f].at = IF end.rows = {} THEN "inserted" ELSE "inserting"]
           /\ job' = [job EXCEPT ![JobOf[f]].titles = end.titles]
           /\ UNCHANGED <<stored, row>>
      BY <1>2, ReadIs
    <2>2. Stored' = Stored
      BY <2>1 DEF Stored
    <2>3. \A j \in Job : job'[j].items = job[j].items
      BY <2>1, Limits DEF PollTyped, RunRecord
    <2>4. /\ \A g \in Feed : g # f => task'[g] = task[g]
          /\ task'[f].rows = end.rows
          /\ task'[f].at = IF end.rows = {} THEN "inserted" ELSE "inserting"
      BY <2>1 DEF PollTyped, TaskRecord
    <2>5. Noted'
      BY <2>1, <2>2, <2>3, <2>4, TasksNoted
    <2>6. row[f].state # "errors"
      BY <2>1 DEF Underway
    <2>7. /\ task'[f].at \notin {"none", "done"} => row'[f].state # "errors"
          /\ task'[f].at = "inserted" /\ task'[f].clean => task'[f].rows \subseteq Stored'
      <3>1. row'[f].state # "errors"
        BY <2>1, <2>6
      <3>2. CASE end.rows = {}
        BY <2>4, <3>1, <3>2
      <3>3. CASE end.rows # {}
        <4>1. task'[f].at = "inserting"
          BY <2>4, <3>3
        <4> QED
          BY <3>1, <4>1
      <3> QED
        BY <3>2, <3>3
    <2>8. \A g \in Feed \ {f} :
            /\ task'[g].at \notin {"none", "done"} => row'[g].state # "errors"
            /\ task'[g].at = "inserted" /\ task'[g].clean => task'[g].rows \subseteq Stored'
      BY <2>1, <2>2, <2>4 DEF Underway
    <2>9. Underway'
      BY <2>7, <2>8 DEF Underway
    <2> QED
      BY <2>5, <2>9
  <1>3. CASE Upsert(f)
    <2>1. PICK new \in SUBSET Url, clean \in BOOLEAN :
           /\ task[f].at = "inserting" /\ Stored \subseteq Stored'
           /\ clean => task[f].rows \subseteq Stored'
           /\ task' = [task EXCEPT ![f].at = "inserted", ![f].new = new, ![f].clean = clean]
           /\ UNCHANGED <<row, job>>
      BY <1>3, UpsertIs
    <2>2. /\ \A g \in Feed : g # f => task'[g] = task[g]
          /\ task'[f].rows = task[f].rows /\ task'[f].clean = clean /\ task'[f].at = "inserted"
      BY <2>1 DEF PollTyped, TaskRecord
    <2>3. Noted'
      BY <2>1, <2>2, TasksNoted
    <2>4. row[f].state # "errors"
      BY <2>1 DEF Underway
    <2>5. Underway'
      BY <2>1, <2>2, <2>4 DEF Underway
    <2> QED
      BY <2>3, <2>5
  <1>4. CASE Collect(f)
    <2> DEFINE i == [feed |-> f, ok |-> TRUE, new |-> task[f].new # {},
                     wake |-> task[f].recheck /\ task[f].new # {}, park |-> Parks(f)]
               t == [NoTask EXCEPT !.at = "done",
                           !.rows = IF Parks(f) THEN task[f].rows \cup task[f].failed ELSE {}]
    <2>1. /\ task[f].at = "inserted" /\ Result(f, i) /\ task' = [task EXCEPT ![f] = t]
          /\ UNCHANGED <<stored, row>>
      BY <1>4 DEF Collect
    <2>2. i \in Outcome
      BY DEF Outcome, PollTyped, TaskRecord, Parks
    <2>3. i.feed = f /\ i.ok /\ (i.new = (task[f].new # {})) /\ i.park = Parks(f)
      OBVIOUS
    <2>4. t.at = "done" /\ t.rows = IF Parks(f) THEN task[f].rows \cup task[f].failed ELSE {}
      BY DEF NoTask
    <2> HIDE DEF i, t
    <2>5. Parks(f) => task[f].new = {} /\ task[f].clean /\ task[f].failed = {}
                     /\ row[f].fresh >= Dormancy
      BY DEF Parks
    <2>6. task[f].clean => task[f].rows \subseteq Stored
      BY <2>1 DEF Underway
    <2>7. i.park => /\ i.ok /\ ~i.new /\ row[f].fresh >= Dormancy
                    /\ t.rows \subseteq Stored
      BY <2>3, <2>4, <2>5, <2>6
    <2> QED
      BY <2>1, <2>2, <2>3, <2>4, <2>7, ResultNoted
  <1> QED
    BY <1>1, <1>2, <1>3, <1>4 DEF Poll

LEMMA NotedInit == Init => Noted /\ Underway
  BY DEF Init, Noted, Underway, NoRun, NoTask

LEMMA NotedStep ==
  PollTyped /\ PollTyped' /\ Matched /\ Noted /\ Underway /\ [Next]_vars => Noted' /\ Underway'
  BY WorldNoted, StartNoted, BeginNoted, FlushNoted, LeaveNoted, StopNoted, PollNoted
     DEF Next, Run

LEMMA AllNoted == Spec => [](PollTyped /\ Matched /\ Noted /\ Underway)
  BY InitTyped, TypedStep, NotedInit, NotedStep, PTL DEF Spec

\* pipeline/poller.py:578: a feed is parked as dormant only if its last poll left none of its
\* entries out of the table, those that raised errors included, whatever the faults between the poll and its record.
THEOREM NothingLeftOut == Spec => []ParkedMissedNothing
  <1>1. Noted => ParkedMissedNothing
    BY DEF Noted, ItemFits, ParkedMissedNothing
  <1> QED
    BY <1>1, AllNoted, PTL

-----------------------------------------------------------------------------
(* The states of a feed *)

\* What a flush may do to the state of a feed.
LEMMA FlushQuiet ==
  ASSUME PollTyped, Noted, NEW j \in Job, Flush(j), NEW f \in Feed,
         row[f].state = "active", row'[f].state = "dormant"
  PROVE  row'[f].fresh >= Dormancy
  <1>1. PICK i \in job[j].items : i.feed = f
    BY FlushElse
  <1>2. i \in Outcome /\ row[f] \in RowRecord /\ row[f].fresh \in Nat
    BY FreshIs DEF PollTyped, RunRecord
  <1>3. i.park => i.ok /\ ~i.new /\ row[f].fresh >= Dormancy
    BY <1>1 DEF Noted, ItemFits
  <1>4. CASE row'[f] = RowAfter(row[f], i)
    BY <1>2, <1>3, <1>4, RowAfterStates
  <1>5. CASE row'[f] = RowAfter(RowAfter(row[f], i), i)
    <2> DEFINE r == RowAfter(row[f], i)
    <2>1. /\ r \in RowRecord
          /\ ~i.park /\ r.state = "dormant" => row[f].state = "dormant"
          /\ i.ok /\ ~i.new => r.fresh = row[f].fresh
      BY <1>2, RowAfterIs, RowAfterStates
    <2> HIDE DEF r
    <2>2. /\ ~i.park /\ RowAfter(r, i).state = "dormant" => r.state = "dormant"
          /\ i.ok /\ ~i.new => RowAfter(r, i).fresh = r.fresh
      BY <1>2, <2>1, RowAfterStates
    <2>3. row'[f] = RowAfter(r, i)
      BY <1>5 DEF r
    <2> QED
      BY <1>3, <2>1, <2>2, <2>3
  <1>6. ASSUME NEW updated \in BOOLEAN, NEW uncounted \in BOOLEAN, NEW marked \in BOOLEAN,
               row'[f] = RowAlone(row[f], i, updated, uncounted, marked), marked => i.park
        PROVE  row'[f].fresh >= Dormancy
    <2>1. /\ ~marked /\ row'[f].state = "dormant" => row[f].state = "dormant"
          /\ i.ok /\ ~i.new => row'[f].fresh = row[f].fresh
      BY <1>2, <1>6, RowAloneStates
    <2> QED
      BY <1>3, <1>6, <2>1
  <1> QED
    BY <1>1, <1>4, <1>5, <1>6, FlushRow

\* pipeline/poller.py:583: a feed becomes dormant only while its last recorded article is
\* older than the limit, although the check reads a row older than the run.
THEOREM ParkedWhenQuiet == Spec => ParkedOnlyWhenQuiet
  <1> DEFINE Quiet == \A f \in Feed : row[f].state = "active" /\ row'[f].state = "dormant"
                                        => row'[f].fresh >= Dormancy
  <1>1. PollTyped /\ Matched /\ Noted /\ Underway /\ [Next]_vars => [Quiet]_vars
    <2> SUFFICES ASSUME PollTyped, Noted, Next, NEW f \in Feed,
                        row[f].state = "active", row'[f].state = "dormant"
                 PROVE  row'[f].fresh >= Dormancy
      BY DEF Next
    <2>1. CASE row'[f].state = row[f].state
      BY <2>1
    <2>2. CASE Tick
      <3>1. row'[f] = [row[f] EXCEPT !.polled = Least(@ + 1, Recheck), !.fresh = Least(@ + 1, Dormancy)]
        BY <2>2 DEF Tick
      <3>2. row'[f].state = row[f].state
        BY <3>1 DEF PollTyped, RowRecord
      <3> QED
        BY <3>2
    <2>3. CASE \E g \in Feed : Reset(g)
      <3>1. PICK g \in Feed : row' = [row EXCEPT ![g].state = "active", ![g].fails = 0]
        BY <2>3 DEF Reset
      <3>2. row'[f].state = row[f].state \/ row'[f].state = "active"
        BY <3>1 DEF PollTyped, RowRecord
      <3> QED
        BY <3>2
    <2>4. CASE \E j \in Job : Flush(j)
      BY <2>4, FlushQuiet
    <2>5. CASE row' = row
      BY <2>1, <2>5
    <2> QED
      BY <2>2, <2>3, <2>4, <2>5
         DEF Next, Run, Poll, Publish, Start, Begin, EndRun, Deadline, HardStop, Kill,
             FetchFails, Read, Upsert, Collect
  <1> QED
    BY <1>1, AllNoted, PTL DEF Spec, ParkedOnlyWhenQuiet

\* The count of failures of a feed is no larger than its streak, and its circuit is open only
\* after a streak of as many as it takes.
Counted ==
  \A f \in Feed : /\ row[f].fails <= streak[f]
                  /\ row[f].state = "errors" => streak[f] >= MaxErrors

\* No answer of the recording is lost.
AnswersArrive == "recordReply" \notin FaultKinds

LEMMA FlushCounted ==
  ASSUME AnswersArrive, PollTyped, PollTyped', Noted, Counted, NEW j \in Job, Flush(j)
  PROVE  Counted'
  <1> SUFFICES ASSUME NEW f \in Feed
               PROVE  /\ row'[f].fails <= streak'[f]
                      /\ row'[f].state = "errors" => streak'[f] >= MaxErrors
    BY DEF Counted
  <1>1. /\ row[f].fails <= streak[f] /\ row[f].fails \in Nat /\ streak[f] \in Nat
        /\ row[f].state = "errors" => streak[f] >= MaxErrors
    BY DEF Counted, PollTyped, RowRecord
  <1>2. CASE \A i \in job[j].items : i.feed # f
    BY <1>1, <1>2, FlushElse
  <1>3. ASSUME NEW i \in job[j].items, i.feed = f
        PROVE  /\ row'[f].fails <= streak'[f]
               /\ row'[f].state = "errors" => streak'[f] >= MaxErrors
    <2>1. i \in Outcome /\ row[f] \in RowRecord
      BY DEF PollTyped, RunRecord
    <2>2. row[f].state # "errors"
      BY <1>3 DEF Noted, ItemFits
    <2>3. CASE /\ row'[f] = RowAfter(row[f], i)
               /\ streak'[f] = IF i.ok THEN 0 ELSE streak[f] + 1
      <3>1. /\ row'[f].fails = IF i.ok THEN 0 ELSE row[f].fails + 1
            /\ row'[f].state = "errors" => ~i.ok /\ row[f].fails + 1 >= MaxErrors
        BY <2>1, <2>2, <2>3, RowAfterStates
      <3> QED
        BY <1>1, <2>3, <3>1, Limits
    <2>4. ASSUME NEW updated \in BOOLEAN, NEW uncounted \in BOOLEAN, NEW marked \in BOOLEAN,
                 row'[f] = RowAlone(row[f], i, updated, uncounted, marked),
                 streak'[f] = IF ~updated THEN streak[f] ELSE IF i.ok THEN 0 ELSE streak[f] + 1
          PROVE  /\ row'[f].fails <= streak'[f]
                 /\ row'[f].state = "errors" => streak'[f] >= MaxErrors
      <3>1. /\ ~updated => row'[f].fails = row[f].fails
            /\ updated => row'[f].fails = IF i.ok THEN 0 ELSE IF uncounted THEN 1 ELSE row[f].fails + 1
            /\ row'[f].state = "errors" =>
                 /\ updated /\ ~i.ok
                 /\ (IF uncounted THEN 1 ELSE row[f].fails + 1) >= MaxErrors
        BY <2>1, <2>2, <2>4, RowAloneStates
      <3> QED
        BY <1>1, <2>4, <3>1, Limits
    <2> QED
      BY <1>3, <2>3, <2>4, FlushRow DEF AnswersArrive
  <1> QED
    BY <1>2, <1>3

LEMMA CountedStep ==
  ASSUME AnswersArrive
  PROVE  PollTyped /\ PollTyped' /\ Noted /\ Counted /\ [Next]_vars => Counted'
  <1> SUFFICES ASSUME PollTyped, PollTyped', Noted, Counted, [Next]_vars PROVE Counted'
    OBVIOUS
  <1>1. CASE row' = row /\ streak' = streak
    BY <1>1 DEF Counted
  <1>2. CASE Tick
    <2>1. ASSUME NEW f \in Feed
          PROVE  row'[f].fails = row[f].fails /\ row'[f].state = row[f].state
      <3>1. row'[f] = [row[f] EXCEPT !.polled = Least(@ + 1, Recheck), !.fresh = Least(@ + 1, Dormancy)]
        BY <1>2 DEF Tick
      <3> QED
        BY <3>1 DEF PollTyped, RowRecord
    <2>2. streak' = streak
      BY <1>2 DEF Tick
    <2> QED
      BY <2>1, <2>2 DEF Counted
  <1>3. ASSUME NEW g \in Feed, Reset(g) PROVE Counted'
    <2>1. /\ row' = [row EXCEPT ![g].state = "active", ![g].fails = 0]
          /\ streak' = [streak EXCEPT ![g] = 0]
      BY <1>3 DEF Reset
    <2>2. \A f \in Feed :
            IF f = g THEN row'[f].fails = 0 /\ row'[f].state = "active" /\ streak'[f] = 0
            ELSE row'[f] = row[f] /\ streak'[f] = streak[f]
      BY <2>1 DEF PollTyped, RowRecord
    <2> QED
      BY <2>2 DEF Counted
  <1>4. CASE \E j \in Job : Flush(j)
    BY <1>4, FlushCounted
  <1> QED
    BY <1>1, <1>2, <1>3, <1>4
       DEF Next, Run, Poll, Publish, Start, Begin, EndRun, Deadline, HardStop, Kill,
           FetchFails, Read, Upsert, Collect, vars

\* pipeline/config.py:72: a feed is disabled for errors only after that many failed polls in a
\* row, if no answer of the recording is lost, and no run polls it any more.
THEOREM DisabledAfterErrors ==
  ASSUME AnswersArrive
  PROVE  Spec => []DisabledOnlyAfterErrors
  <1>1. Init => Counted
    BY Limits DEF Init, Counted
  <1>2. Spec => []Counted
    BY <1>1, CountedStep, AllNoted, PTL DEF Spec
  <1>3. PollTyped /\ Underway /\ Counted => DisabledOnlyAfterErrors
    BY DEF PollTyped, TaskRecord, Stage, Underway, Counted, DisabledOnlyAfterErrors
  <1> QED
    BY <1>2, <1>3, AllNoted, PTL

-----------------------------------------------------------------------------
(* Entries left out *)

\* No link once had the form another article's link has now.
OldFormsApart == \A l \in Link : LegacyForm(l) \in Url => LegacyForm(l) = Canonical(l)

\* pipeline/dedup.py:100: an entry left out of a poll is an article that is stored, another entry of
\* the same poll, or one that raised an error, whatever the links, titles and order of the document.
THEOREM NoneMistaken ==
  ASSUME OldFormsApart
  PROVE  Spec => NoneTakenForAnother
  <1> DEFINE Kept == \A f \in Feed :
                       task[f].at = "polling" /\ task'[f].at \in {"inserting", "inserted"} =>
                         \A l \in listed[f] : InScope(Canonical(l)) =>
                            Canonical(l) \in Stored \cup task'[f].rows \cup task'[f].failed
  <1>1. PollTyped /\ Matched /\ [Next]_vars => [Kept]_vars
    <2> SUFFICES ASSUME PollTyped, Matched, Next, NEW f \in Feed, task[f].at = "polling",
                        task'[f].at \in {"inserting", "inserted"},
                        NEW l \in listed[f], InScope(Canonical(l))
                 PROVE  Canonical(l) \in Stored \cup task'[f].rows \cup task'[f].failed
      OBVIOUS
    <2>1. CASE Read(f)
      <3>1. PICK end \in Account :
              /\ Sound(end, Stored)
              /\ Candidates(l) \cap end.seen # {}
              /\ task' = [task EXCEPT ![f].rows = end.rows, ![f].failed = end.failed,
                            ![f].flagged = end.flagged,
                            ![f].at = IF end.rows = {} THEN "inserted" ELSE "inserting"]
        BY <2>1, ReadIs
      <3>2. task'[f].rows = end.rows /\ task'[f].failed = end.failed
        BY <3>1 DEF PollTyped, TaskRecord
      <3>3. l \in Link /\ end.seen \subseteq Url
        BY DEF PollTyped, Account
      <3>4. Canonical(l) \in end.seen
        BY <3>1, <3>3 DEF Candidates, OldFormsApart
      <3> QED
        BY <3>1, <3>2, <3>4 DEF Sound, InScope
    <2>2. CASE task'[f] = task[f]
      BY <2>2
    <2>3. ASSUME NEW g \in Feed, Poll(g), g # f PROVE task'[f] = task[f]
      <3>1. CASE Read(g)
        <4>1. PICK end \in Account :
                task' = [task EXCEPT ![g].rows = end.rows, ![g].failed = end.failed,
                                     ![g].flagged = end.flagged,
                                     ![g].at = IF end.rows = {} THEN "inserted" ELSE "inserting"]
          BY <3>1, ReadIs
        <4> QED
          BY <2>3, <4>1 DEF PollTyped
      <3>2. CASE FetchFails(g) \/ Upsert(g) \/ Collect(g)
        BY <2>3, <3>2 DEF FetchFails, Upsert, Collect, PollTyped
      <3> QED
        BY <2>3, <3>1, <3>2 DEF Poll
    <2>4. CASE FetchFails(f) \/ Upsert(f) \/ Collect(f)
      BY <2>4 DEF FetchFails, Upsert, Collect, PollTyped, NoTask
    <2>5. ASSUME NEW j \in Job, Run(j) \/ Deadline(j) \/ HardStop(j) \/ Kill(j)
          PROVE  task'[f].at = task[f].at \/ task'[f].at \in {"none", "queued", "polling"}
      <3>1. CASE Start(j)
        BY <3>1 DEF Start, NoTask
      <3>2. CASE Begin(j)
        BY <3>2 DEF Begin, PollTyped, TaskRecord
      <3>3. CASE Flush(j)
        BY <3>3 DEF Flush
      <3>4. CASE EndRun(j) \/ Deadline(j) \/ HardStop(j) \/ Kill(j)
        <4>1. task'[f] = NoTask \/ task'[f] = task[f]
          BY <3>4 DEF EndRun, Deadline, HardStop, Kill
        <4> QED
          BY <4>1 DEF NoTask
      <3> QED
        BY <2>5, <3>1, <3>2, <3>3, <3>4 DEF Run
    <2>6. CASE UNCHANGED task
      BY <2>2, <2>6
    <2> QED
      BY <2>1, <2>2, <2>3, <2>4, <2>5, <2>6 DEF Next, Poll, Publish, Tick, Reset
  <1> QED
    BY <1>1, InitTyped, TypedStep, PTL DEF Spec, NoneTakenForAnother
=============================================================================
