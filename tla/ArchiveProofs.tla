---------------------------- MODULE ArchiveProofs ----------------------------
(***************************************************************************)
(* The archive loses nothing: while one archiver runs, the rows of a day   *)
(* it may delete are in the objects of the day's log, with what the sweeper*)
(* wrote to them, whatever fails, dies, is damaged or purged on the way.   *)
(***************************************************************************)
EXTENDS Archive, FiniteSetTheorems, WellFoundedInduction, TLAPS

\* The nightly workflow's concurrency group, and nobody at a workstation.
OneArchiver == \A p, q \in Archiver : p = q

RunRecord == [days : SUBSET Day, day : Day \cup {0}, prune : BOOLEAN,
              stats : SUBSET Article, after : Nat, part : SUBSET Copy,
              objects : [PartNo -> SUBSET Copy]]
LogRecord == [status : {"none", "uploaded", "verified", "pruned"}, rows : Nat,
              objects : [PartNo -> SUBSET Copy], prunedRows : Nat]

Typed ==
  /\ today \in Nat
  /\ state \in [Article -> {"raw", "lastTry", "givenUp", "enriched"}]
  /\ pruned \subseteq Article /\ purged \subseteq Article
  /\ log \in [Day -> LogRecord]
  /\ store \in [Day -> [PartNo -> SUBSET Copy]]
  /\ pc \in [Archiver -> Location]
  /\ run \in [Archiver -> RunRecord]
  /\ faults \in 0 .. MaxFaults

Parts == PartNo \ {EntPart}
Sealed(d) == log[d].status \in {"verified", "pruned"}

\* Copies that hold article a as it will stay, unless its last try is still out.
Holds(copies, a) == a \in Ids(copies) /\ (a \notin LastTry => <<a, "enriched">> \in copies)
HoldsEntities(objects, a) == a \notin LastTry => <<a, "entities">> \in objects[EntPart]

PartsOf(objects) == UNION {objects[n] : n \in Parts}

\* No article is in two parts.
Apart(objects) == \A m, n \in Parts : m # n => Ids(objects[m]) \cap Ids(objects[n]) = {}

\* The parts are numbered without a gap.
Used(objects) == {n \in Parts : objects[n] # {}}
Numbered(objects) == Used(objects) = 1 .. Cardinality(Used(objects))

\* The queue leaves a row raw or enriches it, but for a last try.
Settling == \A a \in Article \ LastTry : state[a] \in {"raw", "enriched"}

\* Days the archive deals with get no new rows.
DaysOver ==
  /\ \A r \in Archiver : \A d \in run[r].days \cup ({run[r].day} \cap Day) : LeftHotWindow(d)
  /\ \A r \in Archiver : pc[r] \notin {"idle", "next"} => run[r].day \in Day
  /\ \A d \in Day : Sealed(d) => LeftHotWindow(d)

\* A day being exported is not sealed, and its rows are done with.
Exporting(r) ==
  pc[r] \in {"pages", "entities", "log", "verify", "mark"} =>
    /\ ~Sealed(run[r].day)
    /\ \A a \in Rows(run[r].day) \ LastTry : state[a] = "enriched"
    /\ Apart(run[r].objects) /\ Numbered(run[r].objects)

\* What was read so far.
Reading(r) ==
  pc[r] = "pages" =>
    /\ \A a \in Rows(run[r].day) : a <= run[r].after => Holds(Exported(r), a)
    /\ \A c \in Exported(r) : c[1] <= run[r].after
    /\ \A n \in Parts : Ids(run[r].part) \cap Ids(run[r].objects[n]) = {}

\* What is to be logged, in the order it is made sure of.
Written(r) ==
  /\ pc[r] \in {"entities", "log", "verify", "mark"} =>
       /\ run[r].part = {}
       /\ \A a \in Rows(run[r].day) : Holds(Exported(r), a)
  /\ pc[r] \in {"log", "verify", "mark"} =>
       \A a \in Rows(run[r].day) : HoldsEntities(run[r].objects, a)
  /\ pc[r] \in {"verify", "mark"} =>
       /\ log[run[r].day].status = "uploaded" /\ log[run[r].day].objects = run[r].objects
       /\ \A n \in PartNo : run[r].objects[n] = {} => store[run[r].day][n] = {}
  /\ pc[r] = "mark" => store[run[r].day] = run[r].objects
  /\ pc[r] = "prune" => Sealed(run[r].day)

\* The objects of a sealed day are those of its log and hold all its rows,
\* deleted or not.
SealedKept ==
  /\ \A a \in pruned : Sealed(DayOf[a])
  /\ \A d \in Day : Sealed(d) =>
       /\ store[d] = log[d].objects /\ Apart(log[d].objects)
       /\ \A a \in Rows(d) \cup {b \in pruned : DayOf[b] = d} :
            /\ Holds(PartsOf(log[d].objects), a)
            /\ HoldsEntities(log[d].objects, a)
            /\ a \notin LastTry => state[a] = "enriched"

ArchiveInv ==
  /\ Settling /\ DaysOver /\ SealedKept
  /\ \A r \in Archiver : Exporting(r) /\ Reading(r) /\ Written(r)

IInv == Typed /\ ArchiveInv

-----------------------------------------------------------------------------
(* Records of a run *)

LEMMA NoRunRecord == NoRun \in RunRecord /\ NoLog \in LogRecord /\ NoObject \in [PartNo -> SUBSET Copy]
  BY DEF NoRun, RunRecord, NoLog, LogRecord, NoObject

LEMMA StartRecord ==
  ASSUME Typed, NEW r \in Archiver, NEW prune \in BOOLEAN, Start(r, prune)
  PROVE  /\ run' \in [Archiver -> RunRecord]
         /\ run'[r].days \subseteq Pending /\ run'[r].day = 0
  <1> DEFINE days == Lowest(Pending, MaxDays)
             new  == [NoRun EXCEPT !.days = days, !.prune = prune]
  <1>1. days \subseteq Pending /\ days \in SUBSET Day
    BY DEF Lowest, Pending
  <1> HIDE DEF days
  <1>2. new \in RunRecord /\ new.days = days /\ new.day = 0
    <2>1. NoRun.day = 0
      BY DEF NoRun
    <2> QED
      BY <1>1, <2>1, NoRunRecord DEF RunRecord
  <1>3. run' = [run EXCEPT ![r] = new] /\ run \in [Archiver -> RunRecord]
    BY DEF Start, Typed, days
  <1> HIDE DEF new
  <1>4. run'[r] = new
    BY <1>3
  <1> QED
    BY <1>1, <1>2, <1>3, <1>4

LEMMA BeginRecord ==
  ASSUME Typed, NEW r \in Archiver, NEW d \in run[r].days,
         run' = [run EXCEPT ![r] =
            [NoRun EXCEPT !.days = run[r].days \ {d}, !.day = d, !.prune = run[r].prune,
                          !.stats = Rows(d)]]
  PROVE  /\ run' \in [Archiver -> RunRecord]
         /\ run'[r].days \subseteq run[r].days /\ run'[r].day = d /\ d \in Day
         /\ run'[r].after = 0 /\ run'[r].part = {} /\ run'[r].objects = NoObject
  <1> DEFINE new == [NoRun EXCEPT !.days = run[r].days \ {d}, !.day = d, !.prune = run[r].prune,
                                  !.stats = Rows(d)]
  <1>1. run[r] \in RunRecord /\ run[r].days \ {d} \in SUBSET Day /\ d \in Day
        /\ run[r].prune \in BOOLEAN /\ Rows(d) \in SUBSET Article
    BY DEF Typed, RunRecord, Rows, Table
  <1>2. NoRun.after = 0 /\ NoRun.part = {} /\ NoRun.objects = NoObject
    BY DEF NoRun
  <1>3. /\ new \in RunRecord /\ new.days = run[r].days \ {d} /\ new.day = d
        /\ new.after = 0 /\ new.part = {} /\ new.objects = NoObject
    BY <1>1, <1>2, NoRunRecord DEF RunRecord
  <1> HIDE DEF new
  <1>4. run' = [run EXCEPT ![r] = new] /\ run \in [Archiver -> RunRecord]
    BY DEF Typed, new
  <1>5. run'[r] = new
    BY <1>4
  <1> QED
    BY <1>1, <1>3, <1>4, <1>5

\* The record of a run whose after, part and one object may change.
Wrote(me, after, part, n, object) ==
  [me EXCEPT !.after = after, !.part = part, !.objects = [me.objects EXCEPT ![n] = object]]
Added(objects, n, object) == [m \in PartNo |-> IF m = n THEN object ELSE objects[m]]

LEMMA PartRecord ==
  ASSUME NEW me \in RunRecord, NEW n \in Nat, NEW after \in Nat,
         NEW part \in SUBSET Copy, NEW object \in SUBSET Copy,
         NEW new, new = Wrote(me, after, part, n, object)
  PROVE  /\ new \in RunRecord
         /\ new.after = after /\ new.part = part
         /\ new.objects = Added(me.objects, n, object)
         /\ new.days = me.days /\ new.day = me.day
         /\ new.prune = me.prune /\ new.stats = me.stats
  <1>1. [me.objects EXCEPT ![n] = object] = Added(me.objects, n, object)
    BY DEF RunRecord, Added
  <1>2. Added(me.objects, n, object) \in [PartNo -> SUBSET Copy]
    BY DEF RunRecord, Added
  <1> QED
    BY <1>1, <1>2 DEF RunRecord, Wrote

LEMMA NextPartNat == ASSUME NEW r \in Archiver PROVE NextPart(r) \in Nat
  <1> DEFINE used == {n \in PartNo \ {EntPart} : run[r].objects[n] # {}}
  <1>1. IsFiniteSet(PartNo)
    BY FS_Interval, FS_CardinalityType, ArticleAssumption DEF PartNo
  <1>2. IsFiniteSet(used)
    BY <1>1, FS_Subset
  <1>3. Cardinality(used) \in Nat
    BY <1>2, FS_CardinalityType
  <1> QED
    BY <1>3 DEF NextPart

LEMMA LeastNumber ==
  ASSUME NEW T \in SUBSET Nat, T # {}
  PROVE  \E n \in T : \A m \in T : n <= m
  <1>1. PICK n \in T : \A m \in T : ~(<<m, n>> \in OpToRel(<, Nat))
    BY NatLessThanWellFounded, WFMin
  <1>2. \A m \in T : ~(m < n)
    BY <1>1 DEF OpToRel
  <1> QED
    BY <1>2

LEMMA PartOfArticles ==
  ASSUME NEW S \in SUBSET Article
  PROVE  IsFiniteSet(S) /\ Cardinality(S) \in Nat /\ \A a \in S : a \in Nat
  BY ArticleAssumption, FS_Subset, FS_CardinalityType

\* The last row of a page: one with the fewest above it has none above it.
LEMMA LastOfPage ==
  ASSUME NEW S \in SUBSET Article, S # {}
  PROVE  \E a \in S : \A b \in S : b <= a
  <1> DEFINE Above(a) == {b \in S : a < b}
             Sizes    == {Cardinality(Above(a)) : a \in S}
  <1>1. \A a \in S : Above(a) \in SUBSET Article /\ a \in Nat
    BY ArticleAssumption
  <1> HIDE DEF Above
  <1>2. Sizes \in SUBSET Nat /\ Sizes # {}
    BY <1>1, PartOfArticles
  <1>3. PICK n \in Sizes : \A m \in Sizes : n <= m
    BY <1>2, LeastNumber
  <1>4. PICK a \in S : n = Cardinality(Above(a))
    BY <1>3
  <1>5. ASSUME NEW b \in S, a < b PROVE FALSE
    <2>1. Above(b) \subseteq Above(a) /\ b \in Above(a) /\ b \notin Above(b)
      BY <1>1, <1>5 DEF Above
    <2>2. Cardinality(Above(b)) < Cardinality(Above(a))
      BY <1>1, <2>1, PartOfArticles, FS_Subset
    <2>3. n <= Cardinality(Above(b))
      BY <1>3
    <2> QED
      BY <1>1, <1>4, <2>2, <2>3, PartOfArticles
  <1> QED
    BY <1>1, <1>5

\* A page reaches from where the last one ended to its own last row.
LEMMA PageIsNext ==
  ASSUME NEW S \in SUBSET Article, NEW a \in S, NEW b \in Lowest(S, Page), a <= b
  PROVE  a \in Lowest(S, Page)
  <1> DEFINE Below(x) == {y \in S : y < x}
  <1>1. Below(a) \in SUBSET Article /\ Below(b) \in SUBSET Article /\ b \in S
    BY DEF Lowest
  <1>2. Below(a) \subseteq Below(b)
    <2>1. \A y \in S : y \in Nat
      BY PartOfArticles
    <2> QED
      BY <1>1, <2>1
  <1>3. Cardinality(Below(b)) < Page
    BY DEF Lowest
  <1> HIDE DEF Below
  <1>4. Cardinality(Below(a)) <= Cardinality(Below(b))
    BY <1>1, <1>2, PartOfArticles, FS_Subset
  <1>5. Cardinality(Below(a)) < Page
    BY <1>1, <1>3, <1>4, PartOfArticles, LimitAssumption
  <1> QED
    BY <1>5 DEF Lowest, Below

LEMMA ReadRecord ==
  ASSUME Typed, NEW r \in Archiver, ReadPage(r)
  PROVE  \E page \in SUBSET Article, last \in Article :
           LET part == run[r].part \cup {CopyOf(a) : a \in page} IN
           /\ page = Lowest({a \in Rows(run[r].day) : a > run[r].after}, Page)
           /\ last \in page /\ \A b \in page : b <= last
           /\ part \in SUBSET Copy /\ part # {}
           /\ \/ /\ run' = [run EXCEPT ![r] = [run[r] EXCEPT !.after = last, !.part = part]]
                 /\ UNCHANGED <<store, faults>>
              \/ /\ run' = [run EXCEPT ![r] = Wrote(run[r], last, {}, NextPart(r), part)]
                 /\ Put(run[r].day, NextPart(r), part)
  <1> DEFINE page == Lowest({a \in Rows(run[r].day) : a > run[r].after}, Page)
             last == CHOOSE a \in page : \A b \in page : b <= a
             part == run[r].part \cup {CopyOf(a) : a \in page}
  <1>1. page \in SUBSET Article /\ page # {}
    BY DEF Lowest, Rows, Table, ReadPage
  <1>2. last \in page /\ \A b \in page : b <= last
    BY <1>1, LastOfPage
  <1>3. part \in SUBSET Copy /\ part # {}
    <2>1. run[r].part \in SUBSET Copy
      BY DEF Typed, RunRecord
    <2>2. \A a \in page : CopyOf(a) \in Copy
      BY <1>1 DEF CopyOf, Copy, Content
    <2> QED
      BY <1>1, <2>1, <2>2
  <1>4. \/ /\ run' = [run EXCEPT ![r].after = last, ![r].part = part]
           /\ UNCHANGED <<store, faults>>
        \/ /\ run' = [run EXCEPT ![r].after = last, ![r].part = {},
                                 ![r].objects[NextPart(r)] = part]
           /\ Put(run[r].day, NextPart(r), part)
    BY DEF ReadPage
  <1> HIDE DEF page, last, part
  <1>5. run \in [Archiver -> RunRecord]
    BY DEF Typed
  <1>6. [run EXCEPT ![r].after = last, ![r].part = part] =
          [run EXCEPT ![r] = [run[r] EXCEPT !.after = last, !.part = part]]
    BY <1>5 DEF RunRecord
  <1>7. [run EXCEPT ![r].after = last, ![r].part = {}, ![r].objects[NextPart(r)] = part] =
          [run EXCEPT ![r] = Wrote(run[r], last, {}, NextPart(r), part)]
    BY <1>5 DEF RunRecord, Wrote
  <1> QED
    BY <1>1, <1>2, <1>3, <1>4, <1>6, <1>7 DEF page, part

\* The last part is uploaded.
LEMMA EndRecord ==
  ASSUME Typed, NEW r \in Archiver, EndPages(r)
  PROVE  \/ run[r].part = {} /\ UNCHANGED <<run, store, faults>>
         \/ /\ run[r].part # {}
            /\ run' = [run EXCEPT ![r] = Wrote(run[r], run[r].after, {}, NextPart(r), run[r].part)]
            /\ Put(run[r].day, NextPart(r), run[r].part)
  <1>1. run \in [Archiver -> RunRecord]
    BY DEF Typed
  <1>2. [run EXCEPT ![r].part = {}, ![r].objects[NextPart(r)] = run[r].part] =
          [run EXCEPT ![r] = Wrote(run[r], run[r].after, {}, NextPart(r), run[r].part)]
    BY <1>1 DEF RunRecord, Wrote
  <1> QED
    BY <1>2 DEF EndPages

Tagged(r) == {<<a, "entities">> : a \in {b \in Rows(run[r].day) : state[b] = "enriched"}}

LEMMA EntitiesRecord ==
  ASSUME Typed, NEW r \in Archiver, ExportEntities(r)
  PROVE  /\ run' = [run EXCEPT ![r] = Wrote(run[r], run[r].after, run[r].part, EntPart, Tagged(r))]
         /\ Tagged(r) \in SUBSET Copy
         /\ UNCHANGED <<store, faults>> \/ Put(run[r].day, EntPart, Tagged(r))
  <1>1. run \in [Archiver -> RunRecord]
    BY DEF Typed
  <1>2. [run EXCEPT ![r].objects[EntPart] = Tagged(r)] =
          [run EXCEPT ![r] = Wrote(run[r], run[r].after, run[r].part, EntPart, Tagged(r))]
    BY <1>1 DEF RunRecord, Wrote
  <1>3. Tagged(r) \in SUBSET Copy
    BY DEF Tagged, Copy, Content, Rows, Table
  <1> QED
    BY <1>2, <1>3 DEF ExportEntities, Tagged

-----------------------------------------------------------------------------
(* Types *)

LEMMA FaultCounted ==
  faults \in 0 .. MaxFaults /\ (Fault \/ UNCHANGED faults) => faults' \in 0 .. MaxFaults
  BY LimitAssumption DEF Fault

LEMMA PutTypes ==
  ASSUME Typed, NEW d \in Day, NEW n \in Nat, NEW rows \in SUBSET Copy, Put(d, n, rows)
  PROVE  /\ store' \in [Day -> [PartNo -> SUBSET Copy]]
         /\ \A e \in Day : e # d => store'[e] = store[e]
         /\ faults' \in 0 .. MaxFaults
  <1>1. store \in [Day -> [PartNo -> SUBSET Copy]] /\ faults \in 0 .. MaxFaults
    BY DEF Typed
  <1>2. PICK object \in SUBSET Copy : store' = [store EXCEPT ![d][n] = object]
    BY DEF Put
  <1>3. Fault \/ UNCHANGED faults
    BY DEF Put
  <1>4. [store[d] EXCEPT ![n] = object] \in [PartNo -> SUBSET Copy]
    BY <1>1
  <1>5. store' = [store EXCEPT ![d] = [store[d] EXCEPT ![n] = object]]
    BY <1>2
  <1> QED
    BY <1>1, <1>3, <1>4, <1>5, FaultCounted

LEMMA GotoTypes ==
  ASSUME Typed, NEW r \in Archiver, NEW loc \in Location, Goto(r, loc)
  PROVE  pc' \in [Archiver -> Location] /\ pc'[r] = loc
  BY DEF Goto, Typed

\* Where a run goes on from a place in its loop.
LEMMA PlaceTypes ==
  ASSUME Typed, NEW r \in Archiver, Advance(r) \/ FailDay(r) \/ Die(r)
  PROVE  pc' \in [Archiver -> Location]
  <1>1. pc \in [Archiver -> Location]
    BY DEF Typed
  <1> QED
    BY <1>1 DEF Advance, FailDay, Die, Goto, Location, BeginDay, EndRun, ReadPage, EndPages,
      ExportEntities, LogUpload, Verify, MarkVerified, PruneDay

LEMMA DayOfRun ==
  ASSUME Typed, DaysOver, NEW r \in Archiver, pc[r] \notin {"idle", "next"}
  PROVE  run[r].day \in Day
  BY DEF DaysOver

\* The run goes on after an export, at the record new, having put one object at most.
LEMMA ExportTypes ==
  ASSUME Typed, NEW r \in Archiver, run[r].day \in Day,
         run' \in [Archiver -> RunRecord], pc' \in [Archiver -> Location],
         NEW n \in Nat, NEW rows \in SUBSET Copy,
         UNCHANGED <<store, faults>> \/ Put(run[r].day, n, rows),
         UNCHANGED <<tableVars, log>>
  PROVE  Typed'
  <1>1. store' \in [Day -> [PartNo -> SUBSET Copy]] /\ faults' \in 0 .. MaxFaults
    BY PutTypes DEF Typed
  <1> QED
    BY <1>1 DEF Typed, tableVars

LEMMA ExportedIs ==
  ASSUME NEW r \in Archiver
  PROVE  Exported(r) = PartsOf(run[r].objects) \cup run[r].part
  BY DEF Exported, PartsOf, Parts

LEMMA CountTypes ==
  ASSUME Typed, NEW r \in Archiver
  PROVE  Cardinality(Exported(r)) \in Nat
  <1>1. IsFiniteSet(Copy)
    <2>1. IsFiniteSet(Article) /\ IsFiniteSet(Content)
      <3>1. Content = {"bare"} \cup {"enriched"} \cup {"entities"}
        BY DEF Content
      <3> QED
        BY <3>1, ArticleAssumption, FS_Singleton, FS_Union
    <2> QED
      BY <2>1, FS_Product DEF Copy
  <1>2. Exported(r) \in SUBSET Copy
    <2>1. run[r] \in RunRecord
      BY DEF Typed
    <2>2. \A n \in PartNo : run[r].objects[n] \in SUBSET Copy
      BY <2>1 DEF RunRecord
    <2>3. run[r].part \in SUBSET Copy
      BY <2>1 DEF RunRecord
    <2>4. PartsOf(run[r].objects) \in SUBSET Copy
      BY <2>2 DEF PartsOf, Parts
    <2> QED
      BY <2>3, <2>4, ExportedIs
  <1> QED
    BY <1>1, <1>2, FS_Subset, FS_CardinalityType

LEMMA AdvanceTypes ==
  ASSUME Typed, DaysOver, NEW r \in Archiver, Advance(r) \/ FailDay(r) \/ Die(r)
  PROVE  Typed'
  <1>1. pc' \in [Archiver -> Location]
    BY PlaceTypes
  <1>2. CASE BeginDay(r)
    <2>1. PICK d \in run[r].days :
            run' = [run EXCEPT ![r] =
              [NoRun EXCEPT !.days = run[r].days \ {d}, !.day = d, !.prune = run[r].prune,
                            !.stats = Rows(d)]]
      BY <1>2 DEF BeginDay, Lowest
    <2>2. run' \in [Archiver -> RunRecord]
      BY <2>1, BeginRecord
    <2> QED
      BY <1>1, <1>2, <2>2 DEF BeginDay, Typed, tableVars
  <1>3. CASE EndRun(r) \/ Die(r)
    <2>1. /\ run' = [run EXCEPT ![r] = NoRun] /\ UNCHANGED <<tableVars, log, store>>
          /\ Fault \/ UNCHANGED faults
      BY <1>3 DEF EndRun, Die
    <2>2. run' \in [Archiver -> RunRecord]
      BY <2>1, NoRunRecord DEF Typed
    <2> QED
      BY <1>1, <2>1, <2>2, FaultCounted DEF Typed, tableVars
  <1>4. CASE ReadPage(r)
    <2>1. PICK page \in SUBSET Article, last \in Article, part \in SUBSET Copy :
           \/ /\ run' = [run EXCEPT ![r] = [run[r] EXCEPT !.after = last, !.part = part]]
              /\ UNCHANGED <<store, faults>>
           \/ /\ run' = [run EXCEPT ![r] = Wrote(run[r], last, {}, NextPart(r), part)]
              /\ Put(run[r].day, NextPart(r), part)
      BY <1>4, ReadRecord
    <2>2. last \in Nat /\ run[r] \in RunRecord /\ run \in [Archiver -> RunRecord]
      BY ArticleAssumption DEF Typed
    <2>3. run' \in [Archiver -> RunRecord]
      <3>1. [run[r] EXCEPT !.after = last, !.part = part] \in RunRecord
        BY <2>2 DEF RunRecord
      <3>2. ASSUME run' = [run EXCEPT ![r] = Wrote(run[r], last, {}, NextPart(r), part)]
            PROVE  run' \in [Archiver -> RunRecord]
        BY <2>2, <3>2, NextPartNat, PartRecord
      <3> QED
        BY <2>1, <2>2, <3>1, <3>2
    <2>4. run[r].day \in Day /\ UNCHANGED <<tableVars, log>>
      BY <1>4, DayOfRun DEF ReadPage
    <2> QED
      BY <1>1, <2>1, <2>3, <2>4, NextPartNat, ExportTypes
  <1>5. CASE EndPages(r)
    <2>1. run[r] \in RunRecord /\ run[r].part \in SUBSET Copy /\ run[r].after \in Nat
          /\ run \in [Archiver -> RunRecord]
      BY DEF Typed, RunRecord
    <2>2. run' \in [Archiver -> RunRecord]
      BY <1>5, <2>1, EndRecord, NextPartNat, PartRecord
    <2>3. run[r].day \in Day /\ UNCHANGED <<tableVars, log>>
      BY <1>5, DayOfRun DEF EndPages
    <2> QED
      BY <1>1, <1>5, <2>1, <2>2, <2>3, NextPartNat, EndRecord, ExportTypes
  <1>6. CASE ExportEntities(r)
    <2>1. run[r] \in RunRecord /\ run[r].part \in SUBSET Copy /\ run[r].after \in Nat /\ EntPart \in Nat
      BY DEF Typed, RunRecord, EntPart
    <2>2. run' \in [Archiver -> RunRecord]
      <3>1. /\ run' = [run EXCEPT ![r] = Wrote(run[r], run[r].after, run[r].part, EntPart, Tagged(r))]
            /\ Tagged(r) \in SUBSET Copy
        BY <1>6, EntitiesRecord
      <3>2. Wrote(run[r], run[r].after, run[r].part, EntPart, Tagged(r)) \in RunRecord
        BY <2>1, <3>1, PartRecord
      <3> QED
        BY <3>1, <3>2 DEF Typed
    <2>3. run[r].day \in Day /\ UNCHANGED <<tableVars, log>>
      BY <1>6, DayOfRun DEF ExportEntities
    <2> QED
      BY <1>1, <1>6, <2>1, <2>2, <2>3, EntitiesRecord, ExportTypes
  <1>7. CASE LogUpload(r)
    <2>1. run[r].day \in Day /\ run[r] \in RunRecord
      BY <1>7, DayOfRun DEF LogUpload, Typed
    <2>2. store' \in [Day -> [PartNo -> SUBSET Copy]]
      <3>1. [n \in PartNo |-> IF n \in Kept(r) THEN store[run[r].day][n] ELSE {}]
              \in [PartNo -> SUBSET Copy]
        BY <2>1 DEF Typed
      <3> QED
        BY <1>7, <2>1, <3>1 DEF LogUpload, Typed
    <2>3. log' \in [Day -> LogRecord]
      <3>1. [status |-> "uploaded", rows |-> Cardinality(Exported(r)),
             objects |-> run[r].objects, prunedRows |-> 0] \in LogRecord
        BY <2>1, CountTypes DEF LogRecord, RunRecord
      <3> QED
        BY <1>7, <2>1, <3>1 DEF LogUpload, Typed
    <2>4. UNCHANGED <<today, state, pruned, purged, run>> /\ faults' \in 0 .. MaxFaults
      BY <1>7, FaultCounted DEF LogUpload, tableVars, Typed
    <2> QED
      BY <1>1, <2>2, <2>3, <2>4 DEF Typed
  <1>8. CASE Verify(r)
    BY <1>1, <1>8 DEF Verify, Typed, tableVars
  <1>9. CASE MarkVerified(r)
    <2>1. run[r].day \in Day /\ log[run[r].day] \in LogRecord /\ log \in [Day -> LogRecord]
      BY <1>9, DayOfRun DEF MarkVerified, Typed
    <2>2. log' = [log EXCEPT ![run[r].day] = [log[run[r].day] EXCEPT !.status =
             IF log[run[r].day].status = "uploaded" THEN "verified" ELSE log[run[r].day].status]]
      BY <1>9 DEF MarkVerified
    <2>3. log' \in [Day -> LogRecord]
      <3>1. (IF log[run[r].day].status = "uploaded" THEN "verified" ELSE log[run[r].day].status)
              \in {"none", "uploaded", "verified", "pruned"}
        BY <2>1 DEF LogRecord
      <3>2. [log[run[r].day] EXCEPT !.status =
               IF log[run[r].day].status = "uploaded" THEN "verified" ELSE log[run[r].day].status]
              \in LogRecord
        BY <2>1, <3>1 DEF LogRecord
      <3> QED
        BY <2>1, <2>2, <3>2
    <2> QED
      BY <1>1, <1>9, <2>3 DEF MarkVerified, Typed, tableVars
  <1>10. CASE FailDay(r)
    BY <1>1, <1>10, FaultCounted DEF FailDay, Typed, tableVars
  <1>11. CASE PruneDay(r)
    <2> DEFINE d == run[r].day
               doomed == Lowest(Rows(d), PruneChunk)
    <2>1. d \in Day /\ log[d] \in LogRecord /\ log \in [Day -> LogRecord]
          /\ doomed \in SUBSET Article /\ Cardinality(doomed) \in Nat
      BY <1>11, DayOfRun, PartOfArticles DEF PruneDay, Typed, Lowest, Rows, Table
    <2>2. \/ UNCHANGED <<pruned, log>>
          \/ /\ pruned' = pruned \cup doomed
             /\ log' = [log EXCEPT
                  ![d].prunedRows = @ + Cardinality(doomed),
                  ![d].status = IF doomed = Rows(d) THEN "pruned" ELSE @]
      BY <1>11 DEF PruneDay
    <2> HIDE DEF d, doomed
    <2>3. log' \in [Day -> LogRecord] /\ pruned' \subseteq Article
      <3>1. CASE UNCHANGED <<pruned, log>>
        BY <2>1, <3>1 DEF Typed
      <3>2. CASE /\ pruned' = pruned \cup doomed
                 /\ log' = [log EXCEPT
                      ![d].prunedRows = @ + Cardinality(doomed),
                      ![d].status = IF doomed = Rows(d) THEN "pruned" ELSE @]
        <4> DEFINE status == IF doomed = Rows(d) THEN "pruned" ELSE log[d].status
                   number == log[d].prunedRows + Cardinality(doomed)
        <4>1. status \in {"none", "uploaded", "verified", "pruned"} /\ number \in Nat
          BY <2>1 DEF LogRecord
        <4>2. [log EXCEPT ![d].prunedRows = @ + Cardinality(doomed),
                          ![d].status = IF doomed = Rows(d) THEN "pruned" ELSE @] =
              [log EXCEPT ![d] = [log[d] EXCEPT !.prunedRows = number, !.status = status]]
          BY <2>1 DEF LogRecord
        <4> HIDE DEF status, number
        <4>3. [log[d] EXCEPT !.prunedRows = number, !.status = status] \in LogRecord
          BY <2>1, <4>1 DEF LogRecord
        <4> QED
          BY <2>1, <3>2, <4>2, <4>3 DEF Typed
      <3> QED
        BY <2>2, <3>1, <3>2
    <2>4. UNCHANGED <<today, state, purged, store, run, faults>>
      BY <1>11 DEF PruneDay
    <2> QED
      BY <1>1, <2>3, <2>4 DEF Typed
  <1> QED
    BY <1>2, <1>3, <1>4, <1>5, <1>6, <1>7, <1>8, <1>9, <1>10, <1>11 DEF Advance

-----------------------------------------------------------------------------
(* Parts *)

\* A part that is not empty and repeats no article gets the next number.
LEMMA AddPart ==
  ASSUME NEW objects \in [PartNo -> SUBSET Copy], Apart(objects), Numbered(objects),
         NEW part \in SUBSET Copy, part # {},
         \A n \in Parts : Ids(part) \cap Ids(objects[n]) = {},
         NEW k, k = Cardinality(Used(objects)) + 1
  PROVE  /\ k \in Parts /\ objects[k] = {}
         /\ Apart(Added(objects, k, part)) /\ Numbered(Added(objects, k, part))
         /\ PartsOf(Added(objects, k, part)) = PartsOf(objects) \cup part
  <1> DEFINE new  == Added(objects, k, part)
             used == Used(objects)
             j    == Cardinality(used)
  <1>1. IsFiniteSet(Article) /\ Cardinality(Article) \in Nat /\ IsFiniteSet(PartNo)
    BY ArticleAssumption, FS_CardinalityType, FS_Interval DEF PartNo
  <1>2. Parts = 1 .. Cardinality(Article) /\ PartNo = 0 .. Cardinality(Article)
    BY <1>1 DEF Parts, PartNo, EntPart
  <1>3. used \in SUBSET PartNo
    BY DEF Parts, Used
  <1>4. j \in Nat
    BY <1>1, <1>3, FS_Subset, FS_CardinalityType
  <1>5. used = 1 .. j
    BY DEF Numbered
  <1>6. k = j + 1
    OBVIOUS
  <1> HIDE DEF j
  <1>7. k \in Parts
    <2> SUFFICES ASSUME Cardinality(Article) < k PROVE FALSE
      BY <1>1, <1>2, <1>4, <1>6
    <2> DEFINE at(n) == IF n = k THEN part ELSE objects[n]
               f == [n \in 1 .. k |-> CHOOSE a \in Article : a \in Ids(at(n))]
    <2>1. \A n \in 1 .. k : at(n) \in SUBSET Copy /\ at(n) # {}
      <3>1. \A n \in 1 .. k : n # k => n \in used
        BY <1>4, <1>5, <1>6
      <3>2. \A n \in used : objects[n] \in SUBSET Copy /\ objects[n] # {}
        BY <1>3 DEF Used
      <3> QED
        BY <3>1, <3>2
    <2>2. \A n \in 1 .. k : f[n] \in Article /\ f[n] \in Ids(at(n))
      <3> TAKE n \in 1 .. k
      <3> HIDE DEF at
      <3>1. \E a \in Article : a \in Ids(at(n))
        BY <2>1 DEF Ids, Copy
      <3> QED
        BY <3>1
    <2>3. f \in [1 .. k -> Article]
      BY <2>2
    <2>4. IsFiniteSet(1 .. k) /\ Cardinality(1 .. k) = k
      BY <1>4, <1>6, FS_Interval
    <2>5. PICK x \in 1 .. k, y \in 1 .. k : x # y /\ f[x] = f[y]
      <3> DEFINE S == 1 .. k
      <3>1. f \in [S -> Article] /\ IsFiniteSet(S) /\ Cardinality(Article) < Cardinality(S)
        BY <2>3, <2>4
      <3> HIDE DEF f, S
      <3>2. \E x, y \in S : x # y /\ f[x] = f[y]
        BY <1>1, <3>1, FS_PigeonHole
      <3> QED
        BY <3>2 DEF S
    <2>6. \A m, n \in 1 .. k : m # n => Ids(at(m)) \cap Ids(at(n)) = {}
      <3>1. \A n \in 1 .. k : n # k => n \in Parts
        BY <1>4, <1>5, <1>6 DEF Used
      <3> QED
        BY <3>1 DEF Apart
    <2> QED
      BY <2>2, <2>5, <2>6
  <1>8. objects[k] = {}
    <2>1. k \notin used
      BY <1>4, <1>5, <1>6
    <2> QED
      BY <1>7, <2>1 DEF Used
  <1>9. \A n \in Parts : new[n] = IF n = k THEN part ELSE objects[n]
    BY DEF Parts, Added
  <1> HIDE DEF new
  <1>10. Apart(new)
    <2> SUFFICES ASSUME NEW m \in Parts, NEW n \in Parts, m # n
                 PROVE  Ids(new[m]) \cap Ids(new[n]) = {}
      BY DEF Apart
    <2>1. CASE m = k
      <3>1. new[m] = part /\ new[n] = objects[n]
        BY <1>9, <2>1
      <3> QED
        BY <3>1
    <2>2. CASE n = k
      <3>1. new[n] = part /\ new[m] = objects[m]
        BY <1>9, <2>2
      <3> QED
        BY <3>1
    <2>3. CASE m # k /\ n # k
      <3>1. new[n] = objects[n] /\ new[m] = objects[m]
        BY <1>9, <2>3
      <3> QED
        BY <3>1 DEF Apart
    <2> QED
      BY <2>1, <2>2, <2>3
  <1>11. Numbered(new)
    <2> DEFINE usedNow == Used(new)
    <2>1. usedNow = used \cup {k}
      BY <1>7, <1>9 DEF Used
    <2>2. used \cup {k} = 1 .. k
      <3>1. (1 .. j) \cup {j + 1} = 1 .. (j + 1)
        BY <1>4
      <3> QED
        BY <1>5, <1>6, <3>1
    <2>3. Cardinality(1 .. k) = k
      BY <1>4, <1>6, FS_Interval
    <2>4. usedNow = 1 .. Cardinality(usedNow)
      BY <2>1, <2>2, <2>3
    <2> QED
      BY <2>4 DEF Numbered
  <1>12. PartsOf(new) = PartsOf(objects) \cup part
    BY <1>7, <1>8, <1>9 DEF PartsOf
  <1> QED
    BY <1>7, <1>8, <1>10, <1>11, <1>12 DEF new

LEMMA NextPartIs ==
  ASSUME NEW r \in Archiver
  PROVE  NextPart(r) = Cardinality(Used(run[r].objects)) + 1
  BY DEF NextPart, Parts, Used

-----------------------------------------------------------------------------
(* The table's other writers *)

LEMMA TableInv ==
  ASSUME IInv, Typed', UNCHANGED <<pruned, log, store, pc, run>>,
         \A d : LeftHotWindow(d) /\ d \in Day => LeftHotWindow(d)' /\ Rows(d)' \subseteq Rows(d),
         \A a \in Article \ LastTry :
           state'[a] \in {"raw", "enriched"} /\ (state[a] = "enriched" => state'[a] = "enriched")
  PROVE  ArchiveInv'
  <1>1. Typed /\ Settling /\ DaysOver /\ SealedKept
    BY DEF IInv, ArchiveInv
  <1>2. \A d \in Day : Sealed(d)' <=> Sealed(d)
    BY DEF Sealed
  <1>3. \A r \in Archiver : pc[r] \notin {"idle", "next"} => Rows(run[r].day)' \subseteq Rows(run[r].day)
                                                        /\ run[r].day \in Day
    BY <1>1 DEF DaysOver
  <1>4. Settling'
    BY DEF Settling
  <1>5. DaysOver'
    <2>1. \A r \in Archiver : run[r].days \subseteq Day
      BY <1>1 DEF Typed, RunRecord
    <2> QED
      BY <1>1, <1>2, <2>1 DEF DaysOver
  <1>6. \A d : Rows(d) \subseteq Article /\ pruned \subseteq Article
    BY <1>1 DEF Rows, Table, Typed
  <1>7. SealedKept'
    <2>1. \A a \in pruned : Sealed(DayOf[a])'
      <3>1. \A a \in pruned : DayOf[a] \in Day
        BY <1>1 DEF Typed, Day
      <3> QED
        BY <1>1, <1>2, <3>1 DEF SealedKept
    <2>2. ASSUME NEW d \in Day, Sealed(d)
          PROVE  /\ store[d] = log[d].objects /\ Apart(log[d].objects)
                 /\ \A a \in Rows(d)' \cup {b \in pruned : DayOf[b] = d} :
                      /\ Holds(PartsOf(log[d].objects), a)
                      /\ HoldsEntities(log[d].objects, a)
                      /\ a \notin LastTry => state'[a] = "enriched"
      <3>1. Rows(d)' \subseteq Rows(d)
        BY <1>1, <2>2 DEF DaysOver
      <3> QED
        BY <1>1, <1>6, <2>2, <3>1 DEF SealedKept
    <2> QED
      BY <1>2, <2>1, <2>2 DEF SealedKept
  <1>8. \A r \in Archiver : Exporting(r)'
    <2> SUFFICES ASSUME NEW r \in Archiver,
                        pc[r] \in {"pages", "entities", "log", "verify", "mark"}
                 PROVE  /\ ~Sealed(run[r].day)'
                        /\ \A a \in Rows(run[r].day)' \ LastTry : state'[a] = "enriched"
                        /\ Apart(run[r].objects) /\ Numbered(run[r].objects)
      BY DEF Exporting
    <2> QED
      BY <1>2, <1>3, <1>6 DEF IInv, ArchiveInv, Exporting
  <1>9. \A r \in Archiver : Reading(r)'
    BY <1>3 DEF IInv, ArchiveInv, Reading, Exported
  <1>10. \A r \in Archiver : Written(r)'
    BY <1>3, <1>2 DEF IInv, ArchiveInv, Written, Exported
  <1> QED
    BY <1>4, <1>5, <1>7, <1>8, <1>9, <1>10 DEF ArchiveInv

LEMMA NextDayInv ==
  ASSUME IInv, Typed', NextDay
  PROVE  ArchiveInv'
  <1>1. today \in Nat /\ Typed /\ Settling
    BY DEF IInv, Typed, ArchiveInv
  <1>2. today' = today + 1 /\ UNCHANGED <<state, pruned, purged, log, store, pc, run, faults>>
    BY DEF NextDay
  <1>3. ASSUME NEW d \in Day, LeftHotWindow(d) PROVE LeftHotWindow(d)' /\ Rows(d)' \subseteq Rows(d)
    <2>1. d \in Nat
      BY DayAssumption DEF Day
    <2>2. LeftHotWindow(d)' /\ d <= today
      BY <1>1, <1>2, <1>3, <2>1, LimitAssumption DEF LeftHotWindow
    <2> QED
      BY <1>2, <2>2 DEF Rows, Table
  <1> QED
    BY <1>1, <1>2, <1>3, TableInv DEF Settling

LEMMA EnrichInv ==
  ASSUME IInv, Typed', NEW a \in Article, Enrich(a)
  PROVE  ArchiveInv'
  <1>1. Typed /\ Settling /\ UNCHANGED <<today, pruned, purged, log, store, pc, run, faults>>
    BY DEF IInv, ArchiveInv, Enrich
  <1>2. \A d : LeftHotWindow(d)' = LeftHotWindow(d) /\ Rows(d)' = Rows(d)
    BY <1>1 DEF LeftHotWindow, Rows, Table
  <1>3. \A b \in Article \ LastTry :
          state'[b] \in {"raw", "enriched"} /\ (state[b] = "enriched" => state'[b] = "enriched")
    BY <1>1 DEF Enrich, Typed, Settling
  <1> QED
    BY <1>1, <1>2, <1>3, TableInv

LEMMA PurgeInv ==
  ASSUME IInv, Typed', NEW a \in Article, Purge(a)
  PROVE  ArchiveInv'
  <1>1. Settling /\ UNCHANGED <<today, state, pruned, log, store, pc, run, faults>> /\ purged \subseteq purged'
    BY DEF IInv, ArchiveInv, Purge
  <1>2. \A d : LeftHotWindow(d)' = LeftHotWindow(d) /\ Rows(d)' \subseteq Rows(d)
    BY <1>1 DEF LeftHotWindow, Rows, Table
  <1> QED
    BY <1>1, <1>2, TableInv DEF Settling

-----------------------------------------------------------------------------
(* A run, while no other goes on *)

LEMMA SameTable ==
  ASSUME UNCHANGED tableVars
  PROVE  /\ \A d : Rows(d)' = Rows(d) /\ LeftHotWindow(d)' = LeftHotWindow(d)
         /\ Settling => Settling'
  BY DEF tableVars, Rows, Table, LeftHotWindow, Settling

\* Sealed days are kept by a step that leaves their logs and objects alone.
LEMMA SealedSame ==
  ASSUME Typed, SealedKept, UNCHANGED tableVars,
         \A d \in Day : Sealed(d)' = Sealed(d),
         \A d \in Day : Sealed(d) => log'[d] = log[d] /\ store'[d] = store[d]
  PROVE  SealedKept'
  <1>1. UNCHANGED <<pruned, state>> /\ \A d : Rows(d)' = Rows(d)
    BY SameTable DEF tableVars
  <1>2. \A a \in pruned : DayOf[a] \in Day
    BY DEF Typed, Day
  <1>3. \A a \in pruned' : Sealed(DayOf[a])'
    BY <1>1, <1>2 DEF SealedKept
  <1>4. ASSUME NEW d \in Day, Sealed(d)'
        PROVE  /\ store'[d] = log'[d].objects /\ Apart(log'[d].objects)
               /\ \A a \in Rows(d)' \cup {b \in pruned' : DayOf[b] = d} :
                    /\ Holds(PartsOf(log'[d].objects), a)
                    /\ HoldsEntities(log'[d].objects, a)
                    /\ a \notin LastTry => state'[a] = "enriched"
    <2>1. Sealed(d) /\ log'[d] = log[d] /\ store'[d] = store[d]
      BY <1>4
    <2> QED
      BY <1>1, <2>1 DEF SealedKept
  <1> QED
    BY <1>3, <1>4 DEF SealedKept

\* Steps between the days: nothing is read or written but the row counts.
LEMMA BetweenInv ==
  ASSUME IInv, Typed', NEW r \in Archiver, \A q \in Archiver : q = r,
         UNCHANGED <<tableVars, log, store>>,
         pc'[r] \in {"idle", "next"},
         \A d \in run'[r].days \cup ({run'[r].day} \cap Day) : LeftHotWindow(d)
  PROVE  ArchiveInv'
  <1>1. Typed /\ Settling /\ DaysOver /\ SealedKept
    BY DEF IInv, ArchiveInv
  <1>2. \A d \in Day : Sealed(d)' = Sealed(d)
    BY DEF Sealed
  <1>3. SealedKept'
    BY <1>1, <1>2, SealedSame
  <1>4. Settling' /\ DaysOver'
    BY <1>1, <1>2, SameTable DEF DaysOver
  <1>5. Exporting(r)' /\ Reading(r)' /\ Written(r)'
    BY DEF Exporting, Reading, Written
  <1> QED
    BY <1>3, <1>4, <1>5 DEF ArchiveInv

LEMMA StartInv ==
  ASSUME IInv, Typed', NEW r \in Archiver, \A q \in Archiver : q = r,
         NEW prune \in BOOLEAN, Start(r, prune)
  PROVE  ArchiveInv'
  <1>1. UNCHANGED <<tableVars, log, store>> /\ pc'[r] = "next"
    BY DEF Start, Goto, IInv, Typed
  <1>2. run'[r].days \subseteq Pending /\ run'[r].day = 0
    BY StartRecord DEF IInv
  <1>3. \A d \in Pending : LeftHotWindow(d)
    BY DEF Pending
  <1>4. 0 \notin Day
    BY DayAssumption DEF Day
  <1> QED
    BY <1>1, <1>2, <1>3, <1>4, BetweenInv

LEMMA EmptyParts ==
  /\ Apart(NoObject) /\ Numbered(NoObject) /\ PartsOf(NoObject) = {}
  <1>1. \A n \in Parts : NoObject[n] = {}
    BY DEF NoObject, Parts
  <1>2. Apart(NoObject)
    BY <1>1 DEF Apart, Ids
  <1>3. PartsOf(NoObject) = {}
    BY <1>1 DEF PartsOf
  <1>4. Numbered(NoObject)
    <2>1. Used(NoObject) = {}
      BY <1>1 DEF Used
    <2>2. {} = 1 .. Cardinality({})
      BY FS_EmptySet
    <2> QED
      BY <2>1, <2>2 DEF Numbered
  <1> QED
    BY <1>2, <1>3, <1>4

LEMMA BeginDayInv ==
  ASSUME IInv, Typed', NEW r \in Archiver, \A q \in Archiver : q = r, BeginDay(r)
  PROVE  ArchiveInv'
  <1>1. Typed /\ Settling /\ DaysOver /\ SealedKept /\ UNCHANGED <<tableVars, log, store>>
    BY DEF IInv, ArchiveInv, BeginDay
  <1>2. PICK d \in run[r].days :
          /\ run' = [run EXCEPT ![r] =
               [NoRun EXCEPT !.days = run[r].days \ {d}, !.day = d, !.prune = run[r].prune,
                             !.stats = Rows(d)]]
          /\ \/ NeedsExport(d) /\ Waiting(d) # {} /\ Goto(r, "next")
             \/ NeedsExport(d) /\ Waiting(d) = {} /\ Goto(r, "pages")
             \/ ~NeedsExport(d) /\ Goto(r, IF run[r].prune THEN "prune" ELSE "next")
    BY DEF BeginDay, Lowest
  <1>3. /\ run'[r].days \subseteq run[r].days /\ run'[r].day = d /\ d \in Day
        /\ run'[r].after = 0 /\ run'[r].part = {} /\ run'[r].objects = NoObject
    BY <1>1, <1>2, BeginRecord
  <1>4. LeftHotWindow(d) /\ \A e \in run'[r].days \cup ({run'[r].day} \cap Day) : LeftHotWindow(e)
    BY <1>1, <1>3 DEF DaysOver
  <1>5. pc \in [Archiver -> Location]
    BY <1>1 DEF Typed
  <1>6. CASE Goto(r, "next")
    <2>1. pc'[r] = "next"
      BY <1>5, <1>6 DEF Goto
    <2> QED
      BY <1>1, <1>4, <2>1, BetweenInv
  <1>7. \A e \in Day : Sealed(e)' = Sealed(e)
    BY <1>1 DEF Sealed
  <1>8. SealedKept' /\ Settling' /\ DaysOver'
    BY <1>1, <1>3, <1>4, <1>7, SealedSame, SameTable DEF DaysOver
  <1>9. CASE NeedsExport(d) /\ Waiting(d) = {} /\ Goto(r, "pages")
    <2>1. pc'[r] = "pages"
      BY <1>5, <1>9 DEF Goto
    <2>2. ~Sealed(d)' /\ \A a \in Rows(d)' \ LastTry : state'[a] = "enriched"
      <3>1. ~Sealed(d)
        BY <1>9 DEF NeedsExport, Sealed
      <3>2. \A a \in Rows(d) \ LastTry : state[a] = "enriched"
        BY <1>1, <1>9 DEF Waiting, Settling, Rows, Table
      <3> QED
        BY <1>1, <1>3, <1>7, <3>1, <3>2, SameTable DEF tableVars
    <2>3. Exporting(r)'
      BY <1>3, <2>1, <2>2, EmptyParts DEF Exporting
    <2>4. Exported(r)' = {}
      <3>1. Exported(r)' = PartsOf(run'[r].objects) \cup run'[r].part
        BY DEF Exported, PartsOf, Parts
      <3> QED
        BY <1>3, <3>1, EmptyParts
    <2>5. Reading(r)'
      <3>1. \A a \in Rows(d)' : ~(a <= 0)
        <4>1. \A a \in Article : ~(a <= 0)
          BY ArticleAssumption
        <4> QED
          BY <4>1 DEF Rows, Table
      <3> QED
        BY <1>3, <2>4, <3>1 DEF Reading, Ids
    <2>6. Written(r)'
      BY <2>1 DEF Written
    <2> QED
      BY <1>8, <2>3, <2>5, <2>6 DEF ArchiveInv
  <1>10. CASE ~NeedsExport(d) /\ Goto(r, "prune")
    <2>1. pc'[r] = "prune"
      BY <1>5, <1>10 DEF Goto
    <2>2. Sealed(d)
      BY <1>1, <1>3, <1>10 DEF NeedsExport, Sealed, Typed, LogRecord
    <2>3. Exporting(r)' /\ Reading(r)' /\ Written(r)'
      BY <1>3, <1>7, <2>1, <2>2 DEF Exporting, Reading, Written
    <2> QED
      BY <1>8, <2>3 DEF ArchiveInv
  <1> QED
    BY <1>2, <1>6, <1>9, <1>10

LEMMA EndRunInv ==
  ASSUME IInv, Typed', NEW r \in Archiver, \A q \in Archiver : q = r,
         EndRun(r) \/ Die(r) \/ FailDay(r)
  PROVE  ArchiveInv'
  <1>1. Typed /\ DaysOver /\ UNCHANGED <<tableVars, log, store>>
    BY DEF IInv, ArchiveInv, EndRun, Die, FailDay
  <1>2. pc'[r] \in {"idle", "next"}
    BY <1>1 DEF EndRun, Die, FailDay, Goto, Typed
  <1>3. run'[r] = run[r] \/ (run'[r].days = {} /\ run'[r].day \notin Day)
    <2>1. 0 \notin Day
      BY DayAssumption DEF Day
    <2>2. run' = [run EXCEPT ![r] = NoRun] => run'[r].days = {} /\ run'[r].day = 0
      BY <1>1 DEF Typed, NoRun
    <2> QED
      BY <2>1, <2>2 DEF EndRun, Die, FailDay
  <1> QED
    BY <1>1, <1>2, <1>3, BetweenInv DEF DaysOver

\* A step of an export that puts objects of its own day at most.
LEMMA ExportInv ==
  ASSUME IInv, Typed', NEW r \in Archiver, \A q \in Archiver : q = r,
         pc[r] \in {"pages", "entities", "log"},
         UNCHANGED <<tableVars, log>>,
         \A e \in Day : e # run[r].day => store'[e] = store[e],
         run'[r].days = run[r].days, run'[r].day = run[r].day
  PROVE  /\ Settling' /\ DaysOver' /\ SealedKept'
         /\ ~Sealed(run[r].day)'
         /\ \A a \in Rows(run[r].day)' \ LastTry : state'[a] = "enriched"
  <1>1. Typed /\ Settling /\ DaysOver /\ SealedKept /\ Exporting(r) /\ run[r].day \in Day
    BY DEF IInv, ArchiveInv, DaysOver
  <1>2. \A e \in Day : Sealed(e)' = Sealed(e)
    BY DEF Sealed
  <1>3. ~Sealed(run[r].day) /\ \A a \in Rows(run[r].day) \ LastTry : state[a] = "enriched"
    BY <1>1 DEF Exporting
  <1>4. SealedKept'
    BY <1>1, <1>2, <1>3, SealedSame
  <1>5. Settling' /\ DaysOver'
    BY <1>1, <1>2, SameTable DEF DaysOver
  <1>6. PICK d \in Day : d = run[r].day
    BY <1>1
  <1>7. ~Sealed(d)' /\ \A a \in Rows(d)' \ LastTry : state'[a] = "enriched"
    BY <1>2, <1>3, <1>6, SameTable DEF tableVars
  <1>8. Sealed(run[r].day)' = Sealed(d)' /\ Rows(run[r].day)' = Rows(d)'
    BY <1>6 DEF Sealed, Rows
  <1> QED
    BY <1>4, <1>5, <1>7, <1>8

\* A copy of a row is as it will stay.
LEMMA CopyHolds ==
  ASSUME NEW a \in Article, a \notin LastTry => state[a] = "enriched",
         NEW copies, CopyOf(a) \in copies
  PROVE  Holds(copies, a)
  BY DEF Holds, CopyOf, Ids

LEMMA HoldsMore ==
  ASSUME NEW copies, NEW more, NEW a, Holds(copies, a), copies \subseteq more
  PROVE  Holds(more, a)
  BY DEF Holds, Ids

LEMMA ReadPageInv ==
  ASSUME IInv, Typed', NEW r \in Archiver, \A q \in Archiver : q = r, ReadPage(r)
  PROVE  ArchiveInv'
  <1> DEFINE objects == run[r].objects
  <1>0. PICK d \in Day : d = run[r].day
    BY DEF ReadPage, IInv, ArchiveInv, DaysOver
  <1>1. /\ Typed /\ pc[r] = "pages" /\ pc' = pc /\ UNCHANGED <<tableVars, log>>
        /\ run[r] \in RunRecord /\ objects \in [PartNo -> SUBSET Copy]
        /\ run[r].after \in Nat
        /\ Apart(objects) /\ Numbered(objects) /\ Reading(r)
        /\ \A a \in Rows(d) \ LastTry : state[a] = "enriched"
    BY <1>0 DEF ReadPage, IInv, ArchiveInv, Typed, RunRecord, Exporting
  <1>2. PICK page \in SUBSET Article, last \in Article, part \in SUBSET Copy :
          /\ part = run[r].part \cup {CopyOf(a) : a \in page}
          /\ page = Lowest({a \in Rows(d) : a > run[r].after}, Page)
          /\ last \in page /\ (\A b \in page : b <= last) /\ part # {}
          /\ \/ /\ run' = [run EXCEPT ![r] = [run[r] EXCEPT !.after = last, !.part = part]]
                /\ UNCHANGED <<store, faults>>
             \/ /\ run' = [run EXCEPT ![r] = Wrote(run[r], last, {}, NextPart(r), part)]
                /\ Put(run[r].day, NextPart(r), part)
    BY <1>0, <1>1, ReadRecord
  <1> HIDE DEF objects
  <1>3. page \subseteq Rows(d) /\ last \in Nat /\ run[r].after < last
        /\ \A a \in page : a > run[r].after /\ a \in Nat
    BY <1>1, <1>2, ArticleAssumption DEF Lowest
  <1>4. Exported(r) = PartsOf(objects) \cup run[r].part
    BY ExportedIs DEF objects
  <1>5. /\ \A c \in Exported(r) : c[1] <= run[r].after
        /\ \A a \in Rows(d) : a <= run[r].after => Holds(Exported(r), a)
        /\ \A n \in Parts : Ids(run[r].part) \cap Ids(objects[n]) = {}
    BY <1>0, <1>1 DEF Reading, objects
  <1>6. \A n \in Parts : objects[n] \subseteq Exported(r)
    BY <1>4 DEF PartsOf
  <1>7. \A n \in Parts : Ids(part) \cap Ids(objects[n]) = {}
    <2> SUFFICES ASSUME NEW n \in Parts, NEW c \in part, NEW e \in objects[n], c[1] = e[1]
                 PROVE  FALSE
      BY DEF Ids
    <2>1. CASE c \in run[r].part
      BY <1>5, <2>1 DEF Ids
    <2>2. ASSUME NEW a \in page, c = CopyOf(a) PROVE FALSE
      <3>1. c[1] = a
        BY <2>2 DEF CopyOf
      <3>2. e[1] <= run[r].after /\ a > run[r].after /\ a \in Nat
        BY <1>3, <1>5, <1>6
      <3> QED
        BY <1>1, <3>1, <3>2
    <2> QED
      BY <1>2, <2>1, <2>2
  <1> DEFINE all == PartsOf(objects) \cup part
  <1>8. \A c \in all : c[1] <= last
    <2>1. \A a \in page : CopyOf(a)[1] = a
      BY DEF CopyOf
    <2>2. \A c \in Exported(r) : c[1] \in Nat
      <3>1. \A c \in Copy : c[1] \in Nat
        BY ArticleAssumption DEF Copy
      <3>2. Exported(r) \subseteq Copy
        <4>1. run[r].part \subseteq Copy /\ \A n \in Parts : objects[n] \subseteq Copy
          BY <1>1 DEF RunRecord, Parts
        <4> QED
          BY <1>4, <4>1 DEF PartsOf
      <3> QED
        BY <3>1, <3>2
    <2>3. \A c \in Exported(r) : c[1] <= last
      BY <1>1, <1>3, <1>5, <2>2
    <2>4. \A a \in page : CopyOf(a)[1] <= last
      BY <1>2, <2>1
    <2> QED
      BY <1>2, <1>4, <2>3, <2>4
  <1>9. \A a \in Rows(d) : a <= last => Holds(all, a)
    <2> SUFFICES ASSUME NEW a \in Rows(d), a <= last PROVE Holds(all, a)
      OBVIOUS
    <2>1. a \in Article /\ a \in Nat
      BY ArticleAssumption DEF Rows, Table
    <2>2. CASE a <= run[r].after
      <3>1. Exported(r) \subseteq all
        BY <1>2, <1>4
      <3> QED
        BY <1>5, <2>2, <3>1, HoldsMore
    <2>3. CASE ~(a <= run[r].after)
      <3> DEFINE rest == {b \in Rows(d) : b > run[r].after}
      <3>1. rest \in SUBSET Article /\ a \in rest /\ last \in Lowest(rest, Page)
        BY <1>1, <1>2, <2>1, <2>3 DEF Rows, Table
      <3>2. a \in page
        <4>1. a \in Lowest(rest, Page)
          BY <3>1, PageIsNext
        <4> QED
          BY <1>2, <4>1
      <3>3. CopyOf(a) \in all
        BY <1>2, <3>2
      <3>4. a \notin LastTry => state[a] = "enriched"
        BY <1>1
      <3> HIDE DEF all
      <3> QED
        BY <2>1, <3>3, <3>4, CopyHolds
    <2> QED
      BY <2>2, <2>3
  <1>10. Written(r)'
    BY <1>1 DEF Written
  <1>11. ASSUME run'[r].days = run[r].days, run'[r].day = d, run'[r].after = last,
               Exported(r)' = all,
               Apart(run'[r].objects), Numbered(run'[r].objects),
               \A n \in Parts : Ids(run'[r].part) \cap Ids(run'[r].objects[n]) = {},
               \A e \in Day : e # d => store'[e] = store[e]
        PROVE  ArchiveInv'
    <2>1. /\ Settling' /\ DaysOver' /\ SealedKept'
          /\ ~Sealed(run[r].day)'
          /\ \A a \in Rows(run[r].day)' \ LastTry : state'[a] = "enriched"
      BY <1>0, <1>1, <1>11, ExportInv
    <2>2. Exporting(r)'
      BY <1>11, <2>1 DEF Exporting
    <2>3. Rows(run[r].day)' = Rows(d)
      <3>1. Rows(d)' = Rows(d)
        BY <1>1, SameTable
      <3> QED
        BY <1>11, <3>1 DEF Rows
    <2>4. Reading(r)'
      BY <1>8, <1>9, <1>11, <2>3 DEF Reading
    <2> QED
      BY <1>10, <2>1, <2>2, <2>4 DEF ArchiveInv
  <1>12. CASE /\ run' = [run EXCEPT ![r] = [run[r] EXCEPT !.after = last, !.part = part]]
              /\ UNCHANGED <<store, faults>>
    <2>1. run'[r] = [run[r] EXCEPT !.after = last, !.part = part]
      BY <1>1, <1>12 DEF Typed
    <2>2. /\ run'[r].days = run[r].days /\ run'[r].day = d /\ run'[r].after = last
          /\ run'[r].part = part /\ run'[r].objects = objects
      BY <1>0, <1>1, <2>1 DEF RunRecord, objects
    <2>3. Exported(r)' = all
      <3>1. Exported(r)' = PartsOf(run'[r].objects) \cup run'[r].part
        BY DEF Exported, PartsOf, Parts
      <3> QED
        BY <2>2, <3>1
    <2> QED
      BY <1>1, <1>7, <1>11, <1>12, <2>2, <2>3
  <1>13. CASE /\ run' = [run EXCEPT ![r] = Wrote(run[r], last, {}, NextPart(r), part)]
              /\ Put(run[r].day, NextPart(r), part)
    <2> DEFINE k == NextPart(r)
               new == Added(objects, k, part)
    <2>1. k = Cardinality(Used(objects)) + 1 /\ k \in Nat
      BY NextPartIs, NextPartNat DEF objects
    <2>2. /\ run'[r].days = run[r].days /\ run'[r].day = d /\ run'[r].after = last
          /\ run'[r].part = {} /\ run'[r].objects = new
      <3>1. objects = run[r].objects
        BY DEF objects
      <3>2. part \in SUBSET Copy /\ {} \in SUBSET Copy /\ last \in Nat
        BY <1>3
      <3>3. /\ run'[r].after = last /\ run'[r].part = {}
            /\ run'[r].objects = Added(run[r].objects, NextPart(r), part)
            /\ run'[r].days = run[r].days /\ run'[r].day = run[r].day
        <4> DEFINE wrote == Wrote(run[r], last, {}, NextPart(r), part)
        <4>1. /\ wrote.after = last /\ wrote.part = {}
              /\ wrote.objects = Added(run[r].objects, NextPart(r), part)
              /\ wrote.days = run[r].days /\ wrote.day = run[r].day
          BY <1>1, <3>2, NextPartNat, PartRecord
        <4> HIDE DEF wrote
        <4>2. run'[r] = wrote
          BY <1>1, <1>13 DEF Typed, wrote
        <4> QED
          BY <4>1, <4>2
      <3> QED
        BY <1>0, <3>1, <3>3
    <2>3. \A e \in Day : e # d => store'[e] = store[e]
      BY <1>1, <1>13, <2>1, <1>0, PutTypes
    <2> HIDE DEF k
    <2>4. Apart(new) /\ Numbered(new) /\ PartsOf(new) = all
      <3>2. objects \in [PartNo -> SUBSET Copy] /\ part # {} /\ part \in SUBSET Copy
        BY <1>1, <1>2
      <3> HIDE DEF all
      <3>3. Apart(new) /\ Numbered(new) /\ PartsOf(new) = PartsOf(objects) \cup part
        BY <1>1, <1>7, <2>1, <3>2, AddPart
      <3> QED
        BY <3>3 DEF all
    <2>5. Exported(r)' = all
      <3>1. Exported(r)' = PartsOf(run'[r].objects) \cup run'[r].part
        BY DEF Exported, PartsOf, Parts
      <3> QED
        BY <2>2, <2>4, <3>1
    <2>6. Ids({}) = {}
      BY DEF Ids
    <2> QED
      BY <1>11, <2>2, <2>3, <2>4, <2>5, <2>6
  <1> QED
    BY <1>0, <1>2, <1>12, <1>13

LEMMA EndPagesInv ==
  ASSUME IInv, Typed', NEW r \in Archiver, \A q \in Archiver : q = r, EndPages(r)
  PROVE  ArchiveInv'
  <1> DEFINE objects == run[r].objects
             part    == run[r].part
  <1>0. PICK d \in Day : d = run[r].day
    BY DEF EndPages, IInv, ArchiveInv, DaysOver
  <1>1. /\ Typed /\ pc[r] = "pages" /\ UNCHANGED <<tableVars, log>>
        /\ run[r] \in RunRecord /\ objects \in [PartNo -> SUBSET Copy] /\ part \in SUBSET Copy
        /\ run[r].after \in Nat
        /\ Apart(objects) /\ Numbered(objects)
        /\ \A n \in Parts : Ids(part) \cap Ids(objects[n]) = {}
    BY DEF EndPages, IInv, ArchiveInv, Typed, RunRecord, Exporting, Reading
  <1>2. \A a \in Rows(d) : Holds(Exported(r), a)
    <2>1. \A a \in Rows(d) : a <= run[r].after => Holds(Exported(r), a)
      BY <1>0, <1>1 DEF IInv, ArchiveInv, Reading
    <2>2. \A a \in Rows(d) : ~(a > run[r].after) /\ a \in Nat
      BY <1>0, ArticleAssumption DEF EndPages, Rows, Table
    <2> QED
      BY <1>1, <2>1, <2>2
  <1>3. Exported(r) = PartsOf(objects) \cup part
    BY ExportedIs
  <1>4. pc'[r] \in {"entities", "next"}
    BY <1>1 DEF EndPages, Goto, Typed
  <1>5. ASSUME run'[r].days = run[r].days, run'[r].day = d, run'[r].part = {},
               PartsOf(run'[r].objects) = Exported(r),
               Apart(run'[r].objects), Numbered(run'[r].objects),
               \A e \in Day : e # d => store'[e] = store[e]
        PROVE  ArchiveInv'
    <2>1. /\ Settling' /\ DaysOver' /\ SealedKept'
          /\ ~Sealed(run[r].day)'
          /\ \A a \in Rows(run[r].day)' \ LastTry : state'[a] = "enriched"
      BY <1>0, <1>1, <1>5, ExportInv
    <2>2. Exporting(r)'
      BY <1>5, <2>1 DEF Exporting
    <2>3. Rows(run[r].day)' = Rows(d)
      <3>1. Rows(d)' = Rows(d)
        BY <1>1, SameTable
      <3> QED
        BY <1>5, <3>1 DEF Rows
    <2>4. Exported(r)' = Exported(r)
      <3>1. Exported(r)' = PartsOf(run'[r].objects) \cup run'[r].part
        BY DEF Exported, PartsOf, Parts
      <3> QED
        BY <1>5, <3>1
    <2>5. Written(r)' /\ Reading(r)'
      BY <1>2, <1>4, <1>5, <2>3, <2>4 DEF Written, Reading
    <2> QED
      BY <2>1, <2>2, <2>5 DEF ArchiveInv
  <1>6. CASE part = {} /\ UNCHANGED <<run, store, faults>>
    <2>1. PartsOf(objects) = Exported(r)
      BY <1>3, <1>6
    <2> QED
      BY <1>0, <1>1, <1>5, <1>6, <2>1
  <1>7. CASE /\ part # {}
             /\ run' = [run EXCEPT ![r] = Wrote(run[r], run[r].after, {}, NextPart(r), part)]
             /\ Put(run[r].day, NextPart(r), part)
    <2>1. NextPart(r) = Cardinality(Used(objects)) + 1
      BY NextPartIs
    <2> DEFINE wrote == Wrote(run[r], run[r].after, {}, NextPart(r), part)
    <2>2. /\ wrote.part = {} /\ wrote.objects = Added(objects, NextPart(r), part)
          /\ wrote.days = run[r].days /\ wrote.day = run[r].day
      BY <1>1, NextPartNat, PartRecord
    <2> HIDE DEF wrote
    <2>3. run'[r] = wrote
      BY <1>1, <1>7 DEF Typed, wrote
    <2>4. /\ Apart(wrote.objects) /\ Numbered(wrote.objects)
          /\ PartsOf(wrote.objects) = Exported(r)
      <3> HIDE DEF objects, part
      <3> QED
        BY <1>1, <1>3, <1>7, <2>1, <2>2, AddPart
    <2>5. \A e \in Day : e # d => store'[e] = store[e]
      BY <1>0, <1>1, <1>7, NextPartNat, PutTypes
    <2> QED
      BY <1>0, <1>5, <2>2, <2>3, <2>4, <2>5
  <1> QED
    BY <1>6, <1>7, EndRecord DEF IInv

LEMMA ExportEntitiesInv ==
  ASSUME IInv, Typed', NEW r \in Archiver, \A q \in Archiver : q = r, ExportEntities(r)
  PROVE  ArchiveInv'
  <1> DEFINE objects == run[r].objects
  <1>0. PICK d \in Day : d = run[r].day
    BY DEF ExportEntities, IInv, ArchiveInv, DaysOver
  <1>1. /\ Typed /\ pc[r] = "entities" /\ pc'[r] = "log" /\ UNCHANGED <<tableVars, log>>
        /\ run[r] \in RunRecord /\ objects \in [PartNo -> SUBSET Copy]
        /\ run[r].part \in SUBSET Copy /\ run[r].after \in Nat /\ EntPart \in Nat
        /\ Apart(objects) /\ Numbered(objects) /\ run[r].part = {}
        /\ \A a \in Rows(d) : Holds(Exported(r), a) /\ (a \notin LastTry => state[a] = "enriched")
    BY <1>0 DEF ExportEntities, IInv, ArchiveInv, Typed, RunRecord, Exporting, Written, Goto, EntPart
  <1>2. /\ run' = [run EXCEPT ![r] = Wrote(run[r], run[r].after, run[r].part, EntPart, Tagged(r))]
        /\ Tagged(r) \in SUBSET Copy
        /\ UNCHANGED <<store, faults>> \/ Put(run[r].day, EntPart, Tagged(r))
    BY <1>1, EntitiesRecord
  <1> DEFINE wrote == Wrote(run[r], run[r].after, run[r].part, EntPart, Tagged(r))
  <1>3. /\ wrote.part = run[r].part /\ wrote.objects = Added(objects, EntPart, Tagged(r))
        /\ wrote.days = run[r].days /\ wrote.day = run[r].day
    BY <1>1, <1>2, PartRecord
  <1> HIDE DEF wrote
  <1>4. run'[r] = wrote
    BY <1>1, <1>2 DEF Typed, wrote
  <1>5. /\ \A n \in Parts : wrote.objects[n] = objects[n]
        /\ wrote.objects[EntPart] = Tagged(r)
    <2>1. EntPart \in PartNo
      BY ArticleAssumption, FS_CardinalityType DEF PartNo, EntPart
    <2> QED
      BY <1>3, <2>1 DEF Added, Parts
  <1>6. /\ Apart(wrote.objects) /\ Numbered(wrote.objects)
        /\ PartsOf(wrote.objects) = PartsOf(objects)
    <2> HIDE DEF objects
    <2>1. Used(wrote.objects) = Used(objects) /\ PartsOf(wrote.objects) = PartsOf(objects)
      BY <1>5 DEF Used, PartsOf
    <2>2. Apart(wrote.objects)
      BY <1>1, <1>5 DEF Apart
    <2> QED
      BY <1>1, <2>1, <2>2 DEF Numbered
  <1>7. \A e \in Day : e # d => store'[e] = store[e]
    BY <1>0, <1>1, <1>2, PutTypes
  <1>8. /\ Settling' /\ DaysOver' /\ SealedKept'
        /\ ~Sealed(run[r].day)'
        /\ \A a \in Rows(run[r].day)' \ LastTry : state'[a] = "enriched"
    BY <1>0, <1>1, <1>3, <1>4, <1>7, ExportInv
  <1>9. Exporting(r)'
    BY <1>4, <1>6, <1>8 DEF Exporting
  <1>10. Rows(run[r].day)' = Rows(d)
    <2>1. Rows(d)' = Rows(d)
      BY <1>1, SameTable
    <2> QED
      BY <1>0, <1>3, <1>4, <2>1 DEF Rows
  <1>11. Exported(r)' = Exported(r)
    <2>1. Exported(r)' = PartsOf(run'[r].objects) \cup run'[r].part
      BY DEF Exported, PartsOf, Parts
    <2>2. Exported(r) = PartsOf(objects) \cup run[r].part
      BY ExportedIs
    <2> QED
      BY <1>3, <1>4, <1>6, <2>1, <2>2
  <1>12. \A a \in Rows(d) : HoldsEntities(wrote.objects, a)
    BY <1>0, <1>1, <1>5 DEF HoldsEntities, Tagged
  <1>13. Written(r)' /\ Reading(r)'
    BY <1>1, <1>3, <1>4, <1>10, <1>11, <1>12 DEF Written, Reading
  <1> QED
    BY <1>8, <1>9, <1>13 DEF ArchiveInv

\* The leftovers of earlier exports go, and the day's log lists this export.
LEMMA LogUploadInv ==
  ASSUME IInv, Typed', NEW r \in Archiver, \A q \in Archiver : q = r, LogUpload(r)
  PROVE  ArchiveInv'
  <1> DEFINE objects == run[r].objects
  <1>0. PICK d \in Day : d = run[r].day
    BY DEF LogUpload, IInv, ArchiveInv, DaysOver
  <1>1. /\ Typed /\ pc[r] = "log" /\ UNCHANGED <<tableVars, run>>
        /\ Settling /\ DaysOver /\ SealedKept
        /\ objects \in [PartNo -> SUBSET Copy] /\ run[r].part = {}
        /\ Apart(objects) /\ Numbered(objects) /\ ~Sealed(d)
        /\ \A a \in Rows(d) : /\ Holds(Exported(r), a) /\ HoldsEntities(objects, a)
                              /\ (a \notin LastTry => state[a] = "enriched")
    BY <1>0 DEF LogUpload, IInv, ArchiveInv, Typed, RunRecord, Exporting, Written
  <1>2. \A e \in Day : e # d => store'[e] = store[e]
    BY <1>0, <1>1 DEF LogUpload, Typed
  <1>3. \A n \in PartNo : objects[n] = {} => store'[d][n] = {}
    BY <1>0, <1>1 DEF LogUpload, Typed, Kept
  <1>4. Rows(d)' = Rows(d) /\ Settling'
    BY <1>1, SameTable
  <1>5. Exported(r)' = Exported(r)
    BY <1>1 DEF Exported
  <1>6. CASE Goto(r, "next") /\ UNCHANGED log
    <2>1. pc'[r] = "next"
      BY <1>1, <1>6 DEF Goto, Typed
    <2>2. Settling' /\ DaysOver' /\ SealedKept'
      BY <1>0, <1>1, <1>2, <1>6, ExportInv
    <2>3. Exporting(r)' /\ Reading(r)' /\ Written(r)'
      BY <2>1 DEF Exporting, Reading, Written
    <2> QED
      BY <2>2, <2>3 DEF ArchiveInv
  <1>7. CASE /\ log' = [log EXCEPT ![run[r].day] =
                  [status |-> "uploaded", rows |-> Cardinality(Exported(r)),
                   objects |-> run[r].objects, prunedRows |-> 0]]
             /\ Goto(r, "verify")
    <2>1. pc'[r] = "verify"
      BY <1>1, <1>7 DEF Goto, Typed
    <2>2. /\ log'[d].status = "uploaded" /\ log'[d].objects = objects
          /\ \A e \in Day : e # d => log'[e] = log[e]
      BY <1>0, <1>1, <1>7 DEF Typed
    <2>3. \A e \in Day : Sealed(e)' = Sealed(e)
      BY <1>1, <2>2 DEF Sealed
    <2>4. \A e \in Day : Sealed(e) => e # d
      BY <1>1
    <2>5. SealedKept'
      BY <1>1, <1>2, <2>2, <2>3, <2>4, SealedSame
    <2>6. DaysOver'
      BY <1>0, <1>1, <2>3, SameTable DEF DaysOver
    <2>7. ~Sealed(run[r].day)' /\ Rows(run[r].day)' = Rows(d)
      <3>1. ~Sealed(d)'
        BY <1>1, <2>3
      <3> QED
        BY <1>0, <1>1, <1>4, <3>1 DEF Sealed, Rows
    <2>8. Exporting(r)'
      BY <1>1, <2>7 DEF Exporting, tableVars
    <2>9. Written(r)' /\ Reading(r)'
      BY <1>0, <1>1, <1>3, <1>5, <2>1, <2>2, <2>7 DEF Written, Reading
    <2> QED
      BY <1>4, <2>5, <2>6, <2>8, <2>9 DEF ArchiveInv
  <1> QED
    BY <1>6, <1>7 DEF LogUpload

LEMMA VerifyInv ==
  ASSUME IInv, Typed', NEW r \in Archiver, \A q \in Archiver : q = r, Verify(r)
  PROVE  ArchiveInv'
  <1>1. /\ Typed /\ DaysOver /\ pc[r] = "verify" /\ UNCHANGED <<tableVars, log, store, run>>
        /\ Exporting(r) /\ Written(r)
    BY DEF Verify, IInv, ArchiveInv
  <1>2. pc'[r] \in {"mark", "next"} /\ (pc'[r] = "mark" => Intact(r))
    BY <1>1 DEF Verify, Goto, Typed
  <1>3. CASE pc'[r] = "next"
    <2>1. \A d \in run'[r].days \cup ({run'[r].day} \cap Day) : LeftHotWindow(d)
      BY <1>1 DEF DaysOver
    <2> QED
      BY <1>1, <1>3, <2>1, BetweenInv
  <1>4. CASE pc'[r] = "mark"
    <2>0. PICK d \in Day : d = run[r].day
      BY <1>1 DEF DaysOver
    <2>1. store[d] = run[r].objects
      <3>1. store[d] \in [PartNo -> SUBSET Copy] /\ run[r].objects \in [PartNo -> SUBSET Copy]
        BY <1>1 DEF Typed, RunRecord
      <3>2. \A n \in PartNo : store[d][n] = run[r].objects[n]
        BY <1>1, <1>2, <1>4, <2>0 DEF Intact, Written
      <3> QED
        BY <3>1, <3>2
    <2>2. Rows(run[r].day)' = Rows(run[r].day) /\ Sealed(run[r].day)' = Sealed(run[r].day)
          /\ Exported(r)' = Exported(r)
      BY <1>1 DEF Rows, Table, tableVars, Sealed, Exported
    <2>3. \A e \in Day : Sealed(e)' = Sealed(e)
      BY <1>1 DEF Sealed
    <2>4. SealedKept' /\ Settling' /\ DaysOver'
      BY <1>1, <2>3, SealedSame, SameTable DEF IInv, ArchiveInv, DaysOver
    <2>5. Exporting(r)'
      BY <1>1, <2>2 DEF Exporting, tableVars
    <2>6. Written(r)' /\ Reading(r)'
      BY <1>1, <1>4, <2>0, <2>1, <2>2 DEF Written, Reading
    <2> QED
      BY <2>4, <2>5, <2>6 DEF ArchiveInv
  <1> QED
    BY <1>2, <1>3, <1>4

\* The day is sealed.
LEMMA MarkVerifiedInv ==
  ASSUME IInv, Typed', NEW r \in Archiver, \A q \in Archiver : q = r, MarkVerified(r)
  PROVE  ArchiveInv'
  <1>1. PICK d \in Day : d = run[r].day
    BY DEF MarkVerified, IInv, ArchiveInv, DaysOver
  <1>2. /\ Typed /\ Settling /\ DaysOver /\ SealedKept /\ UNCHANGED <<tableVars, store, run>>
        /\ pc'[r] \in {"next", "prune"}
        /\ ~Sealed(d) /\ LeftHotWindow(d) /\ Apart(run[r].objects) /\ run[r].part = {}
        /\ store[d] = run[r].objects /\ log[d].status = "uploaded" /\ log[d].objects = run[r].objects
        /\ \A a \in Rows(d) : /\ Holds(Exported(r), a) /\ HoldsEntities(run[r].objects, a)
                              /\ (a \notin LastTry => state[a] = "enriched")
    BY <1>1 DEF MarkVerified, IInv, ArchiveInv, Typed, Goto, Exporting, Written, DaysOver
  <1>3. /\ log'[d].status = "verified" /\ log'[d].objects = log[d].objects
        /\ \A e \in Day : e # d => log'[e] = log[e]
    <2>1. log' = [log EXCEPT ![d].status = "verified"]
      BY <1>1, <1>2 DEF MarkVerified
    <2>2. log \in [Day -> LogRecord]
      BY <1>2 DEF Typed
    <2> QED
      BY <2>1, <2>2 DEF LogRecord
  <1>4. Sealed(d)' /\ \A e \in Day : e # d => Sealed(e)' = Sealed(e)
    BY <1>3 DEF Sealed
  <1>5. \A e \in Day : Rows(e)' = Rows(e)
    BY <1>2, SameTable
  <1>6. SealedKept'
    <2>1. \A a \in pruned' : Sealed(DayOf[a])'
      <3>1. \A a \in pruned : DayOf[a] \in Day /\ Sealed(DayOf[a])
        BY <1>2 DEF Typed, Day, SealedKept
      <3> QED
        BY <1>2, <1>4, <3>1 DEF tableVars
    <2>2. PartsOf(log[d].objects) = Exported(r)
      BY <1>2, ExportedIs
    <2>3. ASSUME NEW a \in pruned, DayOf[a] = d PROVE FALSE
      BY <1>2, <2>3 DEF SealedKept
    <2>4. /\ store'[d] = log'[d].objects /\ Apart(log'[d].objects)
          /\ \A a \in Rows(d)' \cup {b \in pruned' : DayOf[b] = d} :
               /\ Holds(PartsOf(log'[d].objects), a) /\ HoldsEntities(log'[d].objects, a)
               /\ (a \notin LastTry => state'[a] = "enriched")
      BY <1>2, <1>3, <1>5, <2>2, <2>3 DEF tableVars
    <2>5. ASSUME NEW e \in Day, e # d, Sealed(e)'
          PROVE  /\ store'[e] = log'[e].objects /\ Apart(log'[e].objects)
                 /\ \A a \in Rows(e)' \cup {b \in pruned' : DayOf[b] = e} :
                      /\ Holds(PartsOf(log'[e].objects), a) /\ HoldsEntities(log'[e].objects, a)
                      /\ (a \notin LastTry => state'[a] = "enriched")
      <3>1. Sealed(e) /\ log'[e] = log[e]
        BY <1>3, <1>4, <2>5
      <3> QED
        BY <1>2, <1>5, <3>1 DEF SealedKept, tableVars
    <2> QED
      BY <2>1, <2>4, <2>5 DEF SealedKept
  <1>7. Settling' /\ DaysOver'
    BY <1>1, <1>2, <1>4, SameTable DEF DaysOver
  <1>8. Exporting(r)' /\ Reading(r)'
    BY <1>2 DEF Exporting, Reading
  <1>9. Written(r)'
    <2>1. Sealed(run[r].day)'
      BY <1>1, <1>2, <1>4 DEF Sealed
    <2> QED
      BY <1>2, <2>1 DEF Written
  <1> QED
    BY <1>6, <1>7, <1>8, <1>9 DEF ArchiveInv

\* Rows of a sealed day go; its log and its objects stay.
LEMMA PruneDayInv ==
  ASSUME IInv, Typed', NEW r \in Archiver, \A q \in Archiver : q = r, PruneDay(r)
  PROVE  ArchiveInv'
  <1>1. PICK d \in Day : d = run[r].day
    BY DEF PruneDay, IInv, ArchiveInv, DaysOver
  <1>2. /\ Typed /\ Settling /\ DaysOver /\ SealedKept
        /\ UNCHANGED <<today, state, purged, store, run>>
        /\ pc'[r] \in {"next", "prune"} /\ Sealed(d)
    BY <1>1 DEF PruneDay, IInv, ArchiveInv, Typed, Goto, Written
  <1>3. PICK doomed \in SUBSET Rows(d) :
          \/ /\ pruned' = pruned \cup doomed
             /\ log' = [log EXCEPT ![d].prunedRows = @ + Cardinality(doomed),
                                   ![d].status = IF doomed = Rows(d) THEN "pruned" ELSE @]
          \/ UNCHANGED <<pruned, log>>
    <2>1. Lowest(Rows(d), PruneChunk) \in SUBSET Rows(d)
      BY DEF Lowest
    <2> QED
      BY <1>1, <2>1 DEF PruneDay
  <1>4. /\ log'[d].objects = log[d].objects /\ Sealed(d)'
        /\ \A e \in Day : e # d => log'[e] = log[e]
    <2>1. log \in [Day -> LogRecord]
      BY <1>2 DEF Typed
    <2> QED
      BY <1>2, <1>3, <2>1 DEF LogRecord, Sealed
  <1>5. \A e \in Day : Sealed(e)' = Sealed(e)
    BY <1>2, <1>4 DEF Sealed
  <1>6. pruned' \subseteq pruned \cup Rows(d) /\ pruned \subseteq pruned'
    BY <1>3
  <1>7. \A e : Rows(e)' \subseteq Rows(e)
    BY <1>2, <1>6 DEF Rows, Table
  <1>8. SealedKept'
    <2>1. \A a \in pruned' : Sealed(DayOf[a])'
      <3>1. \A a \in pruned : DayOf[a] \in Day /\ Sealed(DayOf[a])
        BY <1>2 DEF Typed, Day, SealedKept
      <3>2. \A a \in Rows(d) : DayOf[a] = d
        BY DEF Rows
      <3> QED
        BY <1>4, <1>5, <1>6, <3>1, <3>2
    <2>2. ASSUME NEW e \in Day, Sealed(e)
          PROVE  /\ store[e] = log'[e].objects /\ Apart(log'[e].objects)
                 /\ \A a \in Rows(e)' \cup {b \in pruned' : DayOf[b] = e} :
                      /\ Holds(PartsOf(log'[e].objects), a) /\ HoldsEntities(log'[e].objects, a)
                      /\ (a \notin LastTry => state[a] = "enriched")
      <3>1. log'[e].objects = log[e].objects
        BY <1>4
      <3>2. Rows(e)' \cup {b \in pruned' : DayOf[b] = e} \subseteq Rows(e) \cup {b \in pruned : DayOf[b] = e}
        <4>1. \A b \in Rows(d) : DayOf[b] = d
          BY DEF Rows
        <4> QED
          BY <1>6, <1>7, <4>1
      <3>3. /\ store[e] = log[e].objects /\ Apart(log[e].objects)
            /\ \A a \in Rows(e) \cup {b \in pruned : DayOf[b] = e} :
                 /\ Holds(PartsOf(log[e].objects), a) /\ HoldsEntities(log[e].objects, a)
                 /\ (a \notin LastTry => state[a] = "enriched")
        BY <1>2, <2>2 DEF SealedKept
      <3> QED
        BY <3>1, <3>2, <3>3
    <2> QED
      BY <1>2, <1>5, <2>1, <2>2 DEF SealedKept
  <1>9. Settling' /\ DaysOver'
    <2>1. \A e : LeftHotWindow(e)' = LeftHotWindow(e)
      BY <1>2 DEF LeftHotWindow
    <2> QED
      BY <1>1, <1>2, <1>5, <2>1 DEF Settling, DaysOver
  <1>10. Exporting(r)' /\ Reading(r)'
    BY <1>2 DEF Exporting, Reading
  <1>11. Written(r)'
    <2>1. Sealed(run[r].day)'
      BY <1>1, <1>2, <1>4 DEF Sealed
    <2> QED
      BY <1>2, <2>1 DEF Written
  <1> QED
    BY <1>8, <1>9, <1>10, <1>11 DEF ArchiveInv

-----------------------------------------------------------------------------
(* The theorems *)

LEMMA InitInv == Init => IInv
  <1> SUFFICES ASSUME Init PROVE IInv
    OBVIOUS
  <1>1. Typed
    BY NoRunRecord, LimitAssumption DEF Init, Typed, Location
  <1>2. \A r \in Archiver : pc[r] = "idle" /\ run[r].days = {} /\ run[r].day = 0
    BY DEF Init, NoRun
  <1>3. 0 \notin Day
    BY DayAssumption DEF Day
  <1>4. \A d \in Day : ~Sealed(d)
    BY DEF Init, NoLog, Sealed
  <1>5. Settling
    BY DEF Init, Settling
  <1>6. DaysOver
    BY <1>2, <1>3, <1>4 DEF DaysOver
  <1>7. SealedKept
    BY <1>4 DEF Init, SealedKept
  <1>8. \A r \in Archiver : Exporting(r) /\ Reading(r) /\ Written(r)
    BY <1>2 DEF Exporting, Reading, Written
  <1> QED
    BY <1>1, <1>5, <1>6, <1>7, <1>8 DEF IInv, ArchiveInv

LEMMA StepTypes ==
  ASSUME IInv, Next
  PROVE  Typed'
  <1>1. Typed /\ DaysOver
    BY DEF IInv, ArchiveInv
  <1>2. CASE NextDay
    BY <1>1, <1>2 DEF NextDay, Typed
  <1>3. ASSUME NEW a \in Article, Enrich(a) PROVE Typed'
    BY <1>1, <1>3 DEF Enrich, Typed
  <1>4. ASSUME NEW a \in Article, Purge(a) PROVE Typed'
    BY <1>1, <1>4 DEF Purge, Typed
  <1>5. ASSUME NEW r \in Archiver, NEW prune \in BOOLEAN, Start(r, prune) PROVE Typed'
    <2>1. run' \in [Archiver -> RunRecord]
      BY <1>1, <1>5, StartRecord
    <2>2. pc' \in [Archiver -> Location] /\ UNCHANGED <<tableVars, log, store, faults>>
      BY <1>1, <1>5 DEF Start, Goto, Typed, Location
    <2> QED
      BY <1>1, <2>1, <2>2 DEF Typed, tableVars
  <1>6. ASSUME NEW r \in Archiver, Advance(r) \/ FailDay(r) \/ Die(r) PROVE Typed'
    BY <1>1, <1>6, AdvanceTypes
  <1> QED
    BY <1>2, <1>3, <1>4, <1>5, <1>6 DEF Next

LEMMA StepInv ==
  ASSUME OneArchiver, IInv, [Next]_vars
  PROVE  IInv'
  <1>1. CASE UNCHANGED vars
    <2>1. UNCHANGED <<tableVars, log, store, pc, run, faults>>
      BY <1>1 DEF vars, tableVars
    <2>2. Typed'
      BY <2>1 DEF IInv, Typed, tableVars
    <2>3. (\A d : LeftHotWindow(d)' = LeftHotWindow(d) /\ Rows(d)' = Rows(d)) /\ UNCHANGED state
      BY <2>1 DEF LeftHotWindow, Rows, Table, tableVars
    <2>4. \A a \in Article \ LastTry :
            state'[a] \in {"raw", "enriched"} /\ (state[a] = "enriched" => state'[a] = "enriched")
      BY <2>3 DEF IInv, ArchiveInv, Settling
    <2>5. UNCHANGED <<pruned, log, store, pc, run>>
      BY <2>1 DEF tableVars
    <2>6. ArchiveInv'
      BY <2>2, <2>3, <2>4, <2>5, TableInv
    <2> QED
      BY <2>2, <2>6 DEF IInv
  <1>2. CASE Next
    <2>1. Typed'
      BY <1>2, StepTypes
    <2>2. CASE NextDay
      BY <2>1, <2>2, NextDayInv DEF IInv
    <2>3. ASSUME NEW a \in Article, Enrich(a) \/ Purge(a) PROVE IInv'
      BY <2>1, <2>3, EnrichInv, PurgeInv DEF IInv
    <2>4. ASSUME NEW r \in Archiver,
                 (\E prune \in BOOLEAN : Start(r, prune)) \/ Advance(r) \/ FailDay(r) \/ Die(r)
          PROVE  IInv'
      <3>1. \A q \in Archiver : q = r
        BY DEF OneArchiver
      <3>2. ArchiveInv'
        BY <2>1, <2>4, <3>1, StartInv, BeginDayInv, EndRunInv, ReadPageInv, EndPagesInv,
           ExportEntitiesInv, LogUploadInv, VerifyInv, MarkVerifiedInv, PruneDayInv DEF Advance
      <3> QED
        BY <2>1, <3>2 DEF IInv
    <2> QED
      BY <1>2, <2>2, <2>3, <2>4 DEF Next
  <1> QED
    BY <1>1, <1>2

LEMMA InvAlways == ASSUME OneArchiver PROVE Spec => []IInv
  <1>1. IInv /\ [Next]_vars => IInv'
    BY StepInv
  <1> QED
    BY <1>1, InitInv, PTL DEF Spec

\* A run of run_archive prunes only days whose log says verified, and each
\* variable keeps to its type.
THEOREM TypeCorrect ==
  ASSUME OneArchiver
  PROVE  Spec => []TypeOK
  <1>1. IInv => TypeOK
    <2> SUFFICES ASSUME IInv PROVE TypeOK
      OBVIOUS
    <2>1. Typed /\ \A r \in Archiver : pc[r] = "prune" => Sealed(run[r].day)
      BY DEF IInv, ArchiveInv, Written
    <2> QED
      BY <2>1 DEF Typed, TypeOK, Sealed, RunRecord, LogRecord
  <1> QED
    BY <1>1, InvAlways, PTL

LEMMA ArchivedAll ==
  ASSUME IInv, NEW d \in Day, Sealed(d)
  PROVE  /\ PartsOf(log[d].objects) \subseteq Archived(d)
         /\ log[d].objects[EntPart] \subseteq Archived(d)
  <1>1. store[d] = log[d].objects
    BY DEF IInv, ArchiveInv, SealedKept
  <1>2. EntPart \in PartNo /\ Parts \subseteq PartNo
    BY ArticleAssumption, FS_CardinalityType DEF PartNo, EntPart, Parts
  <1> QED
    BY <1>1, <1>2 DEF Archived, PartsOf

\* wizer_prune_archived_day deletes no row that the objects of its day's log do
\* not hold, whatever failed, died, was purged or was damaged: also when a last
\* try was still out.
THEOREM NothingIsLost ==
  ASSUME OneArchiver
  PROVE  Spec => []PrunedIsArchived
  <1>1. IInv => PrunedIsArchived
    <2> SUFFICES ASSUME IInv, NEW a \in pruned PROVE a \in Ids(Archived(DayOf[a]))
      BY DEF PrunedIsArchived
    <2>1. PICK d \in Day : d = DayOf[a]
      BY DEF IInv, Typed, Day
    <2>2. Sealed(d) /\ Holds(PartsOf(log[d].objects), a)
      BY <2>1 DEF IInv, ArchiveInv, SealedKept
    <2>3. Holds(Archived(d), a)
      BY <2>2, ArchivedAll, HoldsMore
    <2> QED
      BY <2>1, <2>3 DEF Holds
  <1> QED
    BY <1>1, InvAlways, PTL

\* What is archived of a row is what the row held when it was deleted, its
\* entities included, when no last try of the enrichment queue ends after the
\* day was exported.
THEOREM NothingIsStale ==
  ASSUME OneArchiver, LastTry = {}
  PROVE  Spec => []ArchivedAsDeleted
  <1>1. IInv => ArchivedAsDeleted
    <2> SUFFICES ASSUME IInv, NEW a \in pruned
                 PROVE  /\ CopyOf(a) \in Archived(DayOf[a])
                        /\ state[a] = "enriched" => <<a, "entities">> \in Archived(DayOf[a])
      BY DEF ArchivedAsDeleted
    <2>1. PICK d \in Day : d = DayOf[a]
      BY DEF IInv, Typed, Day
    <2>2. /\ Sealed(d) /\ Holds(PartsOf(log[d].objects), a) /\ HoldsEntities(log[d].objects, a)
          /\ state[a] = "enriched"
      BY <2>1 DEF IInv, ArchiveInv, SealedKept
    <2>3. <<a, "enriched">> \in PartsOf(log[d].objects) /\ <<a, "entities">> \in log[d].objects[EntPart]
      BY <2>2 DEF Holds, HoldsEntities
    <2>4. <<a, "enriched">> \in Archived(d) /\ <<a, "entities">> \in Archived(d)
      BY <2>2, <2>3, ArchivedAll
    <2>5. CopyOf(a) = <<a, "enriched">>
      BY <2>2 DEF CopyOf
    <2> QED
      BY <2>1, <2>4, <2>5
  <1> QED
    BY <1>1, InvAlways, PTL

\* A reader of a verified day's objects sees no row twice, although other
\* attempts at the day left other parts.
THEOREM NothingIsDoubled ==
  ASSUME OneArchiver
  PROVE  Spec => []NoDuplicateRows
  <1>1. IInv => NoDuplicateRows
    BY DEF IInv, ArchiveInv, SealedKept, Sealed, Apart, Parts, NoDuplicateRows
  <1> QED
    BY <1>1, InvAlways, PTL
=============================================================================
