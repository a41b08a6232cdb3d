------------------------------- MODULE Archive -------------------------------
(***************************************************************************)
(* The article archive: archiver/runner.run_archive moves the days of      *)
(* `articles` that left the hot window to Parquet objects, verifies them   *)
(* and deletes the rows through wizer_prune_archived_day, while the        *)
(* enrichment sweeper still writes to old rows and tools/purge_languages   *)
(* deletes some.  A run can die, and a day can fail, between any two       *)
(* calls.  A row is exported as <<id, content>>; an object is the set of   *)
(* rows in it, {} when it is missing or its bytes are damaged; object 0 of *)
(* a day stands for its entity parts, 1, 2, ... for its article parts.     *)
(***************************************************************************)
EXTENDS Integers, FiniteSets

CONSTANTS
  Archiver,   \* processes that run the archive; one, unless run by hand as well
  Article,    \* ids, positive
  DayOf,      \* DayOf[a]: the day article a was crawled, positive
  Hot,        \* ARCHIVE_HOT_DAYS
  MaxDays,    \* --max-days
  Page,       \* PAGE
  PartRows,   \* PART_ROWS
  PruneChunk, \* PRUNE_CHUNK
  Stranded,   \* articles the enrichment queue never hands out again
  LastTry,    \* articles whose last permitted attempt may be in flight
  OutOfScope, \* articles tools/purge_languages.py may delete
  MaxFaults   \* bound on failed calls, damaged uploads and killed runs

ASSUME ArticleAssumption == Article \subseteq Nat \ {0} /\ IsFiniteSet(Article)
ASSUME DayAssumption == DayOf \in [Article -> Nat \ {0}]
ASSUME LimitAssumption ==
  /\ Hot \in Nat \ {0} /\ MaxDays \in Nat \ {0} /\ Page \in Nat \ {0}
  /\ PartRows \in Nat \ {0} /\ PruneChunk \in Nat \ {0} /\ MaxFaults \in Nat
ASSUME FateAssumption ==
  Stranded \subseteq Article /\ LastTry \subseteq Article /\ OutOfScope \subseteq Article

VARIABLES
  today,     \* the current UTC day
  state,     \* state[a]: the enrichment state of the row
  pruned,    \* rows the archive deleted
  purged,    \* rows the language purge deleted
  log,       \* log[d]: the row of article_archive_log
  store,     \* store[d][n]: object n of day d in the bucket
  pc,        \* pc[r]: where the run of archiver r is
  run,       \* run[r]: its local variables
  faults     \* faults so far

tableVars == <<today, state, pruned, purged>>
vars      == <<today, state, pruned, purged, log, store, pc, run, faults>>

Day      == {DayOf[a] : a \in Article}
EntPart  == 0
PartNo   == 0 .. Cardinality(Article)
Content  == {"bare", "enriched", "entities"}
Copy     == Article \X Content
NoObject == [n \in PartNo |-> {}]
NoLog    == [status |-> "none", rows |-> 0, objects |-> NoObject, prunedRows |-> 0]
NoRun    == [days |-> {}, day |-> 0, prune |-> FALSE, stats |-> {}, after |-> 0,
             part |-> {}, objects |-> NoObject]
Location == {"idle", "next", "pages", "entities", "log", "verify", "mark", "prune"}

\* The rows of `articles`, and those of one day.
Table == {a \in Article : DayOf[a] <= today} \ (pruned \cup purged)
Rows(d) == {a \in Table : DayOf[a] = d}

\* ORDER BY ... LIMIT n.
Lowest(S, n) == {a \in S : Cardinality({b \in S : b < a}) < n}

Ids(copies) == {c[1] : c \in copies}
Ends(S) == {a \in S : (\A b \in S : a <= b) \/ (\A b \in S : b <= a)}

\* A row as article_page returns it.
CopyOf(a) == <<a, IF state[a] = "enriched" THEN "enriched" ELSE "bare">>

-----------------------------------------------------------------------------
(* SQL *)

LeftHotWindow(d) == d < today - Hot

\* Mutated form of Pending: a verified day counts as done.
PendingUnverified ==
  {d \in Day : /\ \E a \in Table : DayOf[a] <= d
               /\ LeftHotWindow(d)
               /\ log[d].status \in {"none", "uploaded"}}

\* wizer_archive_days: from the first day that still has rows.
Pending ==
  {d \in Day : /\ \E a \in Table : DayOf[a] <= d
               /\ LeftHotWindow(d)
               /\ log[d].status # "pruned"}

\* Mutated form of Waiting: the guard is not asked.
WaitingForNone(d) == {}

\* wizer_archive_day_unenriched: dead letters with no attempt left do not count.
Waiting(d) == {a \in Rows(d) : state[a] = "raw"}

\* wizer_prune_archived_day goes through: verified, old enough, no row added or lost.
MayPrune(d) ==
  /\ log[d].status = "verified"
  /\ LeftHotWindow(d)
  /\ Cardinality(Rows(d)) + log[d].prunedRows = log[d].rows

-----------------------------------------------------------------------------
(* The table's other writers *)

Fault == faults < MaxFaults /\ faults' = faults + 1

NextDay ==
  /\ \E d \in Day : ~LeftHotWindow(d)
  /\ today' = today + 1
  /\ UNCHANGED <<state, pruned, purged, log, store, pc, run, faults>>

\* The enrichment queue: saved; claimed for the last time; that try failed.
Enrich(a) ==
  /\ a \in Table \ Stranded
  /\ \/ state[a] \in {"raw", "lastTry"} /\ state' = [state EXCEPT ![a] = "enriched"]
     \/ a \in LastTry /\ state[a] = "raw" /\ state' = [state EXCEPT ![a] = "lastTry"]
     \/ state[a] = "lastTry" /\ state' = [state EXCEPT ![a] = "givenUp"]
  /\ UNCHANGED <<today, pruned, purged, log, store, pc, run, faults>>

Purge(a) ==
  /\ a \in OutOfScope \cap Table
  /\ purged' = purged \cup {a}
  /\ UNCHANGED <<today, state, pruned, log, store, pc, run, faults>>

-----------------------------------------------------------------------------
(* One run: the loop of run_archive *)

Goto(r, loc) == pc' = [pc EXCEPT ![r] = loc]

\* The oldest MaxDays pending days; prune is FALSE for a no_prune run.
Start(r, prune) ==
  /\ pc[r] = "idle"
  /\ Goto(r, "next")
  /\ run' = [run EXCEPT ![r] = [NoRun EXCEPT !.days = Lowest(Pending, MaxDays), !.prune = prune]]
  /\ UNCHANGED <<tableVars, log, store, faults>>

\* Mutated form of NeedsExport: a day without a log row is passed over.
NeedsExportLogged(d) == log[d].status = "uploaded"

NeedsExport(d) == log[d].status \in {"none", "uploaded"}

\* The next day: export it, leave it waiting for the sweeper, or prune it.
BeginDay(r) ==
  /\ pc[r] = "next"
  /\ \E d \in Lowest(run[r].days, 1) :
       /\ run' = [run EXCEPT ![r] =
            [NoRun EXCEPT !.days = run[r].days \ {d}, !.day = d, !.prune = run[r].prune,
                          !.stats = Rows(d)]]
       /\ \/ NeedsExport(d) /\ Waiting(d) # {} /\ Goto(r, "next")
          \/ NeedsExport(d) /\ Waiting(d) = {} /\ Goto(r, "pages")
          \/ ~NeedsExport(d) /\ Goto(r, IF run[r].prune THEN "prune" ELSE "next")
  /\ UNCHANGED <<tableVars, log, store, faults>>

\* No day is left, or the time budget ran out after at least one.
EndRun(r) ==
  /\ pc[r] = "next"
  /\ run[r].days = {} \/ run[r].day # 0
  /\ Goto(r, "idle")
  /\ run' = [run EXCEPT ![r] = NoRun]
  /\ UNCHANGED <<tableVars, log, store, faults>>

\* store.put: the stored bytes may be damaged.
Put(d, n, rows) ==
  \/ store' = [store EXCEPT ![d][n] = rows] /\ UNCHANGED faults
  \/ store' = [store EXCEPT ![d][n] = {}] /\ Fault

NextPart(r) == Cardinality({n \in PartNo \ {EntPart} : run[r].objects[n] # {}}) + 1

\* article_page: the next Page rows by id; a full part is uploaded.
ReadPage(r) ==
  /\ pc[r] = "pages"
  /\ LET me   == run[r]
         page == Lowest({a \in Rows(me.day) : a > me.after}, Page)
         part == me.part \cup {CopyOf(a) : a \in page}
         last == CHOOSE a \in page : \A b \in page : b <= a
     IN /\ page # {}
        /\ IF Cardinality(part) < PartRows
           THEN /\ run' = [run EXCEPT ![r].after = last, ![r].part = part]
                /\ UNCHANGED <<store, faults>>
           ELSE /\ run' = [run EXCEPT ![r].after = last, ![r].part = {},
                                      ![r].objects[NextPart(r)] = part]
                /\ Put(me.day, NextPart(r), part)
  /\ UNCHANGED <<tableVars, log, pc>>

Exported(r) == (UNION {run[r].objects[n] : n \in PartNo \ {EntPart}}) \cup run[r].part

\* An empty page: the rest is uploaded, and the day is left for the next run
\* unless as many rows were exported as it held at the start.
EndPages(r) ==
  /\ pc[r] = "pages"
  /\ {a \in Rows(run[r].day) : a > run[r].after} = {}
  /\ IF run[r].part = {}
     THEN UNCHANGED <<run, store, faults>>
     ELSE /\ run' = [run EXCEPT ![r].part = {}, ![r].objects[NextPart(r)] = run[r].part]
          /\ Put(run[r].day, NextPart(r), run[r].part)
  /\ Goto(r, IF Cardinality(Exported(r)) = Cardinality(run[r].stats) THEN "entities" ELSE "next")
  /\ UNCHANGED <<tableVars, log>>

\* The entity rows of the day's articles: enrichment saves them with the article.
ExportEntities(r) ==
  /\ pc[r] = "entities"
  /\ LET rows == {<<a, "entities">> : a \in {b \in Rows(run[r].day) : state[b] = "enriched"}}
     IN /\ run' = [run EXCEPT ![r].objects[EntPart] = rows]
        /\ IF rows = {} THEN UNCHANGED <<store, faults>> ELSE Put(run[r].day, EntPart, rows)
  /\ Goto(r, "log")
  /\ UNCHANGED <<tableVars, log>>

\* Mutated form of Kept: leftovers of an earlier attempt stay.
KeptAll(r) == PartNo

\* The objects of the day that stay: this export's.
Kept(r) == {n \in PartNo : run[r].objects[n] # {}}

\* Leftovers are removed, then the day is logged as uploaded; a run that dies
\* between the two leaves the old log row.
LogUpload(r) ==
  /\ pc[r] = "log"
  /\ store' = [store EXCEPT ![run[r].day] =
                 [n \in PartNo |-> IF n \in Kept(r) THEN store[run[r].day][n] ELSE {}]]
  /\ \/ /\ log' = [log EXCEPT ![run[r].day] =
             [status |-> "uploaded", rows |-> Cardinality(Exported(r)),
              objects |-> run[r].objects, prunedRows |-> 0]]
        /\ Goto(r, "verify")
        /\ UNCHANGED faults
     \/ Fault /\ Goto(r, "next") /\ UNCHANGED log
  /\ UNCHANGED <<tableVars, run>>

\* Mutated form of Intact: the checksums are not compared.
IntactUnchecked(r) == TRUE

\* Every object downloads with the checksum it was written with.
Intact(r) == \A n \in PartNo : run[r].objects[n] # {} => store[run[r].day][n] = run[r].objects[n]

\* verify_day up to the count of the table's rows.
Verify(r) ==
  /\ pc[r] = "verify"
  /\ Goto(r, IF /\ Intact(r)
                /\ Exported(r) # {} => Ends(Ids(Exported(r))) = Ends(run[r].stats)
                /\ Cardinality(Rows(run[r].day)) = Cardinality(Exported(r))
             THEN "mark" ELSE "next")
  /\ UNCHANGED <<tableVars, log, store, run, faults>>

MarkVerified(r) ==
  /\ pc[r] = "mark"
  /\ log' = [log EXCEPT ![run[r].day].status = IF @ = "uploaded" THEN "verified" ELSE @]
  /\ Goto(r, IF run[r].prune THEN "prune" ELSE "next")
  /\ UNCHANGED <<tableVars, store, run, faults>>

\* One call of wizer_prune_archived_day: it deletes a chunk, or raises and the
\* day is left; a short chunk ends the day.
PruneDay(r) ==
  /\ pc[r] = "prune"
  /\ LET d      == run[r].day
         doomed == Lowest(Rows(d), PruneChunk)
     IN IF MayPrune(d)
        THEN /\ pruned' = pruned \cup doomed
             /\ log' = [log EXCEPT
                  ![d].prunedRows = @ + Cardinality(doomed),
                  ![d].status = IF doomed = Rows(d) THEN "pruned" ELSE @]
             /\ Goto(r, IF Cardinality(doomed) < PruneChunk THEN "next" ELSE "prune")
        ELSE Goto(r, "next") /\ UNCHANGED <<pruned, log>>
  /\ UNCHANGED <<today, state, purged, store, run, faults>>

\* A call raises and the day is left for the next run, or the job dies.
FailDay(r) ==
  /\ pc[r] \notin {"idle", "next"}
  /\ Fault
  /\ Goto(r, "next")
  /\ UNCHANGED <<tableVars, log, store, run>>

Die(r) ==
  /\ pc[r] # "idle"
  /\ Fault
  /\ Goto(r, "idle")
  /\ run' = [run EXCEPT ![r] = NoRun]
  /\ UNCHANGED <<tableVars, log, store>>

-----------------------------------------------------------------------------
Init ==
  /\ today = 0
  /\ state = [a \in Article |-> "raw"]
  /\ pruned = {}
  /\ purged = {}
  /\ log = [d \in Day |-> NoLog]
  /\ store = [d \in Day |-> NoObject]
  /\ pc = [r \in Archiver |-> "idle"]
  /\ run = [r \in Archiver |-> NoRun]
  /\ faults = 0

Advance(r) ==
  \/ BeginDay(r) \/ EndRun(r) \/ ReadPage(r) \/ EndPages(r) \/ ExportEntities(r)
  \/ LogUpload(r) \/ Verify(r) \/ MarkVerified(r) \/ PruneDay(r)

Next ==
  \/ NextDay
  \/ \E a \in Article : Enrich(a) \/ Purge(a)
  \/ \E r \in Archiver :
       \/ \E prune \in BOOLEAN : Start(r, prune)
       \/ Advance(r) \/ FailDay(r) \/ Die(r)

Spec == Init /\ [][Next]_vars

\* Days pass, the queue enriches every row it still hands out, a run goes on,
\* and the nightly run gets its turn however often a no_prune run is dispatched.
FairSpec ==
  /\ Spec
  /\ WF_vars(NextDay)
  /\ \A a \in Article : WF_vars(Enrich(a))
  /\ \A r \in Archiver : WF_vars(Advance(r)) /\ SF_vars(Start(r, TRUE))

-----------------------------------------------------------------------------
(* Properties *)

TypeOK ==
  /\ today \in Nat
  /\ state \in [Article -> {"raw", "lastTry", "givenUp", "enriched"}]
  /\ pruned \subseteq Article
  /\ purged \subseteq Article
  /\ log \in [Day -> [status : {"none", "uploaded", "verified", "pruned"}, rows : Nat,
                      objects : [PartNo -> SUBSET Copy], prunedRows : Nat]]
  /\ store \in [Day -> [PartNo -> SUBSET Copy]]
  /\ pc \in [Archiver -> Location]
  /\ run \in [Archiver -> [days : SUBSET Day, day : Day \cup {0}, prune : BOOLEAN,
                           stats : SUBSET Article, after : Nat, part : SUBSET Copy,
                           objects : [PartNo -> SUBSET Copy]]]
  /\ faults \in 0 .. MaxFaults
  /\ \A r \in Archiver : pc[r] = "prune" => log[run[r].day].status \in {"verified", "pruned"}

\* What a reader gets who follows the log: the intact objects it lists.
Archived(d) ==
  UNION {log[d].objects[n] : n \in {m \in PartNo : store[d][m] = log[d].objects[m]}}

\* docs/archive_migration.sql:16, archiver/runner.py:17: no row is deleted
\* unless a readable object listed in the log of its day holds it, whatever
\* failed, died, was purged or was damaged on the way.
PrunedIsArchived ==
  \A a \in pruned : a \in Ids(Archived(DayOf[a]))

\* The copy that is left of a deleted row is what the row held when it was
\* deleted, entities included: no enrichment is lost between export and delete.
ArchivedAsDeleted ==
  \A a \in pruned :
    /\ CopyOf(a) \in Archived(DayOf[a])
    /\ state[a] = "enriched" => <<a, "entities">> \in Archived(DayOf[a])

\* archiver/runner.py:22: once a day is verified, a reader of its objects never
\* sees a row twice, although earlier attempts at the day left other parts.
NoDuplicateRows ==
  \A d \in Day : log[d].status \in {"verified", "pruned"} =>
    \A m, n \in PartNo \ {EntPart} : m # n => Ids(store[d][m]) \cap Ids(store[d][n]) = {}

\* Retention: every day whose articles the queue can finish leaves Postgres some
\* time after it left the hot window, unless the purge deletes rows under the archive.
EveryDayLeaves ==
  \A d \in Day : LeftHotWindow(d) ~> Rows(d) = {} \/ purged # {}
=============================================================================
