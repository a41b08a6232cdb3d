---------------------------- MODULE FeedCatalogue ----------------------------
(***************************************************************************)
(* How feeds come into the table `feeds`: push_feeds.py adds those of a    *)
(* CSV file that are neither twice in it nor known already, and the        *)
(* registering tools upsert single rows.  The push compares with a copy of *)
(* the table that it reads page by page and in no order, while the poller  *)
(* goes on writing to the rows, and it inserts in batches.                 *)
(***************************************************************************)
EXTENDS Integers, Sequences, FiniteSets

CONSTANTS
  Url,        \* addresses as they are written
  NoUrl,      \* an empty cell
  NormOf,     \* NormOf[u]: what _normalise makes of u
  Files,      \* CSV files: sequences of rows
  Stocks,     \* what the table may hold at first
  Push,       \* processes that push
  PageRows,   \* page_size of the load, 1000
  BatchRows,  \* --batch-size
  Mishaps,    \* what may go wrong
  MaxPushes,  \* bound on the pushes of a process
  MaxChanges  \* bound on what others write to the table

ASSUME UrlAssumption == NoUrl \notin Url
ASSUME PageAssumption == PageRows \in Nat \ {0} /\ BatchRows \in Nat \ {0}
ASSUME MishapAssumption == Mishaps \subseteq {"batch", "kill"}
ASSUME PushBoundAssumption == MaxPushes \in Nat /\ MaxChanges \in Nat

\* A row of a file, the best having the highest quality (_quality_key).
FileRow == [feed : Url \cup {NoUrl}, final : Url \cup {NoUrl}, quality : Nat]

\* A file may have an empty cell; feeds.feed_url is NOT NULL.
ASSUME FileAssumption ==
  /\ Files \subseteq Seq(FileRow) /\ Stocks \subseteq Seq(FileRow)
  /\ \A s \in Stocks : \A i \in DOMAIN s : s[i].feed # NoUrl

VARIABLES
  table,    \* the rows of feeds, in the order in which the database returns them
  push,     \* push[p]: what process p is doing
  changes   \* how often others have written to the table

catalogueVars == <<table, push, changes>>

Running == {"loading", "inserting"}
Out     == [at |-> "out", file |-> <<>>, offset |-> 0, existing |-> {}, todo |-> {},
            failed |-> FALSE, disturbed |-> FALSE, pushes |-> 0]

-----------------------------------------------------------------------------
(* What is the same feed *)

RowsOf(s) == {s[i] : i \in DOMAIN s}

Target(r)     == IF r.final = NoUrl THEN r.feed ELSE r.final
TargetForm(r) == NormOf[Target(r)]
FormsOf(r)    == {NormOf[u] : u \in {r.feed, r.final} \ {NoUrl}}
FormsIn(s)    == UNION {FormsOf(r) : r \in RowsOf(s)}
InTable(u)    == \E r \in RowsOf(table) : r.feed = u

\* Layer 1: of the rows with one feed_url the first.
Firsts(file) ==
  {r \in RowsOf(file) : \E i \in DOMAIN file :
     file[i] = r /\ \A j \in 1 .. (i - 1) : file[j].feed # r.feed}

Position(file, r) == CHOOSE i \in DOMAIN file : file[i] = r /\ \A j \in 1 .. (i - 1) : file[j] # r

\* Layer 2: of those with one normalised final_url the best, of equals the first.
Winners(file) ==
  {r \in Firsts(file) : Target(r) # NoUrl /\
     \A s \in Firsts(file) \ {r} : Target(s) # NoUrl /\ TargetForm(s) = TargetForm(r) =>
       \/ s.quality < r.quality
       \/ s.quality = r.quality /\ Position(file, r) < Position(file, s)}

\* Mutated form of NewRows: only the address that was given is looked for.
NewByFeed(file, existing) ==
  {r \in Winners(file) : r.feed = NoUrl \/ NormOf[r.feed] \notin existing}

\* Layer 3: neither address is known.
NewRows(file, existing) == {r \in Winners(file) : FormsOf(r) \cap existing = {}}

-----------------------------------------------------------------------------
\* Others' writes are seen, or not, by the pushes that are under way.
Disturb(others, stages) ==
  push' = [p \in Push |-> IF p \in others /\ push[p].at \in stages
                          THEN [push[p] EXCEPT !.disturbed = TRUE] ELSE push[p]]

\* The file is read, the client connected.
BeginPush(p) ==
  /\ push[p].at \notin Running /\ push[p].pushes < MaxPushes
  /\ \E file \in Files :
       push' = [push EXCEPT ![p] = [Out EXCEPT !.at = "loading", !.file = file,
                                               !.pushes = push[p].pushes + 1]]
  /\ UNCHANGED <<table, changes>>

\* _load_existing_normalised, one page; a page that is not full is the last.
LoadPage(p) ==
  /\ push[p].at = "loading"
  /\ LET o     == push[p].offset
         rest  == Len(table) - o
         page  == SubSeq(table, o + 1, o + (IF rest < PageRows THEN rest ELSE PageRows))
         known == push[p].existing \cup FormsIn(page)
         new   == NewRows(push[p].file, known)
     IN  push' = [push EXCEPT ![p] =
                    IF Len(page) = PageRows
                    THEN [@ EXCEPT !.existing = known, !.offset = o + PageRows]
                    ELSE [@ EXCEPT !.existing = {}, !.offset = 0, !.todo = new,
                                   !.at = IF new = {} THEN "ended" ELSE "inserting"]]
  /\ UNCHANGED <<table, changes>>

\* Mutated form of Failed: the rows of a failed batch are not counted.
NotCounted(p, batch) == push[p].failed

\* total_failed > 0, the exit status of the push: rows without a feed_url are not in a batch.
Failed(p, batch) == push[p].failed \/ \E r \in batch : r.feed # NoUrl

\* One batch: a feed_url that is there is passed over, a row without one left out.  An
\* error counts for every row sent, and what the database has done by then may stand.
InsertBatch(p) ==
  /\ push[p].at = "inserting"
  /\ \E batch \in SUBSET push[p].todo :
       /\ batch # {}
       /\ Cardinality(batch) <= BatchRows
       /\ batch = push[p].todo \/ Cardinality(batch) = BatchRows
       /\ LET added == {r \in batch : r.feed # NoUrl /\ ~InTable(r.feed)}
              todo  == push[p].todo \ batch
              Ends(failed) ==
                [push EXCEPT ![p].todo = todo, ![p].failed = failed,
                             ![p].at = IF todo = {} THEN "ended" ELSE "inserting"]
              Adds(next) ==
                /\ \E s \in [1 .. Cardinality(added) -> added] :
                     RowsOf(s) = added /\ table' = table \o s
                /\ push' = [q \in Push |->
                              IF q # p /\ next[q].at \in Running /\ added # {}
                              THEN [next[q] EXCEPT !.disturbed = TRUE] ELSE next[q]]
          IN  \/ Adds(Ends(push[p].failed))
              \/ "batch" \in Mishaps /\ Adds(Ends(Failed(p, batch)))
              \/ "batch" \in Mishaps /\ push' = Ends(Failed(p, batch)) /\ UNCHANGED table
  /\ UNCHANGED changes

\* An error while loading, or the operator, ends the push.
KillPush(p) ==
  /\ push[p].at \in Running
  /\ "kill" \in Mishaps
  /\ push' = [push EXCEPT ![p] = [Out EXCEPT !.at = "killed", !.pushes = push[p].pushes]]
  /\ UNCHANGED <<table, changes>>

\* The new version of row i lies behind all others.
Rewritten(i) == SubSeq(table, 1, i - 1) \o SubSeq(table, i + 1, Len(table)) \o <<table[i]>>

\* The poller updates a row.
RowMoves(i) ==
  /\ changes < MaxChanges
  /\ table' = Rewritten(i)
  /\ changes' = changes + 1
  /\ Disturb(Push, {"loading"})

\* discover_sitemaps.register, register_official_sources: upsert on feed_url.
RegisterRow(u) ==
  /\ changes < MaxChanges
  /\ \/ \E i \in DOMAIN table : table[i].feed = u /\ table' = Rewritten(i)
     \/ ~InTable(u) /\ table' = Append(table, [feed |-> u, final |-> NoUrl, quality |-> 0])
  /\ changes' = changes + 1
  /\ Disturb(Push, Running)

CatalogueInit ==
  /\ table \in Stocks
  /\ push = [p \in Push |-> Out]
  /\ changes = 0

CatalogueNext ==
  \/ \E p \in Push : BeginPush(p) \/ LoadPage(p) \/ InsertBatch(p) \/ KillPush(p)
  \/ \E i \in DOMAIN table : RowMoves(i)
  \/ \E u \in Url : RegisterRow(u)

CatalogueSpec == CatalogueInit /\ [][CatalogueNext]_catalogueVars

-----------------------------------------------------------------------------
(* Properties *)

CatalogueTypeOK ==
  /\ table \in Seq(FileRow)
  /\ \A i, j \in DOMAIN table : table[i].feed = table[j].feed => i = j
  /\ changes \in 0 .. MaxChanges
  /\ \A p \in Push :
       /\ push[p].at \in Running \cup {"out", "ended", "killed"}
       /\ push[p].file \in Files \cup {<<>>}
       /\ push[p].todo \subseteq RowsOf(push[p].file)
       /\ push[p].offset \in 0 .. Len(table)
       /\ push[p].pushes \in 0 .. MaxPushes

\* A push that loaded and inserted while nobody else wrote adds no second row for a
\* target (push_feeds.py:9-25), whether the twin was in its file, on another page of the
\* table, written differently, or inserted by a push that was killed before.
NoTwinAdded ==
  [][\A p \in Push :
       push[p].at = "inserting" /\ push'[p].todo # push[p].todo /\ ~push[p].disturbed =>
         \A r \in RowsOf(table') \ RowsOf(table) : \A s \in RowsOf(table') \ {r} :
           TargetForm(s) # TargetForm(r)]_catalogueVars

\* The push counts as done by its exit status (push_feeds.py:491): then every row of its
\* file is in the table, as itself or as one with the same feed_url or target, whatever
\* others did in the meantime.  Only a row without a feed_url may win over it and be lost.
CleanPushComplete ==
  \A p \in Push : push[p].at = "ended" /\ ~push[p].failed =>
    \A r \in RowsOf(push[p].file) : r.feed # NoUrl =>
      \E same \in Firsts(push[p].file) :
        /\ same.feed = r.feed
        /\ LET Rivals == {s \in Firsts(push[p].file) :
                            Target(s) # NoUrl /\ TargetForm(s) = TargetForm(same)}
           IN  \/ \E s \in Rivals : s.feed = NoUrl
               \/ \E s \in Rivals : FormsOf(s) \cap FormsIn(table) # {}
=============================================================================
